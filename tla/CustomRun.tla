------------------------------ MODULE CustomRun ------------------------------
(***************************************************************************)
(* The run options panel: CustomRunState, the arrows and the text input    *)
(* that change its fields, and the request it makes of them together with  *)
(* the selected node, the failed tests and the run configuration that the  *)
(* last discovery found.  Sources: custom_run.rs, nextest.rs, app.rs.      *)
(***************************************************************************)
EXTENDS Integers, Sequences, SequencesExt, FiniteSets

CONSTANTS
  Tests,        \* the tests that some discovery finds
  Projects,     \* the projects discoveries find: [profiles, tests, reason]
  Expressions,  \* filtersets the user may write
  Top,          \* the largest number the arrows give, for each number field
  MacOS,        \* cfg!(target_os = "macos")
  MaxVaried     \* bound: the fields that are not at their defaults

None == -1      \* an option that is not set
Word == -2      \* a text that is no number

Fields == <<"scope", "profile", "filterset", "ignored", "retries", "flaky",
            "failFast", "maxFail", "noCapture", "debugger", "stressCount",
            "stressDuration">>
Editable == {"filterset", "maxFail", "debugger", "stressCount", "stressDuration"}

\* A profile is [name, filter], "" for no default-filter.  The reason of a
\* test is None if it is not ignored and 0 if it is ignored without a reason.
ASSUME ProjectsAssumption ==
  /\ IsFiniteSet(Tests) /\ "workspace" \notin Tests
  /\ \A p \in Projects :
       /\ p.tests \subseteq Tests /\ p.reason \in [Tests -> Int]
       /\ p.profiles \in Seq([name : STRING, filter : STRING]) /\ Len(p.profiles) > 0
  /\ Top \in [{"retries", "maxFail", "stressCount"} -> Nat]
  /\ MaxVaried \in Nat

VARIABLES
  project,      \* the project as the last discovery found it
  config,       \* CustomRunState.run_config
  panel,        \* "closed", "open", "editing"
  field,        \* CustomRunState.selected
  values,       \* the values of the fields
  input,        \* CustomRunState.input
  selected,     \* the selected node: "workspace" or a test
  failed,       \* the tests with TestStatus::Failed
  running,      \* App.running
  admitted      \* the tests that nextest runs in this run

vars == <<project, config, panel, field, values, input, selected, failed,
          running, admitted>>
appVars == <<project, config, selected, failed, running, admitted>>

-----------------------------------------------------------------------------
(* The nth of a set of numbers in order: the one with n - 1 smaller ones.  *)
Nth(S, n) == CHOOSE i \in S : Cardinality({j \in S : j < i}) = n - 1

Filtered(p) == {i \in DOMAIN p.profiles : p.profiles[i].filter # ""}
Reasons(p) == {p.reason[t] : t \in p.tests} \ {None, 0}

FilterPreset(p, n) ==
  [kind |-> "filterset", expression |-> p.profiles[Nth(Filtered(p), n)].filter, tests |-> {}]
ReasonPreset(p, n) ==
  [kind |-> "ignored", expression |-> "",
   tests |-> {t \in p.tests : p.reason[t] = Nth(Reasons(p), n)}]

(* profile_filter_presets and ignored_reason_presets: one preset for each  *)
(* profile with a default-filter, then one for each reason, in order.      *)
Presets(p) ==
  [n \in 1..Cardinality(Filtered(p)) |-> FilterPreset(p, n)]
    \o [n \in 1..Cardinality(Reasons(p)) |-> ReasonPreset(p, n)]

Config(p) == [profiles |-> p.profiles, presets |-> Presets(p)]

NoFilter == [kind |-> "none", index |-> 1, text |-> ""]
Preset(i) == [kind |-> "preset", index |-> i, text |-> ""]
Custom(text) == [kind |-> "custom", index |-> 1, text |-> text]

Defaults ==
  [scope |-> "selected", profile |-> 1, filterset |-> NoFilter, ignored |-> "default",
   retries |-> None, flaky |-> "profile", failFast |-> "profile", maxFail |-> None,
   noCapture |-> FALSE, debugger |-> "", stressCount |-> None, stressDuration |-> ""]

\* The bound on what the user changes at once.
Bounded(vs) == Cardinality({f \in DOMAIN vs : vs[f] # Defaults[f]}) <= MaxVaried

Init ==
  /\ project \in Projects
  /\ config = Config(project)
  /\ panel = "closed" /\ field = "scope" /\ input = ""
  /\ values = Defaults
  /\ selected = "workspace" /\ failed = {}
  /\ running = FALSE /\ admitted = {}

-----------------------------------------------------------------------------
(* wrap_index                                                              *)
Wrapped(i, count, delta) == ((i - 1 + count + delta) % count) + 1

(* RunIgnored, FlakyResult, FailFast, the scope and the flag go round.     *)
Cycle ==
  [scope |-> <<"selected", "workspace", "failed">>,
   ignored |-> <<"default", "only", "all">>,
   flaky |-> <<"profile", "pass", "fail">>,
   failFast |-> <<"profile", "on", "off">>,
   noCapture |-> <<FALSE, TRUE>>]

InCycle(f, v, delta) ==
  LET c == Cycle[f]
      at == CHOOSE i \in DOMAIN c : c[i] = v
  IN c[Wrapped(at, Len(c), delta)]

(* adjust_optional_u32; adjust_optional_u32_string takes a text that is no *)
(* number for an option that is not set.                                   *)
NumberAdjusted(v, top, delta) ==
  IF v = None THEN (IF delta > 0 THEN 0 ELSE top)
  ELSE IF delta > 0 THEN (IF v < top THEN v + 1 ELSE None)
  ELSE IF v = 0 THEN None ELSE v - 1

DefaultDebugger == IF MacOS THEN "rust-lldb --args" ELSE "rust-gdb --args"

(* adjust_filter: none, the presets, and the custom filterset while there  *)
(* is one.                                                                 *)
FilterAdjusted(filter, delta) ==
  LET presets == Len(config.presets)
      custom == filter.kind = "custom"
      at == CASE filter.kind = "none" -> 1
              [] filter.kind = "preset" -> 1 + filter.index
              [] custom -> 2 + presets
      next == Wrapped(at, 1 + presets + (IF custom THEN 1 ELSE 0), delta)
  IN IF next = 1 THEN NoFilter
     ELSE IF next <= 1 + presets THEN Preset(next - 1)
     ELSE filter

(* adjust_selected                                                         *)
AdjustedValue(f, v, delta) ==
  CASE f \in DOMAIN Cycle -> InCycle(f, v, delta)
    [] f = "profile" -> Wrapped(v, Len(config.profiles), delta)
    [] f = "filterset" -> FilterAdjusted(v, delta)
    [] f \in DOMAIN Top -> NumberAdjusted(IF v = Word THEN None ELSE v, Top[f], delta)
    [] f = "debugger" -> IF v = "" THEN DefaultDebugger ELSE ""
    [] f = "stressDuration" -> IF v = "" THEN "30s" ELSE ""

Adjusted(vs, f, delta) == [vs EXCEPT ![f] = AdjustedValue(f, vs[f], delta)]

(* edit_value: the text with which an edit begins.                         *)
EditValue(vs, f) ==
  IF f # "filterset" THEN vs[f]
  ELSE IF vs[f].kind = "preset" THEN config.presets[vs[f].index].expression
  ELSE vs[f].text

(* commit_edit, empty_to_none                                              *)
Committed(vs, f, text) ==
  [vs EXCEPT ![f] = IF f # "filterset" THEN text
                    ELSE IF text = "" THEN NoFilter ELSE Custom(text)]

Typed(f) ==
  CASE f = "filterset" -> Expressions \union {""}
    [] f = "debugger" -> {"", "gdb -batch"}
    [] f = "stressDuration" -> {"", "1h"}
    [] OTHER -> {None, Word, Top[f] + 1}

-----------------------------------------------------------------------------
Ignored(t) == project.reason[t] # None

SelectedScope ==
  IF selected = "workspace" THEN [kind |-> "Workspace", tests |-> project.tests]
  ELSE [kind |-> "Test", tests |-> {selected}]

Scopes ==
  [selected |-> SelectedScope,
   workspace |-> [kind |-> "Workspace", tests |-> project.tests],
   failed |-> [kind |-> "Failed", tests |-> failed]]

Options(vs) ==
  [profile |-> config.profiles[vs.profile].name,
   filterset |-> IF vs.filterset.kind = "custom" THEN vs.filterset.text ELSE "",
   ignored |-> vs.ignored,
   rest |-> [f \in {"retries", "flaky", "failFast", "maxFail", "noCapture",
                    "debugger", "stressCount", "stressDuration"} |-> vs[f]]]

(* run_options and the preset of build_request: an expression is a         *)
(* filterset, a reason stands for the tests ignored for it.                *)
Chosen(vs) ==
  LET f == vs.filterset
      preset == config.presets[f.index]
      asShown == [scope |-> Scopes[vs.scope], options |-> Options(vs)]
  IN CASE f.kind # "preset" -> asShown
       [] f.kind = "preset" /\ preset.kind = "filterset" ->
            [asShown EXCEPT !.options.filterset = preset.expression]
       [] OTHER -> [asShown EXCEPT
            !.scope = [kind |-> "TestSet", tests |-> preset.tests],
            !.options.ignored = "only"]

Watched(options) ==
  \/ options.rest.debugger # ""
  \/ options.rest.stressCount # None
  \/ options.rest.stressDuration # ""

(* build_request is Ok.                                                    *)
Accepted(vs) ==
  /\ vs.scope = "failed" => failed # {}
  /\ Watched(Chosen(vs).options) => Chosen(vs).scope.kind = "Test"

(* custom_run_request: an ignored test that is selected is asked for.      *)
Request(vs) ==
  LET r == Chosen(vs)
  IN IF /\ vs.scope = "selected" /\ r.scope.kind = "Test"
        /\ r.options.ignored = "default" /\ Ignored(selected)
     THEN [r EXCEPT !.options.ignored = "only"]
     ELSE r

(* The tests of a request that nextest runs, leaving filtersets aside.     *)
Admits(request) ==
  {t \in request.scope.tests :
     CASE request.options.ignored = "default" -> ~Ignored(t)
       [] request.options.ignored = "only" -> Ignored(t)
       [] OTHER -> TRUE}

-----------------------------------------------------------------------------
Open ==
  /\ panel = "closed"
  /\ ~running
  /\ panel' = "open" /\ field' = "scope"
  /\ UNCHANGED <<appVars, values, input>>

Close ==
  /\ panel = "open"
  /\ panel' = "closed"
  /\ UNCHANGED <<appVars, field, values, input>>

(* next_field, previous_field                                              *)
MoveField(delta) ==
  /\ panel = "open"
  /\ field' = Fields[Wrapped(CHOOSE i \in DOMAIN Fields : Fields[i] = field,
                             Len(Fields), delta)]
  /\ UNCHANGED <<appVars, panel, values, input>>

Adjust(delta) ==
  /\ panel = "open"
  /\ values' = Adjusted(values, field, delta) /\ Bounded(values')
  /\ UNCHANGED <<appVars, panel, field, input>>

(* Enter begins an edit, or is an arrow where there is nothing to write.   *)
Activate ==
  /\ panel = "open"
  /\ IF field \in Editable
     THEN /\ panel' = "editing" /\ input' = EditValue(values, field)
          /\ UNCHANGED values
     ELSE /\ values' = Adjusted(values, field, 1) /\ Bounded(values')
          /\ UNCHANGED <<panel, input>>
  /\ UNCHANGED <<appVars, field>>

EditInput ==
  /\ panel = "editing"
  /\ input' \in Typed(field)
  /\ UNCHANGED <<appVars, panel, field, values>>

EndEdit(keep) ==
  /\ panel = "editing"
  /\ panel' = "open" /\ input' = ""
  /\ values' = IF keep THEN Committed(values, field, input) ELSE values
  /\ Bounded(values')
  /\ UNCHANGED <<appVars, field>>

(* begin_run; prepare_for_run leaves no test failed.                       *)
StartRun(request) ==
  /\ running' = TRUE /\ failed' = {}
  /\ admitted' = Admits(request)
  /\ UNCHANGED <<project, config, selected, input, field, values>>

(* run_custom_effect                                                       *)
RunCustom ==
  /\ panel = "open"
  /\ Accepted(values)
  /\ panel' = "closed"
  /\ StartRun(Request(values))

(* The run key, with the default options.                                  *)
RunSelected ==
  /\ panel = "closed" /\ ~running
  /\ StartRun([scope |-> SelectedScope, options |-> [ignored |-> "default"]])
  /\ UNCHANGED panel

RunFinished ==
  /\ running
  /\ running' = FALSE /\ admitted' = {}
  /\ failed' \in SUBSET admitted
  /\ UNCHANGED <<project, config, panel, field, values, input, selected>>

Select(node) ==
  /\ panel = "closed"
  /\ selected' = node
  /\ UNCHANGED <<project, config, panel, field, values, input, failed,
                 running, admitted>>

UpdateRunConfig_KeepsConfig(c) ==
  /\ UNCHANGED config
  /\ UNCHANGED values

(* update_run_config: what was chosen by index stays at its index.         *)
UpdateRunConfig(c) ==
  /\ config' = c
  /\ values' = [values EXCEPT
       !.profile = IF @ > Len(c.profiles) THEN Len(c.profiles) ELSE @,
       !.filterset = IF @.kind = "preset" /\ @.index > Len(c.presets)
                     THEN NoFilter ELSE @]

(* A discovery, from its key to its answer: the tree is a new one.         *)
Discovered(p) ==
  /\ panel = "closed" /\ ~running
  /\ project' = p
  /\ UpdateRunConfig(Config(p))
  /\ selected' = "workspace" /\ failed' = {}
  /\ UNCHANGED <<panel, field, input, running, admitted>>

Next ==
  \/ Open \/ Close \/ Activate \/ RunCustom \/ RunSelected \/ RunFinished
  \/ \E delta \in {-1, 1} : MoveField(delta) \/ Adjust(delta)
  \/ EditInput
  \/ \E keep \in BOOLEAN : EndEdit(keep)
  \/ \E node \in {"workspace"} \union project.tests : Select(node)
  \/ \E p \in Projects : Discovered(p)

Spec == Init /\ [][Next]_vars

-----------------------------------------------------------------------------
(* What is chosen by index is there: a profile or a preset that the panel  *)
(* names is one of the configuration, whatever a discovery took away.      *)
TypeOK ==
  /\ project \in Projects
  /\ panel \in {"closed", "open", "editing"}
  /\ field \in Range(Fields)
  /\ values.profile \in DOMAIN config.profiles
  /\ values.filterset.kind = "preset" =>
       values.filterset.index \in DOMAIN config.presets
  /\ panel = "editing" => field \in Editable
  /\ failed \subseteq project.tests /\ admitted \subseteq project.tests

(* A request names tests of the last discovery only, whether they are      *)
(* taken from the tree, from the failures of the last run or from a preset *)
(* that an earlier discovery made.                                         *)
RequestsKnownTests ==
  panel # "closed" /\ Accepted(values) =>
    Request(values).scope.tests \subseteq project.tests

(* A debugger or a stress run is for one selected test: build_request      *)
(* judges the scope that will run and not the one the panel shows.         *)
WatchesOneTest ==
  panel # "closed" /\ Accepted(values) /\ Watched(Options(values)) =>
    /\ Request(values).scope.kind = "Test"
    /\ Request(values).scope.tests = {selected}

(* With the ignored field at its default a test that a request names       *)
(* outside the failed scope is run, also one that is marked #[ignore].     *)
NamedTestsRun ==
  LET r == Request(values)
  IN panel # "closed" /\ values.ignored = "default" /\ values.scope # "failed"
       /\ r.scope.kind \in {"Test", "TestSet"} =>
     Admits(r) = r.scope.tests

(* The arrows undo one another, as long as the value is one they reach:    *)
(* a text that was written is lost when an arrow leaves it.                *)
Reachable(f, v) ==
  CASE f = "filterset" -> v.kind # "custom"
    [] f = "debugger" -> v \in {"", DefaultDebugger}
    [] f = "stressDuration" -> v \in {"", "30s"}
    [] f \in DOMAIN Top -> v \in {None} \union 0 .. Top[f]
    [] OTHER -> TRUE
ArrowsUndo ==
  panel = "open" /\ Reachable(field, values[field]) =>
    \A delta \in {-1, 1} :
      Adjusted(Adjusted(values, field, delta), field, -delta) = values

(* An edit that is confirmed as it was offered changes no request; the     *)
(* preset of a reason, which no filterset can express, is left aside.      *)
ConfirmingKeepsRequest ==
  panel = "open" /\ field \in Editable =>
    \/ field = "filterset" /\ values.filterset.kind = "preset"
         /\ config.presets[values.filterset.index].kind = "ignored"
    \/ LET vs == Committed(values, field, EditValue(values, field))
       IN Request(vs) = Request(values) /\ Accepted(vs) = Accepted(values)

(* A request is for tests that there are, a debugger for one of them, the  *)
(* tests it names do run, and neither arrows nor an edit that changes      *)
(* nothing alter it.                                                       *)
RequestInv ==
  /\ TypeOK /\ RequestsKnownTests /\ WatchesOneTest /\ NamedTestsRun
  /\ ArrowsUndo /\ ConfirmingKeepsRequest

-----------------------------------------------------------------------------
(* What the code does not guarantee.                                       *)

(* The scope "failed" reruns the failed tests, with the ignored field at   *)
(* its default.                                                            *)
FailedTestsRun ==
  LET r == Request(values)
  IN panel # "closed" /\ values.ignored = "default" /\ Accepted(values)
       /\ r.scope.kind = "Failed" =>
     Admits(r) = failed

(* An arrow gives the debugger one of the choices that field_details       *)
(* lists under it.                                                         *)
ArrowsGiveListed ==
  [][\A delta \in {-1, 1} : Adjust(delta) /\ field = "debugger" =>
       values'.debugger \in {"", "rust-lldb --args"}]_vars

=============================================================================
