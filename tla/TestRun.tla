------------------------------ MODULE TestRun ------------------------------
(***************************************************************************)
(* What the tree says of every test while nextest runs: App.run (phase,    *)
(* scope, outcome) and the statuses of the leaves of App.tree, driven by   *)
(* the events of the nextest processes of a run, one process per target.   *)
(* The events arrive in order (module RunPipeline); only what nextest      *)
(* prints on stderr, "Cancelling due to test failure", comes by a pipe of  *)
(* its own.  Sources: tree.rs, app.rs, nextest.rs.                         *)
(***************************************************************************)
EXTENDS Naturals, FiniteSets

CONSTANTS
  Tests,       \* the discovered tests
  Targets,     \* the targets (lib, bin, test, ...) they belong to, numbers
  TargetOf,    \* the target of a test
  Flagged,     \* the targets of a kind that nextest has a flag for
  Packages,    \* the packages of the targets
  PackageOf,
  Ignored,     \* the tests marked #[ignore]
  Paths,       \* the paths of modules
  Below,       \* Below[p]: the tests whose full name is that path or goes on with "::"
  NameIn,      \* NameIn[n]: the tests whose full name contains the name of test n, or path n
  MaxRuns      \* bound: runs begun

ASSUME TestsAssumption ==
  /\ IsFiniteSet(Tests) /\ Targets \subseteq Nat \ {0}
  /\ TargetOf \in [Tests -> Targets]
  /\ Flagged \subseteq Targets /\ PackageOf \in [Targets -> Packages]
  /\ Ignored \subseteq Tests
  /\ NameIn \in [Tests \union Paths -> SUBSET Tests]
  /\ \A t \in Tests : t \in NameIn[t]
  /\ Below \in [Paths -> SUBSET Tests]
  /\ \A p \in Paths : Below[p] \subseteq NameIn[p]

VARIABLES
  status,      \* TestNode.status of every test
  running,     \* App.running
  scope,       \* App.run.scope
  phase,       \* App.run.phase
  remaining,   \* the count in RunPhase::Cancelling
  started,     \* App.run.tests_started_at is set
  outcome,     \* App.run.outcome
  exitCode,    \* App.run.exit_code: "zero", "nonzero", "none"
  \* the nextest processes of the run, outside the program
  todo,        \* argument sets whose process has not been spawned
  proc,        \* "none", "building", "testing"
  queued, live,\* tests the process will start, and those it is running
  broken,      \* a test of the process has failed
  cancelled,   \* the process has cancelled its run after a failure
  notice,      \* the cancellation it printed: its count + 1, 0 if none
  firstCode,   \* exit code of the run so far
  \* history
  ran,         \* how often each test was started in this run
  runs

appVars == <<status, running, scope, phase, remaining, started, outcome,
             exitCode>>
procVars == <<proc, queued, live, broken, cancelled, notice>>
vars == <<appVars, todo, procVars, firstCode, ran, runs>>

Statuses == {"Pending", "Running", "Passed", "Failed", "Ignored", "Skipped"}
-----------------------------------------------------------------------------
(* RunScope, with the tests that matches_test takes for its own.  A scope  *)
(* of chosen tests is one selected test, the failed ones, or a preset of   *)
(* ignored ones.                                                           *)
Workspace == [kind |-> "Workspace", tests |-> Tests]
Package(p) ==
  [kind |-> "Package", package |-> p, tests |-> {t \in Tests : PackageOf[TargetOf[t]] = p}]
Binary(g) == [kind |-> "Binary", target |-> g, tests |-> {t \in Tests : TargetOf[t] = g}]
Module(g, p) ==
  [kind |-> "Module", target |-> g, path |-> p, tests |-> {t \in Below[p] : TargetOf[t] = g}]
Chosen(kind, tests) == [kind |-> kind, tests |-> tests]

(* selected_scope, the scope of the selected node, failed_scope, and the   *)
(* tests of a preset (CustomRunState::build_request).                      *)
Scopes ==
  LET failed == {t \in Tests : status[t] = "Failed"}
  IN {Workspace}
       \union {Package(PackageOf[TargetOf[t]]) : t \in Tests}
       \union {Binary(TargetOf[t]) : t \in Tests}
       \union (UNION {{Module(TargetOf[t], p) : t \in Below[p]} : p \in Paths})
       \union {Chosen("Test", {t}) : t \in Tests}
       \union {Chosen("Failed", f) : f \in {failed} \ {{}}}
       \union {Chosen("TestSet", g) : g \in SUBSET Ignored \ {{}}}

(* RunOptions.ignored: a preset asks for the ignored tests only, and so    *)
(* does custom_run_request for a selected test that is ignored.            *)
RunIgnored(s) ==
  IF s.kind = "TestSet" THEN {"only"}
  ELSE IF s.kind = "Test" /\ s.tests \subseteq Ignored THEN {"only", "all"}
  ELSE {"default", "only", "all"}

(* binary_nextest_args: the targets that nextest looks into, those of the  *)
(* whole package if the kind of the target has no flag (a procedural       *)
(* macro).                                                                 *)
BinaryNextestArgs(g) ==
  IF g \in Flagged THEN {g} ELSE {h \in Targets : PackageOf[h] = PackageOf[g]}

Args(group, from, names, option) ==
  [group |-> group, from |-> from, names |-> names, ignored |-> option]

ArgSets_NoTarget(s, option) ==
  {Args(0, Targets, CASE s.kind \in {"Workspace", "Package", "Binary"} -> {}
                      [] s.kind = "Module" -> {s.path}
                      [] OTHER -> s.tests, option)}

(* RunScope::nextest_arg_sets: one argument set, or, of chosen tests, one  *)
(* per target with their names as arguments; the options go with each.     *)
ArgSets(s, option) ==
  CASE s.kind = "Workspace" -> {Args(0, Targets, {}, option)}
    [] s.kind = "Package" -> {Args(0, {g \in Targets : PackageOf[g] = s.package}, {}, option)}
    [] s.kind = "Binary" -> {Args(s.target, BinaryNextestArgs(s.target), {}, option)}
    [] s.kind = "Module" -> {Args(s.target, BinaryNextestArgs(s.target), {s.path}, option)}
    [] OTHER ->
         {Args(TargetOf[t], BinaryNextestArgs(TargetOf[t]),
               {u \in s.tests : TargetOf[u] = TargetOf[t]}, option) : t \in s.tests}

(* The tests nextest runs for an argument set: a name is a filter, which   *)
(* any test matches whose name contains it (run_command passes no --exact, *)
(* and the scope of a module relies on it).                                *)
SelectedBy(args) ==
  {t \in CASE args.ignored = "default" -> Tests \ Ignored
           [] args.ignored = "only" -> Ignored
           [] OTHER -> Tests :
     /\ TargetOf[t] \in args.from
     /\ args.names = {} \/ \E n \in args.names : t \in NameIn[n]}

-----------------------------------------------------------------------------
Init ==
  /\ status = [t \in Tests |-> IF t \in Ignored THEN "Ignored" ELSE "Pending"]
  /\ running = FALSE /\ scope = Workspace
  /\ phase = "NotRunning" /\ remaining = 0 /\ started = FALSE
  /\ outcome = "NotStarted" /\ exitCode = "none"
  /\ todo = {} /\ proc = "none" /\ queued = {} /\ live = {}
  /\ broken = FALSE /\ cancelled = FALSE /\ notice = 0 /\ firstCode = "zero"
  /\ ran = [t \in Tests |-> 0] /\ runs = 0

(* reset_for_run and Tree::prepare_for_run.                                *)
Begin(s, option) ==
  /\ ~running
  /\ runs < MaxRuns
  /\ runs' = runs + 1
  /\ running' = TRUE /\ scope' = s
  /\ status' = [t \in Tests |-> IF t \in Ignored THEN "Ignored"
                                ELSE IF t \in s.tests THEN "Pending"
                                ELSE "Skipped"]
  /\ phase' = "Building" /\ remaining' = 0 /\ started' = FALSE
  /\ outcome' = "Running" /\ exitCode' = "none"
  /\ todo' = ArgSets(s, option) /\ firstCode' = "zero"
  /\ ran' = [t \in Tests |-> 0]
  /\ UNCHANGED procVars

(* The groups run in the order of their targets, one after the other and   *)
(* whatever became of those before.                                        *)
SpawnGroup ==
  /\ running
  /\ proc = "none"
  /\ \E next \in todo :
       /\ \A a \in todo : next.group <= a.group
       /\ todo' = todo \ {next} /\ queued' = SelectedBy(next)
  /\ proc' = "building"
  /\ live' = {} /\ broken' = FALSE /\ cancelled' = FALSE /\ notice' = 0
  /\ UNCHANGED <<appVars, firstCode, ran, runs>>

(* mark_tests_running, the first thing most events do.                     *)
MarkTestsRunning ==
  IF phase \in {"RunningTests", "Cancelling"}
  THEN UNCHANGED <<phase, started>>
  ELSE phase' = "RunningTests" /\ started' = TRUE

SuiteStarted ==
  /\ proc = "building"
  /\ queued # {}
  /\ proc' = "testing"
  /\ MarkTestsRunning
  /\ UNCHANGED <<status, running, scope, remaining, outcome, exitCode, todo,
                 queued, live, broken, cancelled, notice, firstCode, ran, runs>>

(* Tree::start_test.                                                       *)
TestStarted(t) ==
  /\ proc = "testing" /\ ~cancelled
  /\ t \in queued
  /\ queued' = queued \ {t} /\ live' = live \union {t}
  /\ ran' = [ran EXCEPT ![t] = @ + 1]
  /\ MarkTestsRunning
  /\ status' = IF t \in Ignored THEN status ELSE [status EXCEPT ![t] = "Running"]
  /\ UNCHANGED <<running, scope, remaining, outcome, exitCode, todo, proc,
                 broken, cancelled, notice, firstCode, runs>>

ObservedRunning(st) == Cardinality({t \in scope.tests : st[t] = "Running"})

Least(a, b) == IF a < b THEN a ELSE b

(* Tree::finish_test, then advance_cancellation.  A failure may make       *)
(* nextest cancel its run, of which it prints a notice on stderr.          *)
TestFinished(t, result) ==
  /\ proc = "testing"
  /\ t \in live
  /\ live' = live \ {t}
  /\ status' = [status EXCEPT ![t] = result]
  /\ broken' = (broken \/ result = "Failed")
  /\ MarkTestsRunning
  /\ remaining' = IF phase = "Cancelling"
                  THEN Least(remaining, ObservedRunning(status')) ELSE remaining
  /\ \/ UNCHANGED <<cancelled, notice>>
     \/ /\ result = "Failed" /\ ~cancelled
        /\ cancelled' = TRUE /\ notice' = Cardinality(live') + 1
  /\ UNCHANGED <<running, scope, outcome, exitCode, todo, proc, queued,
                 firstCode, ran, runs>>

(* RunCancelling, when the line from stderr is applied.                    *)
RunCancelling ==
  /\ notice > 0
  /\ notice' = 0
  /\ phase' = "Cancelling" /\ remaining' = notice - 1
  /\ started' = (started \/ phase = "Building")
  /\ UNCHANGED <<status, running, scope, outcome, exitCode, todo, proc,
                 queued, live, broken, cancelled, firstCode, ran, runs>>

-----------------------------------------------------------------------------
RunOutcome(code, anyFailed) ==
  CASE code = "zero" /\ ~anyFailed    -> "Passed"
    [] code # "none" /\ anyFailed     -> "Failed"
    [] OTHER                          -> "CommandFailed"

(* Tree::skip_unfinished_tests.                                            *)
SkipUnfinished(st) ==
  [t \in Tests |-> IF t \in scope.tests /\ st[t] \in {"Pending", "Running"}
                   THEN "Skipped" ELSE st[t]]

StopRunning_Nothing(st) == st

(* Tree::stop_running_tests.                                               *)
StopRunning(st) ==
  [t \in Tests |-> IF st[t] = "Running" THEN "Pending" ELSE st[t]]

LeavesUnfinished_Never(code) == FALSE

LeavesUnfinished(code) == code # "zero" /\ started

(* The end of apply_run_event, for RunnerFinished and RunnerStopped.       *)
Conclude(code, stopped) ==
  /\ running' = FALSE
  /\ phase' = "NotRunning"
  /\ exitCode' = code
  /\ status' = IF stopped THEN StopRunning(status)
               ELSE IF LeavesUnfinished(code) THEN SkipUnfinished(status)
               ELSE status
  /\ outcome' = IF stopped THEN "Stopped"
                ELSE RunOutcome(code, \E t \in scope.tests : status'[t] = "Failed")
  /\ UNCHANGED <<scope, remaining, started>>
  /\ todo' = {} /\ proc' = "none" /\ queued' = {} /\ live' = {}
  /\ broken' = FALSE /\ cancelled' = FALSE /\ notice' = 0

(* How a process may end: nextest ends with zero when every test it ran    *)
(* passed, and with another code when one failed, when there was nothing   *)
(* to run, when the build failed or when it was killed.                    *)
ExitCodes ==
  {"nonzero"} \union
    IF proc = "testing" /\ queued = {} /\ live = {} /\ ~broken
    THEN {"zero"} ELSE {}

FirstFailure_LastWins(code) == code

(* NextestClient::run reports the first code that is not zero.             *)
FirstFailure(code) == IF firstCode = "zero" THEN code ELSE firstCode

(* The readers are joined before the next group, so that the notice, if    *)
(* nextest lived to print it, is applied first.                            *)
GroupEnds(code) ==
  /\ proc # "none"
  /\ code \in ExitCodes
  /\ firstCode' = FirstFailure(code)
  /\ IF todo = {}
     THEN Conclude(firstCode', FALSE)
     ELSE /\ proc' = "none" /\ queued' = {} /\ live' = {}
          /\ broken' = FALSE /\ cancelled' = FALSE /\ notice' = 0
          /\ UNCHANGED <<appVars, todo>>
  /\ UNCHANGED <<ran, runs>>

(* RunnerStopped, at the user's wish; RunnerFinished without an exit code, *)
(* when a group cannot be spawned or waited for.                           *)
StoppedByUser ==
  /\ running
  /\ Conclude("none", TRUE)
  /\ UNCHANGED <<firstCode, ran, runs>>

RunnerFails ==
  /\ running
  /\ Conclude("none", FALSE)
  /\ UNCHANGED <<firstCode, ran, runs>>

Next ==
  \/ \E s \in Scopes : \E option \in RunIgnored(s) : Begin(s, option)
  \/ SpawnGroup \/ SuiteStarted
  \/ \E t \in Tests : TestStarted(t)
  \/ \E t \in Tests, result \in {"Passed", "Failed"} : TestFinished(t, result)
  \/ RunCancelling
  \/ \E code \in {"zero", "nonzero"} : GroupEnds(code)
  \/ StoppedByUser \/ RunnerFails

Spec == Init /\ [][Next]_vars

-----------------------------------------------------------------------------
(* The types, and the two marks of a run that must agree with its phase.   *)
TypeOK ==
  /\ running <=> phase # "NotRunning"
  /\ phase \in {"RunningTests", "Cancelling"} => started
  /\ status \in [Tests -> Statuses]
  /\ running \in BOOLEAN /\ started \in BOOLEAN
  /\ scope.tests \subseteq Tests
  /\ phase \in {"NotRunning", "Building", "RunningTests", "Cancelling"}
  /\ remaining \in Nat
  /\ outcome \in {"NotStarted", "Running", "Passed", "Failed",
                  "CommandFailed", "Stopped"}
  /\ exitCode \in {"zero", "nonzero", "none"}
  /\ proc \in {"none", "building", "testing"}
  /\ queued \subseteq Tests /\ live \subseteq Tests
  /\ notice \in Nat
  /\ ran \in [Tests -> Nat]

(* Whatever way a run ends - its process killed under running tests, a     *)
(* group that cannot be spawned, a stop - no test of it is left spinning.  *)
(* (One outside its scope may be, after a run that failed: the scope is    *)
(* all that skip_unfinished_tests looks at.)                               *)
NothingLeftRunning == ~running => \A t \in scope.tests : status[t] # "Running"

(* After a run that failed once tests had begun, every test of the scope   *)
(* has a final status, those of groups that never ran included.            *)
FailureLeavesNothingOpen ==
  outcome \in {"Failed", "CommandFailed"} /\ started =>
    \A t \in scope.tests \ Ignored : status[t] \in {"Passed", "Failed", "Skipped"}

(* What a run of the scope may take a test for: nextest looks into its     *)
(* target alone if it can be told which that is, and a name it is given is *)
(* only a filter.                                                          *)
LooksInto(u, t) ==
  \/ TargetOf[u] = TargetOf[t]
  \/ TargetOf[u] \notin Flagged /\ PackageOf[TargetOf[u]] = PackageOf[TargetOf[t]]
Takes(u, t) ==
  CASE scope.kind \in {"Workspace", "Package", "Binary"} -> TRUE
    [] scope.kind = "Module" -> t \in NameIn[scope.path]
    [] OTHER -> t \in NameIn[u]

(* "Run from any selected scope": a test outside the scope is run only if  *)
(* it is of the same target as a test of the scope, or of the same package *)
(* if that target is of a kind nextest has no flag for; and only if it has *)
(* a name that the scope selects - never a test of that name elsewhere.    *)
OnlyScopeRuns ==
  \A t \in Tests : ran[t] > 0 => \E u \in scope.tests : LooksInto(u, t) /\ Takes(u, t)

(* "Passed" is said only when every test that ran passed, and a run that   *)
(* nextest concluded is put down to its command, and not to its tests,     *)
(* only when none is shown as failed - whichever group the failure was in. *)
VerdictIsTrue ==
  /\ outcome = "Passed" => \A t \in Tests : ran[t] > 0 => status[t] = "Passed"
  /\ outcome = "CommandFailed" /\ exitCode # "none" =>
       \A t \in scope.tests : ran[t] > 0 => status[t] # "Failed"

(* Nextest is given the target of this test for those of another one.      *)
TakenAlong(t) ==
  \E u \in scope.tests : TargetOf[u] # TargetOf[t] /\ LooksInto(u, t) /\ t \in NameIn[u]

(* The argument sets of one run overlap, although their names are only     *)
(* filters, in nothing but the targets that no flag tells from the rest of *)
(* their package: no other test runs twice.                                *)
RunsOnce == \A t \in Tests : ran[t] > 1 => TakenAlong(t)

(* What a run leaves behind: none of its tests is left running, after a    *)
(* failure none is left open, and none has run twice that need not have.   *)
RunInv == TypeOK /\ NothingLeftRunning /\ FailureLeavesNothingOpen /\ RunsOnce

-----------------------------------------------------------------------------
(* What the code does not guarantee.                                       *)

(* While the status line says "Cancelling after test failure", nextest is  *)
(* cancelling: it starts no further test.                                  *)
CancellingStartsNothing ==
  [][phase = "Cancelling" /\ running => \A t \in Tests : ran'[t] <= ran[t]]_vars

=============================================================================
