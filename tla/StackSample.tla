----------------------------- MODULE StackSample -----------------------------
(***************************************************************************)
(* The stack sample of a running test (macOS): the UI loop notes the pid   *)
(* of nextest, a blocking thread lists the processes, looks for the one of *)
(* the test among those below that pid, samples it and what it has forked, *)
(* lists the processes again and sends a report.  Meanwhile tests end, and *)
(* processes fork, are orphaned and exit.  No pid is used twice.           *)
(* Sources: diagnostics.rs, app.rs, runner.rs.                             *)
(***************************************************************************)
EXTENDS Integers, Sequences, FiniteSets

CONSTANTS
  Processes,   \* numbers
  Roots,       \* those of cargo nextest
  ParentOf,    \* who forks a process
  GroupOf,     \* the leader of its process group, itself or one above it
  Tests,
  TestOf,      \* the test a process has on its command line
  MaxSampled,  \* MAX_SAMPLED_PROCESSES (3)
  Nobody,      \* no process, no test, no report
  MaxSamples   \* bound: samples begun

SampleAssumption ==
  /\ Processes \subseteq Nat /\ Roots \subseteq Processes /\ Nobody \notin Nat \union Tests
  /\ ParentOf \in [Processes -> Processes \union {Nobody}]
  /\ \A p \in Processes :
       /\ p \in Roots <=> ParentOf[p] = Nobody
       /\ GroupOf[p] \in {p} \union IF p \in Roots THEN {} ELSE {GroupOf[ParentOf[p]]}
  /\ TestOf \in [Processes -> Tests \union {Nobody}]
  /\ MaxSampled \in Nat \ {0} /\ MaxSamples \in Nat

VARIABLES
  stage,      \* of the UI loop: "run", "shutdown", "exited"
  tracker,    \* the pid in the ProcessTracker of the run
  alive, gone,\* processes
  pane,       \* TestStackSampleState
  samplers,   \* the threads, by the number of their sample
  answers     \* the results in the queue of the UI loop

worldVars == <<tracker, alive, gone>>
sampleVars == <<stage, worldVars, pane, samplers, answers>>

Report(ok, fields) == [ok |-> ok, fields |-> fields]
Failure == Report(FALSE, <<>>)

Idle == [at |-> "over", root |-> Nobody, test |-> Nobody, first |-> {}, selected |-> Nobody,
         todo |-> {}, sampled |-> {}, failed |-> 0, report |-> Nobody]

SampleInit ==
  /\ stage = "run" /\ tracker = Nobody
  /\ alive = {} /\ gone = {}
  /\ pane = [open |-> FALSE, running |-> FALSE, title |-> Nobody, report |-> Nobody]
  /\ samplers = <<>> /\ answers = <<>>

-----------------------------------------------------------------------------
(* nextest is spawned and its pid noted; when it has exited it is cleared. *)
Spawn(p) ==
  /\ p \in Roots \ (alive \union gone) /\ tracker = Nobody
  /\ alive' = alive \union {p} /\ tracker' = p
  /\ UNCHANGED <<stage, gone, pane, samplers, answers>>

ClearTracker ==
  /\ tracker # Nobody /\ tracker \in gone
  /\ tracker' = Nobody
  /\ UNCHANGED <<stage, alive, gone, pane, samplers, answers>>

Fork(p) ==
  /\ p \notin alive \union gone /\ ParentOf[p] \in alive
  /\ alive' = alive \union {p}
  /\ UNCHANGED <<stage, tracker, gone, pane, samplers, answers>>

ExitProcess(p) ==
  /\ p \in alive
  /\ alive' = alive \ {p} /\ gone' = gone \union {p}
  /\ UNCHANGED <<stage, tracker, pane, samplers, answers>>

-----------------------------------------------------------------------------
Starts(t) ==
  /\ Len(samplers) < MaxSamples
  /\ pane' = [open |-> TRUE, running |-> TRUE, title |-> t, report |-> Nobody]
  /\ samplers' = Append(samplers, [Idle EXCEPT !.at = "queued", !.root = tracker, !.test = t])

Reopens(t) ==
  /\ pane' = IF pane.title = t THEN [pane EXCEPT !.open = TRUE] ELSE pane
  /\ UNCHANGED samplers

SampleTestStacks_Again(t) ==  \* mutant: a sample that runs is not looked for
  /\ stage = "run" /\ Starts(t)
  /\ UNCHANGED <<stage, worldVars, answers>>

(* sample_test_stacks_effect for a test that the tree shows as running, as *)
(* it may before its process begins and after that has ended.              *)
SampleTestStacks(t) ==
  /\ stage = "run"
  /\ \/ pane.running /\ Reopens(t)
     \/ ~pane.running /\ Starts(t)
  /\ UNCHANGED <<stage, worldVars, answers>>

CloseSample ==
  /\ stage = "run" /\ pane.open
  /\ pane' = [pane EXCEPT !.open = FALSE]
  /\ UNCHANGED <<stage, worldVars, samplers, answers>>

-----------------------------------------------------------------------------
(* process_tree: all that a snapshot shows below a process, and itself;    *)
(* the children of a process that has exited are below it no more.         *)
ProcessTree(root, snapshot) ==
  LET wanted[p \in Processes] ==
        p = root \/ (p \in snapshot /\ ParentOf[p] \in alive /\ wanted[ParentOf[p]])
  IN {p \in snapshot : wanted[p]}

(* process_group_descendants.                                              *)
GroupDescendants(p, snapshot) ==
  {q \in ProcessTree(p, snapshot) : q = p \/ GroupOf[q] = GroupOf[p]}

Matches(s) ==
  {p \in ProcessTree(s.root, alive) \ {s.root} : TestOf[p] = s.test}

(* sample_targets: the test itself and the oldest of the others, and their *)
(* order.                                                                  *)
SampleTargets(p) ==
  LET others == GroupDescendants(p, alive) \ {p}
  IN {p} \union {q \in others : Cardinality({r \in others : r < q}) < MaxSampled - 1}

IsNext(s, p) ==
  p \in s.todo /\ (p = s.selected \/ (s.selected \notin s.todo /\ \A q \in s.todo : p <= q))

Concludes(k, report) ==
  samplers' = [samplers EXCEPT ![k] = [Idle EXCEPT !.at = "sending", !.report = report]]

samplerOnly == <<stage, worldVars, pane, answers>>

(* No nextest, no ps, or not exactly one process of the test.              *)
FindNothing(k) ==
  /\ samplers[k].at = "queued"
  /\ Concludes(k, Failure)
  /\ UNCHANGED samplerOnly

FindTest(k) ==
  /\ samplers[k].at = "queued" /\ samplers[k].root # Nobody
  /\ \E p \in Matches(samplers[k]) :
       /\ Matches(samplers[k]) = {p}
       /\ samplers' = [samplers EXCEPT ![k] =
            [@ EXCEPT !.at = "sampling", !.first = GroupDescendants(p, alive),
                      !.selected = p, !.todo = SampleTargets(p)]]
  /\ UNCHANGED samplerOnly

WithSample(s, p) == [s EXCEPT !.todo = @ \ {p}, !.sampled = @ \union {p}]
WithFailure(s, p) == [s EXCEPT !.todo = @ \ {p}, !.failed = @ + 1]

(* sample_process of a process that is there.                              *)
SampleProcess(k) ==
  /\ samplers[k].at = "sampling"
  /\ \E p \in alive :
       /\ IsNext(samplers[k], p)
       /\ samplers' = [samplers EXCEPT ![k] = WithSample(@, p)]
  /\ UNCHANGED samplerOnly

(* It may fail at any time; without the test itself there is no report.    *)
SampleFails(k) ==
  /\ samplers[k].at = "sampling"
  /\ \E p \in samplers[k].todo :
       /\ IsNext(samplers[k], p)
       /\ IF p = samplers[k].selected
          THEN Concludes(k, Failure)
          ELSE samplers' = [samplers EXCEPT ![k] = WithFailure(@, p)]
  /\ UNCHANGED samplerOnly

(* No process omitted and no sample failed.                                *)
IsComplete(s) == s.failed = 0 /\ Cardinality(s.first) <= MaxSampled

(* The second list, if ps works, tells whether the group is gone.          *)
ListAgain(k) ==
  LET s == samplers[k]
      group == {p \in alive : GroupOf[p] = GroupOf[s.selected]}
  IN /\ s.at = "sampling" /\ s.todo = {}
     /\ \E listed \in BOOLEAN :
          Concludes(k, Report(TRUE, [test |-> s.test, pid |-> s.selected, sampled |-> s.sampled,
                                     found |-> s.first, complete |-> IsComplete(s),
                                     exited |-> listed /\ group = {}]))
     /\ UNCHANGED samplerOnly

SendAnswer(k) ==
  /\ stage = "run" /\ samplers[k].at = "sending"
  /\ answers' = Append(answers, samplers[k].report)
  /\ samplers' = [samplers EXCEPT ![k] = Idle]
  /\ UNCHANGED <<stage, worldVars, pane>>

FinishSample_OnSuccess ==  \* mutant: a failure leaves the pane sampling
  /\ stage = "run" /\ answers # <<>>
  /\ answers' = Tail(answers)
  /\ pane' = [pane EXCEPT !.running = @ /\ ~Head(answers).ok, !.report = Head(answers)]
  /\ UNCHANGED <<stage, worldVars, samplers>>

(* finish_test_stack_sample.                                               *)
FinishSample ==
  /\ stage = "run" /\ answers # <<>>
  /\ answers' = Tail(answers)
  /\ pane' = [pane EXCEPT !.running = FALSE, !.report = Head(answers)]
  /\ UNCHANGED <<stage, worldVars, samplers>>

-----------------------------------------------------------------------------
(* BackgroundTasks::shutdown aborts the tasks; a thread that has begun is  *)
(* not one, and the process waits for it.                                  *)
Quit ==
  /\ stage = "run"
  /\ stage' = "shutdown" /\ answers' = <<>>
  /\ samplers' = [k \in DOMAIN samplers |->
       IF samplers[k].at \in {"queued", "sending"} THEN Idle ELSE samplers[k]]
  /\ UNCHANGED <<worldVars, pane>>

Discard(k) ==
  /\ stage = "shutdown" /\ samplers[k].at = "sending"
  /\ samplers' = [samplers EXCEPT ![k] = Idle]
  /\ UNCHANGED samplerOnly

Exit ==
  /\ stage = "shutdown" /\ \A k \in DOMAIN samplers : samplers[k].at = "over"
  /\ stage' = "exited"
  /\ UNCHANGED <<worldVars, pane, samplers, answers>>

Work(k) ==
  \/ FindNothing(k) \/ FindTest(k) \/ SampleProcess(k) \/ SampleFails(k) \/ ListAgain(k)
  \/ SendAnswer(k) \/ Discard(k)

SampleNext ==
  \/ \E p \in Processes : Spawn(p) \/ Fork(p) \/ ExitProcess(p)
  \/ ClearTracker
  \/ \E t \in Tests : SampleTestStacks(t)
  \/ CloseSample \/ FinishSample \/ Quit \/ Exit
  \/ \E k \in DOMAIN samplers : Work(k)

-----------------------------------------------------------------------------
SampleTypeOK ==
  /\ stage \in {"run", "shutdown", "exited"}
  /\ tracker \in Roots \union {Nobody}
  /\ alive \subseteq Processes /\ gone \subseteq Processes \ alive
  /\ pane.open \in BOOLEAN /\ pane.running \in BOOLEAN /\ pane.title \in Tests \union {Nobody}
  /\ Len(samplers) <= MaxSamples /\ Len(answers) <= 1

(* The report that is shown is of the test whose name stands above it,     *)
(* whatever was pressed and has exited meanwhile; it is called complete    *)
(* only if every process of the test's group that it found below the test  *)
(* is in it, and the test is called gone only if its group is.             *)
ReportIsTrue ==
  pane.report # Nobody /\ pane.report.ok =>
    LET r == pane.report.fields
    IN /\ r.test = pane.title /\ TestOf[r.pid] = pane.title
       /\ r.pid \in r.sampled /\ r.sampled \subseteq r.found
       /\ r.complete => r.sampled = r.found
       /\ r.exited => \A p \in alive : GroupOf[p] # GroupOf[r.pid]

(* While the pane says "sampling" exactly one thread or answer is on its   *)
(* way to it, so that the next sample can be asked for in the end.         *)
OneIsUnderWay ==
  stage = "run" =>
    Cardinality({k \in DOMAIN samplers : samplers[k].at # "over"}) + Len(answers)
      = IF pane.running THEN 1 ELSE 0

(* A sample concludes, or the program ends.                                *)
SampleConcludes == pane.running ~> (~pane.running \/ stage = "exited")

-----------------------------------------------------------------------------
(* Not guaranteed: a report that arrives while its pane is closed is       *)
(* never shown, for the next press begins a sample of its own.             *)
ReportIsSeen == [][pane.report # Nobody => pane.open]_pane
=============================================================================
