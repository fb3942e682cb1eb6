------------------------------- MODULE Results -------------------------------
(***************************************************************************)
(* All that Nextdeck shows of a run: the statuses of its tests (module     *)
(* TestRun), what it keeps of their output (module TestOutput), the lines  *)
(* of the runner, and the logs of events (module TestEvents).  Statuses    *)
(* and output move together: a run clears the output, a failure adds to    *)
(* it, and output arrives at any time after its test began, be it over.    *)
(* An event goes to a pane and to a log, of which neither knows the other: *)
(* either is checked in every state of its own while the other rests.      *)
(* So is the text of an xtask, which is kept in the way of output.rs too.  *)
(* Sources: app.rs, tree.rs, output.rs, xtask.rs, test_events.rs.          *)
(***************************************************************************)
EXTENDS TestRun, TestOutput

CONSTANTS
  Texts,        \* the texts that arrive
  Printers,     \* bound: the tests that print
  MaxArrivals,  \* bound: the texts that arrive before the first run, in it, in the second ...
  MaxLines, Drained, \* the lines of the runner kept (500), those dropped at once (100)
  Threads, Sizes, MaxRunLogs, MaxLogged, MaxBytes, None, MaxEventRuns, MaxEmitted

VARIABLES
  output,       \* TestNode.output
  runner,       \* Tree.runner_output
  combined,     \* XtaskOutput.combined
  \* history
  stream,       \* all that arrived of a test in this run
  lines,        \* and from the runner
  program,      \* and from the xtask
  arrived,
  \* of TestEvents
  nextSequence, held, wire, modal, selected, logs, active, unread, begun, received

Events == INSTANCE TestEvents WITH MaxRuns <- MaxEventRuns

ASSUME ResultsAssumption ==
  /\ Events!EventsAssumption
  /\ Texts \subseteq Seq(Characters) \ {<<>>} /\ Printers \subseteq Tests
  /\ MaxLines \in Nat /\ Drained \in 1..MaxLines /\ MaxArrivals \in [0..MaxRuns -> Nat]

runVars == <<vars, output, runner, stream, lines>>
textVars == <<combined, program>>
eventVars == <<nextSequence, held, wire, modal, selected, logs, active, unread, begun, received>>
resultsVars == <<runVars, textVars, arrived, eventVars>>

-----------------------------------------------------------------------------
Nothing == [t \in Tests |-> <<>>]

ResultsInit ==
  /\ Init /\ Events!Init
  /\ output = [t \in Tests |-> NoOutput] /\ runner = <<>> /\ combined = <<>>
  /\ stream = Nothing /\ lines = 0 /\ program = <<>> /\ arrived = 0

(* Tree::append_runner_output; a line is known by its number.              *)
AppendRunnerOutput ==
  /\ lines' = lines + 1
  /\ runner' = LET all == Append(runner, lines')
               IN IF Len(all) > MaxLines THEN SubSeq(all, Drained + 1, Len(all)) ELSE all

Arrives == arrived < MaxArrivals[runs] /\ arrived' = arrived + 1

(* Tree::prepare_for_run.                                                  *)
BeginsAfresh(s) ==
  /\ \E option \in RunIgnored(s) : Begin(s, option)
  /\ output' = [t \in Tests |-> NoOutput] /\ stream' = Nothing
  /\ runner' = <<>> /\ lines' = 0
  /\ arrived' = 0

(* Lines of nextest, and those Nextdeck adds of its own.                   *)
RunnerOutput ==
  /\ running /\ Arrives /\ AppendRunnerOutput
  /\ UNCHANGED <<vars, output, stream>>

Announces ==
  /\ SuiteStarted \/ RunCancelling
  /\ AppendRunnerOutput
  /\ UNCHANGED <<output, stream, arrived>>

(* The chunks of an event of the run for a test.                           *)
Chunk(t, text) ==
  /\ Arrives
  /\ stream' = [stream EXCEPT ![t] = @ \o StreamChunk(text)]

TestOutputArrives(t, text) ==
  /\ running /\ ran[t] > 0
  /\ Chunk(t, text)
  /\ \/ output' = [output EXCEPT ![t] = AppendText(@, text)]
     \/ output' = [output EXCEPT ![t] = AppendEvent(@, text)]
  /\ UNCHANGED <<vars, runner, lines>>

(* A test that discovery did not find: its event is a line of the runner,  *)
(* its text is dropped.                                                    *)
StrangerPrints ==
  /\ running /\ proc = "testing" /\ Arrives
  /\ AppendRunnerOutput
  /\ UNCHANGED <<vars, output, stream>>

(* The record of a failure brings the output it has along.                 *)
Finishes(t, result, text) ==
  /\ TestFinished(t, result)
  /\ IF text = <<>> THEN UNCHANGED <<stream, arrived>> ELSE Chunk(t, text)
  /\ LET received_ == AppendText(output[t], text)
     IN output' = [output EXCEPT ![t] = IF result = "Failed" THEN AppendNextestFailure(received_)
                                        ELSE received_]
  /\ UNCHANGED <<runner, lines>>

(* What changes no output.                                                 *)
Proceeds ==
  /\ \/ SpawnGroup \/ StoppedByUser \/ RunnerFails
     \/ \E t \in Tests : TestStarted(t)
     \/ \E code \in {"zero", "nonzero"} : GroupEnds(code)
  /\ UNCHANGED <<output, runner, stream, lines, arrived>>

RunNext ==
  \/ \E s \in Scopes : BeginsAfresh(s)
  \/ RunnerOutput \/ Announces \/ StrangerPrints \/ Proceeds
  \/ \E t \in Tests, result \in {"Passed", "Failed"} : Finishes(t, result, <<>>)
  \/ \E t \in Printers, text \in Texts :
       \/ TestOutputArrives(t, text)
       \/ \E result \in {"Passed", "Failed"} : Finishes(t, result, text)

(* AppendBoundedText: a chunk that an xtask prints.                        *)
XtaskPrints ==
  \E text \in Texts :
    /\ Arrives
    /\ combined' = AppendBoundedText(combined, text)
    /\ program' = program \o text

-----------------------------------------------------------------------------
RunRests == runs = 0
TextRests == program = <<>>
EventsRest == begun = 0 /\ ~modal /\ selected = 1

ResultsNext ==
  \/ RunNext /\ TextRests /\ EventsRest /\ UNCHANGED <<textVars, eventVars>>
  \/ XtaskPrints /\ RunRests /\ EventsRest /\ UNCHANGED <<runVars, eventVars>>
  \/ Events!Next /\ RunRests /\ TextRests /\ UNCHANGED <<runVars, textVars, arrived>>

ResultsSpec == ResultsInit /\ [][ResultsNext]_resultsVars

-----------------------------------------------------------------------------
(* All that a test has printed in this run, and after it, if the test has  *)
(* failed, the summary behind an empty line.                               *)
Whole(t) ==
  stream[t] \o
    IF status[t] # "Failed" THEN <<>>
    ELSE (IF stream[t] # <<>> THEN <<Newline>> ELSE <<>>) \o Append(Summary, Newline)

(* What is shown of a test that ran once is all of that, or its longest    *)
(* end that fits behind a marker, in whatever order output and verdict     *)
(* arrived, and its bytes are counted right; the same holds of the text of *)
(* an xtask; the runner's lines are the last ones, and no fewer than a     *)
(* drop leaves.                                                            *)
OutputIsTail ==
  /\ \A t \in Tests : ran[t] <= 1 =>
       /\ StreamText(output[t]) = Kept(Whole(t))
       /\ output[t].retained = Size(StreamText([output[t] EXCEPT !.truncated = FALSE]))
  /\ combined = Kept(program)
  /\ runner = [k \in 1..Len(runner) |-> lines - Len(runner) + k]
  /\ Len(runner) <= MaxLines
  /\ Len(runner) < lines => Len(runner) > MaxLines - Drained

(* The runs are listed as they were, each with the end of what it logged.  *)
LogsInv == Events!LogsInv
=============================================================================
