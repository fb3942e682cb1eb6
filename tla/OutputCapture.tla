--------------------------- MODULE OutputCapture ---------------------------
(***************************************************************************)
(* How the output of a test finds its way to the screen.  nextest prints   *)
(* it in three forms on two pipes: in the JSON record of a failure         *)
(* (stdout), in a block after a test (stderr), and, when it is polled with *)
(* SIGUSR1, in a list of the running tests (stderr).  The tasks reading    *)
(* the pipes share three collectors, each behind a lock that is let go     *)
(* before what was collected is sent.  Source: nextest.rs.                 *)
(* A chunk <<t, n>> is the nth piece of output of test t.                  *)
(***************************************************************************)
EXTENDS Naturals, FiniteSets, Sequences, SequencesExt

CONSTANTS
  Tests,       \* the tests nextest runs
  Failings,    \* the sets of those that may fail
  MaxChunks,   \* bound: the pieces of output of a test
  MaxPrinted,  \* bound: the pieces of output of all tests
  Frames,      \* the pieces that are frames of test events
  MaxPolls,    \* bound: the lists of running tests
  Runner,      \* the pane of the output of nextest itself
  None         \* no test

ASSUME CaptureAssumption ==
  /\ IsFiniteSet(Tests) /\ Failings \subseteq SUBSET Tests
  /\ MaxChunks \in Nat /\ MaxPrinted \in Nat /\ MaxPolls \in Nat /\ Frames \subseteq 1..MaxChunks
  /\ Runner \notin Tests /\ None \notin Tests

VARIABLES
  \* nextest
  failing,     \* the tests that fail
  fate,        \* of every test: "waiting", "running", "done"
  printed,     \* pieces of output of every test
  polls,       \* lists of running tests so far
  exited,      \* nextest has ended
  stdout,      \* lines not yet read
  stderr,
  \* the tasks reading the pipes
  task,        \* the place of each in its loop, the place after a send, its
               \* line, the block it finished and the event it is to send
  \* what they share
  success,     \* SuccessfulOutputCollector
  info,        \* InfoOutputCollector
  snapshots,   \* OutputSnapshotTracker.by_key
  seen,        \* OutputSnapshotTracker.seen_events
  \* history
  shown        \* how often a pane was given a chunk

nextestVars == <<failing, fate, printed, polls, exited>>
pipes == <<stdout, stderr>>
vars == <<nextestVars, pipes, task, success, info, snapshots, seen, shown>>

Panes == Tests \union {Runner}
Chunks == Tests \X (1..MaxChunks)
Printed == {c \in Chunks : c[2] <= printed[c[1]]}
ChunksOf(t, n) == [k \in 1..n |-> <<t, k>>]

-----------------------------------------------------------------------------
(* Lines: a record of stdout, which begins with "{"; a line of stderr of   *)
(* the form that is named; a line of text, whose output is its chunk.      *)
Record(kind, t, output) == [kind |-> kind, test |-> t, output |-> output]
Line(kind, t) == Record(kind, t, <<>>)
Text(chunk) == Record("text", None, <<chunk>>)
IsRecord(line) == line.kind \in {"started", "ok", "failed"}
TextLines(t) == [k \in 1..printed[t] |-> Text(<<t, k>>)]

(* What nextest prints after a test with output, and of the running tests. *)
Block(t) ==
  IF printed[t] = 0 THEN <<>>
  ELSE <<Line("header", None)>> \o TextLines(t)
         \o IF t \in failing
            THEN <<Line("nameFailed", t), Line("runner", None)>>
            ELSE <<Line("nameOk", t)>>

InfoOf(t) == <<Line("name", t), Line("output", None)>> \o TextLines(t)

InfoList(order) ==
  <<Line("bar", None), Line("info", None)>>
    \o FlattenSeq([i \in DOMAIN order |-> InfoOf(order[i])])
    \o <<Line("bar", None)>>

StartTest(t) ==
  /\ fate[t] = "waiting"
  /\ fate' = [fate EXCEPT ![t] = "running"]
  /\ stdout' = Append(stdout, Record("started", t, <<>>))
  /\ UNCHANGED <<failing, printed, polls, exited, stderr, task, success, info, snapshots, seen, shown>>

PrintChunk(t) ==
  /\ fate[t] = "running"
  /\ printed[t] < MaxChunks /\ Cardinality(Printed) < MaxPrinted
  /\ printed' = [printed EXCEPT ![t] = @ + 1]
  /\ UNCHANGED <<failing, fate, polls, exited, stdout, stderr, task, success, info, snapshots, seen, shown>>

(* start_info_output_poll.                                                 *)
Poll ==
  /\ polls < MaxPolls
  /\ polls' = polls + 1
  /\ LET running == {t \in Tests : fate[t] = "running"}
     IN /\ running # {}
        /\ \E order \in SetToSeqs(running) : stderr' = stderr \o InfoList(order)
  /\ UNCHANGED <<failing, fate, printed, exited, stdout, task, success, info, snapshots, seen, shown>>

FinishTest(t) ==
  /\ fate[t] = "running"
  /\ fate' = [fate EXCEPT ![t] = "done"]
  /\ stderr' = stderr \o Block(t)
  /\ stdout' = Append(stdout, IF t \in failing
                              THEN Record("failed", t, ChunksOf(t, printed[t]))
                              ELSE Record("ok", t, <<>>))
  /\ UNCHANGED <<failing, printed, polls, exited, task, success, info, snapshots, seen, shown>>

(* nextest ends with a summary, unless it is killed before.                *)
Exit ==
  /\ ~exited
  /\ \A t \in Tests : fate[t] = "done"
  /\ exited' = TRUE
  /\ \/ stderr' = stderr \o <<Line("bar", None), Line("runner", None)>>
     \/ UNCHANGED stderr
  /\ UNCHANGED <<failing, fate, printed, polls, stdout, task, success, info, snapshots, seen, shown>>

-----------------------------------------------------------------------------
OutputDelta_ShortOfOne(previous, current) ==
  IF current = previous THEN <<>>
  ELSE IF IsPrefix(previous, current)
       THEN SubSeq(current, Len(previous) + 2, Len(current))
  ELSE current

(* output_delta: what of a text is new, given the text before it.          *)
OutputDelta(previous, current) ==
  IF current = previous THEN <<>>
  ELSE IF IsPrefix(previous, current)
       THEN SubSeq(current, Len(previous) + 1, Len(current))
  ELSE current

IsNew_Always(chunk) == TRUE

IsNew(chunk) == chunk[2] \in Frames => chunk \notin seen

(* OutputSnapshotTracker::output_chunks, under its lock; a test without a  *)
(* snapshot is one with an empty snapshot.                                 *)
NewChunks(t, output) ==
  {chunk \in Range(OutputDelta(snapshots[t], output)) : IsNew(chunk)}

Remember(t, output) ==
  /\ snapshots' = [snapshots EXCEPT ![t] = output]
  /\ seen' = seen \union {chunk \in NewChunks(t, output) : chunk[2] \in Frames}

(* What a task has for the screen, before and after the chunks that were   *)
(* seen are taken out of it.                                               *)
Gathered(pane, text) == [pane |-> pane, text |-> text]
Output(pane, chunks) == [pane |-> pane, chunks |-> chunks]
Nothing == Gathered(None, <<>>)
NoOutput == Output(None, {})

Show(event) ==
  shown' = [at \in DOMAIN shown |->
              IF event.pane = at[1] /\ at[2] \in event.chunks THEN shown[at] + 1 ELSE shown[at]]

-----------------------------------------------------------------------------
(* SuccessfulOutputCollector.lines, by what is looked for in them: the     *)
(* output, the name of a success and that of a failure.                    *)
NoLines == [text |-> <<>>, name |-> None, failure |-> FALSE]

WithLine(lines, line) ==
  [text |-> lines.text \o line.output,
   name |-> IF lines.name = None /\ line.kind = "nameOk" THEN line.test ELSE lines.name,
   failure |-> lines.failure \/ line.kind = "nameFailed"]

(* SuccessfulOutputCollector::finish_event: the block is given to the test *)
(* whose name it bears, or to the one it was taken to belong to at its     *)
(* header; the block of a failure is dropped, its record has the output.   *)
BlockKey ==
  IF success.lines.name \in success.candidates THEN success.lines.name ELSE success.collecting

FinishedBlock ==
  IF success.collecting = None \/ success.lines.failure \/ success.lines.text = <<>>
  THEN Nothing
  ELSE Gathered(BlockKey, success.lines.text)

AfterBlock ==
  LET closed == [success EXCEPT !.collecting = None, !.lines = NoLines]
  IN IF success.collecting = None THEN success
     ELSE IF success.lines.failure THEN closed
     ELSE [closed EXCEPT !.candidates = @ \ {BlockKey},
                         !.emitted = @ \union {BlockKey},
                         !.lastSuccess = IF @ = BlockKey THEN None ELSE @]

(* SuccessfulOutputCollector::observe_event.                               *)
ObserveSuccess(kind, t, output) ==
  success' =
    CASE kind = "started" ->
           [success EXCEPT !.candidates = @ \union {t}, !.lastStarted = t]
      [] kind = "ok" /\ output = {} /\ t \notin success.emitted ->
           [success EXCEPT !.candidates = @ \union {t}, !.lastSuccess = t]
      [] OTHER -> [success EXCEPT !.candidates = @ \ {t}]

(* The lines before which a block ends; a block that follows another one   *)
(* directly is none of them.                                               *)
EndsBlock(line) == IsRecord(line) \/ line.kind \in {"bar", "runner"}

(* consume_success_output_line, under its lock.                            *)
CollectLine(line) ==
  LET at == IF EndsBlock(line) THEN AfterBlock ELSE success
      owner == IF at.lastSuccess # None THEN at.lastSuccess ELSE at.lastStarted
  IN IF at.collecting # None
     THEN [consumed |-> TRUE, next |-> [at EXCEPT !.lines = WithLine(at.lines, line)]]
     ELSE IF line.kind = "header" /\ owner # None
     THEN [consumed |-> TRUE,
           next |-> [at EXCEPT !.collecting = owner, !.lines = NoLines, !.lastSuccess = None]]
     ELSE [consumed |-> FALSE, next |-> at]

-----------------------------------------------------------------------------
(* InfoOutputCollector: the list that is open, the test of it whose output *)
(* is gathered, and the tests that are running.                            *)
Closed == [open |-> FALSE, key |-> None, inOutput |-> FALSE, text |-> <<>>]
OpenAt(key) == [open |-> TRUE, key |-> key, inOutput |-> FALSE, text |-> <<>>]

Step(consumed, finishes, block) ==
  [consumed |-> consumed, finishes |-> finishes, block |-> block]

(* consume_line: whether the line is taken, whether the output gathered so *)
(* far is finished (finish_current_test), and the list after it.           *)
InfoStep(line) ==
  LET block == info.block
  IN IF ~block.open
     THEN CASE line.kind = "info" -> Step(TRUE, FALSE, OpenAt(None))
            [] line.kind = "bar" -> Step(TRUE, FALSE, Closed)
            [] OTHER -> Step(FALSE, FALSE, Closed)
     ELSE CASE line.kind \in {"header", "runner"} -> Step(FALSE, TRUE, Closed)
            [] line.kind \in {"info", "bar"} -> Step(TRUE, TRUE, OpenAt(None))
            [] line.kind = "name" /\ line.test \in info.running ->
                 Step(TRUE, TRUE, OpenAt(line.test))
            [] line.kind = "output" ->
                 Step(TRUE, FALSE, [block EXCEPT !.inOutput = TRUE])
            [] OTHER ->
                 IF block.inOutput /\ block.key # None
                 THEN Step(TRUE, FALSE, [block EXCEPT !.text = block.text \o line.output])
                 ELSE Step(FALSE, TRUE, Closed)

(* finish_current_test previews what was gathered.                         *)
PreviewEvent(finishes) ==
  LET block == info.block
  IN IF finishes /\ block.key # None /\ NewChunks(block.key, block.text) # {}
     THEN Output(block.key, NewChunks(block.key, block.text))
     ELSE NoOutput

Preview(finishes) ==
  IF finishes /\ info.block.key # None
  THEN Remember(info.block.key, info.block.text)
  ELSE UNCHANGED <<snapshots, seen>>

-----------------------------------------------------------------------------
(* The loops of the tasks.  A task works off what one line gave in steps,  *)
(* each under one lock or none.                                            *)
Readers == {"stdout", "stderr"}

Go(r, at, then, event) ==
  task' = [task EXCEPT ![r] = [@ EXCEPT !.at = at, !.then = then, !.block = Nothing,
                                        !.event = event]]

Init ==
  /\ failing \in Failings
  /\ fate = [t \in Tests |-> "waiting"] /\ printed = [t \in Tests |-> 0] /\ polls = 0 /\ exited = FALSE
  /\ stdout = <<>> /\ stderr = <<>>
  /\ task = [r \in Readers |-> [at |-> "read", then |-> "read", line |-> Line("none", None),
                                block |-> Nothing, event |-> NoOutput]]
  /\ success = [lastStarted |-> None, lastSuccess |-> None, candidates |-> {},
                emitted |-> {}, collecting |-> None, lines |-> NoLines]
  /\ info = [running |-> {}, block |-> Closed]
  /\ snapshots = [t \in Tests |-> <<>>] /\ seen = {}
  /\ shown = [at \in Panes \X Chunks |-> 0]

(* dedupe_test_output_event, then the send, of a finished block.           *)
DedupeBlock(r) ==
  /\ task[r].at = "dedupe"
  /\ LET b == task[r].block
     IN /\ Remember(b.pane, b.text)
        /\ Go(r, "send", task[r].then, Output(b.pane, NewChunks(b.pane, b.text)))
  /\ UNCHANGED <<nextestVars, pipes, success, info, shown>>

Send(r) ==
  /\ task[r].at = "send"
  /\ Show(task[r].event)
  /\ Go(r, task[r].then, "read", NoOutput)
  /\ UNCHANGED <<nextestVars, pipes, success, info, snapshots, seen>>

GoWithBlock(r, then) ==
  IF FinishedBlock = Nothing THEN Go(r, then, "read", NoOutput)
  ELSE task' = [task EXCEPT ![r] = [@ EXCEPT !.at = "dedupe", !.then = then,
                                             !.block = FinishedBlock]]

(* stdout: every line of it is a record, before which a block ends.        *)
ReadStdout ==
  /\ task["stdout"].at = "read"
  /\ stdout # <<>>
  /\ stdout' = Tail(stdout)
  /\ success' = CollectLine(Head(stdout)).next
  /\ task' = [task EXCEPT !["stdout"] =
                [at |-> IF FinishedBlock = Nothing THEN "final" ELSE "dedupe",
                 then |-> "final", line |-> Head(stdout),
                 block |-> FinishedBlock, event |-> NoOutput]]
  /\ UNCHANGED <<nextestVars, stderr, info, snapshots, seen, shown>>

(* dedupe_final_output_event.                                              *)
DedupeFinal ==
  /\ task["stdout"].at = "final"
  /\ LET line == task["stdout"].line
     IN IF line.kind = "started"
        THEN /\ Go("stdout", "observe", "read", Output(line.test, {}))
             /\ UNCHANGED <<snapshots, seen>>
        ELSE /\ Remember(line.test, line.output)
             /\ Go("stdout", "observe", "read",
                   Output(line.test, NewChunks(line.test, line.output)))
  /\ UNCHANGED <<nextestVars, pipes, success, info, shown>>

Observe ==
  /\ task["stdout"].at = "observe"
  /\ ObserveSuccess(task["stdout"].line.kind, task["stdout"].line.test,
                    task["stdout"].event.chunks)
  /\ Go("stdout", "observeInfo", "read", task["stdout"].event)
  /\ UNCHANGED <<nextestVars, pipes, info, snapshots, seen, shown>>

ObserveInfo ==
  /\ task["stdout"].at = "observeInfo"
  /\ LET line == task["stdout"].line
     IN info' = [info EXCEPT !.running = IF line.kind = "started"
                                         THEN @ \union {line.test}
                                         ELSE @ \ {line.test}]
  /\ Go("stdout", "send", "read", task["stdout"].event)
  /\ UNCHANGED <<nextestVars, pipes, success, snapshots, seen, shown>>

(* stderr: consume_info_output_line, then consume_success_output_line.     *)
ReadStderr ==
  /\ task["stderr"].at = "read"
  /\ stderr # <<>>
  /\ stderr' = Tail(stderr)
  /\ LET step == InfoStep(Head(stderr))
         e == PreviewEvent(step.finishes)
         then == IF step.consumed THEN "read" ELSE "collect"
     IN /\ info' = [info EXCEPT !.block = step.block]
        /\ Preview(step.finishes)
        /\ task' = [task EXCEPT !["stderr"] =
                      [at |-> IF e = NoOutput THEN then ELSE "send",
                       then |-> then, line |-> Head(stderr), block |-> Nothing, event |-> e]]
  /\ UNCHANGED <<nextestVars, stdout, success, shown>>

CollectStderr ==
  /\ task["stderr"].at = "collect"
  /\ LET line == task["stderr"].line
         collect == CollectLine(line)
         then == IF collect.consumed THEN "read" ELSE "runner"
     IN /\ success' = collect.next
        /\ IF EndsBlock(line) THEN GoWithBlock("stderr", then)
           ELSE Go("stderr", then, "read", NoOutput)
  /\ UNCHANGED <<nextestVars, pipes, info, snapshots, seen, shown>>

(* A line that no collector takes is output of nextest.                    *)
RunnerLine ==
  /\ task["stderr"].at = "runner"
  /\ Go("stderr", "send", "read", Output(Runner, Range(task["stderr"].line.output)))
  /\ UNCHANGED <<nextestVars, pipes, success, info, snapshots, seen, shown>>

(* Both tasks flush the block that is open when their pipe ends.           *)
Flushes(r) == TRUE

FlushInfo ==
  /\ task["stderr"].at = "read"
  /\ exited /\ stderr = <<>>
  /\ info' = [info EXCEPT !.block = Closed]
  /\ Preview(TRUE)
  /\ LET e == PreviewEvent(TRUE)
     IN IF e = NoOutput THEN Go("stderr", "flush", "read", NoOutput)
        ELSE Go("stderr", "send", "flush", e)
  /\ UNCHANGED <<nextestVars, pipes, success, shown>>

FlushSuccess(r) ==
  /\ \/ r = "stdout" /\ task[r].at = "read" /\ exited /\ stdout = <<>>
     \/ task[r].at = "flush"
  /\ IF Flushes(r)
     THEN success' = AfterBlock /\ GoWithBlock(r, "done")
     ELSE Go(r, "done", "read", NoOutput) /\ UNCHANGED success
  /\ UNCHANGED <<nextestVars, pipes, info, snapshots, seen, shown>>

Next ==
  \/ \E t \in Tests : StartTest(t) \/ PrintChunk(t) \/ FinishTest(t)
  \/ Poll \/ Exit
  \/ \E r \in Readers : DedupeBlock(r) \/ Send(r) \/ FlushSuccess(r)
  \/ ReadStdout \/ DedupeFinal \/ Observe \/ ObserveInfo
  \/ ReadStderr \/ CollectStderr \/ RunnerLine \/ FlushInfo

Spec == Init /\ [][Next]_vars

-----------------------------------------------------------------------------
Done == \A r \in Readers : task[r].at = "done"

(* The types; lines are held only for the block that is open.              *)
TypeOK ==
  /\ success.collecting = None => success.lines = NoLines
  /\ failing \in Failings
  /\ printed \in [Tests -> 0..MaxChunks]
  /\ success.collecting \in Tests \union {None}
  /\ success.candidates \union success.emitted \subseteq Tests
  /\ info.running \subseteq Tests
  /\ info.block.open \/ info.block = Closed
  /\ DOMAIN snapshots = Tests
  /\ shown \in [Panes \X Chunks -> Nat]

(* A framed event is logged once, however often the text around it comes.  *)
EventsOnce ==
  \A c \in Chunks : c[2] \in Frames =>
    \A t \in Tests : shown[<<t, c>>] > 0 =>
      shown[<<t, c>>] = 1 /\ \A u \in Tests \ {t} : shown[<<u, c>>] = 0

(* When both tasks are through, all the text that a failed test printed    *)
(* has been given to it, previewed or not.  (A framed event in it may have *)
(* been given to another test before, and is then not given again.)        *)
FailureShownInFull ==
  Done => \A c \in Printed :
            c[1] \in failing /\ c[2] \notin Frames => shown[<<c[1], c>>] > 0

(* When both tasks are through no block is left open and, if no test       *)
(* failed, all that was printed has come to some pane.  (The block of a    *)
(* failure is dropped, and a block that was joined to it with it.)         *)
NothingVanishes ==
  Done => /\ success.collecting = None /\ ~info.block.open
          /\ failing = {} => \A c \in Printed : \E pane \in Panes : shown[<<pane, c>>] > 0

(* What was printed is shown: all the text of a failed test in its own     *)
(* pane, and of a run without failures everything in some pane.            *)
OutputInv == TypeOK /\ FailureShownInFull /\ NothingVanishes

-----------------------------------------------------------------------------
(* What the code does not guarantee.                                       *)

(* "preview_count == 1": what was previewed is not repeated at the end.    *)
PreviewsOnce == \A c \in Chunks : shown[<<c[1], c>>] <= 1

(* The output of a test is given to that test, not to another one.         *)
OutputIsAttributed ==
  \A c \in Chunks : \A t \in Tests : shown[<<t, c>>] > 0 => t = c[1]

=============================================================================
