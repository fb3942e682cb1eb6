---------------------------- MODULE RunPipeline -----------------------------
(***************************************************************************)
(* A test run from the key that starts it to the status it leaves:         *)
(*                                                                         *)
(*   cargo-nextest --stdout, stderr--> two reader tasks --runChan-->       *)
(*   forwarder task --queue--> UI loop (batches) --> App                   *)
(*                                                                         *)
(* with the producer task that supervises one process per test group, the  *)
(* RunControl by which the UI asks it to stop, and the order in which the  *)
(* UI loop shuts everything down.  Both channels are bounded, so every     *)
(* send may block.  Sources: runner.rs, nextest.rs, queue.rs, app.rs.      *)
(***************************************************************************)
EXTENDS Naturals, Sequences

CONSTANTS
  RunCap,      \* capacity of the channel of one run (4096 in the code)
  QueueCap,    \* capacity of the application queue (4096 in the code)
  BatchCap,    \* events handled between two frames (MAX_EVENTS_PER_FRAME)
  MaxGroups,   \* bound: nextest invocations of the first run, one fewer in each later one
  MaxLines,    \* bound: lines read from the pipes of one run
  MaxKeys      \* bound: keys pressed, and so runs begun

ASSUME CapacityAssumption ==
  /\ RunCap \in Nat \ {0}
  /\ QueueCap \in Nat \ {0}
  /\ BatchCap \in Nat \ {0}
  /\ MaxGroups \in Nat \ {0}

VARIABLES
  \* the UI loop and the part of App that knows of runs
  loop,       \* "run", "shutdown" (queue dropped, awaiting the run), "exited"
  batch,      \* events drained from the queue and not yet handled
  running,    \* App.running
  failed,     \* a test in the scope of the run has failed
  outcome,    \* App.run.outcome
  control,    \* run_control: "none", "armed" (stop_tx held), "spent"
  keys,       \* keys pressed so far
  \* the producer task: NextestClient::run and run_once
  pc, group, groups, exitCode, stopped,
  stopMsg,    \* a message sits in the stop channel
  child,      \* "none", "alive", "doomed" (SIGKILL sent), "dead"
  status,     \* exit status of the child
  out, err,   \* reader tasks: "off", "reading", "eof", "failed"
  lines,      \* lines read in this run, to bound them
  sharing,    \* a test that outlived nextest has its pipes open
  \* the channels and the forwarder task
  runChan, queue,
  forwarder,  \* "off", "on", "done" (it returned and dropped the receiver)
  hand,       \* the event it is sending, at most one
  held,       \* the terminal event it holds back, at most one
  \* history: what the run in progress has done so far
  run, sent, seen, verdict, asked

uiVars == <<loop, batch, running, failed, outcome, control, keys>>
procVars == <<pc, group, groups, exitCode, stopped, stopMsg, child, status>>
readVars == <<out, err, lines, sharing>>
pipeVars == <<runChan, queue, forwarder, hand, held>>
histVars == <<run, sent, seen, verdict, asked>>
vars == <<uiVars, procVars, readVars, pipeVars, histVars>>

Keys == {"keyRun", "keyStop", "keyQuit"}
Progress == {"output", "failure"}
Terminal == {"zero", "nonzero", "noexit", "stopped"}
Kinds == Keys \union Progress \union Terminal

Event == [kind : Kinds, run : Nat, seq : Nat]

IsRunEvent(e) == e.kind \notin Keys
IsTerminal(e) == e.kind \in Terminal

-----------------------------------------------------------------------------
Init ==
  /\ loop = "run" /\ batch = <<>> /\ running = FALSE /\ failed = FALSE
  /\ outcome = "NotStarted" /\ control = "none" /\ keys = 0
  /\ pc = "idle" /\ group = 0 /\ groups = 0 /\ exitCode = "zero"
  /\ stopped = FALSE /\ stopMsg = FALSE /\ child = "none" /\ status = "zero"
  /\ out = "off" /\ err = "off" /\ lines = 0 /\ sharing = FALSE
  /\ runChan = <<>> /\ queue = <<>> /\ forwarder = "off"
  /\ hand = <<>> /\ held = <<>>
  /\ run = 0 /\ sent = 0 /\ seen = 0 /\ verdict = "none" /\ asked = FALSE

-----------------------------------------------------------------------------
(* Sending on the channel of the run: it blocks while the channel is full  *)
(* and fails, unnoticed by every sender, once the receiver is gone.        *)
Send(kind) ==
  \/ /\ forwarder = "on"
     /\ Len(runChan) < RunCap
     /\ runChan' = Append(runChan, [kind |-> kind, run |-> run, seq |-> sent + 1])
     /\ sent' = sent + 1
  \/ /\ forwarder = "done"
     /\ sent' = sent + 1
     /\ UNCHANGED runChan

(* The terminal event takes no number: it is not one of the run's events   *)
(* but what is said of all of them.                                        *)
SendTerminal(kind) ==
  /\ \/ /\ forwarder = "on"
        /\ Len(runChan) < RunCap
        /\ runChan' = Append(runChan, [kind |-> kind, run |-> run, seq |-> 0])
     \/ /\ forwarder = "done"
        /\ UNCHANGED runChan
  /\ verdict' = kind
  /\ UNCHANGED sent

(* The receiver of the stop channel lives as long as NextestClient::run.   *)
StopReceiverAlive == pc \notin {"idle", "report", "giveUp", "done"}

RequestStop_Never == UNCHANGED <<stopMsg, asked>>

RequestStop ==
  IF control = "armed" /\ StopReceiverAlive
  THEN stopMsg' = TRUE /\ asked' = TRUE
  ELSE UNCHANGED <<stopMsg, asked>>

-----------------------------------------------------------------------------
(* The producer task.                                                      *)
producerOnly == <<uiVars, readVars, queue, forwarder, hand, held, run, asked>>

(* With several groups each is announced before its process is spawned.    *)
Announce ==
  /\ pc = "announce"
  /\ IF groups > 1 THEN Send("output") ELSE UNCHANGED <<runChan, sent>>
  /\ pc' = "spawn"
  /\ UNCHANGED <<producerOnly, group, groups, exitCode, stopped, stopMsg,
                 child, status, seen, verdict>>

Spawn ==
  /\ pc = "spawn"
  /\ \/ /\ pc' = "wait" /\ child' = "alive"
        /\ out' = "reading" /\ err' = "reading"
     \/ /\ pc' = "report"
        /\ UNCHANGED <<child, out, err>>
  /\ UNCHANGED <<uiVars, lines, sharing, group, groups, exitCode, stopped, stopMsg, status,
                 pipeVars, histVars>>

(* select!: the process may end, or the stop message may be received; when *)
(* both are ready either may win.                                          *)
ChildWaited ==
  /\ pc \in {"wait", "grace", "killed"}
  /\ child = "dead"
  /\ stopped' = (pc # "wait")
  /\ pc' = "joinOut"
  /\ UNCHANGED <<producerOnly, group, groups, exitCode, stopMsg, child, status,
                 runChan, sent, seen, verdict>>

ReceiveStop ==
  /\ pc = "wait"
  /\ stopMsg
  /\ stopMsg' = FALSE
  /\ pc' = "note"
  /\ UNCHANGED <<producerOnly, group, groups, exitCode, stopped, child, status,
                 runChan, sent, seen, verdict>>

(* "Run stopped by user", then SIGTERM to the process group.               *)
Terminate ==
  /\ pc = "note"
  /\ Send("output")
  /\ pc' = "grace"
  /\ UNCHANGED <<producerOnly, group, groups, exitCode, stopped, stopMsg,
                 child, status, seen, verdict>>

GraceExpires_Never == FALSE
GraceExpires ==
  /\ pc = "grace"
  /\ child # "dead"
  /\ pc' = "force"
  /\ UNCHANGED <<producerOnly, group, groups, exitCode, stopped, stopMsg,
                 child, status, runChan, sent, seen, verdict>>

(* "Run did not stop promptly; forcing termination", then SIGKILL.         *)
ForceKill ==
  /\ pc = "force"
  /\ Send("output")
  /\ pc' = "killed"
  /\ child' = IF child = "dead" THEN "dead" ELSE "doomed"
  /\ UNCHANGED <<producerOnly, group, groups, exitCode, stopped, stopMsg,
                 status, seen, verdict>>

(* An error of child.wait() leaves run_once at once: the reader tasks are  *)
(* detached and the dropped child handle kills the process.                *)
WaitError ==
  /\ pc \in {"wait", "grace", "killed"}
  /\ pc' = "report"
  /\ child' = IF child = "dead" THEN "dead" ELSE "doomed"
  /\ UNCHANGED <<producerOnly, group, groups, exitCode, stopped, stopMsg,
                 status, runChan, sent, seen, verdict>>

JoinStdout ==
  /\ pc = "joinOut"
  /\ out \in {"eof", "failed"}
  /\ pc' = IF out = "eof" THEN "joinErr" ELSE "report"
  /\ UNCHANGED <<producerOnly, group, groups, exitCode, stopped, stopMsg,
                 child, status, runChan, sent, seen, verdict>>

(* The first failing group decides the exit code of the run.               *)
FirstFailure(code, s) == IF s = "nonzero" /\ code = "zero" THEN s ELSE code

JoinStderr ==
  /\ pc = "joinErr"
  /\ err \in {"eof", "failed"}
  /\ IF err = "failed" \/ stopped
     THEN /\ pc' = IF err = "failed" THEN "report" ELSE "sendStopped"
          /\ UNCHANGED <<group, exitCode>>
     ELSE /\ exitCode' = FirstFailure(exitCode, status)
          /\ IF group = groups
             THEN pc' = "sendFinished" /\ UNCHANGED group
             ELSE pc' = "announce" /\ group' = group + 1
  /\ UNCHANGED <<producerOnly, groups, stopped, stopMsg, child, status,
                 runChan, sent, seen, verdict>>

Finish ==
  /\ pc \in {"sendFinished", "sendStopped"}
  /\ SendTerminal(IF pc = "sendStopped" THEN "stopped" ELSE exitCode)
  /\ pc' = "done"
  /\ UNCHANGED <<producerOnly, group, groups, exitCode, stopped, stopMsg,
                 child, status, seen>>

(* The error path of the spawned closure: an output line, then             *)
(* RunnerFinished without an exit code.  The stop receiver is gone.        *)
ReportError ==
  /\ pc = "report"
  /\ Send("output")
  /\ pc' = "giveUp"
  /\ UNCHANGED <<producerOnly, group, groups, exitCode, stopped, stopMsg,
                 child, status, seen, verdict>>

GiveUp_Silent ==
  /\ pc = "giveUp"
  /\ pc' = "done"
  /\ UNCHANGED <<producerOnly, group, groups, exitCode, stopped, stopMsg,
                 child, status, runChan, sent, seen, verdict>>

GiveUp ==
  /\ pc = "giveUp"
  /\ SendTerminal("noexit")
  /\ pc' = "done"
  /\ UNCHANGED <<producerOnly, group, groups, exitCode, stopped, stopMsg,
                 child, status, seen>>

Producer ==
  \/ Announce \/ Spawn \/ ChildWaited \/ ReceiveStop \/ Terminate
  \/ GraceExpires \/ ForceKill \/ JoinStdout \/ JoinStderr
  \/ Finish \/ ReportError \/ GiveUp

-----------------------------------------------------------------------------
(* The nextest process: it exits when it likes, or because it was killed.  *)
(* Tests have process groups of their own, which no signal of Nextdeck     *)
(* reaches.  Without capture (RunOptions.no_capture) they inherit the      *)
(* pipes of nextest and may outlive it; with capture, sharing stays FALSE. *)
ChildExits ==
  /\ child = "alive"
  /\ child' = "dead"
  /\ status' \in {"zero", "nonzero"}
  /\ sharing' \in BOOLEAN
  /\ UNCHANGED <<uiVars, pc, group, groups, exitCode, stopped, stopMsg,
                 out, err, lines, pipeVars, histVars>>

ChildKilled ==
  /\ child = "doomed"
  /\ child' = "dead"
  /\ status' = "nonzero"
  /\ sharing' \in BOOLEAN
  /\ UNCHANGED <<uiVars, pc, group, groups, exitCode, stopped, stopMsg,
                 out, err, lines, pipeVars, histVars>>

TestsExit ==
  /\ sharing
  /\ sharing' = FALSE
  /\ UNCHANGED <<uiVars, procVars, out, err, lines, pipeVars, histVars>>

(* The reader tasks.  A pipe ends once everyone who has it open is dead; a *)
(* line that is not UTF-8 ends the reader early.                           *)
readerOnly == <<uiVars, procVars, queue, forwarder, hand, held, run, seen,
                verdict, asked>>

ReadStdout(kind) ==
  /\ out = "reading"
  /\ lines < MaxLines
  /\ Send(kind)
  /\ lines' = lines + 1
  /\ UNCHANGED <<readerOnly, out, err, sharing>>

ReadStderr ==
  /\ err = "reading"
  /\ lines < MaxLines
  /\ Send("output")
  /\ lines' = lines + 1
  /\ UNCHANGED <<readerOnly, out, err, sharing>>

PipesClosed == child = "dead" /\ ~sharing

EndStdout ==
  /\ out = "reading"
  /\ PipesClosed
  /\ out' = "eof"
  /\ UNCHANGED <<readerOnly, err, lines, sharing, runChan, sent>>

EndStderr ==
  /\ err = "reading"
  /\ PipesClosed
  /\ err' = "eof"
  /\ UNCHANGED <<readerOnly, out, lines, sharing, runChan, sent>>

ReaderFails ==
  /\ \/ out = "reading" /\ out' = "failed" /\ UNCHANGED err
     \/ err = "reading" /\ err' = "failed" /\ UNCHANGED out
  /\ UNCHANGED <<readerOnly, lines, sharing, runChan, sent>>

-----------------------------------------------------------------------------
QueueHasRoom == Len(queue) < QueueCap

(* The receiver goes away with the UI loop.                                *)
QueueDropped == loop # "run"

(* forward_run_events: it passes events on and holds the terminal one back *)
(* until every sender of the run's channel is gone.                        *)
forwarderOnly == <<uiVars, procVars, readVars, histVars>>

SendersGone_ProducerOnly == pc = "done"
SendersGone == pc = "done" /\ out # "reading" /\ err # "reading"

HoldsBack_Never(e) == FALSE
HoldsBack(e) == IsTerminal(e)

ForwardRecv ==
  /\ forwarder = "on"
  /\ hand = <<>>
  /\ runChan # <<>>
  /\ runChan' = Tail(runChan)
  /\ IF HoldsBack(Head(runChan))
     THEN held' = <<Head(runChan)>> /\ UNCHANGED hand
     ELSE hand' = <<Head(runChan)>> /\ UNCHANGED held
  /\ UNCHANGED <<forwarderOnly, queue, forwarder>>

ForwardSend ==
  /\ forwarder = "on"
  /\ hand # <<>>
  /\ ~QueueDropped
  /\ QueueHasRoom
  /\ queue' = queue \o hand
  /\ hand' = <<>>
  /\ UNCHANGED <<forwarderOnly, runChan, forwarder, held>>

(* The queue was dropped: the forwarder returns and drops its receiver.    *)
ForwardFails ==
  /\ forwarder = "on"
  /\ hand # <<>>
  /\ QueueDropped
  /\ forwarder' = "done"
  /\ hand' = <<>> /\ held' = <<>> /\ runChan' = <<>>
  /\ UNCHANGED <<forwarderOnly, queue>>

ForwardEnd ==
  /\ forwarder = "on"
  /\ hand = <<>> /\ runChan = <<>>
  /\ SendersGone
  /\ IF ~QueueDropped /\ held # <<>>
     THEN QueueHasRoom /\ queue' = queue \o held
     ELSE UNCHANGED queue
  /\ forwarder' = "done"
  /\ held' = <<>>
  /\ UNCHANGED <<forwarderOnly, runChan, hand>>

Forward == ForwardRecv \/ ForwardSend \/ ForwardFails \/ ForwardEnd

-----------------------------------------------------------------------------
(* The user, through the input thread, which shares the queue.             *)
PressKey(key) ==
  /\ loop = "run"
  /\ keys < MaxKeys
  /\ QueueHasRoom
  /\ queue' = Append(queue, [kind |-> key, run |-> 0, seq |-> 0])
  /\ keys' = keys + 1
  /\ UNCHANGED <<loop, batch, running, failed, outcome, control, procVars,
                 readVars, runChan, forwarder, hand, held, histVars>>

(* recv, then drain_pending_events: at most BatchCap events, taken from    *)
(* the queue before any of them is handled.                                *)
Drain ==
  /\ loop = "run"
  /\ batch = <<>>
  /\ queue # <<>>
  /\ LET n == IF Len(queue) < BatchCap THEN Len(queue) ELSE BatchCap
     IN /\ batch' = SubSeq(queue, 1, n)
        /\ queue' = SubSeq(queue, n + 1, Len(queue))
  /\ UNCHANGED <<loop, running, failed, outcome, control, keys, procVars,
                 readVars, runChan, forwarder, hand, held, histVars>>

Handling(kind) ==
  /\ loop = "run"
  /\ batch # <<>>
  /\ Head(batch).kind = kind
  /\ batch' = Tail(batch)

(* StartRun while no run is in progress: begin_run accepts, the tasks are  *)
(* spawned and their handle replaces the old one, whose tasks are over.    *)
BeginRun(n) ==
  /\ Handling("keyRun")
  /\ ~running
  /\ n = 1 \/ run + n <= MaxGroups
  /\ running' = TRUE /\ failed' = FALSE /\ outcome' = "Running"
  /\ control' = "armed"
  /\ pc' = "announce" /\ group' = 1 /\ groups' = n /\ exitCode' = "zero"
  /\ stopped' = FALSE /\ stopMsg' = FALSE
  /\ child' = "none" /\ status' = "zero"
  /\ out' = "off" /\ err' = "off" /\ lines' = 0 /\ sharing' = FALSE
  /\ runChan' = <<>> /\ forwarder' = "on" /\ hand' = <<>> /\ held' = <<>>
  /\ run' = run + 1 /\ sent' = 0 /\ seen' = 0 /\ verdict' = "none"
  /\ asked' = FALSE
  /\ UNCHANGED <<loop, keys, queue>>

(* StartRun while a run is in progress: begin_run refuses and start_run    *)
(* returns None, which replaces the live handle.  Dropping the handle      *)
(* requests a stop.                                                        *)
IgnoreRunRequest ==
  /\ Handling("keyRun")
  /\ running
  /\ control' = "none"
  /\ RequestStop
  /\ UNCHANGED <<loop, running, failed, outcome, keys, pc, group, groups,
                 exitCode, stopped, child, status, readVars, pipeVars, run,
                 sent, seen, verdict>>

StopRun ==
  /\ Handling("keyStop")
  /\ IF running /\ control # "none"
     THEN RequestStop /\ control' = "spent"
     ELSE UNCHANGED <<stopMsg, asked, control>>
  /\ UNCHANGED <<loop, running, failed, outcome, keys, pc, group, groups,
                 exitCode, stopped, child, status, readVars, pipeVars, run,
                 sent, seen, verdict>>

(* RunnerOutput, TestFinished and the other events of a run in progress.   *)
ApplyProgress(kind) ==
  /\ Handling(kind)
  /\ seen' = Head(batch).seq
  /\ failed' = (failed \/ kind = "failure")
  /\ UNCHANGED <<loop, running, outcome, control, keys, procVars, readVars,
                 pipeVars, run, sent, verdict, asked>>

RunOutcome_NoExitIsStop(kind, anyFailed) ==
  CASE kind \in {"stopped", "noexit"}    -> "Stopped"
    [] kind = "zero" /\ ~anyFailed      -> "Passed"
    [] anyFailed                        -> "Failed"
    [] OTHER                            -> "CommandFailed"

RunOutcome(kind, anyFailed) ==
  CASE kind = "stopped"                 -> "Stopped"
    [] kind = "zero" /\ ~anyFailed      -> "Passed"
    [] kind \in {"zero", "nonzero"} /\ anyFailed -> "Failed"
    [] OTHER                            -> "CommandFailed"

(* RunnerFinished or RunnerStopped.                                        *)
ApplyTerminal(kind) ==
  /\ Handling(kind)
  /\ running' = FALSE
  /\ outcome' = RunOutcome(kind, failed)
  /\ UNCHANGED <<loop, failed, control, keys, procVars, readVars, pipeVars,
                 histVars>>

(* Leaving the loop: the rest of the batch is dropped and so is the queue; *)
(* control.shutdown() requests the stop before it awaits the tasks.        *)
leaveLoop ==
  /\ loop' = "shutdown"
  /\ batch' = <<>>
  /\ queue' = <<>>
  /\ RequestStop
  /\ control' = IF control = "none" THEN "none" ELSE "spent"
  /\ UNCHANGED <<running, failed, outcome, keys, pc, group, groups, exitCode,
                 stopped, child, status, readVars, runChan, forwarder, hand,
                 held, run, sent, seen, verdict>>

Quit ==
  /\ loop = "run"
  /\ batch # <<>>
  /\ Head(batch).kind = "keyQuit"
  /\ leaveLoop

(* draw_frame may fail; run_loop then leaves through the same cleanup.     *)
DrawFails ==
  /\ loop = "run"
  /\ batch = <<>>
  /\ leaveLoop

(* RunControl::shutdown awaits the producer, then the forwarder.           *)
RunAwaited_ForwarderOnly == control # "none" => forwarder = "done"
RunAwaited == control # "none" => pc = "done" /\ forwarder = "done"

Exit ==
  /\ loop = "shutdown"
  /\ RunAwaited
  /\ loop' = "exited"
  /\ UNCHANGED <<batch, running, failed, outcome, control, keys, procVars,
                 readVars, pipeVars, histVars>>

Handle ==
  \/ \E n \in 1..MaxGroups : BeginRun(n)
  \/ IgnoreRunRequest \/ StopRun \/ Quit
  \/ \E kind \in Progress : ApplyProgress(kind)
  \/ \E kind \in Terminal : ApplyTerminal(kind)

-----------------------------------------------------------------------------
(* Nothing is left to do but wait for the user: the states in which the    *)
(* system may rest.                                                        *)
Resting ==
  /\ \/ loop = "exited"
     \/ loop = "run" /\ ~running /\ queue = <<>> /\ batch = <<>>
  /\ UNCHANGED vars

Next ==
  \/ Producer \/ WaitError
  \/ ChildExits \/ ChildKilled \/ TestsExit
  \/ \E kind \in Progress : ReadStdout(kind)
  \/ ReadStderr \/ EndStdout \/ EndStderr \/ ReaderFails
  \/ Forward
  \/ \E key \in Keys : PressKey(key)
  \/ Drain \/ Handle \/ DrawFails \/ Exit
  \/ Resting

Spec == Init /\ [][Next]_vars

(* tokio runs every task that is ready, the kernel delivers SIGKILL and    *)
(* closes a pipe when the last process that has it open is dead.  Nobody   *)
(* makes a process exit, nextest or a test, nor a test print, a wait fail  *)
(* or the user press a key.                                                *)
Fairness ==
  /\ WF_vars(Producer)
  /\ WF_vars(ChildKilled)
  /\ WF_vars(EndStdout)
  /\ WF_vars(EndStderr)
  /\ WF_vars(Forward)
  /\ WF_vars(Drain)
  /\ WF_vars(Handle)
  /\ WF_vars(Exit)

FairSpec == Spec /\ Fairness

-----------------------------------------------------------------------------
UiTypes ==
  /\ loop \in {"run", "shutdown", "exited"}
  /\ batch \in Seq(Event)
  /\ running \in BOOLEAN /\ failed \in BOOLEAN
  /\ outcome \in {"NotStarted", "Running", "Passed", "Failed",
                  "CommandFailed", "Stopped"}
  /\ control \in {"none", "armed", "spent"}
  /\ keys \in Nat

ProcTypes ==
  /\ pc \in {"idle", "announce", "spawn", "wait", "note", "grace", "force",
             "killed", "joinOut", "joinErr", "sendFinished", "sendStopped",
             "report", "giveUp", "done"}
  /\ group \in Nat /\ groups \in Nat
  /\ exitCode \in {"zero", "nonzero"} /\ status \in {"zero", "nonzero"}
  /\ stopped \in BOOLEAN /\ stopMsg \in BOOLEAN
  /\ child \in {"none", "alive", "doomed", "dead"}

ReadTypes ==
  /\ out \in {"off", "reading", "eof", "failed"}
  /\ err \in {"off", "reading", "eof", "failed"}
  /\ lines \in Nat
  /\ sharing \in BOOLEAN

PipeTypes ==
  /\ runChan \in Seq(Event) /\ Len(runChan) <= RunCap
  /\ queue \in Seq(Event) /\ Len(queue) <= QueueCap
  /\ forwarder \in {"off", "on", "done"}
  /\ hand \in Seq(Event) /\ Len(hand) <= 1
  /\ held \in Seq(Event) /\ Len(held) <= 1

HistTypes ==
  /\ run \in Nat /\ sent \in Nat /\ seen \in Nat
  /\ verdict \in Terminal \union {"none"}
  /\ asked \in BOOLEAN

TypeOK == UiTypes /\ ProcTypes /\ ReadTypes /\ PipeTypes /\ HistTypes

-----------------------------------------------------------------------------
InFlight == (batch \o queue) \o (hand \o runChan)

(* forward_run_events holds the terminal event back, so that behind it     *)
(* there is no event of the run, even when run_once left through an error  *)
(* and a detached reader was still printing.                               *)
TerminalComesLast ==
  loop = "run" =>
    \A i, j \in DOMAIN InFlight :
      IsTerminal(InFlight[i]) /\ i < j /\ i <= Len(batch \o queue)
        => ~IsRunEvent(InFlight[j])

(* A run that is in progress on the screen still has someone who will      *)
(* conclude it: its forwarder, or the one terminal event it queued.        *)
SomeoneConcludes ==
  loop = "run" =>
    /\ forwarder = "on" => running
    /\ running =>
         \/ forwarder = "on"
         \/ \E i \in DOMAIN batch : IsTerminal(batch[i])
         \/ \E i \in DOMAIN queue : IsTerminal(queue[i])

(* A run begins only when every task of the one before it is over: the     *)
(* tasks share no run number, so a straggler would speak for the new run.  *)
RunsDoNotOverlap ==
  [][run' # run =>
       /\ pc \in {"idle", "done"}
       /\ out # "reading" /\ err # "reading"
       /\ child # "alive"
       /\ forwarder # "on"]_vars

(* The process ends only after the tasks of the run are over: nextest is   *)
(* stopped, not abandoned.  That holds of a run whose handle was not lost  *)
(* to a refused request, see IgnoredRequestKeepsRun.                       *)
ExitAwaitsRun ==
  loop = "exited" /\ control # "none" =>
    pc \in {"idle", "done"} /\ child # "alive" /\ forwarder # "on"

(* What the log line of start_run says of a request it does not accept:    *)
(* "run request ignored".  The run in progress is not asked to stop by it. *)
IgnoredRequestKeepsRun ==
  [][(Handling("keyRun") /\ running) => (asked' = asked)]_vars

(* The producer awaits the end of both pipes, and only nextest is killed:  *)
(* a test that outlives nextest with its pipes open withholds that end.    *)
PipesWithheld == child = "dead" /\ sharing

(* A run that was asked to stop is concluded, whatever its tests do, save  *)
(* one thing: to outlive nextest and keep its pipes open for ever, as they *)
(* may in a run without capture.                                           *)
StopTakesEffect ==
  (running /\ asked) ~> (~running \/ loop # "run" \/ []PipesWithheld)

(* Leaving the program completes although both channels may be full, for   *)
(* the queue is dropped before the tasks are awaited.  The shutdown sets   *)
(* no time limit, so that the same test may hold the exit back too.        *)
QuitCompletes ==
  (loop = "shutdown") ~> (loop = "exited" \/ []PipesWithheld)

(* The pipeline implements RunLifecycle.                                   *)
Lifecycle == INSTANCE RunLifecycle WITH
  active <- running,
  emitted <- sent,
  shown <- seen,
  closed <- loop # "run"

ImplementsLifecycle == Lifecycle!Spec

=============================================================================
