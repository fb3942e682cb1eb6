-------------------------------- MODULE Xtasks -------------------------------
(***************************************************************************)
(* The xtask panel: asking the project for its commands, which may be      *)
(* asked again before it has answered, and running one of them with its    *)
(* output shown as it is written.  Questions and runs are tasks beside the *)
(* UI loop; a run has two readers of pipes, a channel of chunks and a      *)
(* forwarder into the application queue.                                   *)
(* Sources: xtask.rs, app.rs, runner.rs, command.rs, ui/components/xtasks. *)
(***************************************************************************)
EXTENDS Naturals, Sequences

CONSTANTS
  Manifests,   \* what a project may answer
  Broken,      \* the answer is an error: no such task, or nothing that parses
  None,
  Chunks,      \* chunks a command writes to each of its two streams
  PipeCap,     \* unread chunks a pipe holds before the writer waits
  ChannelCap,  \* capacity of the chunk channel (4096 in the code)
  QueueCap,    \* capacity of the application queue (4096 in the code)
  MaxLoads, MaxRuns, MaxEdits  \* bounds: questions, runs, changes of the project

ASSUME XtasksAssumption ==
  /\ Broken \notin Manifests /\ None \notin Manifests \union {Broken}
  /\ Chunks \in Nat /\ PipeCap \in Nat
  /\ ChannelCap \in Nat \ {0} /\ QueueCap \in Nat \ {0}
  /\ MaxLoads \in Nat \ {0} /\ MaxRuns \in Nat /\ MaxEdits \in Nat

VARIABLES
  \* XtaskState
  modal, detail, editing,      \* what of the panel is open
  loadId, loading, manifest,   \* manifest is None or one of Manifests
  runId, running, error,       \* error: None, "load" or "run", whose it is
  lastRun,                     \* the chunks shown, and whether the command ended
  \* the tasks
  asked,      \* of each question: where its task is
  answer,     \* and what the project said
  child,      \* the process of the run: "none", "alive", "exited"
  unread,     \* of each stream: the chunks its reader has still to read
  reader,     \* where the reader is
  channel,    \* the chunks read
  runTask,    \* "none", "starting", "streaming", "failed"
  queue,
  \* the world
  project,    \* what it would answer now
  edits,
  \* history
  said        \* what it might have answered since it was last asked

panelVars == <<modal, detail, editing>>
loadVars == <<loadId, loading, manifest>>
runVars == <<runId, running, lastRun>>
pipeVars == <<child, unread, reader, channel, runTask>>
worldVars == <<project, edits, said>>
vars == <<panelVars, loadVars, runVars, error, asked, answer, pipeVars, queue, worldVars>>

Streams == {"stdout", "stderr"}
Answers == Manifests \union {Broken}
Loads == DOMAIN asked

InfoLoaded(id, result) == [kind |-> "info", id |-> id, result |-> result]
RunOutput(chunk) == [kind |-> "output", chunk |-> chunk]
RunFinished(ok) == [kind |-> "finished", ok |-> ok]

Send(event) == Len(queue) < QueueCap /\ queue' = Append(queue, event)

NextChunk(s) == <<s, Chunks - unread[s] + 1>>

\* The input modes of the panel (command_context).
Mode == IF ~modal THEN "closed" ELSE IF editing THEN "input" ELSE IF detail THEN "detail" ELSE "list"

Init ==
  /\ modal = FALSE /\ detail = FALSE /\ editing = FALSE
  /\ loadId = 1 /\ loading = TRUE /\ manifest = None
  /\ runId = 0 /\ running = FALSE /\ error = None
  /\ lastRun = [shown |-> <<>>, ended |-> TRUE]
  /\ asked = <<"asking">> /\ answer = <<None>>
  /\ child = "none" /\ unread = [s \in Streams |-> 0] /\ reader = [s \in Streams |-> "over"]
  /\ channel = <<>> /\ runTask = "none" /\ queue = <<>>
  /\ project \in Answers /\ edits = 0 /\ said = {project}

-----------------------------------------------------------------------------
(* Keys of the panel.                                                      *)
KeyOpens ==
  \/ /\ Mode = "closed"
     /\ modal' = TRUE /\ UNCHANGED <<detail, editing>>
  \/ /\ Mode = "list" /\ manifest # None
     /\ detail' = TRUE /\ UNCHANGED <<modal, editing>>
  \/ /\ Mode = "detail" /\ manifest # None
     /\ editing' = TRUE /\ UNCHANGED <<modal, detail>>

KeyCloses ==
  \/ /\ Mode = "input"
     /\ editing' = FALSE /\ UNCHANGED <<modal, detail>>
  \/ /\ Mode = "detail"
     /\ detail' = FALSE /\ UNCHANGED <<modal, editing>>
  \/ /\ Mode = "list"
     /\ modal' = FALSE /\ UNCHANGED <<detail, editing>>

Key ==
  /\ KeyOpens \/ KeyCloses
  /\ UNCHANGED <<loadVars, runVars, error, asked, answer, pipeVars, queue, worldVars>>

(* begin_load and the task it starts; the list has no details open.        *)
Refresh ==
  /\ Mode = "list" /\ loadId < MaxLoads
  /\ loadId' = loadId + 1 /\ loading' = TRUE /\ error' = None
  /\ asked' = Append(asked, "asking") /\ answer' = Append(answer, None)
  /\ said' = {project}
  /\ UNCHANGED <<panelVars, manifest, runVars, pipeVars, queue, project, edits>>

(* The developer changes the xtask crate.                                  *)
Edit ==
  /\ edits < MaxEdits /\ edits' = edits + 1
  /\ project' \in Answers \ {project}
  /\ said' = said \union {project'}
  /\ UNCHANGED <<panelVars, loadVars, runVars, error, asked, answer, pipeVars, queue>>

(* load: the command is built and run at some moment.                      *)
Load(id) ==
  /\ asked[id] = "asking"
  /\ asked' = [asked EXCEPT ![id] = "sending"]
  /\ answer' = [answer EXCEPT ![id] = project]
  /\ UNCHANGED <<panelVars, loadVars, runVars, error, pipeVars, queue, worldVars>>

SendInfo(id) ==
  /\ asked[id] = "sending"
  /\ Send(InfoLoaded(id, answer[id]))
  /\ asked' = [asked EXCEPT ![id] = "over"]
  /\ UNCHANGED <<panelVars, loadVars, runVars, error, answer, pipeVars, worldVars>>

-----------------------------------------------------------------------------
(* RunXtask: refused while one runs.                                       *)
RunXtask ==
  /\ Mode = "detail" /\ manifest # None /\ ~running
  /\ runId < MaxRuns
  /\ runId' = runId + 1 /\ running' = TRUE /\ error' = None
  /\ lastRun' = [shown |-> <<>>, ended |-> FALSE]
  /\ runTask' = "starting"
  /\ UNCHANGED <<panelVars, loadVars, asked, answer, child, unread, reader, channel, queue,
                 worldVars>>

(* run_streaming: the process is started and a reader for each pipe.       *)
Spawn ==
  /\ runTask = "starting"
  /\ runTask' = "streaming" /\ child' = "alive"
  /\ unread' = [s \in Streams |-> Chunks] /\ reader' = [s \in Streams |-> "reading"]
  /\ UNCHANGED <<panelVars, loadVars, runVars, error, asked, answer, channel, queue, worldVars>>

SpawnFails ==
  /\ runTask = "starting"
  /\ runTask' = "failed"
  /\ UNCHANGED <<panelVars, loadVars, runVars, error, asked, answer, child, unread, reader,
                 channel, queue, worldVars>>

(* The command ends once it has written everything into its pipes.         *)
ChildExits ==
  /\ child = "alive"
  /\ \A s \in Streams : unread[s] <= PipeCap \/ reader[s] = "failed"
  /\ child' = "exited"
  /\ UNCHANGED <<panelVars, loadVars, runVars, error, asked, answer, unread, reader, channel,
                 runTask, queue, worldVars>>

ReadChunk_Try(s) ==
  /\ reader[s] = "reading" /\ unread[s] > 0
  /\ channel' = IF Len(channel) < ChannelCap THEN Append(channel, NextChunk(s)) ELSE channel
  /\ unread' = [unread EXCEPT ![s] = @ - 1]
  /\ UNCHANGED <<panelVars, loadVars, runVars, error, asked, answer, child, reader, runTask,
                 queue, worldVars>>

ReadChunk_AfterExit(s) ==
  /\ reader[s] = "reading" /\ unread[s] > 0 /\ child = "exited"
  /\ Len(channel) < ChannelCap
  /\ channel' = Append(channel, NextChunk(s))
  /\ unread' = [unread EXCEPT ![s] = @ - 1]
  /\ UNCHANGED <<panelVars, loadVars, runVars, error, asked, answer, child, reader, runTask,
                 queue, worldVars>>

(* read_run_stream: a chunk is read and waits for room in the channel.     *)
ReadChunk(s) ==
  /\ reader[s] = "reading" /\ unread[s] > 0
  /\ Len(channel) < ChannelCap
  /\ channel' = Append(channel, NextChunk(s))
  /\ unread' = [unread EXCEPT ![s] = @ - 1]
  /\ UNCHANGED <<panelVars, loadVars, runVars, error, asked, answer, child, reader, runTask,
                 queue, worldVars>>

ReadEnds(s) ==
  /\ reader[s] = "reading" /\ unread[s] = 0 /\ child = "exited"
  /\ reader' = [reader EXCEPT ![s] = "over"]
  /\ UNCHANGED <<panelVars, loadVars, runVars, error, asked, answer, child, unread, channel,
                 runTask, queue, worldVars>>

ReadFails(s) ==
  /\ reader[s] = "reading"
  /\ reader' = [reader EXCEPT ![s] = "failed"]
  /\ UNCHANGED <<panelVars, loadVars, runVars, error, asked, answer, child, unread, channel,
                 runTask, queue, worldVars>>

(* The forwarder of start_xtask_run.                                       *)
Forward ==
  /\ channel # <<>>
  /\ Send(RunOutput(Head(channel)))
  /\ channel' = Tail(channel)
  /\ UNCHANGED <<panelVars, loadVars, runVars, error, asked, answer, child, unread, reader,
                 runTask, worldVars>>

ReadersDone == child = "exited" /\ \A s \in Streams : reader[s] # "reading"

(* tokio::join: both the command and the forwarder are over, which is when *)
(* the readers have dropped their ends of the channel and it is empty.     *)
Report ==
  /\ \/ runTask = "streaming" /\ ReadersDone /\ channel = <<>>
        /\ Send(RunFinished(\A s \in Streams : reader[s] = "over"))
     \/ runTask = "failed" /\ Send(RunFinished(FALSE))
  /\ runTask' = "none" /\ child' = "none"
  /\ UNCHANGED <<panelVars, loadVars, runVars, error, asked, answer, unread, reader, channel,
                 worldVars>>

-----------------------------------------------------------------------------
(* InfoLoaded: an error takes the manifest away but not an edit under way. *)
ApplyInfo(id, result) ==
  IF id # loadId
  THEN UNCHANGED <<loading, manifest, error, detail, editing>>
  ELSE /\ loading' = FALSE /\ detail' = FALSE
       /\ IF result = Broken
          THEN error' = "load" /\ manifest' = None /\ UNCHANGED editing
          ELSE error' = None /\ manifest' = result /\ editing' = FALSE

HandleInfo ==
  /\ queue # <<>> /\ Head(queue).kind = "info"
  /\ queue' = Tail(queue)
  /\ ApplyInfo(Head(queue).id, Head(queue).result)
  /\ UNCHANGED <<modal, loadId, runVars, asked, answer, pipeVars, worldVars>>

HandleOutput ==
  /\ queue # <<>> /\ Head(queue).kind = "output"
  /\ queue' = Tail(queue)
  /\ lastRun' = [lastRun EXCEPT !.shown = Append(@, Head(queue).chunk)]
  /\ UNCHANGED <<panelVars, loadVars, runId, running, error, asked, answer, pipeVars, worldVars>>

(* RunFinished: the output shown so far stays; a success clears the error. *)
HandleFinished ==
  /\ queue # <<>> /\ Head(queue).kind = "finished"
  /\ queue' = Tail(queue)
  /\ running' = FALSE
  /\ IF Head(queue).ok
     THEN error' = None /\ lastRun' = [lastRun EXCEPT !.ended = TRUE]
     ELSE error' = "run" /\ UNCHANGED lastRun
  /\ UNCHANGED <<panelVars, loadVars, runId, asked, answer, pipeVars, worldVars>>

Next ==
  \/ Key \/ Refresh \/ Edit \/ RunXtask \/ Spawn \/ SpawnFails \/ ChildExits \/ Forward \/ Report
  \/ HandleInfo \/ HandleOutput \/ HandleFinished
  \/ \E id \in Loads : Load(id) \/ SendInfo(id)
  \/ \E s \in Streams : ReadChunk(s) \/ ReadEnds(s) \/ ReadFails(s)

Spec == Init /\ [][Next]_vars

(* The runtime polls its tasks, the UI loop takes events, a command that   *)
(* can write all it has to ends.  A full queue refuses one of the senders  *)
(* while there is another, of which there are finitely many.               *)
Fairness ==
  /\ WF_vars(HandleInfo) /\ WF_vars(HandleOutput) /\ WF_vars(HandleFinished)
  /\ WF_vars(Spawn \/ SpawnFails) /\ WF_vars(ChildExits)
  /\ WF_vars(Forward) /\ WF_vars(Report)
  /\ \A id \in 1..MaxLoads : WF_vars(id \in Loads /\ Load(id)) /\ WF_vars(id \in Loads /\ SendInfo(id))
  /\ \A s \in Streams : WF_vars(ReadChunk(s)) /\ WF_vars(ReadEnds(s))

FairSpec == Spec /\ Fairness

-----------------------------------------------------------------------------
Chunk == Streams \X (1..Chunks)

Event ==
  [kind : {"info"}, id : 1..MaxLoads, result : Answers]
    \union [kind : {"output"}, chunk : Chunk] \union [kind : {"finished"}, ok : BOOLEAN]

TypeOK ==
  /\ modal \in BOOLEAN /\ detail \in BOOLEAN /\ editing \in BOOLEAN
  /\ loadId \in 1..MaxLoads /\ loading \in BOOLEAN /\ manifest \in Manifests \union {None}
  /\ runId \in 0..MaxRuns /\ running \in BOOLEAN /\ error \in {None, "load", "run"}
  /\ lastRun \in [shown : Seq(Chunk), ended : BOOLEAN]
  /\ asked \in [1..loadId -> {"asking", "sending", "over"}]
  /\ answer \in [1..loadId -> Answers \union {None}]
  /\ child \in {"none", "alive", "exited"}
  /\ unread \in [Streams -> 0..Chunks]
  /\ reader \in [Streams -> {"reading", "over", "failed"}]
  /\ channel \in Seq(Chunk) /\ Len(channel) <= ChannelCap
  /\ runTask \in {"none", "starting", "streaming", "failed"}
  /\ queue \in Seq(Event) /\ Len(queue) <= QueueCap
  /\ project \in Answers /\ edits \in 0..MaxEdits /\ said \subseteq Answers

(* When the panel is not loading, its commands are what the project said   *)
(* after the user last asked: no answer to an earlier question replaces    *)
(* that of a later one, in whatever order the builds finish.               *)
ShownIsRecent ==
  ~loading => (IF manifest = None THEN Broken ELSE manifest) \in said

(* While the panel says "Loading", the answer it waits for is on its way.  *)
LoadIsUnderWay ==
  loading => \/ asked[loadId] # "over"
             \/ \E k \in DOMAIN queue : queue[k].kind = "info" /\ queue[k].id = loadId

\* Of each stream: one chunk was written before the other, all are there.
Precedes(chunk, other) == chunk[1] = other[1] => chunk[2] < other[2]

IsComplete(chunks) ==
  /\ \A s \in Streams : \A n \in 1..Chunks : \E k \in DOMAIN chunks : chunks[k] = <<s, n>>
  /\ \A j, k \in DOMAIN chunks : j < k => Precedes(chunks[j], chunks[k])

(* A command that has concluded shows everything it wrote, each stream in  *)
(* its order and once, although it passed two tasks, a channel and the     *)
(* queue; and nothing of it is left: no process, no reader, no chunk that  *)
(* would land in the output of the next.                                   *)
ConcludedIsComplete ==
  ~running =>
    /\ lastRun.ended /\ runId > 0 => IsComplete(lastRun.shown)
    /\ child # "alive" /\ channel = <<>> /\ runTask = "none"
    /\ \A s \in Streams : reader[s] # "reading"
    /\ \A k \in DOMAIN queue : queue[k].kind = "info"

(* A command that writes more than the pipes, the channel and the queue    *)
(* hold is not stuck: the panel becomes ready for another in the end.      *)
RunConcludes == running ~> ~running

-----------------------------------------------------------------------------
(* What the code does not guarantee.                                       *)

(* The panel says that the project exposes no metadata, without an error,  *)
(* only when it has not failed to answer.                                  *)
FailureIsExplained == manifest = None /\ ~loading => error = "load"

(* The list of commands, once the details are closed, has its own keys.    *)
ListTakesListKeys == modal /\ ~detail => Mode = "list"

=============================================================================
