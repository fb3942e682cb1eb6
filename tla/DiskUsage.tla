------------------------------ MODULE DiskUsage -----------------------------
(***************************************************************************)
(* The size of the target directory shown in the status pane, and `cargo   *)
(* clean`.  A scan is an async task that waits for a blocking thread to    *)
(* walk the directory and sends what it found to the UI loop; a newer scan *)
(* cancels the one before it.  Sources: disk_usage.rs, app.rs, runner.rs.  *)
(***************************************************************************)
EXTENDS Naturals, Sequences

CONSTANTS
  QueueCap,   \* capacity of the application queue (4096 in the code)
  MaxScans,   \* bound: scans begun by keys and ticks
  MaxCleans,  \* bound: cleanups begun
  None        \* nothing shown

ASSUME DiskAssumption ==
  /\ QueueCap \in Nat \ {0} /\ MaxScans \in Nat \ {0} /\ MaxCleans \in Nat
  /\ None \notin [ok : BOOLEAN, seen : Nat]

VARIABLES
  loop,       \* "run", "shutdown", "exited"
  \* App.disk_usage and App.disk_cleanup
  requestId, loading, snapshot, error,
  completed,  \* last_refresh_completed_at is set
  cleanId, cleaning,
  \* the tasks
  control,    \* RunLoopContext.disk_usage: the id of its scan, 0 for None
  task,       \* of each scan: where its task is
  walker,     \* where its blocking thread is
  result,     \* what it found
  cancelled, aborted,  \* the scans whose DiskUsageControl was dropped
  cleaner,    \* the cleanup task: "none", "cargo", "sending"
  success,    \* whether cargo succeeded
  queue,
  \* history
  cleans,     \* times cargo emptied the target directory
  told        \* the value of cleans at the last success the UI was told of

appVars == <<requestId, loading, snapshot, error, completed, cleanId, cleaning>>
scanVars == <<task, walker, result>>
dropVars == <<cancelled, aborted>>
cleanVars == <<cleaner, success, cleans>>
vars == <<loop, appVars, control, scanVars, dropVars, cleanVars, queue, told>>

Scans == DOMAIN task

TaskStage == {"loading", "sending", "over"}
WalkStage == {"queued", "walking", "over"}

\* seen: how often the directory had been emptied when the walk began.
Size == [ok : BOOLEAN, seen : Nat]
Usage(id, found) == [kind |-> "usage", id |-> id, found |-> found]
Cleaned(id, ok) == [kind |-> "clean", id |-> id, ok |-> ok]
Event == [kind : {"usage"}, id : Nat \ {0}, found : Size]
           \union [kind : {"clean"}, id : Nat, ok : BOOLEAN]

-----------------------------------------------------------------------------
(* Dropping a DiskUsageControl tells the walk to stop and aborts the task, *)
(* which ends the next time it waits.                                      *)
Drop_AbortsOnly(id) ==  \* mutant: the flag is not set
  aborted' = aborted \union {id} /\ UNCHANGED cancelled

Drop(id) ==
  /\ cancelled' = cancelled \union {id}
  /\ aborted' = aborted \union {id}

CancelDiskUsage ==
  IF control = 0 THEN UNCHANGED dropVars ELSE Drop(control)

WithScan(f, value) ==
  [id \in 1..(requestId + 1) |-> IF id = requestId + 1 THEN value ELSE f[id]]

(* App::begin_disk_usage_scan and the effect that follows it.              *)
BeginScan ==
  /\ requestId' = requestId + 1
  /\ loading' = TRUE
  /\ error' = None
  /\ UNCHANGED <<snapshot, completed>>
  /\ CancelDiskUsage
  /\ control' = requestId + 1
  /\ task' = WithScan(task, "loading")
  /\ walker' = WithScan(walker, "queued")
  /\ result' = WithScan(result, [ok |-> FALSE, seen |-> 0])

(* The refresh keys, and the beginning of a test run.                      *)
Refresh ==
  /\ loop = "run"
  /\ requestId < MaxScans
  /\ BeginScan
  /\ UNCHANGED <<loop, cleanId, cleaning, cleanVars, queue, told>>

(* refresh_disk_usage_if_due; the 30 seconds may have gone by at any tick. *)
Tick ==
  /\ loop = "run"
  /\ ~cleaning /\ ~loading /\ completed
  /\ requestId < MaxScans
  /\ BeginScan
  /\ UNCHANGED <<loop, cleanId, cleaning, cleanVars, queue, told>>

RunCargoClean ==
  /\ loop = "run" /\ ~cleaning
  /\ cleanId < MaxCleans
  /\ cleanId' = cleanId + 1
  /\ cleaning' = TRUE
  /\ cleaner' = "cargo"
  /\ UNCHANGED <<loop, requestId, loading, snapshot, error, completed, control, scanVars,
                 dropVars, success, cleans, queue, told>>

-----------------------------------------------------------------------------
(* load_blocking: the flag is looked at before the walk and on the way; a  *)
(* file that goes away, as when cargo cleans, may make it fail.            *)
StartWalk(id) ==
  /\ walker[id] = "queued"
  /\ id \notin cancelled
  /\ walker' = [walker EXCEPT ![id] = "walking"]
  /\ result' = [result EXCEPT ![id].seen = cleans]
  /\ UNCHANGED <<loop, appVars, control, task, dropVars, cleanVars, queue, told>>

EndWalk(id) ==
  /\ walker[id] = "walking"
  /\ walker' = [walker EXCEPT ![id] = "over"]
  /\ \E ok \in BOOLEAN : result' = [result EXCEPT ![id].ok = ok]
  /\ task' = [task EXCEPT ![id] = IF @ = "loading" THEN "sending" ELSE @]
  /\ UNCHANGED <<loop, appVars, control, dropVars, cleanVars, queue, told>>

\* Ok(None): the task returns without an event.
StopWalk(id) ==
  /\ walker[id] \in {"queued", "walking"}
  /\ id \in cancelled
  /\ walker' = [walker EXCEPT ![id] = "over"]
  /\ task' = [task EXCEPT ![id] = "over"]
  /\ UNCHANGED <<loop, appVars, control, result, dropVars, cleanVars, queue, told>>

(* A task that is running when it is aborted may still send.               *)
SendUsage(id) ==
  /\ loop = "run"
  /\ task[id] = "sending"
  /\ Len(queue) < QueueCap
  /\ queue' = Append(queue, Usage(id, result[id]))
  /\ task' = [task EXCEPT ![id] = "over"]
  /\ UNCHANGED <<loop, appVars, control, walker, result, dropVars, cleanVars, told>>

EndTask(id) ==
  /\ task[id] \in {"loading", "sending"}
  /\ id \in aborted
  /\ task' = [task EXCEPT ![id] = "over"]
  /\ UNCHANGED <<loop, appVars, control, walker, result, dropVars, cleanVars, queue, told>>

(* start_cargo_clean; cargo that fails may have removed files or not.      *)
CargoEnds ==
  /\ cleaner = "cargo"
  /\ cleaner' = "sending"
  /\ \E ok \in BOOLEAN :
       /\ success' = ok
       /\ IF ok THEN cleans' = cleans + 1 ELSE UNCHANGED cleans
  /\ UNCHANGED <<loop, appVars, control, scanVars, dropVars, queue, told>>

SendClean ==
  /\ loop = "run"
  /\ cleaner = "sending"
  /\ Len(queue) < QueueCap
  /\ queue' = Append(queue, Cleaned(cleanId, success))
  /\ cleaner' = "none"
  /\ UNCHANGED <<loop, appVars, control, scanVars, dropVars, success, cleans, told>>

-----------------------------------------------------------------------------
(* RunLoopContext::finish_disk_usage.                                      *)
FinishDiskUsage_AnyScan(id) ==  \* mutant: the id is not compared
  IF control # 0
  THEN Drop(control) /\ control' = 0
  ELSE UNCHANGED <<dropVars, control>>

FinishDiskUsage(id) ==
  IF control = id
  THEN Drop(id) /\ control' = 0
  ELSE UNCHANGED <<dropVars, control>>

(* App::apply_disk_usage.                                                  *)
ApplyDiskUsage(id, found) ==
  IF id # requestId
  THEN UNCHANGED <<loading, snapshot, error, completed>>
  ELSE /\ loading' = FALSE
       /\ completed' = TRUE
       /\ IF found.ok
          THEN snapshot' = found /\ error' = None
          ELSE error' = found /\ UNCHANGED snapshot

HandleUsage ==
  /\ loop = "run"
  /\ queue # <<>> /\ Head(queue).kind = "usage"
  /\ queue' = Tail(queue)
  /\ FinishDiskUsage(Head(queue).id)
  /\ ApplyDiskUsage(Head(queue).id, Head(queue).found)
  /\ UNCHANGED <<loop, requestId, cleanId, cleaning, scanVars, cleanVars, told>>

(* App::apply_cargo_clean: a success is followed by a scan.                *)
HandleClean ==
  /\ loop = "run"
  /\ queue # <<>> /\ Head(queue).kind = "clean"
  /\ queue' = Tail(queue)
  /\ cleaning' = FALSE
  /\ IF Head(queue).ok
     THEN BeginScan /\ told' = cleans
     ELSE UNCHANGED <<requestId, loading, snapshot, error, completed, control,
                      scanVars, dropVars, told>>
  /\ UNCHANGED <<loop, cleanId, cleanVars>>

(* The UI loop ends: the scan is cancelled, the receiver of the queue      *)
(* dropped, the cleanup aborted, which kills cargo.                        *)
Quit ==
  /\ loop = "run"
  /\ loop' = "shutdown"
  /\ CancelDiskUsage
  /\ control' = 0
  /\ queue' = <<>>
  /\ cleaner' = "none"
  /\ UNCHANGED <<appVars, scanVars, success, cleans, told>>

(* The runtime waits for the blocking threads that have begun.             *)
Exit ==
  /\ loop = "shutdown"
  /\ \A id \in Scans : walker[id] # "walking"
  /\ loop' = "exited"
  /\ UNCHANGED <<appVars, control, scanVars, dropVars, cleanVars, queue, told>>

-----------------------------------------------------------------------------
(* After startup_effects: the first scan has begun.                        *)
Init ==
  /\ loop = "run"
  /\ requestId = 1 /\ loading = TRUE
  /\ snapshot = None /\ error = None /\ completed = FALSE
  /\ cleanId = 0 /\ cleaning = FALSE
  /\ control = 1
  /\ task = [id \in 1..1 |-> "loading"] /\ walker = [id \in 1..1 |-> "queued"]
  /\ result = [id \in 1..1 |-> [ok |-> FALSE, seen |-> 0]]
  /\ cancelled = {} /\ aborted = {}
  /\ cleaner = "none" /\ success = FALSE /\ cleans = 0
  /\ queue = <<>> /\ told = 0

Walk(id) == EndWalk(id) \/ StopWalk(id)

Next ==
  \/ Refresh \/ Tick \/ RunCargoClean \/ CargoEnds \/ SendClean
  \/ HandleUsage \/ HandleClean \/ Quit \/ Exit
  \/ \E id \in Scans :
       \/ StartWalk(id) \/ EndWalk(id) \/ StopWalk(id)
       \/ SendUsage(id) \/ EndTask(id)

Spec == Init /\ [][Next]_vars

-----------------------------------------------------------------------------
AppTypes ==
  /\ loop \in {"run", "shutdown", "exited"}
  /\ requestId \in Nat \ {0} /\ cleanId \in Nat
  /\ loading \in BOOLEAN /\ completed \in BOOLEAN /\ cleaning \in BOOLEAN
  /\ snapshot \in Size \union {None} /\ error \in Size \union {None}

ScanTypes ==
  /\ control \in Nat
  /\ task \in [1..requestId -> TaskStage]
  /\ walker \in [1..requestId -> WalkStage]
  /\ result \in [1..requestId -> Size]
  /\ cancelled \subseteq 1..requestId /\ aborted \subseteq 1..requestId

QueueTypes ==
  /\ cleaner \in {"none", "cargo", "sending"} /\ success \in BOOLEAN
  /\ queue \in Seq(Event)
  /\ cleans \in Nat /\ told \in Nat

TypeOK == AppTypes /\ ScanTypes /\ QueueTypes

\* An answer to the scan the pane waits for is on its way.
AnswerComes(id) ==
  \/ task[id] = "loading" /\ id \notin cancelled \union aborted
  \/ task[id] = "sending" /\ id \notin aborted
  \/ \E k \in DOMAIN queue : queue[k].kind = "usage" /\ queue[k].id = id

(* While the pane says "scanning", the scan it waits for still has its     *)
(* task, uncancelled, or its answer is in the queue: however scans,        *)
(* cleanups and their late answers cross, none cancels the scan the pane   *)
(* is waiting for (begin_scan, refresh_disk_usage, finish_disk_usage).     *)
ScanIsUnderWay == loop = "run" /\ loading => AnswerComes(requestId)

(* Of all the threads that walk the directory at most one has not been     *)
(* told to stop, and when the UI loop has ended none: the exit of the      *)
(* process, which waits for them, never waits for a whole walk.            *)
OneScanAtMost ==
  \A id \in Scans :
    walker[id] # "over" => id \in cancelled \/ (loop = "run" /\ id = control)

(* Once the UI has said that cargo clean completed, no size or error that  *)
(* it shows as the outcome of a finished scan is of a walk begun before    *)
(* the directory was emptied (apply_cargo_clean, apply_disk_usage).        *)
ShownIsAfterClean ==
  ~loading /\ completed =>
    LET shown == IF error # None THEN error ELSE snapshot
    IN shown # None /\ shown.seen >= told

(* Scans, cleanups and their late answers cross in any order, and yet the  *)
(* pane waits for a scan that will answer, at most one walk goes on, and   *)
(* nothing measured before a cleanup is shown after it.                    *)
DiskInv == ScanIsUnderWay /\ OneScanAtMost /\ ShownIsAfterClean

(* The pane does not say "scanning" for ever: every scan concludes, is     *)
(* replaced by one that does, or the program ends.                         *)
ScanConcludes == loading ~> (~loading \/ loop # "run")
=============================================================================
