----------------------- MODULE BackgroundTasks_proofs ------------------------
(***************************************************************************)
(* The safety invariants of the background tasks for every capacity and    *)
(* every number of scans, cleanups and samples, and of any processes.      *)
(***************************************************************************)
EXTENDS BackgroundTasks, FiniteSetTheorems, TLAPS

-----------------------------------------------------------------------------
(***************************************************************************)
(* Disk usage.                                                             *)
(***************************************************************************)

\* The control held, if any, is of the scan the pane waits for, and that one
\* is held exactly while the pane waits; all others were told to stop.
ControlIsCurrent ==
  /\ control \in {0, requestId}
  /\ control # 0 => requestId \notin cancelled \union aborted
  /\ loop = "run" => (loading <=> control = requestId)
  /\ loop # "run" => control = 0
  /\ \A id \in 1..requestId : id # control => id \in cancelled

\* What was read of the directory since the pane began to wait is recent.
AnswersAreRecent ==
  /\ told <= cleans
  /\ walker[requestId] = "walking" \/ task[requestId] = "sending"
       => result[requestId].seen >= told
  /\ \A k \in 1..Len(queue) : queue[k].kind = "usage" =>
       /\ queue[k].id <= requestId
       /\ queue[k].id = requestId => queue[k].found.seen >= told

IInv == TypeOK /\ ControlIsCurrent /\ ScanIsUnderWay /\ AnswersAreRecent /\ ShownIsAfterClean

-----------------------------------------------------------------------------
LEMMA AppendEvent ==
  ASSUME NEW s \in Seq(Event), NEW e \in Event
  PROVE  /\ Append(s, e) \in Seq(Event)
         /\ Len(Append(s, e)) = Len(s) + 1
         /\ Len(s) \in Nat
         /\ \A i \in 1..Len(s) : Append(s, e)[i] = s[i]
         /\ Append(s, e)[Len(s) + 1] = e
  OBVIOUS

LEMMA TailEvent ==
  ASSUME NEW s \in Seq(Event), s # <<>>
  PROVE  /\ Tail(s) \in Seq(Event)
         /\ Head(s) \in Event /\ Head(s) = s[1]
         /\ Len(Tail(s)) = Len(s) - 1
         /\ Len(s) \in Nat \ {0}
         /\ \A i \in 1..Len(Tail(s)) : Tail(s)[i] = s[i + 1]
  OBVIOUS

-----------------------------------------------------------------------------
LEMMA InitIInv == Init => IInv
<1> SUFFICES ASSUME Init
             PROVE  IInv
  OBVIOUS
<1>s. [ok |-> FALSE, seen |-> 0] \in Size
  BY DEF Size
<1>q. <<>> \in Seq(Event)
  OBVIOUS
<1>t. /\ task \in [1..requestId -> TaskStage] /\ walker \in [1..requestId -> WalkStage]
      /\ result \in [1..requestId -> Size]
  BY <1>s DEF Init, TaskStage, WalkStage
<1>1. TypeOK
  <2>1. queue \in Seq(Event) /\ queue = <<>>
    BY <1>q DEF Init
  <2>2. /\ loop = "run" /\ requestId = 1 /\ cleanId = 0 /\ loading = TRUE
        /\ completed = FALSE /\ cleaning = FALSE /\ snapshot = None /\ error = None
        /\ control = 1 /\ cancelled = {} /\ aborted = {} /\ cleaner = "none"
        /\ success = FALSE /\ cleans = 0 /\ told = 0
    BY DEF Init
  <2>a. loading \in BOOLEAN /\ completed \in BOOLEAN /\ cleaning \in BOOLEAN
    BY <2>2, Zenon
  <2>3. AppTypes
    BY <2>2, <2>a DEF AppTypes
  <2>4. ScanTypes
    BY <2>2, <1>t DEF ScanTypes
  <2>5. QueueTypes
    BY <2>1, <2>2 DEF QueueTypes
  <2> QED
    BY <2>3, <2>4, <2>5 DEF TypeOK
<1>2. ControlIsCurrent /\ ScanIsUnderWay /\ AnswersAreRecent /\ ShownIsAfterClean
  BY DEF Init, ControlIsCurrent, ScanIsUnderWay, AnswerComes, AnswersAreRecent,
         ShownIsAfterClean
<1> QED
  BY <1>1, <1>2 DEF IInv

(* What BeginScan does to the tasks and to what the pane waits for.        *)
LEMMA BeginScanFacts ==
  ASSUME IInv, BeginScan, loop = "run"
  PROVE  /\ requestId' = requestId + 1 /\ control' = requestId'
         /\ requestId' \notin cancelled' \union aborted'
         /\ cancelled' \subseteq 1..requestId' /\ aborted' \subseteq 1..requestId'
         /\ \A id \in 1..requestId : id \in cancelled'
         /\ task' \in [1..requestId' -> TaskStage]
         /\ walker' \in [1..requestId' -> WalkStage]
         /\ result' \in [1..requestId' -> Size]
         /\ task'[requestId'] = "loading" /\ walker'[requestId'] = "queued"
         /\ loading' = TRUE /\ error' = None
         /\ snapshot' = snapshot /\ completed' = completed
<1>1. /\ requestId \in Nat \ {0} /\ control \in {0, requestId}
      /\ cancelled \subseteq 1..requestId /\ aborted \subseteq 1..requestId
      /\ \A id \in 1..requestId : id # control => id \in cancelled
      /\ task \in [1..requestId -> TaskStage]
      /\ walker \in [1..requestId -> WalkStage]
      /\ result \in [1..requestId -> Size]
  BY DEF IInv, TypeOK, AppTypes, ScanTypes, ControlIsCurrent
<1>2. /\ requestId' = requestId + 1 /\ control' = requestId + 1
      /\ task' = WithScan(task, "loading") /\ walker' = WithScan(walker, "queued")
      /\ result' = WithScan(result, [ok |-> FALSE, seen |-> 0])
      /\ loading' = TRUE /\ error' = None
      /\ snapshot' = snapshot /\ completed' = completed
  BY DEF BeginScan
<1>3. /\ cancelled' = IF control = 0 THEN cancelled ELSE cancelled \union {control}
      /\ aborted' = IF control = 0 THEN aborted ELSE aborted \union {control}
  BY DEF BeginScan, CancelDiskUsage, Drop, dropVars
<1>4. [ok |-> FALSE, seen |-> 0] \in Size
  BY DEF Size
<1>s. "loading" \in TaskStage /\ "queued" \in WalkStage
  BY DEF TaskStage, WalkStage
<1>5. task' \in [1..(requestId + 1) -> TaskStage] /\ task'[requestId + 1] = "loading"
  BY <1>1, <1>2, <1>s DEF WithScan
<1>6. walker' \in [1..(requestId + 1) -> WalkStage] /\ walker'[requestId + 1] = "queued"
  BY <1>1, <1>2, <1>s DEF WithScan
<1>7. result' \in [1..(requestId + 1) -> Size]
  BY <1>1, <1>2, <1>4 DEF WithScan
<1> QED
  BY <1>1, <1>2, <1>3, <1>5, <1>6, <1>7

(* A step that begins a scan, whatever else it does.                       *)
LEMMA BeginScanKeeps ==
  ASSUME IInv, BeginScan, loop = "run", loop' = loop,
         told' \in {told, cleans}, cleans' = cleans, cleanId' = cleanId,
         cleaning' \in BOOLEAN, cleaner' = cleaner, success' = success,
         queue' \in Seq(Event),
         \A k \in 1..Len(queue') : \E j \in 1..Len(queue) : queue'[k] = queue[j]
  PROVE  IInv'
<1>1. AppTypes /\ ScanTypes /\ QueueTypes /\ ControlIsCurrent /\ AnswersAreRecent
  BY DEF IInv, TypeOK
<1>2. TypeOK'
  <2>1. /\ loading' \in BOOLEAN /\ completed' \in BOOLEAN /\ cleaning' \in BOOLEAN
        /\ success' \in BOOLEAN
    BY <1>1, BeginScanFacts, Zenon DEF AppTypes, QueueTypes
  <2>2. AppTypes'
    BY <1>1, <2>1, BeginScanFacts DEF AppTypes
  <2>3. ScanTypes'
    BY <1>1, BeginScanFacts DEF ScanTypes, AppTypes
  <2>4. QueueTypes'
    BY <1>1, <2>1 DEF QueueTypes
  <2> QED
    BY <2>2, <2>3, <2>4 DEF TypeOK
<1>3. ControlIsCurrent'
  BY <1>1, BeginScanFacts DEF ControlIsCurrent, AppTypes
<1>4. ScanIsUnderWay'
  BY BeginScanFacts DEF ScanIsUnderWay, AnswerComes
<1>5. AnswersAreRecent'
  <2>1. told' <= cleans'
    BY <1>1 DEF AnswersAreRecent, QueueTypes
  <2>2. ~(walker'[requestId'] = "walking" \/ task'[requestId'] = "sending")
    BY BeginScanFacts
  <2>3. ASSUME NEW k \in 1..Len(queue'), queue'[k].kind = "usage"
        PROVE  queue'[k].id <= requestId' /\ queue'[k].id # requestId'
    <3>1. PICK j \in 1..Len(queue) : queue'[k] = queue[j]
      OBVIOUS
    <3>2. queue[j] \in Event /\ queue[j].id \in Nat
      BY <1>1 DEF QueueTypes, Event
    <3>3. queue[j].id <= requestId
      BY <1>1, <2>3, <3>1 DEF AnswersAreRecent
    <3> QED
      BY <1>1, <3>1, <3>2, <3>3, BeginScanFacts DEF AppTypes
  <2> QED
    BY <2>1, <2>2, <2>3 DEF AnswersAreRecent
<1>6. ShownIsAfterClean'
  BY BeginScanFacts DEF ShownIsAfterClean
<1> QED
  BY <1>2, <1>3, <1>4, <1>5, <1>6 DEF IInv

-----------------------------------------------------------------------------
LEMMA RefreshKeeps == IInv /\ (Refresh \/ Tick) => IInv'
<1> SUFFICES ASSUME IInv, Refresh \/ Tick
             PROVE  IInv'
  OBVIOUS
<1>1. /\ loop = "run" /\ BeginScan /\ loop' = loop /\ told' = told /\ cleans' = cleans
      /\ cleanId' = cleanId /\ cleaning' = cleaning /\ cleaner' = cleaner
      /\ success' = success /\ queue' = queue
  BY DEF Refresh, Tick, cleanVars
<1>2. cleaning' \in BOOLEAN /\ queue' \in Seq(Event)
  BY <1>1 DEF IInv, TypeOK, AppTypes, QueueTypes
<1> QED
  BY <1>1, <1>2, BeginScanKeeps

LEMMA RunCargoCleanKeeps == IInv /\ RunCargoClean => IInv'
<1> SUFFICES ASSUME IInv, RunCargoClean
             PROVE  IInv'
  OBVIOUS
<1> USE DEF IInv, TypeOK, RunCargoClean, scanVars, dropVars
<1>1. TypeOK'
  <2>1. AppTypes'
    BY DEF AppTypes
  <2>2. ScanTypes' /\ QueueTypes'
    BY DEF ScanTypes, QueueTypes
  <2> QED
    BY <2>1, <2>2
<1>2. ControlIsCurrent' /\ ScanIsUnderWay'
  BY DEF ControlIsCurrent, ScanIsUnderWay, AnswerComes
<1>3. AnswersAreRecent' /\ ShownIsAfterClean'
  BY DEF AnswersAreRecent, ShownIsAfterClean
<1> QED
  BY <1>1, <1>2, <1>3

(* The steps of the thread and of the task of one scan.                    *)
LEMMA StartWalkKeeps ==
  ASSUME IInv, NEW id \in Scans, StartWalk(id)
  PROVE  IInv'
<1>1. AppTypes /\ ScanTypes /\ QueueTypes /\ ControlIsCurrent /\ AnswersAreRecent
  BY DEF IInv, TypeOK
<1>2. /\ id \in 1..requestId
      /\ walker' = [walker EXCEPT ![id] = "walking"]
      /\ result' = [result EXCEPT ![id].seen = cleans]
      /\ UNCHANGED <<loop, appVars, control, task, dropVars, cleanVars, queue, told>>
  BY <1>1 DEF StartWalk, Scans, ScanTypes
<1>3. TypeOK'
  <2>1. AppTypes' /\ QueueTypes'
    BY <1>1, <1>2 DEF AppTypes, QueueTypes, appVars, cleanVars
  <2>2. ScanTypes'
    BY <1>1, <1>2 DEF ScanTypes, AppTypes, QueueTypes, appVars, dropVars, cleanVars, WalkStage, Size
  <2> QED
    BY <2>1, <2>2 DEF TypeOK
<1>4. ControlIsCurrent' /\ ScanIsUnderWay' /\ ShownIsAfterClean'
  BY <1>2 DEF IInv, ControlIsCurrent, ScanIsUnderWay, AnswerComes, ShownIsAfterClean,
              appVars, dropVars
<1>5. AnswersAreRecent'
  <2>1. result' [requestId].seen \in {result[requestId].seen, cleans}
        /\ (id # requestId => result'[requestId] = result[requestId]
                              /\ walker'[requestId] = walker[requestId])
        /\ (id = requestId => result'[requestId].seen = cleans)
    BY <1>1, <1>2 DEF ScanTypes, AppTypes, Size
  <2> QED
    BY <1>1, <1>2, <2>1 DEF AnswersAreRecent, appVars, cleanVars
<1> QED
  BY <1>3, <1>4, <1>5 DEF IInv

LEMMA EndWalkKeeps ==
  ASSUME IInv, NEW id \in Scans, EndWalk(id)
  PROVE  IInv'
<1>1. AppTypes /\ ScanTypes /\ QueueTypes /\ ControlIsCurrent /\ AnswersAreRecent
      /\ ScanIsUnderWay
  BY DEF IInv, TypeOK
<1>2. PICK ok \in BOOLEAN :
        /\ id \in 1..requestId
        /\ walker[id] = "walking"
        /\ walker' = [walker EXCEPT ![id] = "over"]
        /\ result' = [result EXCEPT ![id].ok = ok]
        /\ task' = [task EXCEPT ![id] = IF @ = "loading" THEN "sending" ELSE @]
        /\ UNCHANGED <<loop, appVars, control, dropVars, cleanVars, queue, told>>
  BY <1>1 DEF EndWalk, Scans, ScanTypes
<1>3. TypeOK'
  <2>1. AppTypes' /\ QueueTypes'
    BY <1>1, <1>2 DEF AppTypes, QueueTypes, appVars, cleanVars
  <2>2. task' \in [1..requestId -> TaskStage] /\ walker' \in [1..requestId -> WalkStage]
    BY <1>1, <1>2 DEF ScanTypes, TaskStage, WalkStage
  <2>3. [result[id] EXCEPT !.ok = ok] \in Size
    BY <1>1, <1>2 DEF ScanTypes, Size
  <2>4. ScanTypes'
    BY <1>1, <1>2, <2>2, <2>3 DEF ScanTypes, appVars, dropVars
  <2> QED
    BY <2>1, <2>4 DEF TypeOK
<1>4. ControlIsCurrent' /\ ShownIsAfterClean'
  BY <1>2 DEF IInv, ControlIsCurrent, ShownIsAfterClean, appVars, dropVars
<1>5. ScanIsUnderWay'
  BY <1>1, <1>2 DEF ScanIsUnderWay, AnswerComes, ScanTypes, AppTypes, appVars, dropVars
<1>6. AnswersAreRecent'
  <2>1. result'[requestId].seen = result[requestId].seen
    BY <1>1, <1>2 DEF ScanTypes, AppTypes, Size
  <2> QED
    BY <1>1, <1>2, <2>1 DEF AnswersAreRecent, ScanTypes, AppTypes, appVars, cleanVars
<1> QED
  BY <1>3, <1>4, <1>5, <1>6 DEF IInv

LEMMA StopWalkKeeps ==
  ASSUME IInv, NEW id \in Scans, StopWalk(id)
  PROVE  IInv'
<1>1. AppTypes /\ ScanTypes /\ QueueTypes /\ ControlIsCurrent /\ AnswersAreRecent
      /\ ScanIsUnderWay
  BY DEF IInv, TypeOK
<1>2. /\ id \in 1..requestId /\ id \in cancelled
      /\ walker' = [walker EXCEPT ![id] = "over"]
      /\ task' = [task EXCEPT ![id] = "over"]
      /\ UNCHANGED <<loop, appVars, control, result, dropVars, cleanVars, queue, told>>
  BY <1>1 DEF StopWalk, Scans, ScanTypes
<1>3. TypeOK'
  <2>1. AppTypes' /\ QueueTypes'
    BY <1>1, <1>2 DEF AppTypes, QueueTypes, appVars, cleanVars
  <2>2. task' \in [1..requestId -> TaskStage] /\ walker' \in [1..requestId -> WalkStage]
    BY <1>1, <1>2 DEF ScanTypes, TaskStage, WalkStage
  <2>3. ScanTypes'
    BY <1>1, <1>2, <2>2 DEF ScanTypes, appVars, dropVars
  <2> QED
    BY <2>1, <2>3 DEF TypeOK
<1>4. ControlIsCurrent' /\ ShownIsAfterClean'
  BY <1>2 DEF IInv, ControlIsCurrent, ShownIsAfterClean, appVars, dropVars
<1>5. ScanIsUnderWay'
  <2> SUFFICES ASSUME loop' = "run", loading'
               PROVE  AnswerComes(requestId)'
    BY DEF ScanIsUnderWay
  <2>1. id # requestId
    BY <1>1, <1>2 DEF ControlIsCurrent, AppTypes, appVars
  <2> QED
    BY <1>1, <1>2, <2>1 DEF ScanIsUnderWay, AnswerComes, ScanTypes, AppTypes, appVars, dropVars
<1>6. AnswersAreRecent'
  BY <1>1, <1>2 DEF AnswersAreRecent, ScanTypes, AppTypes, appVars, cleanVars
<1> QED
  BY <1>3, <1>4, <1>5, <1>6 DEF IInv

LEMMA SendUsageKeeps ==
  ASSUME IInv, NEW id \in Scans, SendUsage(id)
  PROVE  IInv'
<1>1. AppTypes /\ ScanTypes /\ QueueTypes /\ ControlIsCurrent /\ AnswersAreRecent
      /\ ScanIsUnderWay
  BY DEF IInv, TypeOK
<1> DEFINE e == Usage(id, result[id])
<1>2. /\ id \in 1..requestId /\ task[id] = "sending"
      /\ queue' = Append(queue, e)
      /\ task' = [task EXCEPT ![id] = "over"]
      /\ UNCHANGED <<loop, appVars, control, walker, result, dropVars, cleanVars, told>>
  BY <1>1 DEF SendUsage, Scans, ScanTypes
<1>3. e \in Event /\ e.kind = "usage" /\ e.id = id /\ e.found = result[id]
  BY <1>1, <1>2 DEF Usage, Event, ScanTypes, AppTypes
<1>q. /\ queue' \in Seq(Event) /\ Len(queue') = Len(queue) + 1 /\ Len(queue) \in Nat
      /\ \A k \in 1..Len(queue) : queue'[k] = queue[k]
      /\ queue'[Len(queue) + 1] = e
  <2> HIDE DEF e
  <2> QED
    BY <1>1, <1>2, <1>3, AppendEvent DEF QueueTypes
<1> HIDE DEF e
<1>4. TypeOK'
  <2>1. AppTypes' /\ QueueTypes'
    BY <1>1, <1>2, <1>q DEF AppTypes, QueueTypes, appVars, cleanVars
  <2>2. task' \in [1..requestId -> TaskStage]
    BY <1>1, <1>2 DEF ScanTypes, TaskStage
  <2>3. ScanTypes'
    BY <1>1, <1>2, <2>2 DEF ScanTypes, appVars, dropVars
  <2> QED
    BY <2>1, <2>3 DEF TypeOK
<1>5. ControlIsCurrent' /\ ShownIsAfterClean'
  BY <1>2 DEF IInv, ControlIsCurrent, ShownIsAfterClean, appVars, dropVars
<1>6. ScanIsUnderWay'
  <2> SUFFICES ASSUME loop' = "run", loading'
               PROVE  AnswerComes(requestId)'
    BY DEF ScanIsUnderWay
  <2>1. AnswerComes(requestId) /\ requestId' = requestId
    BY <1>1, <1>2 DEF ScanIsUnderWay, appVars
  <2>2. CASE id = requestId
    <3>1. queue'[Len(queue) + 1].kind = "usage" /\ queue'[Len(queue) + 1].id = requestId
          /\ Len(queue) + 1 \in DOMAIN queue'
      BY <1>3, <1>q, <2>2
    <3> QED
      BY <2>1, <3>1 DEF AnswerComes
  <2>3. CASE id # requestId /\ \E k \in DOMAIN queue :
                                  queue[k].kind = "usage" /\ queue[k].id = requestId
    <3>1. PICK k \in 1..Len(queue) : queue[k].kind = "usage" /\ queue[k].id = requestId
      BY <1>1, <2>3 DEF QueueTypes
    <3>2. queue'[k] = queue[k] /\ k \in DOMAIN queue'
      BY <1>q
    <3> QED
      BY <2>1, <3>1, <3>2 DEF AnswerComes
  <2>4. CASE id # requestId /\ ~\E k \in DOMAIN queue :
                                  queue[k].kind = "usage" /\ queue[k].id = requestId
    BY <1>1, <1>2, <2>1, <2>4 DEF AnswerComes, ScanTypes, AppTypes, dropVars
  <2> QED
    BY <2>2, <2>3, <2>4
<1>7. AnswersAreRecent'
  <2>1. told' <= cleans'
    BY <1>1, <1>2 DEF AnswersAreRecent, cleanVars
  <2>2. (walker'[requestId'] = "walking" \/ task'[requestId'] = "sending")
          => result'[requestId'].seen >= told'
    BY <1>1, <1>2 DEF AnswersAreRecent, ScanTypes, AppTypes, appVars
  <2>3. ASSUME NEW k \in 1..Len(queue'), queue'[k].kind = "usage"
        PROVE  /\ queue'[k].id <= requestId'
               /\ queue'[k].id = requestId' => queue'[k].found.seen >= told'
    <3>1. CASE k \in 1..Len(queue)
      BY <1>1, <1>2, <1>q, <2>3, <3>1 DEF AnswersAreRecent, appVars
    <3>2. CASE k = Len(queue) + 1
      BY <1>1, <1>2, <1>3, <1>q, <3>2 DEF AnswersAreRecent, appVars, AppTypes
    <3> QED
      BY <1>q, <3>1, <3>2
  <2> QED
    BY <2>1, <2>2, <2>3 DEF AnswersAreRecent
<1> QED
  BY <1>4, <1>5, <1>6, <1>7 DEF IInv

LEMMA EndTaskKeeps ==
  ASSUME IInv, NEW id \in Scans, EndTask(id)
  PROVE  IInv'
<1>1. AppTypes /\ ScanTypes /\ QueueTypes /\ ControlIsCurrent /\ AnswersAreRecent
      /\ ScanIsUnderWay
  BY DEF IInv, TypeOK
<1>2. /\ id \in 1..requestId /\ id \in aborted
      /\ task' = [task EXCEPT ![id] = "over"]
      /\ UNCHANGED <<loop, appVars, control, walker, result, dropVars, cleanVars, queue, told>>
  BY <1>1 DEF EndTask, Scans, ScanTypes
<1>3. TypeOK'
  <2>1. AppTypes' /\ QueueTypes'
    BY <1>1, <1>2 DEF AppTypes, QueueTypes, appVars, cleanVars
  <2>2. task' \in [1..requestId -> TaskStage]
    BY <1>1, <1>2 DEF ScanTypes, TaskStage
  <2>3. ScanTypes'
    BY <1>1, <1>2, <2>2 DEF ScanTypes, appVars, dropVars
  <2> QED
    BY <2>1, <2>3 DEF TypeOK
<1>4. ControlIsCurrent' /\ ShownIsAfterClean'
  BY <1>2 DEF IInv, ControlIsCurrent, ShownIsAfterClean, appVars, dropVars
<1>5. ScanIsUnderWay'
  <2> SUFFICES ASSUME loop' = "run", loading'
               PROVE  AnswerComes(requestId)'
    BY DEF ScanIsUnderWay
  <2>1. id # requestId
    BY <1>1, <1>2 DEF ControlIsCurrent, AppTypes, appVars
  <2> QED
    BY <1>1, <1>2, <2>1 DEF ScanIsUnderWay, AnswerComes, ScanTypes, AppTypes, appVars, dropVars
<1>6. AnswersAreRecent'
  BY <1>1, <1>2 DEF AnswersAreRecent, ScanTypes, AppTypes, appVars, cleanVars
<1> QED
  BY <1>3, <1>4, <1>5, <1>6 DEF IInv

LEMMA CargoEndsKeeps == IInv /\ CargoEnds => IInv'
<1> SUFFICES ASSUME IInv, CargoEnds
             PROVE  IInv'
  OBVIOUS
<1>1. AppTypes /\ ScanTypes /\ QueueTypes /\ ControlIsCurrent /\ AnswersAreRecent
  BY DEF IInv, TypeOK
<1>2. /\ success' \in BOOLEAN /\ cleans' \in {cleans, cleans + 1} /\ cleaner' = "sending"
      /\ UNCHANGED <<loop, appVars, control, scanVars, dropVars, queue, told>>
  BY DEF CargoEnds
<1>3. TypeOK'
  <2>1. AppTypes' /\ ScanTypes'
    BY <1>1, <1>2 DEF AppTypes, ScanTypes, appVars, scanVars, dropVars
  <2>2. QueueTypes'
    BY <1>1, <1>2 DEF QueueTypes
  <2> QED
    BY <2>1, <2>2 DEF TypeOK
<1>4. ControlIsCurrent' /\ ShownIsAfterClean' /\ ScanIsUnderWay'
  BY <1>2 DEF IInv, ControlIsCurrent, ShownIsAfterClean, ScanIsUnderWay, AnswerComes,
              appVars, scanVars, dropVars
<1>5. AnswersAreRecent'
  BY <1>1, <1>2 DEF AnswersAreRecent, QueueTypes, appVars, scanVars
<1> QED
  BY <1>3, <1>4, <1>5 DEF IInv

LEMMA SendCleanKeeps == IInv /\ SendClean => IInv'
<1> SUFFICES ASSUME IInv, SendClean
             PROVE  IInv'
  OBVIOUS
<1>1. AppTypes /\ ScanTypes /\ QueueTypes /\ ControlIsCurrent /\ AnswersAreRecent
      /\ ScanIsUnderWay
  BY DEF IInv, TypeOK
<1> DEFINE e == Cleaned(cleanId, success)
<1>2. /\ queue' = Append(queue, e) /\ cleaner' = "none"
      /\ UNCHANGED <<loop, appVars, control, scanVars, dropVars, success, cleans, told>>
  BY DEF SendClean
<1>3. e \in Event /\ e.kind = "clean"
  BY <1>1 DEF Cleaned, Event, AppTypes, QueueTypes
<1> HIDE DEF e
<1>q. /\ queue' \in Seq(Event) /\ Len(queue') = Len(queue) + 1 /\ Len(queue) \in Nat
      /\ \A k \in 1..Len(queue) : queue'[k] = queue[k]
      /\ queue'[Len(queue) + 1] = e
  BY <1>1, <1>2, <1>3, AppendEvent DEF QueueTypes
<1>4. TypeOK'
  <2>1. AppTypes' /\ ScanTypes'
    BY <1>1, <1>2 DEF AppTypes, ScanTypes, appVars, scanVars, dropVars
  <2>2. QueueTypes'
    BY <1>1, <1>2, <1>q DEF QueueTypes
  <2> QED
    BY <2>1, <2>2 DEF TypeOK
<1>5. ControlIsCurrent' /\ ShownIsAfterClean'
  BY <1>2 DEF IInv, ControlIsCurrent, ShownIsAfterClean, appVars, dropVars
<1>6. ScanIsUnderWay'
  <2>1. \A k \in DOMAIN queue : k \in DOMAIN queue' /\ queue'[k] = queue[k]
    BY <1>1, <1>q DEF QueueTypes
  <2> QED
    BY <1>1, <1>2, <2>1 DEF ScanIsUnderWay, AnswerComes, appVars, scanVars, dropVars
<1>7. AnswersAreRecent'
  <2>1. ASSUME NEW k \in 1..Len(queue'), queue'[k].kind = "usage"
        PROVE  /\ queue'[k].id <= requestId'
               /\ queue'[k].id = requestId' => queue'[k].found.seen >= told'
    <3>1. k \in 1..Len(queue)
      BY <1>3, <1>q, <2>1
    <3> QED
      BY <1>1, <1>2, <1>q, <2>1, <3>1 DEF AnswersAreRecent, appVars
  <2> QED
    BY <1>1, <1>2, <2>1 DEF AnswersAreRecent, appVars, scanVars
<1> QED
  BY <1>4, <1>5, <1>6, <1>7 DEF IInv

LEMMA HandleUsageKeeps == IInv /\ HandleUsage => IInv'
<1> SUFFICES ASSUME IInv, HandleUsage
             PROVE  IInv'
  OBVIOUS
<1>1. AppTypes /\ ScanTypes /\ QueueTypes /\ ControlIsCurrent /\ AnswersAreRecent
      /\ ScanIsUnderWay /\ ShownIsAfterClean
  BY DEF IInv, TypeOK
<1> DEFINE id == Head(queue).id
           found == Head(queue).found
<1>2. /\ loop = "run" /\ queue # <<>> /\ Head(queue).kind = "usage" /\ queue' = Tail(queue)
      /\ FinishDiskUsage(id) /\ ApplyDiskUsage(id, found)
      /\ UNCHANGED <<loop, requestId, cleanId, cleaning, scanVars, cleanVars, told>>
  BY DEF HandleUsage
<1>3. /\ Tail(queue) \in Seq(Event) /\ Head(queue) \in Event /\ Head(queue) = queue[1]
      /\ Len(Tail(queue)) = Len(queue) - 1 /\ Len(queue) \in Nat \ {0}
      /\ \A i \in 1..Len(Tail(queue)) : Tail(queue)[i] = queue[i + 1]
  BY <1>1, <1>2, TailEvent DEF QueueTypes
<1>4. id \in 1..requestId /\ found \in Size /\ (id = requestId => found.seen >= told)
  BY <1>1, <1>2, <1>3 DEF AnswersAreRecent, Event, AppTypes
<1>5. found # None
  BY <1>4, DiskAssumption DEF Size
<1> HIDE DEF id, found
<1>6. /\ control' = IF control = id THEN 0 ELSE control
      /\ cancelled' = IF control = id THEN cancelled \union {id} ELSE cancelled
      /\ aborted' = IF control = id THEN aborted \union {id} ELSE aborted
  BY <1>2 DEF FinishDiskUsage, Drop, dropVars
<1>7. TypeOK'
  <2>1. loading' \in BOOLEAN /\ completed' \in BOOLEAN /\ cleaning' \in BOOLEAN
    BY <1>1, <1>2, Zenon DEF ApplyDiskUsage, AppTypes
  <2>2. AppTypes'
    BY <1>1, <1>2, <1>4, <2>1 DEF ApplyDiskUsage, AppTypes
  <2>3. ScanTypes'
    BY <1>1, <1>2, <1>4, <1>6 DEF ScanTypes, scanVars
  <2>4. QueueTypes'
    BY <1>1, <1>2, <1>3 DEF QueueTypes, cleanVars
  <2> QED
    BY <2>2, <2>3, <2>4 DEF TypeOK
<1>8. ControlIsCurrent'
  BY <1>1, <1>2, <1>4, <1>6 DEF ControlIsCurrent, ApplyDiskUsage, AppTypes
<1>9. ScanIsUnderWay'
  <2> SUFFICES ASSUME loop' = "run", loading'
               PROVE  AnswerComes(requestId)'
    BY DEF ScanIsUnderWay
  <2>1. id # requestId /\ loading' = loading /\ requestId' = requestId
    BY <1>2 DEF ApplyDiskUsage
  <2>2. AnswerComes(requestId) /\ control = requestId /\ control # id
    BY <1>1, <1>2, <2>1 DEF ScanIsUnderWay, ControlIsCurrent
  <2>3. CASE \E k \in DOMAIN queue : queue[k].kind = "usage" /\ queue[k].id = requestId
    <3>1. PICK k \in 1..Len(queue) : queue[k].kind = "usage" /\ queue[k].id = requestId
      BY <1>1, <2>3 DEF QueueTypes
    <3>2. k # 1
      BY <1>3, <2>1, <3>1 DEF id
    <3>3. k - 1 \in 1..Len(Tail(queue)) /\ Tail(queue)[k - 1] = queue[k]
      BY <1>3, <3>1, <3>2
    <3>4. k - 1 \in DOMAIN queue' /\ queue'[k - 1] = queue[k]
      BY <1>2, <1>3, <3>3
    <3> QED
      BY <2>1, <3>1, <3>4 DEF AnswerComes
  <2>4. CASE ~\E k \in DOMAIN queue : queue[k].kind = "usage" /\ queue[k].id = requestId
    BY <1>2, <1>6, <2>1, <2>2, <2>4 DEF AnswerComes, scanVars
  <2> QED
    BY <2>3, <2>4
<1>10. AnswersAreRecent'
  <2>1. \A k \in 1..Len(queue') : k + 1 \in 1..Len(queue) /\ queue'[k] = queue[k + 1]
    BY <1>2, <1>3
  <2>2. \A k \in 1..Len(queue') : queue'[k].kind = "usage" =>
          /\ queue'[k].id <= requestId
          /\ queue'[k].id = requestId => queue'[k].found.seen >= told
    BY <1>1, <2>1 DEF AnswersAreRecent
  <2> QED
    BY <1>1, <1>2, <2>2 DEF AnswersAreRecent, scanVars, cleanVars
<1>11. ShownIsAfterClean'
  BY <1>1, <1>2, <1>4, <1>5 DEF ShownIsAfterClean, ApplyDiskUsage
<1> QED
  BY <1>7, <1>8, <1>9, <1>10, <1>11 DEF IInv

LEMMA HandleCleanKeeps == IInv /\ HandleClean => IInv'
<1> SUFFICES ASSUME IInv, HandleClean
             PROVE  IInv'
  OBVIOUS
<1>1. AppTypes /\ ScanTypes /\ QueueTypes /\ ControlIsCurrent /\ AnswersAreRecent
      /\ ScanIsUnderWay /\ ShownIsAfterClean
  BY DEF IInv, TypeOK
<1>2. /\ loop = "run" /\ queue # <<>> /\ Head(queue).kind = "clean" /\ queue' = Tail(queue)
      /\ cleaning' = FALSE /\ UNCHANGED <<loop, cleanId, cleanVars>>
  BY DEF HandleClean
<1>3. /\ Tail(queue) \in Seq(Event) /\ Head(queue) = queue[1]
      /\ Len(Tail(queue)) = Len(queue) - 1 /\ Len(queue) \in Nat \ {0}
      /\ \A i \in 1..Len(Tail(queue)) : Tail(queue)[i] = queue[i + 1]
  BY <1>1, <1>2, TailEvent DEF QueueTypes
<1>4. \A k \in 1..Len(queue') : k + 1 \in 1..Len(queue) /\ queue'[k] = queue[k + 1]
  BY <1>2, <1>3
<1>5. CASE BeginScan /\ told' = cleans
  BY <1>2, <1>3, <1>4, <1>5, BeginScanKeeps DEF cleanVars
<1>6. CASE UNCHANGED <<requestId, loading, snapshot, error, completed, control,
                       scanVars, dropVars, told>>
  <2>1. TypeOK'
    <3>1. cleaning' \in BOOLEAN /\ loading' \in BOOLEAN /\ completed' \in BOOLEAN
      BY <1>1, <1>2, <1>6, Zenon DEF AppTypes
    <3>2. AppTypes'
      BY <1>1, <1>2, <1>6, <3>1 DEF AppTypes
    <3>3. ScanTypes' /\ QueueTypes'
      BY <1>1, <1>2, <1>3, <1>6 DEF ScanTypes, QueueTypes, scanVars, dropVars, cleanVars
    <3> QED
      BY <3>2, <3>3 DEF TypeOK
  <2>2. ControlIsCurrent' /\ ShownIsAfterClean'
    BY <1>1, <1>2, <1>6 DEF ControlIsCurrent, ShownIsAfterClean, dropVars
  <2>3. ScanIsUnderWay'
    <3> SUFFICES ASSUME loading
                 PROVE  AnswerComes(requestId)'
      BY <1>6 DEF ScanIsUnderWay
    <3>1. AnswerComes(requestId)
      BY <1>1, <1>2 DEF ScanIsUnderWay
    <3>2. ASSUME NEW k \in 1..Len(queue), queue[k].kind = "usage"
          PROVE  k - 1 \in DOMAIN queue' /\ queue'[k - 1] = queue[k]
      <4>1. k # 1
        BY <1>2, <1>3, <3>2
      <4>2. k - 1 \in 1..Len(Tail(queue)) /\ Tail(queue)[k - 1] = queue[k]
        BY <1>3, <4>1
      <4> QED
        BY <1>2, <1>3, <4>2
    <3>3. CASE \E k \in DOMAIN queue : queue[k].kind = "usage" /\ queue[k].id = requestId
      <4>1. PICK k \in 1..Len(queue) : queue[k].kind = "usage" /\ queue[k].id = requestId
        BY <1>1, <3>3 DEF QueueTypes
      <4> QED
        BY <1>6, <3>2, <4>1 DEF AnswerComes
    <3>4. CASE ~\E k \in DOMAIN queue : queue[k].kind = "usage" /\ queue[k].id = requestId
      BY <1>6, <3>1, <3>4 DEF AnswerComes, scanVars, dropVars
    <3> QED
      BY <3>3, <3>4
  <2>4. AnswersAreRecent'
    <3>1. \A k \in 1..Len(queue') : queue'[k].kind = "usage" =>
            /\ queue'[k].id <= requestId
            /\ queue'[k].id = requestId => queue'[k].found.seen >= told
      BY <1>1, <1>4 DEF AnswersAreRecent
    <3> QED
      BY <1>1, <1>2, <1>6, <3>1 DEF AnswersAreRecent, scanVars, cleanVars
  <2> QED
    BY <2>1, <2>2, <2>3, <2>4 DEF IInv
<1> QED
  BY <1>5, <1>6 DEF HandleClean

LEMMA QuitKeeps == IInv /\ Quit => IInv'
<1> SUFFICES ASSUME IInv, Quit
             PROVE  IInv'
  OBVIOUS
<1>1. AppTypes /\ ScanTypes /\ QueueTypes /\ ControlIsCurrent /\ AnswersAreRecent
      /\ ShownIsAfterClean
  BY DEF IInv, TypeOK
<1>2. /\ loop' = "shutdown" /\ control' = 0 /\ queue' = <<>> /\ cleaner' = "none"
      /\ UNCHANGED <<appVars, scanVars, success, cleans, told>>
      /\ cancelled' = IF control = 0 THEN cancelled ELSE cancelled \union {control}
      /\ aborted' = IF control = 0 THEN aborted ELSE aborted \union {control}
  BY DEF Quit, CancelDiskUsage, Drop, dropVars
<1>3. TypeOK'
  <2>1. queue' \in Seq(Event)
    BY <1>2
  <2>2. AppTypes' /\ QueueTypes'
    BY <1>1, <1>2, <2>1 DEF AppTypes, QueueTypes, appVars
  <2>3. ScanTypes'
    BY <1>1, <1>2 DEF ScanTypes, AppTypes, ControlIsCurrent, appVars, scanVars
  <2> QED
    BY <2>2, <2>3 DEF TypeOK
<1>4. ControlIsCurrent'
  BY <1>1, <1>2 DEF ControlIsCurrent, AppTypes, appVars
<1>5. ScanIsUnderWay' /\ ShownIsAfterClean'
  BY <1>1, <1>2 DEF ScanIsUnderWay, ShownIsAfterClean, appVars
<1>6. AnswersAreRecent'
  BY <1>1, <1>2 DEF AnswersAreRecent, appVars, scanVars
<1> QED
  BY <1>3, <1>4, <1>5, <1>6 DEF IInv

LEMMA StillKeeps == IInv /\ (Exit \/ UNCHANGED vars) => IInv'
<1> SUFFICES ASSUME IInv, Exit \/ UNCHANGED vars
             PROVE  IInv'
  OBVIOUS
<1>1. AppTypes /\ ScanTypes /\ QueueTypes /\ ControlIsCurrent /\ AnswersAreRecent
      /\ ShownIsAfterClean /\ ScanIsUnderWay
  BY DEF IInv, TypeOK
<1>2. /\ loop' = loop \/ (loop # "run" /\ loop' = "exited")
      /\ UNCHANGED <<appVars, control, scanVars, dropVars, cleanVars, queue, told>>
  BY DEF Exit, vars
<1>3. AppTypes' /\ ScanTypes' /\ QueueTypes'
  BY <1>1, <1>2 DEF AppTypes, ScanTypes, QueueTypes, appVars, scanVars, dropVars, cleanVars
<1>4. ControlIsCurrent' /\ AnswersAreRecent'
  BY <1>1, <1>2 DEF ControlIsCurrent, AnswersAreRecent, appVars, scanVars, dropVars, cleanVars
<1>5. ShownIsAfterClean' /\ ScanIsUnderWay'
  BY <1>1, <1>2 DEF ShownIsAfterClean, ScanIsUnderWay, AnswerComes, appVars, scanVars, dropVars
<1> QED
  BY <1>3, <1>4, <1>5 DEF IInv, TypeOK

-----------------------------------------------------------------------------
LEMMA NextKeeps == IInv /\ [Next]_vars => IInv'
<1> SUFFICES ASSUME IInv, [Next]_vars
             PROVE  IInv'
  OBVIOUS
<1>1. CASE Refresh \/ Tick
  BY <1>1, RefreshKeeps
<1>2. CASE RunCargoClean
  BY <1>2, RunCargoCleanKeeps
<1>3. CASE CargoEnds
  BY <1>3, CargoEndsKeeps
<1>4. CASE SendClean
  BY <1>4, SendCleanKeeps
<1>5. CASE HandleUsage
  BY <1>5, HandleUsageKeeps
<1>6. CASE HandleClean
  BY <1>6, HandleCleanKeeps
<1>7. CASE Quit
  BY <1>7, QuitKeeps
<1>8. CASE Exit \/ UNCHANGED vars
  BY <1>8, StillKeeps
<1>9. ASSUME NEW id \in Scans,
             StartWalk(id) \/ EndWalk(id) \/ StopWalk(id) \/ SendUsage(id) \/ EndTask(id)
      PROVE  IInv'
  BY <1>9, StartWalkKeeps, EndWalkKeeps, StopWalkKeeps, SendUsageKeeps, EndTaskKeeps
<1> QED
  BY <1>1, <1>2, <1>3, <1>4, <1>5, <1>6, <1>7, <1>8, <1>9 DEF Next

(* The strengthened invariant holds of every behaviour.                    *)
THEOREM Invariance == Spec => []IInv
BY InitIInv, NextKeeps, PTL DEF Spec

(* While the pane says "scanning" the answer it waits for is on its way,   *)
(* whatever the capacity of the queue and however many scans are begun.    *)
THEOREM Awaited == Spec => []ScanIsUnderWay
<1>1. IInv => ScanIsUnderWay
  BY DEF IInv
<1> QED
  BY <1>1, Invariance, PTL

(* What is shown once a cleanup was announced was measured after it.       *)
THEOREM Recent == Spec => []ShownIsAfterClean
<1>1. IInv => ShownIsAfterClean
  BY DEF IInv
<1> QED
  BY <1>1, Invariance, PTL

LEMMA OneScanOfIInv == IInv => OneScanAtMost
<1> SUFFICES ASSUME IInv, NEW id \in Scans
             PROVE  id \in cancelled \/ (loop = "run" /\ id = control)
  BY DEF OneScanAtMost
<1>1. id \in 1..requestId
  BY DEF Scans, IInv, TypeOK, ScanTypes
<1> QED
  BY <1>1 DEF IInv, ControlIsCurrent

(* At most one walk goes on that was not told to stop, and none after the  *)
(* UI loop has ended.                                                      *)
THEOREM OneScan == Spec => []OneScanAtMost
BY OneScanOfIInv, Invariance, PTL

(* The three together, beside the stack samples: whatever the order of     *)
(* scans, cleanups and late answers (refresh_disk_usage,                   *)
(* finish_disk_usage, apply_disk_usage).                                   *)
THEOREM DiskIsSound == BackgroundSpec => []DiskInv
<1>1. BackgroundInit => IInv
  BY InitIInv DEF BackgroundInit
<1>2. IInv /\ [BackgroundNext]_backgroundVars => IInv'
  <2>1. [BackgroundNext]_backgroundVars => [Next]_vars
    BY DEF BackgroundNext, backgroundVars, DiskRests, diskVars, vars
  <2> QED
    BY <2>1, NextKeeps
<1>3. IInv => DiskInv
  BY OneScanOfIInv DEF IInv, DiskInv
<1> QED
  BY <1>1, <1>2, <1>3, PTL DEF BackgroundSpec

-----------------------------------------------------------------------------
(***************************************************************************)
(* Stack samples.                                                          *)
(***************************************************************************)

Fields == [test : Tests, pid : Processes, sampled : SUBSET Processes, found : SUBSET Processes,
           complete : BOOLEAN, exited : BOOLEAN]
Reports == {Sample!Failure} \union [ok : {TRUE}, fields : Fields]
Sampler == [at : {"over", "queued", "sampling", "sending"}, root : Processes \union {Nobody},
            test : Tests \union {Nobody}, first : SUBSET Processes,
            selected : Processes \union {Nobody}, todo : SUBSET Processes,
            sampled : SUBSET Processes, failed : Nat, report : Reports \union {Nobody}]

SampleTypes ==
  /\ stage \in {"run", "shutdown", "exited"}
  /\ pane \in [open : BOOLEAN, running : BOOLEAN, title : Tests \union {Nobody},
               report : Reports \union {Nobody}]
  /\ samplers \in Seq(Sampler) /\ Len(samplers) <= MaxSamples
  /\ answers \in Seq(Reports)

\* The leader of a process group was there before its members.
WorldInv ==
  /\ tracker \in Roots \union {Nobody}
  /\ alive \subseteq Processes /\ gone \subseteq Processes \ alive /\ IsFiniteSet(alive)
  /\ \A p \in alive \union gone : GroupOf[p] \in alive \union gone

Holds(r) ==
  r.ok =>
    LET f == r.fields
    IN /\ f.test = pane.title /\ TestOf[f.pid] = pane.title
       /\ f.pid \in f.sampled /\ f.sampled \subseteq f.found
       /\ f.complete => f.sampled = f.found
       /\ f.pid \in alive \union gone
       /\ f.exited => \A p \in alive : GroupOf[p] # GroupOf[f.pid]

\* What was found of the test, and what became of it so far.
SamplingInv(s) ==
  /\ s.selected \in alive \union gone /\ TestOf[s.selected] = s.test
  /\ s.selected \in s.sampled \union s.todo
  /\ s.sampled \union s.todo \subseteq s.first /\ IsFiniteSet(s.first)
  /\ s.failed = 0 /\ Cardinality(s.first) <= MaxSampled => s.first \subseteq s.sampled \union s.todo

SamplerInv(s) ==
  /\ s.at \in {"queued", "sampling"} => s.test = pane.title /\ s.test \in Tests
  /\ s.at = "queued" => s.sampled = {}
  /\ s.at = "sampling" => SamplingInv(s)
  /\ s.at = "sending" => s.report \in Reports /\ Holds(s.report)

SamplersInv == \A k \in DOMAIN samplers : SamplerInv(samplers[k])

AnswersInv ==
  /\ \A i \in 1..Len(answers) : Holds(answers[i])
  /\ pane.report # Nobody => Holds(pane.report)

NoneBusy == \A k \in DOMAIN samplers : samplers[k].at = "over"
OnlyBusy(k) == \A j \in DOMAIN samplers : samplers[j].at # "over" <=> j = k

WayInv ==
  /\ stage # "run" => answers = <<>>
  /\ stage = "run" =>
       \/ pane.running /\ answers = <<>> /\ \E k \in DOMAIN samplers : OnlyBusy(k)
       \/ pane.running /\ Len(answers) = 1 /\ NoneBusy
       \/ ~pane.running /\ answers = <<>> /\ NoneBusy

SampleInv == SampleTypes /\ WorldInv /\ SamplersInv /\ AnswersInv /\ WayInv

-----------------------------------------------------------------------------
\* One Cardinality: that of the instance is that of the library.
LEMMA SameCardinality == \A S : Sample!Cardinality(S) = Cardinality(S)
BY Zenon DEF Sample!Cardinality, Cardinality

(* What process_tree finds is in its snapshot, and the process itself: the *)
(* function "wanted" exists (the least set that holds the root and every   *)
(* process whose parent it holds).                                         *)
LEMMA OwnTree ==
  ASSUME WorldInv, NEW root \in Processes
  PROVE  /\ Sample!ProcessTree(root, alive) \subseteq alive
         /\ root \in alive => root \in Sample!ProcessTree(root, alive)
<1> DEFINE Reach(S) == {p \in Processes :
                          p = root \/ (p \in alive /\ ParentOf[p] \in alive /\ ParentOf[p] \in S)}
           Below == {p \in Processes : \A S \in SUBSET Processes : Reach(S) \subseteq S => p \in S}
           Step(w) == [p \in Processes |->
                         p = root \/ (p \in alive /\ ParentOf[p] \in alive /\ w[ParentOf[p]])]
           held == [p \in Processes |-> p \in Below]
           wanted == CHOOSE w : w = Step(w)
<1>1. Reach(Below) \subseteq Below
  <2> SUFFICES ASSUME NEW p \in Reach(Below), NEW S \in SUBSET Processes, Reach(S) \subseteq S
               PROVE  p \in S
    OBVIOUS
  <2>1. Below \subseteq S
    OBVIOUS
  <2>2. p \in Reach(S)
    BY <2>1
  <2> QED
    BY <2>2
<1>2. Below \subseteq Reach(Below)
  <2>1. Reach(Below) \in SUBSET Processes
    OBVIOUS
  <2>2. Reach(Reach(Below)) \subseteq Reach(Below)
    BY <1>1
  <2> HIDE DEF Reach
  <2> QED
    BY <2>1, <2>2
<1>3. alive \subseteq Processes
  BY DEF WorldInv
<1>4. held = Step(held)
  <2> SUFFICES ASSUME NEW p \in Processes
               PROVE  (p \in Below) = (p = root \/ (p \in alive /\ ParentOf[p] \in alive
                                                   /\ held[ParentOf[p]]))
    OBVIOUS
  <2>1. p \in Below <=> p \in Reach(Below)
    BY <1>1, <1>2
  <2>2. ParentOf[p] \in alive => (held[ParentOf[p]] <=> ParentOf[p] \in Below)
    BY <1>3
  <2> HIDE DEF Below, held
  <2> QED
    BY <2>1, <2>2
<1>5. wanted = Step(wanted)
  <2> HIDE DEF Step, held
  <2> QED
    BY <1>4
<1>6. wanted[root]
  <2> HIDE DEF wanted
  <2> QED
    BY <1>5
<1>7. Sample!ProcessTree(root, alive) = {p \in alive : wanted[p]}
  BY DEF Sample!ProcessTree
<1> QED
  BY <1>6, <1>7

LEMMA AppendAny ==
  ASSUME NEW S, NEW s \in Seq(S), NEW e \in S
  PROVE  /\ Append(s, e) \in Seq(S)
         /\ DOMAIN s = 1..Len(s) /\ Len(s) \in Nat
         /\ DOMAIN Append(s, e) = 1..Len(s) + 1
         /\ Len(Append(s, e)) = Len(s) + 1
         /\ \A i \in 1..Len(s) : Append(s, e)[i] = s[i]
         /\ Append(s, e)[Len(s) + 1] = e
  OBVIOUS

LEMMA IdleIsSampler ==
  /\ Sample!Idle \in Sampler /\ Sample!Idle.at = "over"
  /\ Sample!Failure \in Reports /\ Sample!Failure.ok = FALSE
<1>1. Sample!Failure.ok = FALSE
  BY DEF Sample!Failure, Sample!Report
<1> QED
  BY <1>1 DEF Sample!Idle, Sampler, Reports

LEMMA SampleInitInv == Sample!SampleInit => SampleInv
<1> SUFFICES ASSUME Sample!SampleInit
             PROVE  SampleInv
  OBVIOUS
<1>1. SampleTypes
  <2>1. FALSE \in BOOLEAN
    OBVIOUS
  <2>2. MaxSamples \in Nat
    BY BackgroundAssumption DEF Sample!SampleAssumption
  <2> QED
    BY <2>1, <2>2 DEF Sample!SampleInit, SampleTypes
<1>2. WorldInv
  BY FS_EmptySet DEF Sample!SampleInit, WorldInv
<1>3. SamplersInv /\ AnswersInv
  BY DEF Sample!SampleInit, SamplersInv, AnswersInv
<1>4. WayInv
  BY DEF Sample!SampleInit, WayInv, NoneBusy
<1> QED
  BY <1>1, <1>2, <1>3, <1>4 DEF SampleInv

(* What happens in the world leaves true what was true: a group that has   *)
(* ended gets no new member.                                               *)
LEMMA WorldKeeps ==
  ASSUME SampleInv, WorldInv', UNCHANGED <<stage, pane, samplers, answers>>,
         alive \union gone \subseteq alive' \union gone',
         \A p \in alive' \ alive :
           \/ GroupOf[p] \notin alive \union gone
           \/ \E q \in alive : GroupOf[p] = GroupOf[q]
  PROVE  SampleInv'
<1>1. ASSUME NEW r, Holds(r)
      PROVE  Holds(r)'
  <2> SUFFICES ASSUME r.ok
               PROVE  /\ r.fields.pid \in alive' \union gone'
                      /\ r.fields.exited => \A p \in alive' : GroupOf[p] # GroupOf[r.fields.pid]
    BY <1>1 DEF Holds
  <2>1. r.fields.pid \in alive \union gone
    BY <1>1 DEF Holds
  <2>2. GroupOf[r.fields.pid] \in alive \union gone
    BY <2>1 DEF SampleInv, WorldInv
  <2>3. ASSUME r.fields.exited, NEW p \in alive', GroupOf[p] = GroupOf[r.fields.pid]
        PROVE  FALSE
    <3>1. \A q \in alive : GroupOf[q] # GroupOf[r.fields.pid]
      BY <1>1, <2>3 DEF Holds
    <3> QED
      BY <3>1, <2>2, <2>3
  <2> QED
    BY <2>1, <2>3
<1>2. ASSUME NEW s, SamplerInv(s)
      PROVE  SamplerInv(s)'
  BY <1>1, <1>2 DEF SamplerInv, SamplingInv
<1>3. SamplersInv'
  BY <1>2 DEF SampleInv, SamplersInv
<1>4. AnswersInv'
  BY <1>1 DEF SampleInv, AnswersInv
<1>5. SampleTypes' /\ WayInv'
  BY DEF SampleInv, SampleTypes, WayInv, NoneBusy, OnlyBusy
<1> QED
  BY <1>3, <1>4, <1>5 DEF SampleInv

LEMMA ProcessesKeep ==
  ASSUME SampleInv, NEW p \in Processes,
         Sample!Spawn(p) \/ Sample!Fork(p) \/ Sample!ExitProcess(p) \/ Sample!ClearTracker
  PROVE  SampleInv'
<1>a. /\ Processes \subseteq Nat /\ Roots \subseteq Processes
      /\ p \in Roots <=> ParentOf[p] = Nobody
      /\ GroupOf[p] \in {p} \union IF p \in Roots THEN {} ELSE {GroupOf[ParentOf[p]]}
  BY BackgroundAssumption DEF Sample!SampleAssumption
<1>w. WorldInv
  BY DEF SampleInv
<1>1. CASE Sample!Spawn(p)
  <2>1. /\ p \in Roots /\ p \notin alive \union gone /\ alive' = alive \union {p}
        /\ tracker' = p /\ gone' = gone /\ UNCHANGED <<stage, pane, samplers, answers>>
    BY <1>1 DEF Sample!Spawn
  <2>2. GroupOf[p] = p
    BY <1>a, <2>1
  <2>3. IsFiniteSet(alive')
    BY <2>1, <1>w, FS_AddElement DEF WorldInv
  <2>4. WorldInv'
    BY <2>1, <2>2, <2>3, <1>w, <1>a DEF WorldInv
  <2> QED
    BY <2>1, <2>2, <2>4, WorldKeeps
<1>2. CASE Sample!Fork(p)
  <2>1. /\ p \notin alive \union gone /\ ParentOf[p] \in alive /\ alive' = alive \union {p}
        /\ gone' = gone /\ UNCHANGED <<stage, tracker, pane, samplers, answers>>
    BY <1>2 DEF Sample!Fork
  <2>2. GroupOf[p] \in {p, GroupOf[ParentOf[p]]}
    BY <1>a
  <2>3. IsFiniteSet(alive')
    BY <2>1, <1>w, FS_AddElement DEF WorldInv
  <2>4. WorldInv'
    BY <2>1, <2>2, <2>3, <1>w, <1>a DEF WorldInv
  <2> QED
    BY <2>1, <2>2, <2>4, WorldKeeps
<1>3. CASE Sample!ExitProcess(p)
  <2>1. /\ p \in alive /\ alive' = alive \ {p} /\ gone' = gone \union {p}
        /\ UNCHANGED <<stage, tracker, pane, samplers, answers>>
    BY <1>3 DEF Sample!ExitProcess
  <2>2. IsFiniteSet(alive')
    BY <2>1, <1>w, FS_RemoveElement DEF WorldInv
  <2>3. WorldInv'
    BY <2>1, <2>2, <1>w DEF WorldInv
  <2> QED
    BY <2>1, <2>3, WorldKeeps
<1>4. CASE Sample!ClearTracker
  <2>1. /\ tracker' = Nobody /\ UNCHANGED <<alive, gone, stage, pane, samplers, answers>>
    BY <1>4 DEF Sample!ClearTracker
  <2>2. WorldInv'
    BY <2>1, <1>w DEF WorldInv
  <2> QED
    BY <2>1, <2>2, WorldKeeps
<1> QED
  BY <1>1, <1>2, <1>3, <1>4

(* A thread goes on and answers nothing yet.                               *)
LEMMA ThreadKeeps ==
  ASSUME SampleInv, NEW k \in DOMAIN samplers, samplers[k].at # "over",
         NEW s \in Sampler, s.at # "over", SamplerInv(s),
         samplers' = [samplers EXCEPT ![k] = s], UNCHANGED Sample!samplerOnly
  PROVE  SampleInv'
<1>1. UNCHANGED <<stage, tracker, alive, gone, pane, answers>>
  BY DEF Sample!samplerOnly, Sample!worldVars
<1>2. samplers \in Seq(Sampler)
  BY DEF SampleInv, SampleTypes
<1>3. /\ samplers' \in Seq(Sampler) /\ Len(samplers') = Len(samplers)
      /\ DOMAIN samplers' = DOMAIN samplers
      /\ \A j \in DOMAIN samplers : samplers'[j] = IF j = k THEN s ELSE samplers[j]
  BY <1>2
<1>4. SampleTypes'
  BY <1>1, <1>3 DEF SampleInv, SampleTypes
<1>5. \A x : Holds(x)' <=> Holds(x)
  BY <1>1 DEF Holds
<1>6. \A x : SamplerInv(x) => SamplerInv(x)'
  BY <1>1, <1>5 DEF SamplerInv, SamplingInv
<1>7. SamplersInv'
  BY <1>3, <1>6 DEF SampleInv, SamplersInv
<1>8. WorldInv' /\ AnswersInv'
  BY <1>1, <1>5 DEF SampleInv, WorldInv, AnswersInv
<1>9. WayInv'
  BY <1>1, <1>3 DEF SampleInv, WayInv, NoneBusy, OnlyBusy
<1> QED
  BY <1>4, <1>7, <1>8, <1>9 DEF SampleInv

LEMMA ConcludesKeeps ==
  ASSUME SampleInv, NEW k \in DOMAIN samplers, samplers[k].at # "over",
         NEW r \in Reports, Holds(r), Sample!Concludes(k, r), UNCHANGED Sample!samplerOnly
  PROVE  SampleInv'
<1> DEFINE s == [Sample!Idle EXCEPT !.at = "sending", !.report = r]
<1>1. s \in Sampler /\ s.at = "sending" /\ s.report = r
  BY IdleIsSampler DEF Sampler
<1>2. SamplerInv(s)
  BY <1>1 DEF SamplerInv
<1>3. samplers' = [samplers EXCEPT ![k] = s]
  BY DEF Sample!Concludes
<1> HIDE DEF s
<1> QED
  BY <1>1, <1>2, <1>3, ThreadKeeps

LEMMA FailureKeeps ==
  ASSUME SampleInv, NEW k \in DOMAIN samplers, samplers[k].at # "over",
         Sample!Concludes(k, Sample!Failure), UNCHANGED Sample!samplerOnly
  PROVE  SampleInv'
<1>1. Sample!Failure \in Reports /\ Holds(Sample!Failure)
  BY IdleIsSampler DEF Holds
<1> QED
  BY <1>1, ConcludesKeeps

LEMMA SamplerFacts ==
  ASSUME SampleInv, NEW k \in DOMAIN samplers
  PROVE  samplers[k] \in Sampler /\ SamplerInv(samplers[k])
<1>1. samplers \in Seq(Sampler)
  BY DEF SampleInv, SampleTypes
<1> QED
  BY <1>1 DEF SampleInv, SamplersInv

(* sample_targets leaves nothing out of a group that is small enough.      *)
LEMMA TargetsAreAll ==
  ASSUME NEW p \in Processes, WorldInv, p \in alive, Processes \subseteq Nat, MaxSampled \in Nat
  PROVE  LET found == Sample!GroupDescendants(p, alive)
             targets == Sample!SampleTargets(p)
         IN /\ p \in targets /\ targets \subseteq found
            /\ found \subseteq alive /\ IsFiniteSet(found)
            /\ Cardinality(found) <= MaxSampled => found \subseteq targets
<1> DEFINE found == Sample!GroupDescendants(p, alive)
           others == found \ {p}
           Before(q) == {r \in others : r < q}
<1>1. p \in found /\ found \subseteq alive
  BY OwnTree DEF Sample!GroupDescendants
<1>2. IsFiniteSet(found) /\ IsFiniteSet(others)
  <2>1. IsFiniteSet(alive)
    BY DEF WorldInv
  <2>2. IsFiniteSet(found)
    BY <1>1, <2>1, FS_Subset
  <2> HIDE DEF found
  <2> QED
    BY <2>2, FS_RemoveElement
<1>3. Sample!SampleTargets(p) = {p} \union {q \in others : Cardinality(Before(q)) < MaxSampled - 1}
  BY SameCardinality, Zenon DEF Sample!SampleTargets
<1>4. ASSUME Cardinality(found) <= MaxSampled, NEW q \in others
      PROVE  Cardinality(Before(q)) < MaxSampled - 1
  <2> DEFINE less == others \ {q}
  <2>n. /\ Cardinality(found) \in Nat /\ Cardinality(others) = Cardinality(found) - 1
        /\ IsFiniteSet(less) /\ Cardinality(less) = Cardinality(others) - 1
    <3> HIDE DEF found
    <3>1. Cardinality(others) = Cardinality(found) - 1 /\ Cardinality(found) \in Nat
      BY <1>1, <1>2, FS_RemoveElement, FS_CardinalityType
    <3> HIDE DEF others
    <3>2. IsFiniteSet(less) /\ Cardinality(less) = Cardinality(others) - 1
      BY <1>2, <1>4, FS_RemoveElement
    <3> QED
      BY <3>1, <3>2
  <2>1. Before(q) \in SUBSET less
    <3>1. others \subseteq Nat
      BY <1>1 DEF WorldInv
    <3> HIDE DEF found
    <3> QED
      BY <3>1
  <2> HIDE DEF Before, less, found
  <2>2. Cardinality(Before(q)) <= Cardinality(less) /\ Cardinality(Before(q)) \in Nat
    BY <2>1, <2>n, FS_Subset, FS_CardinalityType
  <2> QED
    BY <2>2, <2>n, <1>4
<1> HIDE DEF found, Before
<1>5. Cardinality(found) <= MaxSampled => found \subseteq Sample!SampleTargets(p)
  BY <1>3, <1>4
<1>6. p \in Sample!SampleTargets(p) /\ Sample!SampleTargets(p) \subseteq found
  BY <1>1, <1>3
<1> QED
  BY <1>1, <1>2, <1>5, <1>6 DEF found

LEMMA FindTestKeeps ==
  ASSUME SampleInv, NEW k \in DOMAIN samplers, Sample!FindTest(k)
  PROVE  SampleInv'
<1>1. /\ samplers[k].at = "queued" /\ samplers[k].root # Nobody /\ UNCHANGED Sample!samplerOnly
      /\ samplers[k] \in Sampler /\ SamplerInv(samplers[k])
  BY SamplerFacts DEF Sample!FindTest
<1>2. PICK p \in Sample!Matches(samplers[k]) :
        samplers' = [samplers EXCEPT ![k] =
            [@ EXCEPT !.at = "sampling", !.first = Sample!GroupDescendants(p, alive),
                      !.selected = p, !.todo = Sample!SampleTargets(p)]]
  BY DEF Sample!FindTest
<1> DEFINE s == [samplers[k] EXCEPT !.at = "sampling", !.first = Sample!GroupDescendants(p, alive),
                                    !.selected = p, !.todo = Sample!SampleTargets(p)]
<1>3. samplers[k].root \in Processes
  BY <1>1 DEF Sampler
<1>4. p \in alive /\ TestOf[p] = samplers[k].test /\ p \in Processes
  <2>1. WorldInv
    BY DEF SampleInv
  <2>2. p \in Sample!ProcessTree(samplers[k].root, alive) /\ TestOf[p] = samplers[k].test
    BY <1>2 DEF Sample!Matches
  <2> QED
    BY <2>1, <2>2, <1>3, OwnTree DEF WorldInv
<1>5. /\ p \in Sample!SampleTargets(p)
      /\ Sample!SampleTargets(p) \subseteq Sample!GroupDescendants(p, alive)
      /\ Sample!GroupDescendants(p, alive) \subseteq alive
      /\ IsFiniteSet(Sample!GroupDescendants(p, alive))
      /\ Cardinality(Sample!GroupDescendants(p, alive)) <= MaxSampled =>
           Sample!GroupDescendants(p, alive) \subseteq Sample!SampleTargets(p)
  BY <1>4, TargetsAreAll, BackgroundAssumption DEF SampleInv, Sample!SampleAssumption
<1>6. alive \subseteq Processes
  BY DEF SampleInv, WorldInv
<1>7. /\ s \in Sampler /\ s.at = "sampling" /\ s.test = samplers[k].test
      /\ s.first = Sample!GroupDescendants(p, alive) /\ s.selected = p
      /\ s.todo = Sample!SampleTargets(p) /\ s.sampled = samplers[k].sampled
  BY <1>1, <1>4, <1>5, <1>6 DEF Sampler
<1>8. SamplerInv(s)
  <2>1. s.test = pane.title /\ s.test \in Tests
    BY <1>1, <1>7 DEF SamplerInv
  <2>2. SamplingInv(s)
    <3> HIDE DEF s
    <3>1. s.selected \in alive \union gone /\ TestOf[s.selected] = s.test
      BY <1>4, <1>7
    <3>2. s.selected \in s.sampled \union s.todo
      BY <1>5, <1>7
    <3>3. s.sampled \union s.todo \subseteq s.first /\ IsFiniteSet(s.first)
      BY <1>5, <1>7, <1>1 DEF SamplerInv
    <3>4. s.failed = 0 /\ Cardinality(s.first) <= MaxSampled => s.first \subseteq s.sampled \union s.todo
      BY <1>5, <1>7
    <3> QED
      BY <3>1, <3>2, <3>3, <3>4 DEF SamplingInv
  <2> QED
    BY <2>1, <2>2, <1>7 DEF SamplerInv
<1>9. samplers' = [samplers EXCEPT ![k] = s]
  BY <1>2
<1> HIDE DEF s
<1> QED
  BY <1>1, <1>7, <1>8, <1>9, ThreadKeeps

LEMMA SampleProcessKeeps ==
  ASSUME SampleInv, NEW k \in DOMAIN samplers, Sample!SampleProcess(k)
  PROVE  SampleInv'
<1>1. /\ samplers[k].at = "sampling" /\ UNCHANGED Sample!samplerOnly
      /\ samplers[k] \in Sampler /\ SamplerInv(samplers[k])
  BY SamplerFacts DEF Sample!SampleProcess
<1>2. PICK p \in alive :
        /\ Sample!IsNext(samplers[k], p)
        /\ samplers' = [samplers EXCEPT ![k] = Sample!WithSample(@, p)]
  BY DEF Sample!SampleProcess
<1> DEFINE s == Sample!WithSample(samplers[k], p)
<1>3. p \in samplers[k].todo
  BY <1>2 DEF Sample!IsNext
<1>4. /\ s \in Sampler /\ s.at = "sampling" /\ s.test = samplers[k].test
      /\ s.first = samplers[k].first /\ s.selected = samplers[k].selected
      /\ s.sampled \union s.todo = samplers[k].sampled \union samplers[k].todo
      /\ s.failed = samplers[k].failed
  BY <1>1, <1>3 DEF Sampler, Sample!WithSample
<1>5. SamplerInv(s)
  <2> HIDE DEF s
  <2>1. SamplingInv(s)
    BY <1>1, <1>4 DEF SamplerInv, SamplingInv
  <2> QED
    BY <2>1, <1>1, <1>4 DEF SamplerInv
<1>6. samplers' = [samplers EXCEPT ![k] = s]
  BY <1>2
<1> HIDE DEF s
<1> QED
  BY <1>1, <1>4, <1>5, <1>6, ThreadKeeps

LEMMA SampleFailsKeeps ==
  ASSUME SampleInv, NEW k \in DOMAIN samplers, Sample!SampleFails(k)
  PROVE  SampleInv'
<1>1. /\ samplers[k].at = "sampling" /\ UNCHANGED Sample!samplerOnly
      /\ samplers[k] \in Sampler /\ SamplerInv(samplers[k])
  BY SamplerFacts DEF Sample!SampleFails
<1>2. PICK p \in samplers[k].todo :
        IF p = samplers[k].selected
        THEN Sample!Concludes(k, Sample!Failure)
        ELSE samplers' = [samplers EXCEPT ![k] = Sample!WithFailure(@, p)]
  BY DEF Sample!SampleFails
<1>3. CASE p = samplers[k].selected
  BY <1>1, <1>2, <1>3, FailureKeeps
<1>4. CASE p # samplers[k].selected
  <2> DEFINE s == Sample!WithFailure(samplers[k], p)
  <2>1. /\ s \in Sampler /\ s.at = "sampling" /\ s.test = samplers[k].test
        /\ s.first = samplers[k].first /\ s.selected = samplers[k].selected
        /\ s.sampled = samplers[k].sampled /\ s.todo = samplers[k].todo \ {p}
        /\ s.failed = samplers[k].failed + 1 /\ s.failed # 0
    <3>1. samplers[k].failed \in Nat /\ samplers[k].failed + 1 \in Nat \ {0}
      BY <1>1 DEF Sampler
    <3> QED
      BY <1>1, <3>1 DEF Sampler, Sample!WithFailure
  <2>2. SamplerInv(s)
    <3> HIDE DEF s
    <3>1. SamplingInv(s)
      BY <1>1, <1>4, <2>1 DEF SamplerInv, SamplingInv
    <3> QED
      BY <3>1, <1>1, <2>1 DEF SamplerInv
  <2>3. samplers' = [samplers EXCEPT ![k] = s]
    BY <1>2, <1>4
  <2> HIDE DEF s
  <2> QED
    BY <1>1, <2>1, <2>2, <2>3, ThreadKeeps
<1> QED
  BY <1>3, <1>4

LEMMA ListAgainKeeps ==
  ASSUME SampleInv, NEW k \in DOMAIN samplers, Sample!ListAgain(k)
  PROVE  SampleInv'
<1> DEFINE s == samplers[k]
<1>1. /\ s.at = "sampling" /\ s.todo = {} /\ UNCHANGED Sample!samplerOnly
      /\ s \in Sampler /\ SamplerInv(s)
  BY SamplerFacts DEF Sample!ListAgain
<1>2. PICK listed \in BOOLEAN :
        Sample!Concludes(k, Sample!Report(TRUE,
          [test |-> s.test, pid |-> s.selected, sampled |-> s.sampled, found |-> s.first,
           complete |-> Sample!IsComplete(s),
           exited |-> listed /\ {p \in alive : GroupOf[p] = GroupOf[s.selected]} = {}]))
  BY DEF Sample!ListAgain
<1> DEFINE group == {p \in alive : GroupOf[p] = GroupOf[s.selected]}
           f == [test |-> s.test, pid |-> s.selected, sampled |-> s.sampled, found |-> s.first,
                 complete |-> Sample!IsComplete(s), exited |-> listed /\ group = {}]
<1>3. /\ s.test = pane.title /\ s.test \in Tests
      /\ s.selected \in alive \union gone /\ TestOf[s.selected] = s.test
      /\ s.selected \in s.sampled /\ s.sampled \subseteq s.first
      /\ Sample!IsComplete(s) => s.first \subseteq s.sampled
  <2> HIDE DEF s
  <2>1. s.test = pane.title /\ s.test \in Tests /\ SamplingInv(s)
    BY <1>1 DEF SamplerInv
  <2> QED
    BY <2>1, <1>1, SameCardinality DEF SamplingInv, Sample!IsComplete
<1>4. /\ f.test = s.test /\ f.pid = s.selected /\ f.sampled = s.sampled /\ f.found = s.first
      /\ f.complete <=> Sample!IsComplete(s)
      /\ f.exited <=> listed /\ group = {}
  OBVIOUS
<1>5. f \in Fields
  <2>1. Sample!IsComplete(s) \in BOOLEAN /\ (listed /\ group = {}) \in BOOLEAN
    BY DEF Sample!IsComplete
  <2>2. s.selected \in Processes
    BY <1>3 DEF SampleInv, WorldInv
  <2> QED
    BY <1>1, <1>3, <2>1, <2>2 DEF Fields, Sampler
<1> HIDE DEF f
<1>6. /\ Sample!Report(TRUE, f) \in Reports /\ Sample!Report(TRUE, f).ok
      /\ Sample!Report(TRUE, f).fields = f
  BY <1>5 DEF Reports, Sample!Report
<1>7. Holds(Sample!Report(TRUE, f))
  <2>1. f.complete => f.sampled = f.found
    BY <1>3, <1>4
  <2>2. f.exited => \A p \in alive : GroupOf[p] # GroupOf[f.pid]
    BY <1>4
  <2> HIDE DEF s
  <2> QED
    BY <1>3, <1>4, <1>6, <2>1, <2>2 DEF Holds
<1>8. Sample!Concludes(k, Sample!Report(TRUE, f))
  BY <1>2 DEF f
<1> QED
  BY <1>1, <1>6, <1>7, <1>8, ConcludesKeeps

\* A thread that has nothing more to say.
LEMMA IdleKeeps ==
  ASSUME SampleInv, NEW k \in DOMAIN samplers, samplers' = [samplers EXCEPT ![k] = Sample!Idle]
  PROVE  /\ samplers' \in Seq(Sampler) /\ Len(samplers') = Len(samplers)
         /\ DOMAIN samplers' = DOMAIN samplers
         /\ \A j \in DOMAIN samplers : samplers'[j] = IF j = k THEN Sample!Idle ELSE samplers[j]
<1>1. samplers \in Seq(Sampler)
  BY DEF SampleInv, SampleTypes
<1> QED
  BY <1>1, IdleIsSampler

LEMMA IdleInv == SamplerInv(Sample!Idle)
BY IdleIsSampler DEF SamplerInv

LEMMA SendAnswerKeeps ==
  ASSUME SampleInv, NEW k \in DOMAIN samplers, Sample!SendAnswer(k)
  PROVE  SampleInv'
<1> DEFINE r == samplers[k].report
<1>1. /\ stage = "run" /\ samplers[k].at = "sending" /\ answers' = Append(answers, r)
      /\ samplers' = [samplers EXCEPT ![k] = Sample!Idle]
      /\ UNCHANGED <<stage, tracker, alive, gone, pane>>
  BY DEF Sample!SendAnswer, Sample!worldVars
<1>2. r \in Reports /\ Holds(r)
  BY <1>1, SamplerFacts DEF SamplerInv
<1> HIDE DEF r
<1>3. /\ samplers' \in Seq(Sampler) /\ Len(samplers') = Len(samplers)
      /\ DOMAIN samplers' = DOMAIN samplers
      /\ \A j \in DOMAIN samplers : samplers'[j] = IF j = k THEN Sample!Idle ELSE samplers[j]
  BY <1>1, IdleKeeps
<1>4. answers = <<>> /\ pane.running /\ OnlyBusy(k)
  <2>1. PICK j \in DOMAIN samplers : OnlyBusy(j) /\ answers = <<>> /\ pane.running
    BY <1>1 DEF SampleInv, WayInv, NoneBusy
  <2>2. j = k
    BY <2>1, <1>1 DEF OnlyBusy
  <2> QED
    BY <2>1, <2>2
<1>5. answers' = <<r>> /\ answers' \in Seq(Reports) /\ Len(answers') = 1 /\ answers'[1] = r
  BY <1>1, <1>2, <1>4
<1>6. \A x : (Holds(x)' <=> Holds(x)) /\ (SamplerInv(x) => SamplerInv(x)')
  BY <1>1 DEF Holds, SamplerInv, SamplingInv
<1>7. SampleTypes'
  BY <1>1, <1>3, <1>5 DEF SampleInv, SampleTypes
<1>8. SamplersInv'
  BY <1>3, <1>6, IdleInv DEF SampleInv, SamplersInv
<1>9. AnswersInv'
  BY <1>1, <1>2, <1>5, <1>6 DEF SampleInv, AnswersInv
<1>10. WayInv'
  <2>1. NoneBusy'
    BY <1>3, <1>4, IdleIsSampler DEF NoneBusy, OnlyBusy
  <2> QED
    BY <2>1, <1>1, <1>4, <1>5 DEF WayInv
<1>11. WorldInv'
  BY <1>1 DEF SampleInv, WorldInv
<1> QED
  BY <1>7, <1>8, <1>9, <1>10, <1>11 DEF SampleInv

LEMMA DiscardKeeps ==
  ASSUME SampleInv, NEW k \in DOMAIN samplers, Sample!Discard(k)
  PROVE  SampleInv'
<1>1. /\ stage = "shutdown" /\ samplers' = [samplers EXCEPT ![k] = Sample!Idle]
      /\ UNCHANGED <<stage, tracker, alive, gone, pane, answers>>
  BY DEF Sample!Discard, Sample!samplerOnly, Sample!worldVars
<1>2. /\ samplers' \in Seq(Sampler) /\ Len(samplers') = Len(samplers)
      /\ DOMAIN samplers' = DOMAIN samplers
      /\ \A j \in DOMAIN samplers : samplers'[j] = IF j = k THEN Sample!Idle ELSE samplers[j]
  BY <1>1, IdleKeeps
<1>3. \A x : (Holds(x)' <=> Holds(x)) /\ (SamplerInv(x) => SamplerInv(x)')
  BY <1>1 DEF Holds, SamplerInv, SamplingInv
<1>4. SampleTypes' /\ WayInv'
  BY <1>1, <1>2 DEF SampleInv, SampleTypes, WayInv
<1>5. SamplersInv'
  BY <1>2, <1>3, IdleInv DEF SampleInv, SamplersInv
<1>6. AnswersInv' /\ WorldInv'
  BY <1>1, <1>3 DEF SampleInv, AnswersInv, WorldInv
<1> QED
  BY <1>4, <1>5, <1>6 DEF SampleInv

LEMMA FinishSampleKeeps == SampleInv /\ Sample!FinishSample => SampleInv'
<1> SUFFICES ASSUME SampleInv, Sample!FinishSample
             PROVE  SampleInv'
  OBVIOUS
<1> DEFINE r == Head(answers)
<1>1. /\ stage = "run" /\ answers # <<>> /\ answers' = Tail(answers)
      /\ pane' = [pane EXCEPT !.running = FALSE, !.report = r]
      /\ UNCHANGED <<stage, tracker, alive, gone, samplers>>
  BY DEF Sample!FinishSample, Sample!worldVars
<1>2. /\ answers \in Seq(Reports)
      /\ pane \in [open : BOOLEAN, running : BOOLEAN, title : Tests \union {Nobody},
                   report : Reports \union {Nobody}]
  BY DEF SampleInv, SampleTypes
<1>3. Len(answers) = 1 /\ NoneBusy
  BY <1>1, <1>2 DEF SampleInv, WayInv
<1>4. r = answers[1] /\ r \in Reports /\ answers' = <<>> /\ Holds(r)
  BY <1>1, <1>2, <1>3 DEF SampleInv, AnswersInv
<1>5. /\ pane' \in [open : BOOLEAN, running : BOOLEAN, title : Tests \union {Nobody},
                    report : Reports \union {Nobody}]
      /\ pane'.title = pane.title /\ pane'.report = r /\ pane'.running = FALSE
  <2>1. FALSE \in BOOLEAN
    OBVIOUS
  <2> HIDE DEF r
  <2> QED
    BY <1>1, <1>2, <1>4, <2>1
<1> HIDE DEF r
<1>6. \A x : (Holds(x)' <=> Holds(x)) /\ (SamplerInv(x) => SamplerInv(x)')
  BY <1>1, <1>5 DEF Holds, SamplerInv, SamplingInv
<1>7. SampleTypes'
  BY <1>1, <1>4, <1>5 DEF SampleInv, SampleTypes
<1>8. SamplersInv' /\ AnswersInv'
  BY <1>1, <1>4, <1>5, <1>6 DEF SampleInv, SamplersInv, AnswersInv
<1>9. WayInv' /\ WorldInv'
  BY <1>1, <1>3, <1>4, <1>5 DEF SampleInv, WayInv, WorldInv, NoneBusy
<1> QED
  BY <1>7, <1>8, <1>9 DEF SampleInv

LEMMA QuitSampleKeeps == SampleInv /\ Sample!Quit => SampleInv'
<1> SUFFICES ASSUME SampleInv, Sample!Quit
             PROVE  SampleInv'
  OBVIOUS
<1>1. /\ stage' = "shutdown" /\ answers' = <<>>
      /\ samplers' = [k \in DOMAIN samplers |->
           IF samplers[k].at \in {"queued", "sending"} THEN Sample!Idle ELSE samplers[k]]
      /\ UNCHANGED <<tracker, alive, gone, pane>>
  BY DEF Sample!Quit, Sample!worldVars
<1>2. samplers \in Seq(Sampler)
  BY DEF SampleInv, SampleTypes
<1>3. samplers' \in Seq(Sampler) /\ Len(samplers') = Len(samplers)
  BY <1>1, <1>2, IdleIsSampler
<1>4. /\ DOMAIN samplers' = DOMAIN samplers
      /\ \A k \in DOMAIN samplers : samplers'[k] \in {Sample!Idle, samplers[k]}
  BY <1>1
<1>5. \A x : (Holds(x)' <=> Holds(x)) /\ (SamplerInv(x) => SamplerInv(x)')
  BY <1>1 DEF Holds, SamplerInv, SamplingInv
<1>6. SampleTypes' /\ WayInv'
  BY <1>1, <1>3 DEF SampleInv, SampleTypes, WayInv
<1>7. SamplersInv'
  BY <1>4, <1>5, IdleInv DEF SampleInv, SamplersInv
<1>8. AnswersInv' /\ WorldInv'
  BY <1>1, <1>5 DEF SampleInv, AnswersInv, WorldInv
<1> QED
  BY <1>6, <1>7, <1>8 DEF SampleInv

LEMMA StillSampleKeeps == SampleInv /\ (Sample!Exit \/ UNCHANGED stackVars) => SampleInv'
<1> SUFFICES ASSUME SampleInv, Sample!Exit \/ UNCHANGED stackVars
             PROVE  SampleInv'
  OBVIOUS
<1>1. UNCHANGED <<tracker, alive, gone, pane, samplers, answers>>
  BY DEF Sample!Exit, Sample!worldVars, stackVars
<1>2. stage' = stage \/ (stage = "shutdown" /\ stage' = "exited")
  BY DEF Sample!Exit, stackVars
<1>3. \A x : (Holds(x)' <=> Holds(x)) /\ (SamplerInv(x) => SamplerInv(x)')
  BY <1>1 DEF Holds, SamplerInv, SamplingInv
<1>4. SampleTypes' /\ WayInv' /\ WorldInv'
  BY <1>1, <1>2 DEF SampleInv, SampleTypes, WayInv, WorldInv, NoneBusy, OnlyBusy
<1>5. SamplersInv' /\ AnswersInv'
  BY <1>1, <1>3 DEF SampleInv, SamplersInv, AnswersInv
<1> QED
  BY <1>4, <1>5 DEF SampleInv

\* The pane is opened or closed.
LEMMA PaneKeeps ==
  ASSUME SampleInv, UNCHANGED <<stage, tracker, alive, gone, samplers, answers>>,
         NEW open \in BOOLEAN, pane' \in {pane, [pane EXCEPT !.open = open]}
  PROVE  SampleInv'
<1>1. /\ pane' \in [open : BOOLEAN, running : BOOLEAN, title : Tests \union {Nobody},
                    report : Reports \union {Nobody}]
      /\ pane'.running = pane.running /\ pane'.title = pane.title /\ pane'.report = pane.report
  BY DEF SampleInv, SampleTypes
<1>2. \A x : (Holds(x)' <=> Holds(x)) /\ (SamplerInv(x) => SamplerInv(x)')
  BY <1>1 DEF Holds, SamplerInv, SamplingInv
<1>3. SampleTypes' /\ WayInv' /\ WorldInv'
  BY <1>1 DEF SampleInv, SampleTypes, WayInv, WorldInv, NoneBusy, OnlyBusy
<1>4. SamplersInv' /\ AnswersInv'
  BY <1>1, <1>2 DEF SampleInv, SamplersInv, AnswersInv
<1> QED
  BY <1>3, <1>4 DEF SampleInv

LEMMA CloseSampleKeeps == SampleInv /\ Sample!CloseSample => SampleInv'
<1>1. Sample!CloseSample =>
        /\ UNCHANGED <<stage, tracker, alive, gone, samplers, answers>>
        /\ pane' = [pane EXCEPT !.open = FALSE]
  BY DEF Sample!CloseSample, Sample!worldVars
<1>2. FALSE \in BOOLEAN
  OBVIOUS
<1> QED
  BY <1>1, <1>2, PaneKeeps

LEMMA SampleTestStacksKeeps ==
  ASSUME SampleInv, NEW t \in Tests, Sample!SampleTestStacks(t)
  PROVE  SampleInv'
<1>1. stage = "run" /\ UNCHANGED <<stage, tracker, alive, gone, answers>>
  BY DEF Sample!SampleTestStacks, Sample!worldVars
<1>2. CASE pane.running /\ Sample!Reopens(t)
  <2>1. UNCHANGED samplers /\ pane' \in {pane, [pane EXCEPT !.open = TRUE]}
    BY <1>2 DEF Sample!Reopens
  <2>2. TRUE \in BOOLEAN
    OBVIOUS
  <2> QED
    BY <2>1, <2>2, <1>1, PaneKeeps
<1>3. CASE ~pane.running /\ Sample!Starts(t)
  <2> DEFINE s == [Sample!Idle EXCEPT !.at = "queued", !.root = tracker, !.test = t]
  <2>0. PICK n \in Nat : n = Len(samplers)
    BY DEF SampleInv, SampleTypes
  <2>1. /\ n < MaxSamples /\ samplers' = Append(samplers, s)
        /\ pane' = [open |-> TRUE, running |-> TRUE, title |-> t, report |-> Nobody]
    BY <1>3, <2>0 DEF Sample!Starts
  <2>2. answers = <<>> /\ NoneBusy
    BY <1>1, <1>3 DEF SampleInv, WayInv
  <2>3. tracker \in Processes \union {Nobody}
    BY BackgroundAssumption DEF Sample!SampleAssumption, SampleInv, WorldInv
  <2>4. s \in Sampler /\ s.at = "queued" /\ s.test = t /\ s.sampled = {}
    BY <2>3 DEF Sampler, Sample!Idle
  <2> HIDE DEF s
  <2>5. /\ samplers' \in Seq(Sampler) /\ n \in Nat /\ DOMAIN samplers = 1..n
        /\ Len(samplers') = n + 1 /\ DOMAIN samplers' = 1..n + 1
        /\ \A j \in 1..n : samplers'[j] = samplers[j]
        /\ samplers'[n + 1] = s
    BY <2>0, <2>1, <2>4, AppendAny DEF SampleInv, SampleTypes
  <2>6. /\ pane' \in [open : BOOLEAN, running : BOOLEAN, title : Tests \union {Nobody},
                      report : Reports \union {Nobody}]
        /\ pane'.title = t /\ pane'.report = Nobody /\ pane'.running
    BY <2>1
  <2>7. SampleTypes'
    <3>1. n + 1 <= MaxSamples
      BY <2>1, <2>5, BackgroundAssumption DEF Sample!SampleAssumption
    <3> QED
      BY <3>1, <2>5, <2>6, <1>1 DEF SampleInv, SampleTypes
  <2>8. \A j \in 1..n : samplers'[j].at = "over"
    BY <2>2, <2>5 DEF NoneBusy
  <2>9. SamplersInv'
    <3> SUFFICES ASSUME NEW j \in 1..n + 1
                 PROVE  SamplerInv(samplers[j])'
      BY <2>5 DEF SamplersInv
    <3>1. CASE j = n + 1
      BY <3>1, <2>4, <2>5, <2>6 DEF SamplerInv
    <3>2. CASE j \in 1..n
      BY <3>2, <2>8 DEF SamplerInv
    <3> QED
      BY <3>1, <3>2, <2>5
  <2>10. AnswersInv' /\ WorldInv'
    BY <1>1, <2>2, <2>6 DEF SampleInv, AnswersInv, WorldInv
  <2>11. WayInv'
    <3>1. OnlyBusy(n + 1)'
      BY <2>4, <2>5, <2>8 DEF OnlyBusy
    <3>2. n + 1 \in DOMAIN samplers'
      BY <2>5
    <3> QED
      BY <3>1, <3>2, <1>1, <2>2, <2>6 DEF WayInv
  <2> QED
    BY <2>7, <2>9, <2>10, <2>11 DEF SampleInv
<1> QED
  BY <1>2, <1>3 DEF Sample!SampleTestStacks

LEMMA SampleNextKeeps == SampleInv /\ Sample!SampleNext => SampleInv'
<1> SUFFICES ASSUME SampleInv, Sample!SampleNext
             PROVE  SampleInv'
  OBVIOUS
<1>1. ASSUME NEW p \in Processes, Sample!Spawn(p) \/ Sample!Fork(p) \/ Sample!ExitProcess(p)
      PROVE  SampleInv'
  BY <1>1, ProcessesKeep
<1>2. ASSUME Sample!ClearTracker
      PROVE  SampleInv'
  <2>1. tracker' = Nobody /\ UNCHANGED <<stage, alive, gone, pane, samplers, answers>>
    BY <1>2 DEF Sample!ClearTracker
  <2>2. WorldInv'
    BY <2>1 DEF SampleInv, WorldInv
  <2> QED
    BY <2>1, <2>2, WorldKeeps
<1>3. ASSUME NEW t \in Tests, Sample!SampleTestStacks(t)
      PROVE  SampleInv'
  BY <1>3, SampleTestStacksKeeps
<1>4. CASE Sample!CloseSample \/ Sample!FinishSample \/ Sample!Quit \/ Sample!Exit
  BY <1>4, CloseSampleKeeps, FinishSampleKeeps, QuitSampleKeeps, StillSampleKeeps
<1>5. ASSUME NEW k \in DOMAIN samplers, Sample!Work(k)
      PROVE  SampleInv'
  <2>1. CASE Sample!FindNothing(k)
    BY <2>1, FailureKeeps DEF Sample!FindNothing
  <2>2. CASE Sample!FindTest(k)
    BY <2>2, FindTestKeeps
  <2>3. CASE Sample!SampleProcess(k)
    BY <2>3, SampleProcessKeeps
  <2>4. CASE Sample!SampleFails(k)
    BY <2>4, SampleFailsKeeps
  <2>5. CASE Sample!ListAgain(k)
    BY <2>5, ListAgainKeeps
  <2>6. CASE Sample!SendAnswer(k)
    BY <2>6, SendAnswerKeeps
  <2>7. CASE Sample!Discard(k)
    BY <2>7, DiscardKeeps
  <2> QED
    BY <1>5, <2>1, <2>2, <2>3, <2>4, <2>5, <2>6, <2>7 DEF Sample!Work
<1> QED
  BY <1>1, <1>2, <1>3, <1>4, <1>5 DEF Sample!SampleNext

THEOREM SampleInvariance == BackgroundSpec => []SampleInv
<1>1. BackgroundInit => SampleInv
  BY SampleInitInv DEF BackgroundInit
<1>2. SampleInv /\ [BackgroundNext]_backgroundVars => SampleInv'
  <2> SUFFICES ASSUME SampleInv, [BackgroundNext]_backgroundVars
               PROVE  SampleInv'
    OBVIOUS
  <2>1. CASE SampleRests \/ UNCHANGED backgroundVars
    BY <2>1, StillSampleKeeps DEF SampleRests, backgroundVars
  <2>2. CASE Sample!SampleNext
    BY <2>2, SampleNextKeeps
  <2> QED
    BY <2>1, <2>2 DEF BackgroundNext
<1> QED
  BY <1>1, <1>2, PTL DEF BackgroundSpec

(* Of any test, with any processes in any groups: a report that is shown   *)
(* is of the test it names, lists what was found of its process group, is  *)
(* called complete only if nothing was omitted and nothing failed, and the *)
(* pane waits for exactly one answer (sample_running_test_stacks,          *)
(* finish_test_stack_sample).                                              *)
THEOREM SamplesAreTrue == BackgroundSpec => []ReportIsTrue
<1>1. SampleInv => Sample!SampleTypeOK
  <2> SUFFICES ASSUME SampleInv
               PROVE  Sample!SampleTypeOK
    OBVIOUS
  <2>1. answers = <<>> \/ Len(answers) = 1
    BY DEF SampleInv, SampleTypes, WayInv
  <2>2. Len(answers) <= 1
    <3>1. Len(answers) \in {0, 1}
      BY <2>1
    <3>2. \A n \in {0, 1} : n <= 1
      OBVIOUS
    <3> QED
      BY <3>1, <3>2, Zenon
  <2>3. pane.open \in BOOLEAN /\ pane.running \in BOOLEAN /\ pane.title \in Tests \union {Nobody}
    BY DEF SampleInv, SampleTypes
  <2>4. stage \in {"run", "shutdown", "exited"} /\ Len(samplers) <= MaxSamples
    BY DEF SampleInv, SampleTypes
  <2> QED
    BY <2>2, <2>3, <2>4 DEF SampleInv, WorldInv, Sample!SampleTypeOK
<1>2. SampleInv => Sample!ReportIsTrue
  BY DEF SampleInv, AnswersInv, Holds, Sample!ReportIsTrue
<1>3. SampleInv => Sample!OneIsUnderWay
  <2> DEFINE busy == {k \in DOMAIN samplers : samplers[k].at # "over"}
             way == Cardinality(busy) + Len(answers) = IF pane.running THEN 1 ELSE 0
  <2> SUFFICES ASSUME SampleInv, stage = "run"
               PROVE  way
    BY SameCardinality DEF Sample!OneIsUnderWay
  <2>1. CASE answers = <<>> /\ pane.running /\ \E k \in DOMAIN samplers : OnlyBusy(k)
    <3>1. PICK k \in DOMAIN samplers : OnlyBusy(k)
      BY <2>1
    <3>2. busy = {k}
      BY <3>1 DEF OnlyBusy
    <3>3. Cardinality(busy) = 1
      BY <3>2, FS_Singleton
    <3> HIDE DEF busy
    <3>4. way
      BY <2>1, <3>3
    <3> QED
      BY <3>4
  <2>2. CASE NoneBusy
    <3>1. busy = {}
      BY <2>2 DEF NoneBusy
    <3>2. Cardinality(busy) = 0
      BY <3>1, FS_EmptySet
    <3>3. Len(answers) = IF pane.running THEN 1 ELSE 0
      BY <2>2 DEF SampleInv, WayInv, NoneBusy, OnlyBusy
    <3> HIDE DEF busy
    <3>4. way
      BY <3>2, <3>3
    <3> QED
      BY <3>4
  <2> QED
    BY <2>1, <2>2 DEF SampleInv, WayInv
<1>4. SampleInv => ReportIsTrue
  BY <1>1, <1>2, <1>3 DEF ReportIsTrue
<1> QED
  BY <1>4, SampleInvariance, PTL
=============================================================================
