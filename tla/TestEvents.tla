------------------------------ MODULE TestEvents -----------------------------
(***************************************************************************)
(* Structured events that tests emit, and the logs in which the panel      *)
(* keeps them: one log for each of the last runs, each bounded in events   *)
(* and in bytes.  Threads of a test number an event when they create it    *)
(* and write it later, under the lock of the process's stdout.             *)
(* Sources: nextdeck-helper/src/lib.rs, test_events.rs, app.rs.            *)
(***************************************************************************)
EXTENDS Naturals, Sequences, SequencesExt, FiniteSetsExt

CONSTANTS
  Threads,     \* threads of the test process
  Sizes,       \* how many bytes of a log an event may take
  MaxRunLogs,  \* MAX_EVENT_RUNS (20)
  MaxLogged,   \* MAX_EVENTS_PER_RUN (2000)
  MaxBytes,    \* EVENT_RUN_RETENTION_BYTES
  None,
  MaxRuns, MaxEmitted \* bounds: runs begun, events emitted

EventsAssumption ==
  /\ Sizes \subseteq Nat \ {0} /\ MaxBytes \in Nat /\ \A n \in Sizes : n <= MaxBytes
  /\ MaxRunLogs \in Nat \ {0} /\ MaxLogged \in Nat \ {0}
  /\ None \notin Nat /\ MaxRuns \in Nat /\ MaxEmitted \in Nat

VARIABLES
  \* the test process
  nextSequence,  \* EVENT_SEQUENCE
  held,          \* of each thread: the event it has created and not written
  wire,          \* what was written and Nextdeck has not read
  \* TestEventsState
  modal, selected, logs, active, unread,
  begun,         \* runs begun: the id of the last
  received       \* history: of each listed run, the events it received

processVars == <<nextSequence, held, wire>>
panelVars == <<modal, selected>>
logVars == <<logs, active, begun, received>>
vars == <<processVars, panelVars, logVars, unread>>

Bytes(log) ==
  LET sum[k \in 0..Len(log.events)] == IF k = 0 THEN 0 ELSE sum[k - 1] + log.events[k].size
  IN sum[Len(log.events)]

(* TestEventRunLog::append_event: the oldest events make room.             *)
Retained(events) ==
  LET Fits(k) == /\ Len(events) - k <= MaxLogged
                 /\ Bytes([events |-> SubSeq(events, k + 1, Len(events))]) <= MaxBytes
      dropped == Min({k \in 0..Len(events) : Fits(k)})
  IN SubSeq(events, dropped + 1, Len(events))

Logged_KeepsOldest(log, event) ==
  LET all == Append(log.events, event)
      kept == IF Len(Retained(all)) < Len(all) THEN log.events ELSE all
  IN [log EXCEPT !.events = kept, !.total = @ + 1,
                 !.truncated = @ \/ Len(kept) < Len(all)]

Logged(log, event) ==
  LET all == Append(log.events, event)
  IN [log EXCEPT !.events = Retained(all), !.total = @ + 1,
                 !.truncated = @ \/ Len(Retained(all)) < Len(all)]

\* The number that render_events puts before the k-th line of a log.
Index(log, k) == log.total - Len(log.events) + k

LogOf(id) == CHOOSE i \in DOMAIN logs : logs[i].id = id

Init ==
  /\ nextSequence = 1 /\ held = [t \in Threads |-> None] /\ wire = <<>>
  /\ modal = FALSE /\ selected = 1 /\ logs = <<>> /\ active = None /\ unread = FALSE
  /\ begun = 0 /\ received = <<>>

-----------------------------------------------------------------------------
(* TestEvent::new; emit follows, with whatever the thread does in between. *)
Create(t) ==
  /\ active # None /\ held[t] = None /\ nextSequence <= MaxEmitted
  /\ \E size \in Sizes : held' = [held EXCEPT ![t] = [sequence |-> nextSequence, size |-> size]]
  /\ nextSequence' = nextSequence + 1
  /\ UNCHANGED <<wire, panelVars, logVars, unread>>

(* emit: one frame, written whole under the lock of stdout.                *)
Emit(t) ==
  /\ held[t] # None
  /\ wire' = Append(wire, held[t])
  /\ held' = [held EXCEPT ![t] = None]
  /\ UNCHANGED <<nextSequence, panelVars, logVars, unread>>

-----------------------------------------------------------------------------
MakeRoom ==
  IF Len(logs) < MaxRunLogs THEN logs ELSE SubSeq(logs, Len(logs) + 2 - MaxRunLogs, Len(logs))

(* begin_run, once the run before has ended.                               *)
BeginRun ==
  /\ active = None /\ begun < MaxRuns
  /\ begun' = begun + 1 /\ active' = begun'
  /\ logs' = Append(MakeRoom, [id |-> begun', status |-> "running", events |-> <<>>, total |-> 0,
                               truncated |-> FALSE])
  /\ selected' = Len(logs')
  /\ received' = [id \in {logs'[i].id : i \in DOMAIN logs'} |->
                    IF id = begun' THEN <<>> ELSE received[id]]
  /\ nextSequence' = 1
  /\ UNCHANGED <<held, wire, modal, unread>>

(* append_active_event, for every event in a test's output.                *)
Receive ==
  /\ wire # <<>> /\ active # None
  /\ wire' = Tail(wire)
  /\ logs' = [logs EXCEPT ![LogOf(active)] = Logged(@, Head(wire))]
  /\ received' = [received EXCEPT ![active] = Append(@, Head(wire))]
  /\ unread' = (unread \/ ~modal)
  /\ UNCHANGED <<nextSequence, held, panelVars, active, begun>>

(* finish_active_run: a terminal event is the last of its run.             *)
Finish ==
  /\ active # None /\ wire = <<>> /\ \A t \in Threads : held[t] = None
  /\ \E status \in {"passed", "failed"} :
       logs' = [logs EXCEPT ![LogOf(active)].status = status]
  /\ active' = None
  /\ UNCHANGED <<processVars, panelVars, begun, received, unread>>

-----------------------------------------------------------------------------
Open ==
  /\ ~modal /\ modal' = TRUE
  /\ unread' = FALSE
  /\ selected' = IF logs = <<>> THEN 1 ELSE Len(logs)
  /\ UNCHANGED <<processVars, logVars>>

Close == modal /\ modal' = FALSE /\ UNCHANGED <<processVars, selected, logVars, unread>>

SelectRun ==
  /\ modal
  /\ \/ logs # <<>> /\ selected' = Min({selected + 1, Len(logs)})
     \/ selected' = Max({selected - 1, 1})
  /\ UNCHANGED <<processVars, modal, logVars, unread>>

Next ==
  \/ BeginRun \/ Receive \/ Finish \/ Open \/ Close \/ SelectRun
  \/ \E t \in Threads : Create(t) \/ Emit(t)

Spec == Init /\ [][Next]_vars

-----------------------------------------------------------------------------
TypeOK ==
  /\ nextSequence \in 1..(MaxEmitted + 1)
  /\ modal \in BOOLEAN /\ unread \in BOOLEAN /\ begun \in 0..MaxRuns
  /\ active \in {None} \union 1..MaxRuns
  /\ Len(logs) <= MaxRunLogs
  /\ selected \in 1..Max({1, Len(logs)})
  /\ \A i \in DOMAIN logs : Len(logs[i].events) <= MaxLogged /\ Bytes(logs[i]) <= MaxBytes

(* A log shows the last events of its run, the newest always among them,   *)
(* each under the number it has in the whole run, and says that there were *)
(* earlier ones exactly when there were.                                   *)
LogsTellTheTail ==
  \A i \in DOMAIN logs :
    LET log == logs[i]
        all == received[log.id]
    IN /\ log.total = Len(all)
       /\ log.truncated <=> Len(log.events) < Len(all)
       /\ all # <<>> => log.events # <<>>
       /\ \A k \in DOMAIN log.events : log.events[k] = all[Index(log, k)]

(* The runs the panel lists are the last ones, in order, and only the one  *)
(* in progress says "running", whichever the user has selected meanwhile.  *)
RunsAreListed ==
  /\ \A i \in DOMAIN logs : /\ logs[i].id = begun - Len(logs) + i
                            /\ logs[i].status = "running" <=> logs[i].id = active
  /\ active # None => \E i \in DOMAIN logs : logs[i].id = active

(* The runs are listed as they were, each with the end of what it logged.  *)
LogsInv == TypeOK /\ LogsTellTheTail /\ RunsAreListed

-----------------------------------------------------------------------------
(* What the code does not guarantee.                                       *)

(* In the order in which they arrive, the sequence numbers increase.       *)
SequenceIncreases ==
  \A id \in DOMAIN received : \A i, j \in DOMAIN received[id] :
    i < j => received[id][i].sequence < received[id][j].sequence

=============================================================================
