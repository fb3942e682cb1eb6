---------------------------- MODULE RunLifecycle ----------------------------
(***************************************************************************)
(* What a test run promises to the user of nextdeck, without processes,    *)
(* channels or tasks.  A run is begun, emits numbered events, is decided   *)
(* by a verdict, and is concluded on the screen once every event emitted   *)
(* has been shown, in the order of emission.  RunPipeline is shown to      *)
(* implement this specification.                                           *)
(***************************************************************************)
EXTENDS Naturals

VARIABLES
  run,      \* number of runs begun so far; the current run's number
  active,   \* the application regards the current run as in progress
  asked,    \* the current run was asked to stop
  emitted,  \* how many events the current run has emitted
  shown,    \* how many of them the screen has taken in
  verdict,  \* how the run ended: "none" until that is known
  outcome,  \* what the screen reports of the run
  closed    \* the user has left the program

vars == <<run, active, asked, emitted, shown, verdict, outcome, closed>>

Verdicts == {"zero", "nonzero", "noexit", "stopped"}

Outcomes == {"Passed", "Failed", "CommandFailed", "Stopped"}

Init ==
  /\ run = 0
  /\ active = FALSE
  /\ asked = FALSE
  /\ emitted = 0
  /\ shown = 0
  /\ verdict = "none"
  /\ outcome = "NotStarted"
  /\ closed = FALSE

Begin ==
  /\ ~closed
  /\ ~active
  /\ run' = run + 1
  /\ active' = TRUE
  /\ asked' = FALSE
  /\ emitted' = 0
  /\ shown' = 0
  /\ verdict' = "none"
  /\ outcome' = "Running"
  /\ UNCHANGED closed

AskStop ==
  /\ active
  /\ asked' = TRUE
  /\ UNCHANGED <<run, active, emitted, shown, verdict, outcome, closed>>

Emit ==
  /\ active
  /\ emitted' = emitted + 1
  /\ UNCHANGED <<run, active, asked, shown, verdict, outcome, closed>>

(* Only a run that was asked to stop is ever decided "stopped".            *)
Decide(v) ==
  /\ active
  /\ verdict = "none"
  /\ v = "stopped" => asked
  /\ verdict' = v
  /\ UNCHANGED <<run, active, asked, emitted, shown, outcome, closed>>

Show ==
  /\ active
  /\ ~closed
  /\ shown < emitted
  /\ shown' = shown + 1
  /\ UNCHANGED <<run, active, asked, emitted, verdict, outcome, closed>>

(* The end of a run is the last thing the screen learns of it.             *)
Conclude(o) ==
  /\ active
  /\ ~closed
  /\ verdict # "none"
  /\ shown = emitted
  /\ o = "Stopped" <=> verdict = "stopped"
  /\ o = "Passed" => verdict = "zero"
  /\ active' = FALSE
  /\ outcome' = o
  /\ UNCHANGED <<run, asked, emitted, shown, verdict, closed>>

(* Leaving stops the run that is in progress.                              *)
Close ==
  /\ ~closed
  /\ closed' = TRUE
  /\ asked' \in {asked, active}
  /\ UNCHANGED <<run, active, emitted, shown, verdict, outcome>>

Next ==
  \/ Begin
  \/ AskStop
  \/ Emit
  \/ Show
  \/ Close
  \/ \E v \in Verdicts : Decide(v)
  \/ \E o \in Outcomes : Conclude(o)

Spec == Init /\ [][Next]_vars

=============================================================================
