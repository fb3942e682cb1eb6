------------------------------ MODULE XtaskPanel -----------------------------
(***************************************************************************)
(* The whole xtask panel: its commands (module Xtasks) and the value of an *)
(* argument of the selected one (module XtaskArguments).  Both are fields  *)
(* of XtaskState that no handler of the other writes, so that either is    *)
(* checked in every state of its own while the other rests: the argument   *)
(* is declared, edited and reloaded before the commands do anything, and   *)
(* they do what they do with a flag that is off.                           *)
(* Sources: xtask.rs, xtask/preferences.rs, runner.rs.                     *)
(***************************************************************************)
EXTENDS Xtasks

CONSTANTS Words, Dashed, MinInt, MaxInt, Choices

VARIABLES program, value

Argument == INSTANCE XtaskArguments

ASSUME ArgumentAssumption == Argument!ArgumentAssumption

panel == <<vars, program, value>>

Flag == [action |-> "SetTrue", choices |-> <<>>, default |-> Argument!Missing,
         required |-> FALSE, long |-> TRUE, takes |-> "plain", type |-> "text"]

ArgumentRests == program = Flag /\ value = Argument!Off
CommandsRest == asked = <<"asking">> /\ ~modal /\ edits = 0

PanelInit == Init /\ Argument!Init

PanelNext ==
  \/ ArgumentRests /\ Next /\ UNCHANGED <<program, value>>
  \/ CommandsRest /\ Argument!Next /\ UNCHANGED vars

PanelSpec == PanelInit /\ [][PanelNext]_panel /\ Fairness

-----------------------------------------------------------------------------
(* What the program receives is what the panel shows, and every request    *)
(* that Nextdeck makes is one that Clap takes, as far as the manifest says *)
(* what Clap takes.                                                        *)
ReceivedIsShown == Argument!TypeOK /\ Argument!ReceivedIsShown /\ Argument!RequestIsAccepted

(* The panel ends with the answer to its last question and waits only for  *)
(* one that comes; and a command it runs is the command it shows.          *)
PanelInv == TypeOK /\ ShownIsRecent /\ LoadIsUnderWay /\ ReceivedIsShown
=============================================================================
