---------------------------- MODULE MCPersistence -----------------------------
(* One process at a time.  Two arguments, the second of which changes its   *)
(* default from one manifest to the next or disappears; the first loses a   *)
(* value.  A file may hold a width of either side of the range.             *)
EXTENDS Persistence, TLC

CONSTANTS p1, w1, w2, all, profile

arg(values, default) == [allowed |-> values, default |-> default]

MCValues == {"off", "on"}
MCManifests ==
  {all :> arg({"off", "on"}, "off") @@ profile :> arg({"off", "on"}, "off"),
   all :> arg({"off", "on"}, "off") @@ profile :> arg({"off", "on"}, "on"),
   all :> arg({"off"}, "off") @@ profile :> arg({}, "off")}
MCSome == {[a \in Args |-> Unset], [a \in Args |-> "on"]}
MCOneWorkspace == [p \in Processes |-> w1]
=============================================================================
