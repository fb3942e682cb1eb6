---------------------------- MODULE MCCustomRun ----------------------------
(* Two projects: the second has one profile, one reason and one test less, *)
(* so that what was chosen by index in the first may be gone or be another.*)
EXTENDS CustomRun, TLC

MCTests == {"t1", "t2", "t3"}
Profile(name, filter) == [name |-> name, filter |-> filter]
MCProjects == {
  [profiles |-> <<Profile("default", ""), Profile("ci", "all()")>>,
   tests |-> MCTests,
   reason |-> ("t1" :> None) @@ ("t2" :> 1) @@ ("t3" :> 2)],
  [profiles |-> <<Profile("default", "")>>,
   tests |-> {"t1", "t3"},
   reason |-> ("t1" :> None) @@ ("t2" :> None) @@ ("t3" :> 0)]}
MCTop == [retries |-> 2, maxFail |-> 2, stressCount |-> 2]
=============================================================================
