----------------------------- MODULE MCAutomation ----------------------------
(* Two sources of one version and one of another, two targets; renaming    *)
(* the targets, or the two sources of one version, changes nothing.        *)
EXTENDS Automation, TLC

CONSTANTS s1, s2, s3, v1, v2, mac, linux

MCVersionOf == s1 :> v1 @@ s2 :> v1 @@ s3 :> v2
Alike == {p @@ q : p \in Permutations({mac, linux}), q \in Permutations({s1, s2})}
=============================================================================
