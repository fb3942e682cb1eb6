------------------------------ MODULE MCResults ------------------------------
EXTENDS Results, TLC

\* Two tests of one target, one of a target of the same package whose kind
\* has no flag, and an ignored one of another package.
FourTests == 1..4
ThreeTargets == 1..3
TargetOfFour == <<1, 1, 2, 3>>
AllButTheMacro == {1, 3}
TwoPackages == 1..2
PackageOfThree == <<1, 1, 2>>
FourthIgnored == {4}

\* Tests 1 and 3, of different targets, have the same name, which is a part of
\* the name of test 2 (x_m, m::x_m); the path of its module, 5, is a part of all three.
OneModule == {5}
BelowIt == [p \in OneModule |-> {2}]
Names == [n \in FourTests \union OneModule |->
            CASE n \in {1, 3, 5} -> {1, 2, 3} [] OTHER -> {n}]

\* "w" takes two bytes; the second text ends its line itself.
MCCharacters == {"a", "b", "w", "m", "s", "/"}
MCMarker == <<"m", "m">>
MCSummary == <<"s">>
MCTexts == {<<"a", "w">>, <<"w", "b", "/">>}

\* Three for an xtask, two in the first run; the second prints no more than
\* the summaries of its failures.
MCArrivals == [r \in 0..2 |-> IF r = 2 THEN 0 ELSE 3 - r]

\* Nothing in the model tells the threads apart.
MCSymmetry == Permutations(Threads)
=============================================================================
