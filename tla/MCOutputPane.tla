---------------------------- MODULE MCOutputPane ----------------------------
EXTENDS OutputPane

CONSTANT Q, R   \* two queries

Line(no, len, spaces, hits, other) ==
  [no |-> no, len |-> len, spaces |-> spaces,
   hits |-> [q \in {Q, R} |-> IF q = Q THEN hits ELSE other]]

\* "ab cd", of which "cd" matches; "x"; "cdcd", which matches twice.
\* The other query matches an "a" or an "x", also in "No output captured".
MCLive == <<Line(1, 5, {2}, {<<3, 5>>}, {<<0, 1>>}), Line(2, 1, {}, {}, {<<0, 1>>}),
            Line(3, 4, {}, {<<0, 2>>, <<2, 4>>}, {})>>

MCOther == <<Line(11, 3, {}, {<<0, 2>>}, {})>>
\* The summaries match too: of the test that failed, and of the run.
MCFailure == Line(8, 2, {}, {<<0, 1>>}, {<<0, 1>>})
MCReport == Line(30, 3, {}, {<<1, 3>>}, {})
MCEmpty == Line(20, 2, {}, {}, {<<1, 2>>})
MCMarker == Line(21, 2, {}, {}, {})
MCNoMatch == Line(22, 2, {}, {}, {})
=============================================================================
