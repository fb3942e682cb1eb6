-------------------------- MODULE MCBackgroundTasks --------------------------
EXTENDS BackgroundTasks

CONSTANTS a, b

\* Below nextest, test a with a child and a grandchild in its process group,
\* one more than are sampled, and a child outside of it; and test b.
MCProcesses == 1..6
MCRoots == {1}
MCParentOf == <<Nobody, 1, 2, 3, 2, 1>>
MCGroupOf == <<1, 2, 2, 2, 5, 6>>
MCTestOf == <<Nobody, a, Nobody, Nobody, Nobody, b>>
=============================================================================
