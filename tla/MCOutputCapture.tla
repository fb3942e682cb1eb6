-------------------------- MODULE MCOutputCapture --------------------------
EXTENDS OutputCapture

\* The tests, the second of which may fail.
CONSTANTS A, B

OneMayFail == {{}, {B}}
=============================================================================
