-------------------------- MODULE NextdeckProcesses ---------------------------
(***************************************************************************)
(* What the modules about the files under ~/.nextdeck have in common: the  *)
(* processes that read and write them.                                     *)
(***************************************************************************)
CONSTANTS
  Processes,   \* of Nextdeck, over time
  Overlap      \* whether processes may run at the same time
=============================================================================
