-------------------------------- MODULE ULib --------------------------------
(***************************************************************************)
(* What the modules of the user library share: the threads of a process.   *)
(***************************************************************************)
CONSTANTS
  THREADS,
  None      \* NULL, or nobody
=============================================================================
