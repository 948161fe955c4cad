---------------------------- MODULE RequestBase ----------------------------
(* What every module of concurrent HTTP requests shares. *)
CONSTANTS
  Calls,  \* concurrent requests of each kind (bound)
  None
=============================================================================
