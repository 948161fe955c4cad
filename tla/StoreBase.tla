----------------------------- MODULE StoreBase -----------------------------
(* What the modules of a store's work share. *)
EXTENDS RequestBase

CONSTANTS
  Orders  \* order ids (bound)
=============================================================================
