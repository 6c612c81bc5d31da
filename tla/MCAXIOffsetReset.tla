-------------------------- MODULE MCAXIOffsetReset --------------------------
(* Model checking of AXIOffsetReset: the bounds are in the .cfg files. *)
EXTENDS AXIOffsetReset
=============================================================================
