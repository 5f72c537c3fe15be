----------------------------- MODULE MCMachine -----------------------------
(* Model checking Machine. *)
EXTENDS Machine
=============================================================================
