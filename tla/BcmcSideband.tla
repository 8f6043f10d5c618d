---------------------------- MODULE BcmcSideband ----------------------------
(***************************************************************************)
(* What the golden models of the observer are told in a cycle and hold no  *)
(* register for: the row and the validity of the peripheral's context, and *)
(* the mode bit of the pass.                                               *)
(***************************************************************************)
VARIABLES
  N,              \* the row of the context
  valid,          \* VALID of the peripheral
  oneshot         \* the engine's attribute: a pass ends at its last step
=============================================================================
