---------------------------- MODULE BcmcOutEngine ----------------------------
(***************************************************************************)
(* rtl/bcmc_out_engine.v: the output engine.  It holds the pattern of the  *)
(* last visit (a set of active lanes) and shows it while a matrix exists.  *)
(***************************************************************************)

VARIABLES
  pattern_q,      \* the lanes of the last visit, {} while there is none
  valid_q         \* VALID in the previous clock; not reset

outVars == <<pattern_q, valid_q>>

\* valid_q has no reset value: it holds what VALID was in the reset's clock.
OutInit == pattern_q = {} /\ valid_q \in BOOLEAN

pins(valid) == IF valid THEN pattern_q ELSE {}
valid_fell(valid) == valid_q /\ ~valid

\* Mutant of OutEdge: the pattern survives its matrix.
OutEdgeKeeping(column_bits, visit, valid) ==
  /\ valid_q' = valid
  /\ pattern_q' = IF visit THEN column_bits ELSE pattern_q

OutEdge(column_bits, visit, valid) ==
  /\ valid_q' = valid
  /\ pattern_q' = IF valid_fell(valid) THEN {}
                  ELSE IF visit THEN column_bits ELSE pattern_q

ResetOutEngine(valid) == valid_q' = valid /\ pattern_q' = {}
=============================================================================
