------------------------------ MODULE BcmcPins ------------------------------
(***************************************************************************)
(* validation/output_engine.py: OutputStage, the golden model of the       *)
(* output engine, and the matrix column it latches.  A pattern is the set  *)
(* of its active lanes.                                                    *)
(***************************************************************************)
EXTENDS BcmcArith

CONSTANT Lanes                   \* the lanes of the stage, 0 .. max_c - 1

VARIABLES
  pattern,        \* the pattern of the last visit
  valid_was       \* valid in the previous cycle

stageVars == <<pattern, valid_was>>

StageInit == pattern = {} /\ valid_was = FALSE

\* bits_of: M(., column), read off the reference model.
bits_of(N, C, W, column) ==
  IF N < 1 \/ C < 1 \/ column >= N THEN {}
  ELSE {i \in 0 .. C - 1 : RefBit(i, column, N, C, W)}

pins_of(valid) == IF valid THEN pattern ELSE {}

lane_above_c(column_bits, C) == {i \in column_bits \cap Lanes : i >= C}

\* tick() without rst, and with it.
StageTick(column_bits, visit_valid, valid) ==
  /\ pattern' = IF valid_was /\ ~valid THEN {}
                ELSE IF visit_valid THEN column_bits \cap Lanes ELSE pattern
  /\ valid_was' = valid

StageReset(valid) == pattern' = {} /\ valid_was' = valid
=============================================================================
