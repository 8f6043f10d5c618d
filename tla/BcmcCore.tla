------------------------------ MODULE BcmcCore ------------------------------
(***************************************************************************)
(* rtl/bcmc_core.v: the canonical prefix transform.  It accepts one weight *)
(* per clock while it runs, emits the offset of that row one clock later,  *)
(* and raises done for one clock once every offset is out.  Each action is *)
(* one rising edge of clk; Edge is the whole always block, with the inputs *)
(* as parameters.                                                          *)
(***************************************************************************)
EXTENDS BcmcArith

CONSTANT IdxRange                \* 2^IDX_W

ASSUME IdxRangeAssumption == IdxRange \in Nat \ {0, 1}

Idx == 0 .. IdxRange - 1

VARIABLES
  state,          \* "IDLE", "RUN" or "DONE"
  offset_q,       \* o_i, the whole mathematical state of the transform
  row_q,          \* weights accepted so far
  n_q, c_q,       \* N and C, latched at start
  offset_out,     \* the emitted offset, meaningful while offset_valid
  offset_valid

coreVars == <<state, offset_q, row_q, n_q, c_q, offset_out, offset_valid>>

CoreTypeOK ==
  /\ state \in {"IDLE", "RUN", "DONE"}
  /\ offset_q \in Val /\ n_q \in Val /\ offset_out \in Val
  /\ row_q \in Idx /\ c_q \in Idx
  /\ offset_valid \in BOOLEAN

\* The values every register takes on rst.
CoreInit ==
  /\ state = "IDLE"
  /\ offset_q = 0 /\ row_q = 0 /\ n_q = 0 /\ c_q = 0
  /\ offset_out = 0 /\ offset_valid = FALSE

busy == state = "RUN"
done == state = "DONE"
\* Mutant of rows_left: the last row is forgotten.
rows_left_short == row_q + 1 < c_q

rows_left == row_q # c_q
accept(weight_valid) == state = "RUN" /\ weight_valid /\ rows_left

-----------------------------------------------------------------------------
\* ST_IDLE with start: latch the context and begin at offset[0] = 0.
StartCore(N, C) ==
  /\ state = "IDLE"
  /\ state' = "RUN"
  /\ n_q' = N /\ c_q' = C
  /\ offset_q' = 0 /\ row_q' = 0
  /\ offset_valid' = FALSE
  /\ UNCHANGED offset_out

\* ST_IDLE without start.
WaitStart ==
  /\ state = "IDLE"
  /\ offset_valid' = FALSE
  /\ UNCHANGED <<state, offset_q, row_q, n_q, c_q, offset_out>>

\* ST_RUN and accept: emit before update.
Accept(weight) ==
  /\ state = "RUN" /\ rows_left
  /\ offset_out' = offset_q
  /\ offset_valid' = TRUE
  /\ offset_q' = NextOffset(offset_q, weight, n_q)
  /\ row_q' = row_q + 1
  /\ UNCHANGED <<state, n_q, c_q>>

\* ST_RUN, rows left and no weight presented: an idle gap in the stream.
Gap ==
  /\ state = "RUN" /\ rows_left
  /\ offset_valid' = FALSE
  /\ UNCHANGED <<state, offset_q, row_q, n_q, c_q, offset_out>>

\* Mutant of Finish: waits for an offset that an empty run never emits.
FinishOnOffset ==
  /\ state = "RUN" /\ ~rows_left /\ offset_valid
  /\ state' = "DONE"
  /\ offset_valid' = FALSE
  /\ UNCHANGED <<offset_q, row_q, n_q, c_q, offset_out>>

\* ST_RUN, all C weights accepted: the last offset is on the bus now.
Finish ==
  /\ state = "RUN" /\ ~rows_left
  /\ state' = "DONE"
  /\ offset_valid' = FALSE
  /\ UNCHANGED <<offset_q, row_q, n_q, c_q, offset_out>>

\* ST_DONE: done is high for exactly this clock.
Retire ==
  /\ state = "DONE"
  /\ state' = "IDLE"
  /\ offset_valid' = FALSE
  /\ UNCHANGED <<offset_q, row_q, n_q, c_q, offset_out>>

\* One rising edge, with the module's inputs during the clock before it.
Edge(start, N, C, weight_valid, weight_in) ==
  \/ start /\ StartCore(N, C)
  \/ ~start /\ WaitStart
  \/ weight_valid /\ Accept(weight_in)
  \/ ~weight_valid /\ Gap
  \/ Finish
  \/ Retire

ResetCore ==
  /\ state' = "IDLE"
  /\ offset_q' = 0 /\ row_q' = 0 /\ n_q' = 0 /\ c_q' = 0
  /\ offset_out' = 0 /\ offset_valid' = FALSE
=============================================================================
