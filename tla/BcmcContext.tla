---------------------------- MODULE BcmcContext ----------------------------
(***************************************************************************)
(* rtl/bcmc_context.v: the persistent context.  The weight window belongs  *)
(* to software, the offset window to the transform, and loading_q says who *)
(* owns the context now.  Edge is the always block, with the module's      *)
(* inputs as parameters; the storage never refuses, it drops.              *)
(***************************************************************************)
EXTENDS BcmcArith

CONSTANT MaxC                    \* MAX_C, the rows this instance can hold

ASSUME MaxCAssumption == MaxC \in Nat \ {0}

Lanes == 0 .. MaxC - 1

VARIABLES
  weight_mem, offset_mem,
  wr_ptr,         \* offsets stored so far in this load
  loading_q       \* the transform owns the context

contextVars == <<weight_mem, offset_mem, wr_ptr, loading_q>>

ContextTypeOK ==
  /\ weight_mem \in [Lanes -> Val] /\ offset_mem \in [Lanes -> Val]
  /\ wr_ptr \in 0 .. MaxC
  /\ loading_q \in BOOLEAN

ContextInit ==
  /\ weight_mem = [i \in Lanes |-> 0] /\ offset_mem = [i \in Lanes |-> 0]
  /\ wr_ptr = 0 /\ loading_q = FALSE

\* Reads are total: an index that names no lane reads 0.
ReadLane(mem, index) == IF index \in Lanes THEN mem[index] ELSE 0

-----------------------------------------------------------------------------
\* load_start wins over load_done.
Ownership(load_start, load_done) ==
  loading_q' = (load_start \/ (loading_q /\ ~load_done))

\* A software write lands only while software owns the context.
WeightWindow(sw_we, index, data) ==
  weight_mem' = IF sw_we /\ ~loading_q /\ index \in Lanes
                THEN [weight_mem EXCEPT ![index] = data]
                ELSE weight_mem

\* Mutant of ClearOffsets: only the write pointer is rewound.
RewindOffsets == wr_ptr' = 0 /\ UNCHANGED offset_mem

\* Cleared whole at load_start, then filled in stream order.
ClearOffsets ==
  /\ offset_mem' = [i \in Lanes |-> 0]
  /\ wr_ptr' = 0

StoreOffset(offset_in) ==
  /\ offset_mem' = [offset_mem EXCEPT ![wr_ptr] = offset_in]
  /\ wr_ptr' = wr_ptr + 1

OffsetWindow(load_start, offset_valid, offset_in) ==
  LET stores == offset_valid /\ loading_q /\ wr_ptr \in Lanes
  IN  \/ load_start /\ ClearOffsets
      \/ ~load_start /\ stores /\ StoreOffset(offset_in)
      \/ ~load_start /\ ~stores /\ UNCHANGED <<offset_mem, wr_ptr>>

ResetContext ==
  /\ weight_mem' = [i \in Lanes |-> 0] /\ offset_mem' = [i \in Lanes |-> 0]
  /\ wr_ptr' = 0 /\ loading_q' = FALSE
=============================================================================
