----------------------------- MODULE BcmcStream -----------------------------
(***************************************************************************)
(* The Core behind its Prefix Stream Interface: a producer that keeps the  *)
(* interface's contract (start only while idle, weights only while busy,   *)
(* never more than C of them, each at most N) but may leave any gap        *)
(* between two weights, and a consumer that collects every offset offered  *)
(* with offset_valid.  accepted and emitted are the two ends of the pipe.  *)
(***************************************************************************)
EXTENDS BcmcCore, Sequences, FiniteSets

CONSTANT MaxRows                 \* bound: the largest C a run is started with

ASSUME MaxRowsAssumption == MaxRows \in Idx

VARIABLES
  accepted,       \* the weights accepted in this run, in order
  emitted         \* the offsets the consumer has seen in this run, in order

vars == <<coreVars, accepted, emitted>>

Init == CoreInit /\ accepted = <<>> /\ emitted = <<>>

\* The consumer samples offset_out at every edge where offset_valid is high.
Consume ==
  emitted' = IF offset_valid THEN Append(emitted, offset_out) ELSE emitted

Begin ==
  /\ state = "IDLE"
  /\ \E N \in Val \ {0}, C \in 0 .. MaxRows : Edge(TRUE, N, C, FALSE, 0)
  /\ accepted' = <<>> /\ emitted' = <<>>

Feed ==
  /\ busy /\ rows_left
  /\ \E weight \in 0 .. n_q :
       /\ Edge(FALSE, 0, 0, TRUE, weight)
       /\ accepted' = Append(accepted, weight)
  /\ Consume

\* No weight this clock: a gap, the end of the run, or nothing to do.
Idle == Edge(FALSE, 0, 0, FALSE, 0) /\ Consume /\ UNCHANGED accepted

ResetAll == ResetCore /\ accepted' = <<>> /\ emitted' = <<>>

Next == Begin \/ Feed \/ Idle \/ ResetAll

Spec == Init /\ [][Next]_vars

\* The clock runs, and the producer does not leave a gap for ever.
FairSpec == Spec /\ WF_vars(Idle) /\ WF_vars(Feed)

-----------------------------------------------------------------------------
\* The rows of this run as functions on 0 .. C - 1, as the reference has them.
Weights == [i \in 0 .. Len(accepted) - 1 |-> accepted[i + 1]]
Offsets == [i \in 0 .. Len(emitted) - 1 |-> emitted[i + 1]]

TypeOK ==
  /\ CoreTypeOK
  /\ accepted \in Seq(Val) /\ emitted \in Seq(Val)
  /\ Len(accepted) <= MaxRows /\ Len(emitted) <= MaxRows

\* Prefix sums: the stream of offsets is determined by the accepted weights
\* alone, however many gaps separate them: offset k is the sum of the k weights
\* before it, modulo N, and at most one is still on its way to the consumer.
OffsetsArePrefixSums ==
  /\ Len(accepted) = Len(emitted) + (IF offset_valid THEN 1 ELSE 0)
  /\ \A k \in DOMAIN Offsets :
       Offsets[k] = RefOffset(k, n_q, Len(accepted), Weights)

\* The datapath invariant that makes the single subtraction of the Core exact.
OffsetBelowN == state = "RUN" => offset_q < n_q

\* done means that the entire offset stream has been emitted: at done the
\* consumer holds C offsets, so nothing can arrive after it.
DoneAfterLastOffset ==
  done => Len(accepted) = c_q /\ Len(emitted) = c_q /\ ~offset_valid

\* The contract of the Prefix Stream Interface, under any gaps: the registers
\* keep their widths, the offsets are the prefix sums of the weights taken,
\* each below N, and done comes after the last of them.
StreamContract ==
  /\ TypeOK
  /\ OffsetsArePrefixSums
  /\ OffsetBelowN
  /\ DoneAfterLastOffset

\* The strengthening of the contract that is inductive: the register of the
\* Core and the offset on the bus are those of the reference for the weights
\* taken so far, and a run has latched a row and takes no more than C weights.
Reference(k) == RefOffset(k, n_q, Len(accepted), Weights)

StreamInv ==
  /\ TypeOK /\ c_q <= MaxRows
  /\ state # "IDLE" => n_q # 0 /\ row_q = Len(accepted) /\ row_q <= c_q
  /\ state = "DONE" => row_q = c_q
  /\ state # "RUN" => ~offset_valid
  /\ n_q = 0 => accepted = <<>>
  /\ \A i \in DOMAIN Weights : Weights[i] <= n_q
  /\ n_q # 0 => offset_q = Reference(Len(accepted))
  /\ offset_valid => offset_out = Reference(Len(accepted) - 1)
  /\ OffsetsArePrefixSums

\* The matrix that the cells evaluate from the emitted pairs.
Bit(i, j) == ColumnBit(i, j, n_q, c_q, Weights, Offsets)
Rows == 0 .. c_q - 1
Columns == 0 .. n_q - 1

\* Row conservation and the Balance Theorem, of the hardware's own bits: row i
\* has exactly its weight of ones, and the columns differ by at most one, the
\* fuller ones first.
Balanced ==
  LET total == PrefixSum(c_q, Weights)[c_q]
  IN  /\ \A i \in Rows :
           Cardinality({j \in Columns : Bit(i, j)}) = Weights[i]
      /\ \A j \in Columns :
           Cardinality({i \in Rows : Bit(i, j)})
             = PredictedOccupancy(j, n_q, total)

\* What the Evaluator computes from a finished run is the matrix of the
\* characteristic definition, seen through a column or through a row, and it
\* is balanced.
EvaluatesTheMatrix ==
  done =>
    /\ \A i \in Rows, j \in Columns :
         /\ Bit(i, j) = RefBit(i, j, n_q, c_q, Weights)
         /\ RowBit(Weights[i], Offsets[i], j, n_q) = Bit(i, j)
    /\ Balanced

\* A run that has started ends, unless it is reset: the Core cannot get stuck
\* between the last weight and done.
RunCompletes == busy ~> (done \/ (state = "IDLE" /\ row_q = 0))
=============================================================================
