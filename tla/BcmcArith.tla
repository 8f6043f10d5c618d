------------------------------ MODULE BcmcArith ------------------------------
(***************************************************************************)
(* The combinational arithmetic of the peripheral: the forward wrap of the *)
(* Core, the backward wrap of the Evaluator, and the two replicated        *)
(* evaluators.  Registers are VAL_W bits wide, so every difference is      *)
(* taken modulo ValRange = 2^VAL_W; nothing here assumes the operands are  *)
(* legal.  The second half is the mathematics the arithmetic stands for.   *)
(***************************************************************************)
EXTENDS Integers

CONSTANT ValRange                \* 2^VAL_W

ASSUME ValRangeAssumption == ValRange \in Nat \ {0, 1}

Val == 0 .. ValRange - 1         \* what a VAL_W-bit register holds

\* Mutant of NextOffset: a comparison that misses the sum n itself.
NextOffsetStrict(offset, weight, n) ==
  LET sum == offset + weight
  IN  IF sum > n THEN (sum - n) % ValRange ELSE sum

\* bcmc_core: (offset + weight) mod n by one comparison and one subtraction.
\* The sum has one bit of headroom, the difference is truncated to VAL_W bits.
NextOffset(offset, weight, n) ==
  LET sum == offset + weight
  IN  IF sum >= n THEN (sum - n) % ValRange ELSE sum

\* Mutant of Delta: the wrap is by the register width, not by n.
DeltaByWidth(column, offset, n) == (column - offset) % ValRange

\* bcmc_cell: (column - offset) mod n by one comparison and one addition.
Delta(column, offset, n) ==
  IF column < offset THEN (column + (n - offset)) % ValRange
                     ELSE column - offset

\* Mutant of CellBit: an interval closed at both ends.
CellBitClosed(weight, offset, column, n) == Delta(column, offset, n) <= weight

CellBit(weight, offset, column, n) == Delta(column, offset, n) < weight

\* bcmc_column, one lane: a row at or above c has weight and offset 0.
ColumnBit(i, column, n, c, weights, offsets) ==
  LET active == i < c
  IN  CellBit(IF active THEN weights[i] ELSE 0,
              IF active THEN offsets[i] ELSE 0, column, n)

\* bcmc_row, one lane: a lane at or above n asks about column 0 of weight 0.
RowBit(weight, offset, j, n) ==
  LET active == j < n
  IN  CellBit(IF active THEN weight ELSE 0, offset, IF active THEN j ELSE 0, n)

\* What the Core leaves in an offset window of these lanes: the chain of its
\* own steps over the first c rows, and 0 in the lanes that hold no row.
IsTransform(offsets, lanes, n, c, weights) ==
  \A k \in lanes :
    offsets[k] = IF k = 0 \/ k >= c THEN 0
                 ELSE NextOffset(offsets[k - 1], weights[k - 1], n)

-----------------------------------------------------------------------------
(* The reference: validation/reference.py, over the rows 0 .. c - 1.       *)

\* check_weights: the hypothesis of the Balance Theorem.
Legal(n, c, weights) == n >= 1 /\ \A i \in 0 .. c - 1 : weights[i] <= n

\* P_k, the sum of the first k weights.
PrefixSum(c, weights) ==
  LET P[k \in 0 .. c] == IF k = 0 THEN 0 ELSE P[k - 1] + weights[k - 1]
  IN  P

\* bcmc_core of reference.py: offset k is P_k mod n.
RefOffset(k, n, c, weights) == PrefixSum(c, weights)[k] % n

\* The characteristic definition of the matrix: row i marks the residues of
\* the integers of its interval [P_i, P_{i+1}).
RefBit(i, j, n, c, weights) ==
  LET P == PrefixSum(c, weights)
  IN  \E x \in P[i] .. P[i + 1] - 1 : x % n = j

\* predicted_occupancy: the closed form of the Balance Theorem.
PredictedOccupancy(j, n, total) ==
  IF j < total % n THEN total \div n + 1 ELSE total \div n
=============================================================================
