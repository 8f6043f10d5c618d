----------------------------- MODULE BcmcMatrix -----------------------------
(***************************************************************************)
(* The executable mathematics: validation/reference.py, the three forms of *)
(* the construction in validation/verify_conjecture.py, and what a pass of *)
(* an observer yields in validation/observers.py.  A list of C weights is  *)
(* a function on 0 .. C - 1; a refusal (ValueError) is outside the domain. *)
(***************************************************************************)
EXTENDS Integers, Sequences, FiniteSetsExt, Functions

Size(weights) == Cardinality(DOMAIN weights)
Sum(weights) == FoldFunction(+, 0, weights)

\* The hypothesis of the Balance Theorem.
check_weights(weights, N) ==
  N >= 1 /\ \A i \in DOMAIN weights : weights[i] \in 0 .. N

bcmc_core(weights, N) ==
  LET offset[i \in 0 .. Size(weights)] ==
        IF i = 0 THEN 0
        ELSE LET s == offset[i - 1] + weights[i - 1]
             IN  IF s >= N THEN s - N ELSE s
  IN  [i \in DOMAIN weights |-> offset[i]]

\* Mutant of bcmc_cell: an interval closed at both ends.
bcmc_cell_closed(weight, offset, column, N) ==
  IF (column - offset) % N <= weight THEN 1 ELSE 0

bcmc_cell(weight, offset, column, N) ==
  IF (column - offset) % N < weight THEN 1 ELSE 0

bcmc_row(weight, offset, N) ==
  [j \in 0 .. N - 1 |-> bcmc_cell(weight, offset, j, N)]

bcmc_column(weights, offsets, column, N) ==
  [i \in DOMAIN weights |-> bcmc_cell(weights[i], offsets[i], column, N)]

bcmc_matrix(weights, N) ==
  [i \in DOMAIN weights |->
     bcmc_row(weights[i], bcmc_core(weights, N)[i], N)]

column_occupancy(weights, N) ==
  [j \in 0 .. N - 1 |->
     Sum(bcmc_column(weights, bcmc_core(weights, N), j, N))]

row_weights(weights, N) ==
  [i \in DOMAIN weights |-> Sum(bcmc_matrix(weights, N)[i])]

\* predicted_occupancy, and residue_counts of verify_conjecture.py.
predicted_occupancy(W, N) ==
  [j \in 0 .. N - 1 |-> IF j < W % N THEN W \div N + 1 ELSE W \div N]

-----------------------------------------------------------------------------
(* The forms of verify_conjecture.py.                                      *)

\* P_i, the running sum of the weights before row i.
Before(weights, i) == Sum([k \in 0 .. i - 1 |-> weights[k]])

\* Mutant of bcmc_algorithmic: one place too many for each row.
bcmc_algorithmic_inclusive(weights, N) ==
  [j \in 0 .. N - 1 |->
     Sum([i \in DOMAIN weights |->
       Cardinality({t \in 0 .. weights[i] :
                      ((Before(weights, i) % N) + t) % N = j})])]

\* bcmc_algorithmic: row i marks w_i places cyclically from s = P_i mod N.
bcmc_algorithmic(weights, N) ==
  [j \in 0 .. N - 1 |->
     Sum([i \in DOMAIN weights |->
       Cardinality({t \in 0 .. weights[i] - 1 :
                      ((Before(weights, i) % N) + t) % N = j})])]

\* The integers of the interval I_i = [P_i, P_i + w_i).
Interval(weights, i) ==
  Before(weights, i) .. Before(weights, i) + weights[i] - 1

bcmc_interval(weights, N) ==
  [j \in 0 .. N - 1 |->
     Sum([i \in DOMAIN weights |->
       Cardinality({x \in Interval(weights, i) : x % N = j})])]

\* The (0,1) matrix: a column that is met twice by a row counts once.
bcmc_binary(weights, N) ==
  [j \in 0 .. N - 1 |->
     Cardinality({i \in DOMAIN weights :
                    \E x \in Interval(weights, i) : x % N = j})]

-----------------------------------------------------------------------------
(* What an observer sees of the matrix.                                    *)

\* R(j), the rows active in column j, in ascending order.
visit(weights, offsets, column, N) ==
  LET bits == bcmc_column(weights, offsets, column, N)
      R[i \in 0 .. Size(weights)] ==
        IF i = 0 THEN <<>>
        ELSE IF bits[i - 1] = 1 THEN Append(R[i - 1], i - 1) ELSE R[i - 1]
  IN  R[Size(weights)]

\* One step of observe, the visit of one column.
observe(weights, N, column) ==
  [column |-> column,
   rows |-> visit(weights, bcmc_core(weights, N), column, N)]

\* The events of a pass: its visits, a sequence of column and rows.
events(pass) ==
  UNION {{<<i, pass[t].column>> : i \in Range(pass[t].rows)} : t \in DOMAIN pass}

occupancy_sequence(pass) == [t \in DOMAIN pass |-> Len(pass[t].rows)]
=============================================================================
