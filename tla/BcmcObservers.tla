---------------------------- MODULE BcmcObservers ----------------------------
(***************************************************************************)
(* The software observers of validation/observers.py at work on the        *)
(* executable mathematics: a generator yields words, an order is drawn     *)
(* from them, a list of weights is read and perturbed as verify_conjecture *)
(* does, and passes over its matrix are made in that order.  A run that    *)
(* draws no order studies what a seed becomes in the pure half of          *)
(* traversal_sources.py.                                                   *)
(***************************************************************************)
EXTENDS BcmcMatrix, BcmcOrders

CONSTANTS
  VAL,            \* the values of a register of VAL_W bits
  Words,          \* the words of the generator
  MaxLen,         \* bound: the words of a period
  MaxN, MaxList   \* bounds: the row length and rows of a list of weights

ASSUME ObserversAssumption ==
  /\ VAL \in Nat \ {0} /\ MaxN \in 1 .. VAL - 1 /\ MaxList \in Nat
  /\ {0, 1} \subseteq Words /\ Words \subseteq Nat

VARIABLES
  N,
  stream,         \* the words of the generator's period
  order,          \* the traversal, once it is drawn: the column of each step
  weights,
  base,           \* history: the loads of the weights that were read
  pass            \* the visits so far

observersVars == <<N, stream, order, weights, base, pass>>

Undrawn == <<>>

ObserversInit ==
  /\ N \in 1 .. VAL - 1
  /\ stream = <<>> /\ order = Undrawn
  /\ weights = <<>> /\ base = <<>> /\ pass = <<>>

\* A period of the generator holds every word; a draw needs 0 and 1 of them.
IsPeriod == \A w \in {0, 1} : \E k \in DOMAIN stream : stream[k] = w

IsOrder(p) ==
  DOMAIN p = 0 .. N - 1 /\ {p[t] : t \in DOMAIN p} = 0 .. N - 1

\* The generator yields one more word of its period.
NextWord ==
  /\ order = Undrawn /\ Len(stream) < MaxLen
  /\ \E w \in Words : stream' = Append(stream, w)
  /\ UNCHANGED <<N, order, weights, base, pass>>

\* The order of observe_sequential, or the one observe_permuted makes of its seed.
DrawOrder ==
  /\ order = Undrawn /\ N <= MaxN
  /\ \/ stream = <<>> /\ order' = identity_sequence(N)
     \/ IsPeriod /\ order' = permuted_order(stream, N)
  /\ stream' = <<>>
  /\ UNCHANGED <<N, weights, base, pass>>

\* A legal list of weights.
ReadWeights ==
  /\ order # Undrawn /\ base = <<>>
  /\ \E C \in 0 .. MaxList : weights' \in [0 .. C - 1 -> 0 .. MaxN]
  /\ check_weights(weights', N)
  /\ base' = bcmc_algorithmic(weights', N)
  /\ UNCHANGED <<N, stream, order, pass>>

\* One step of perturb: a unit moves from row i to row k.
Perturb ==
  \E i, k \in DOMAIN weights :
    /\ i # k /\ weights[i] # 0 /\ weights[k] # N
    /\ weights' = [weights EXCEPT ![i] = @ - 1, ![k] = @ + 1]
    /\ pass' = <<>> /\ UNCHANGED <<N, stream, order, base>>

\* Mutant of VisitNext: the traversal lags one step behind the pass.
VisitNextLagging ==
  /\ base # <<>> /\ Len(pass) < N
  /\ LET t == IF pass = <<>> THEN 0 ELSE Len(pass) - 1
     IN  pass' = Append(pass, observe(weights, N, order[t]))
  /\ UNCHANGED <<N, stream, order, weights, base>>

\* A pass visits one column after the other, in the order drawn.
VisitNext ==
  /\ base # <<>> /\ Len(pass) < N
  /\ pass' = Append(pass, observe(weights, N, order[Len(pass)]))
  /\ UNCHANGED <<N, stream, order, weights, base>>

ObserversNext == NextWord \/ DrawOrder \/ ReadWeights \/ Perturb \/ VisitNext

ObserversSpec == ObserversInit /\ [][ObserversNext]_observersVars

-----------------------------------------------------------------------------
\* The verdict of check(): the algorithmic, the interval and the binary form
\* have the same loads (Lemma 2), the hardware-shaped reference has them too,
\* and they are the closed form of the Balance Theorem.
FormsAgree ==
  /\ bcmc_algorithmic(weights, N) = bcmc_interval(weights, N)
  /\ bcmc_algorithmic(weights, N) = bcmc_binary(weights, N)
  /\ bcmc_algorithmic(weights, N) = column_occupancy(weights, N)
  /\ column_occupancy(weights, N) = predicted_occupancy(Sum(weights), N)

\* Row conservation: every row has exactly its weight of ones.
RowsConserved == row_weights(weights, N) = weights

\* independence_test: the loads depend on N and the total weight alone, however
\* often weight is moved between the rows.
LoadsAreIndependent == base # <<>> => bcmc_algorithmic(weights, N) = base

\* P1 and P3 of docs/Observers.md: whatever the order of a whole pass, its
\* events are the ones of the matrix, once each, and its occupancies are the
\* loads of the columns in that order.
PassYieldsTheMatrix ==
  Len(pass) = N =>
    /\ events(pass) = {e \in (DOMAIN weights) \X (0 .. N - 1) :
                         bcmc_matrix(weights, N)[e[1]][e[2]] = 1}
    /\ FoldFunction(+, 0, occupancy_sequence(pass)) = Sum(weights)
    /\ \A t \in 1 .. N : occupancy_sequence(pass)[t] = base[order[t - 1]]

\* The three definitions of the transform agree, its loads depend on the total
\* weight alone, and every observer sees that matrix.
ReferenceAgrees ==
  /\ FormsAgree
  /\ RowsConserved
  /\ LoadsAreIndependent
  /\ PassYieldsTheMatrix

\* The shuffle, one word a clock: i is the place to fill, a word above i is
\* thrown away.
ShuffledAfter(words) ==
  LET s[k \in 0 .. words] ==
        IF k = 0 THEN [i |-> N - 1, p |-> identity_sequence(N)]
        ELSE LET q == s[k - 1]
                 x == masked(Word(stream, k - 1), q.i)
             IN  IF q.i = 0 \/ x > q.i THEN q
                 ELSE [i |-> q.i - 1, p |-> Swapped(q.p, q.i, x)]
  IN  s[words]

\* The pair, one word a clock: a is the first that is coprime to N, b the next.
NotYet == VAL

PairAfter(words) ==
  LET s[k \in 0 .. words] ==
        IF k = 0 THEN [a |-> NotYet, b |-> NotYet]
        ELSE LET q == s[k - 1]
                 x == masked(Word(stream, k - 1), N - 1)
             IN  IF x > N - 1 THEN q
                 ELSE IF q.a # NotYet THEN [q EXCEPT !.b = x]
                 ELSE IF gcd(x, N) = 1 THEN [q EXCEPT !.a = x]
                 ELSE q
  IN  s[words]

\* The fill of a bank ends with the word that its cost counts, with the bank that
\* the shuffle defines: no word is drawn twice and none is left out.
BankIsOfItsWords ==
  IsPeriod =>
    LET cost == bank_fill_cycles(stream, N)
    IN  /\ IsOrder(permuted_order(stream, N))
        /\ ShuffledAfter(cost) = [i |-> 0, p |-> permuted_order(stream, N)]
        /\ cost > 0 => ShuffledAfter(cost - 1).i > 0

\* The derivation of the affine pair takes the words it counts, a before b.
PairIsOfItsWords ==
  IsPeriod /\ N > 1 =>
    LET d == derive_ab(stream, N)
    IN  /\ PairAfter(d.draws) = [a |-> d.a, b |-> d.b]
        /\ PairAfter(d.draws - 1).b = NotYet

\* Section 4.2: with the sum one bit wider than its terms, the walk without a
\* multiplication is the closed form of the derived pair, and O1 holds of it;
\* without that bit it still is in the lower half of the rows, no further.
WalkIsTheClosedForm ==
  IsPeriod =>
    LET d == derive_ab(stream, N)
        closed == affine_sequence(d.a, d.b, N)
    IN  /\ IsOrder(closed)
        /\ affine_incremental(d.a, d.b, N, VAL) = closed
        /\ 2 * N <= VAL => affine_incremental_narrow(d.a, d.b, N, VAL) = closed

\* Section 5.4: the required rate is the least that covers the steps of a fill.
\* The fill itself takes the clock of its setup as well, so that a pass at this
\* rate ends in time for its bank unless the steps are whole rows, when the bank
\* comes one clock after the boundary; one visit slower is always enough.
RateCoversTheFill ==
  IsPeriod =>
    LET rate == required_rate(stream, N)
        steps == bank_fill_cycles(stream, N)
        in_time(clocks) == clocks >= fill_clocks(steps)
    IN  /\ rate * N >= steps
        /\ rate > 1 => (rate - 1) * N < steps
        /\ bank_fill_passes(stream, N, rate) <= 1
        /\ in_time(rate * N) <=> steps = 0 \/ steps % N # 0
        /\ in_time((rate + 1) * N)

\* What is drawn from a seed takes its words in order, each of them once, is an
\* order of the columns, and its fill takes the clocks that the rate covers and
\* the one that it leaves out.
DrawsAreOfTheirWords ==
  /\ BankIsOfItsWords
  /\ PairIsOfItsWords
  /\ WalkIsTheClosedForm
  /\ RateCoversTheFill
=============================================================================
