-------------------------- MODULE BcmcScan_proofs --------------------------
(***************************************************************************)
(* A pass is a permutation, for every width, row, order and context: each  *)
(* pass follows one permutation p of its row (PassInv), although the       *)
(* source may replace `order` while the last column is still presented and *)
(* software may take the matrix away in any clock.  That all N columns     *)
(* have been presented at `done` is the pigeonhole principle.              *)
(***************************************************************************)
EXTENDS BcmcScan, BcmcArith_proofs, FiniteSetTheorems, FunctionTheorems

\* The seam inside a row: the question is about the next step, or about step 0
\* while the last one is presented.
LEMMA NextSteps ==
  ASSUME NEW n \in Val, t_q \in Val, t_q < n
  PROVE  /\ last_now(n) <=> t_q = n - 1
         /\ t_next(n) = IF t_q + 1 < n THEN t_q + 1 ELSE 0
         /\ t_next(n) \in Val /\ t_next(n) < n
<1>1. last_now(n) <=> t_q = n - 1
  BY NoWrap DEF last_now, last
<1>2. t_next(n) = IF t_q + 1 < n THEN t_q + 1 ELSE 0
  BY <1>1, NoWrap DEF t_next, Val
<1> QED BY <1>1, <1>2, NoWrap, ValRangeAssumption DEF Val

\* The engine's registers keep their types, and a visit is due in a pass only.
LEMMA EngineKeeps ==
  ASSUME running \in BOOLEAN, visit_q \in BOOLEAN, t_q \in Val, col_q \in Val,
         visit_q => running,
         NEW start, NEW trigger, NEW single, NEW n, NEW holds, NEW pi \in Val,
         ObserverEdge(start, trigger, single, n, holds, pi)
  PROVE  /\ running' \in BOOLEAN /\ visit_q' \in BOOLEAN
         /\ t_q' \in Val /\ col_q' \in Val
         /\ visit_q' => running'
<1>1. 0 \in Val BY ValRangeAssumption DEF Val
<1>2. (t_q + 1) % ValRange \in Val BY ValRangeAssumption DEF Val
<1>3. t_next(n) \in Val BY <1>1, <1>2 DEF t_next
<1>4. CASE AbortPass(holds) BY <1>4 DEF AbortPass
<1>5. CASE StartPass(start, n, holds, pi) BY <1>1, <1>5 DEF StartPass
<1>6. CASE NoPass(start, n, holds) BY <1>6 DEF NoPass
<1>7. CASE EndPass(single, n, holds) BY <1>7 DEF EndPass
<1>8. CASE Advance(trigger, single, n, holds, pi) BY <1>3, <1>8 DEF Advance
<1>9. CASE HoldPass(trigger, single, n, holds) BY <1>9 DEF HoldPass
<1> QED BY <1>4, <1>5, <1>6, <1>7, <1>8, <1>9 DEF ObserverEdge

-----------------------------------------------------------------------------
\* The pass as it stands at the end of this clock.

(* The pass as it stands at the end of this clock has one visit more if    *)
(* one is presented.                                                       *)
LEMMA ThisPassType ==
  ASSUME PassInv
  PROVE  /\ ThisPass \in Seq(Val \X SUBSET Lanes)
         /\ Len(ThisPass) = IF visit_valid(valid) THEN Len(visited) + 1
                            ELSE Len(visited)
         /\ \A k \in DOMAIN ThisPass :
              ThisPass[k] = IF k <= Len(visited) THEN visited[k]
                            ELSE <<col_q, column_bits(col_q)>>
<1> DEFINE v == <<col_q, column_bits(col_q)>>
<1>1. visited \in Seq(Val \X SUBSET Lanes) /\ v \in Val \X SUBSET Lanes
  BY DEF PassInv, column_bits
<1>2. CASE visit_valid(valid)
  <2>1. ThisPass = Append(visited, v) BY <1>2 DEF ThisPass
  <2> QED BY <1>1, <1>2, <2>1
<1>3. CASE ~visit_valid(valid)
  <2>1. ThisPass = visited BY <1>3 DEF ThisPass
  <2> QED BY <1>1, <1>3, <2>1
<1> QED BY <1>2, <1>3

\* In a live pass the visits made are a beginning of the permutation p.
LEMMA ThisPassFollows ==
  ASSUME PassInv, running, valid, NEW p \in Permutations(N), Follows(p)
  PROVE  /\ \A k \in DOMAIN ThisPass : ThisPass[k][1] = p[k - 1]
         /\ Len(ThisPass) = IF visit_q \/ t_q # N - 1 THEN t_q + 1 ELSE 0
         /\ DOMAIN ThisPass \subseteq 1 .. N
<1>1. t_q \in 0 .. N - 1 /\ N \in Nat
  BY NoWrap DEF PassInv
<1>2. visited \in Seq(Val \X SUBSET Lanes) BY DEF PassInv
<1>3. Len(ThisPass) = IF visit_q \/ t_q # N - 1 THEN t_q + 1 ELSE 0
  BY <1>1, <1>2, ThisPassType DEF Follows, visit_valid, PassInv
<1>4. /\ DOMAIN ThisPass = 1 .. Len(ThisPass) /\ DOMAIN visited = 1 .. Len(visited)
      /\ Len(ThisPass) \in Nat /\ Len(visited) \in Nat
  BY <1>2, ThisPassType
<1>5. ASSUME NEW k \in DOMAIN ThisPass PROVE ThisPass[k][1] = p[k - 1]
  <2>1. CASE k <= Len(visited)
    <3>1. k \in DOMAIN visited BY <1>4, <2>1
    <3> QED BY <2>1, <3>1, ThisPassType DEF Follows
  <2>2. CASE ~(k <= Len(visited))
    <3>1. visit_q /\ k = Len(visited) + 1
      <4>1. k <= Len(ThisPass) /\ Len(visited) < k BY <1>4, <2>2
      <4>2. Len(ThisPass) = IF visit_valid(valid) THEN Len(visited) + 1
                            ELSE Len(visited)
        BY ThisPassType
      <4>3. CASE ~visit_valid(valid) BY <1>4, <4>1, <4>2, <4>3
      <4>4. CASE visit_valid(valid)
        <5>1. k = Len(visited) + 1 BY <1>4, <4>1, <4>2, <4>4
        <5> QED BY <4>4, <5>1 DEF visit_valid
      <4> QED BY <4>3, <4>4
    <3>2. col_q = p[k - 1] BY <1>1, <3>1 DEF Follows
    <3>3. ThisPass[k] = <<col_q, column_bits(col_q)>>
      BY <1>2, <1>4, <2>2, ThisPassType
    <3> QED BY <3>2, <3>3
  <2> QED BY <1>2, <1>4, <2>1, <2>2
<1>6. DOMAIN ThisPass \subseteq 1 .. N BY <1>1, <1>3, <1>4
<1> QED BY <1>3, <1>5, <1>6

\* No column is presented twice, of a live pass or of one that is dying.
LEMMA ThisPassDistinct ==
  ASSUME PassInv
  PROVE  \A j, k \in DOMAIN ThisPass : j # k => ThisPass[j][1] # ThisPass[k][1]
<1>1. CASE running /\ valid
  <2>1. PICK p \in Permutations(N) : Follows(p) BY <1>1 DEF PassInv
  <2>2. /\ \A k \in DOMAIN ThisPass : ThisPass[k][1] = p[k - 1]
        /\ DOMAIN ThisPass \subseteq 1 .. N
    BY <1>1, <2>1, ThisPassFollows
  <2>3. \A i, j \in 0 .. N - 1 : i # j => p[i] # p[j] BY DEF Permutations
  <2>4. N \in Nat BY DEF PassInv, Val
  <2>5. ASSUME NEW j \in DOMAIN ThisPass, NEW k \in DOMAIN ThisPass, j # k
        PROVE  ThisPass[j][1] # ThisPass[k][1]
    <3>1. j - 1 \in 0 .. N - 1 /\ k - 1 \in 0 .. N - 1 /\ j - 1 # k - 1
      BY <2>2, <2>4, <2>5
    <3> QED BY <2>2, <2>3, <3>1
  <2> QED BY <2>5
<1>2. CASE ~(running /\ valid)
  <2>1. ThisPass = visited BY <1>2 DEF ThisPass, visit_valid, PassInv
  <2> QED BY <2>1 DEF PassInv
<1> QED BY <1>1, <1>2

\* The pigeonhole principle, for the answers of a source: no answer twice in N
\* questions means every answer once.
LEMMA PermutationIsOnto ==
  ASSUME NEW n \in Nat, NEW p \in Permutations(n)
  PROVE  {p[i] : i \in 0 .. n - 1} = 0 .. n - 1
<1> DEFINE Row == 0 .. n - 1
<1>1. p \in [Row -> Row] /\ \A i, j \in Row : p[i] = p[j] => i = j
  BY DEF Permutations
<1>2. p \in Injection(Row, Row) BY <1>1, Fun_IsInj
<1>3. IsFiniteSet(Row) BY FS_Interval
<1>4. p \in Surjection(Row, Row) BY <1>2, <1>3, FS_Injection
<1>5. \A j \in Row : \E i \in Row : p[i] = j
  BY <1>4 DEF Surjection
<1>6. \A i \in Row : p[i] \in Row BY <1>1
<1> QED BY <1>5, <1>6

\* The invariant is strong enough.
LEMMA PassInvSuffices == PassInv => PassIsAPermutation
<1> SUFFICES ASSUME PassInv PROVE PassIsAPermutation OBVIOUS
<1>1. ASSUME pass_done(N, valid)
      PROVE  {ThisPass[k][1] : k \in DOMAIN ThisPass} = 0 .. N - 1
  <2>1. visit_q /\ valid /\ running BY <1>1 DEF pass_done, visit_valid, PassInv
  <2>2. PICK p \in Permutations(N) : Follows(p) BY <2>1 DEF PassInv
  <2>3. N \in Val /\ t_q \in Val /\ t_q < N BY <2>1 DEF PassInv
  <2>4. N \in Nat /\ t_q = N - 1
    BY <1>1, <2>3, NoWrap, NextSteps DEF pass_done
  <2>5. /\ \A k \in DOMAIN ThisPass : ThisPass[k][1] = p[k - 1]
        /\ Len(ThisPass) = N
    BY <2>1, <2>2, <2>4, ThisPassFollows
  <2>6. DOMAIN ThisPass = 1 .. N BY <2>5, ThisPassType
  <2>7. {ThisPass[k][1] : k \in DOMAIN ThisPass} = {p[i] : i \in 0 .. N - 1}
    <3>1. \A i \in 0 .. N - 1 :
            /\ i + 1 \in DOMAIN ThisPass
            /\ ThisPass[i + 1][1] = p[i]
      BY <2>4, <2>5, <2>6
    <3>2. \A k \in DOMAIN ThisPass :
            k - 1 \in 0 .. N - 1 /\ ThisPass[k][1] = p[k - 1]
      BY <2>4, <2>5, <2>6
    <3> QED BY <3>1, <3>2
  <2> QED BY <2>4, <2>7, PermutationIsOnto
<1> QED BY <1>1, ThisPassDistinct DEF PassIsAPermutation

-----------------------------------------------------------------------------
\* The inductive invariant.

(* A row of no columns has one order.                                      *)
LEMMA EmptyRow == <<>> \in Permutations(0)
<1>1. 0 .. 0 - 1 = {} OBVIOUS
<1>2. <<>> \in [{} -> {}] OBVIOUS
<1> QED BY <1>1, <1>2 DEF Permutations

(* After reset no pass is under way.                                       *)
LEMMA PassInvInit == Init => PassInv
<1> SUFFICES ASSUME Init PROVE PassInv OBVIOUS
<1>1. 0 \in Val BY ValRangeAssumption DEF Val
<1>2. /\ N = 0 /\ running = FALSE /\ visit_q = FALSE /\ t_q = 0 /\ col_q = 0
      /\ order = <<>> /\ visited = <<>>
  BY DEF Init, AbsInit, ObserverInit
<1>3. /\ visited \in Seq(Val \X SUBSET Lanes)
      /\ \A j, k \in DOMAIN visited : j # k => visited[j][1] # visited[k][1]
  BY <1>2
<1>4. order \in Permutations(N) BY <1>2, EmptyRow
<1> QED BY <1>1, <1>2, <1>3, <1>4 DEF PassInv

\* The sideband keeps its types, and a matrix that stays is of the same row.
LEMMA PeripheralKeeps ==
  ASSUME Peripheral, N \in Val
  PROVE  /\ N' \in Val
         /\ valid /\ valid' => N' = N
<1>1. CASE Program BY <1>1 DEF Program, valid
<1>2. CASE Begin BY <1>2 DEF Begin, valid
<1>3. CASE Complete BY <1>3 DEF Complete, valid
<1>4. CASE AcknowledgeIrq BY <1>4 DEF AcknowledgeIrq, valid
<1>5. CASE UNCHANGED absVars BY <1>5 DEF absVars, valid
<1> QED BY <1>1, <1>2, <1>3, <1>4, <1>5 DEF Peripheral

(* A source answers from one order of the row until it takes the next.     *)
LEMMA SourceKeeps ==
  ASSUME SourceEdge, order \in Permutations(N)
  PROVE  /\ order' \in Permutations(N')
         /\ ~NewOrder => order' = order
BY DEF SourceEdge, NewOrder

\* The history is dropped, or it is this pass as it stands.
LEMMA RecordKeeps ==
  ASSUME PassInv, Record
  PROVE  /\ visited' \in {<<>>, visited, ThisPass}
         /\ ~running' => visited' = <<>>
         /\ running' /\ running /\ valid =>
              visited' = IF visit_q /\ t_q = N - 1 THEN <<>> ELSE ThisPass
         /\ running' /\ ~visit_q => visited' = visited
<1>1. /\ visited' \in {<<>>, visited, ThisPass}
      /\ ~running' => visited' = <<>>
      /\ running' /\ ~visit_q => visited' = visited
  BY DEF Record, ThisPass, visit_valid, pass_done
<1>2. ASSUME running', running, valid
      PROVE  visited' = IF visit_q /\ t_q = N - 1 THEN <<>> ELSE ThisPass
  <2>1. N \in Val /\ t_q \in Val /\ t_q < N BY <1>2 DEF PassInv
  <2>2. pass_done(N, valid) <=> visit_q /\ t_q = N - 1
    BY <1>2, <2>1, NextSteps DEF pass_done, visit_valid
  <2>3. visit_q => Len(visited) = t_q BY <1>2 DEF PassInv, Follows
  <2>4. visit_q => Len(visited) <= N BY <2>1, <2>3 DEF Val
  <2>5. CASE visit_q /\ t_q = N - 1 BY <1>2, <2>2, <2>5 DEF Record
  <2>6. CASE visit_q /\ ~(t_q = N - 1)
    BY <1>2, <2>2, <2>4, <2>6 DEF Record, ThisPass, visit_valid
  <2>7. CASE ~visit_q
    BY <1>2, <2>2, <2>7 DEF Record, ThisPass, visit_valid
  <2> QED BY <2>5, <2>6, <2>7 DEF PassInv
<1> QED BY <1>1, <1>2

\* What the source answers is a column, and inside the row it is the order's.
LEMMA AnswerType ==
  ASSUME PassInv
  PROVE  /\ ts_pi \in Val
         /\ ts_t(N) \in 0 .. N - 1 => ts_pi = order[ts_t(N)]
<1>1. order \in [0 .. N - 1 -> 0 .. N - 1] BY DEF PassInv, Permutations
<1>2. N \in Val BY DEF PassInv
<1>3. 0 \in Val /\ \A x \in 0 .. N - 1 : x \in Val
  BY <1>2, ValRangeAssumption DEF Val
<1> QED BY <1>1, <1>3 DEF ts_pi

\* A pass that is live after the clock goes on with the permutation it had, or
\* begins with the one the source has now.
LEMMA PassGoesOn ==
  ASSUME PassInv, Peripheral, SourceEdge, Record,
         NEW start, NEW trigger,
         ObserverEdge(start, trigger, oneshot, N, valid, ts_pi),
         running', valid'
  PROVE  t_q' < N' /\ \E p \in Permutations(N') : Follows(p)'
<1>1. N \in Val /\ N \in Nat /\ t_q \in Val /\ visit_q \in BOOLEAN
  BY DEF PassInv, Val
<1>2. /\ valid => N' = N
      /\ order' \in Permutations(N')
      /\ ~NewOrder => order' = order
  BY <1>1, PeripheralKeeps, SourceKeeps DEF PassInv
<1>3. CASE StartPass(start, N, valid, ts_pi)
  <2>1. /\ ~running /\ valid /\ N >= 1 /\ t_q' = 0 /\ visit_q' = TRUE
        /\ col_q' = ts_pi /\ ~visit_q /\ visited = <<>>
    BY <1>1, <1>3 DEF StartPass, PassInv
  <2>2. ts_t(N) = 0 BY <2>1 DEF ts_t
  <2>3. N' = N /\ order' = order BY <1>2, <2>1, <2>2 DEF NewOrder
  <2>4. col_q' = order'[0] BY <1>1, <2>1, <2>2, <2>3, AnswerType
  <2>5. visited' = <<>> BY <2>1, RecordKeeps
  <2>6. Follows(order)'
    BY <2>1, <2>4, <2>5 DEF Follows
  <2> QED BY <1>1, <1>2, <2>1, <2>3, <2>6
<1>4. ASSUME running, valid, Advance(trigger, oneshot, N, valid, ts_pi)
      PROVE  t_q' < N' /\ \E p \in Permutations(N') : Follows(p)'
  <2>1. t_q < N /\ N' = N BY <1>2, <1>4 DEF PassInv
  <2>2. PICK p \in Permutations(N) : Follows(p) BY <1>4 DEF PassInv
  <2>3. /\ t_next(N) = IF t_q + 1 < N THEN t_q + 1 ELSE 0
        /\ t_next(N) \in Val /\ t_next(N) < N /\ t_q \in 0 .. N - 1
    BY <1>1, <2>1, NoWrap, NextSteps
  <2>4. /\ ts_t(N) = t_next(N) /\ t_q' = t_next(N) /\ visit_q' = TRUE
        /\ col_q' = ts_pi
    BY <1>4 DEF ts_t, Advance
  <2>5. col_q' = order[t_next(N)] /\ t_next(N) \in 0 .. N - 1
    BY <1>1, <2>3, <2>4, AnswerType DEF Val
  <2>6. CASE t_q = N - 1
    <3>1. t_next(N) = 0 BY <1>1, <2>3, <2>6
    <3>2. order' = order BY <1>2, <2>1, <2>4, <3>1 DEF NewOrder
    <3>3. visited' = <<>>
      <4>1. CASE visit_q BY <1>4, <2>6, <4>1, RecordKeeps
      <4>2. CASE ~visit_q
        <5>1. Len(visited) = 0 BY <2>2, <2>6, <4>2 DEF Follows
        <5>2. visited = <<>> BY <5>1 DEF PassInv
        <5> QED BY <4>2, <5>2, RecordKeeps
      <4> QED BY <4>1, <4>2
    <3>4. Follows(order)' BY <2>4, <2>5, <3>1, <3>2, <3>3 DEF Follows
    <3> QED BY <1>2, <2>1, <2>3, <2>4, <3>2, <3>4
  <2>7. CASE t_q # N - 1
    <3>1. t_next(N) = t_q + 1 BY <1>1, <2>3, <2>7
    <3>2. p = order BY <2>2, <2>7 DEF Follows
    <3>3. visited' = ThisPass BY <1>4, <2>7, RecordKeeps
    <3>4. /\ \A k \in DOMAIN visited' : visited'[k][1] = p[k - 1]
          /\ Len(visited') = t_q'
      BY <1>4, <2>2, <2>4, <2>7, <3>1, <3>3, ThisPassFollows
    <3>5. t_q' # N' - 1 => order' = order
      <4>1. SUFFICES ASSUME t_q' # N' - 1 PROVE ~NewOrder BY <1>2
      <4>2. t_q' \in Val /\ t_q' \in Nat /\ t_q' < N /\ t_q' + 1 < N
        BY <1>1, <2>1, <2>3, <2>4, <4>1 DEF Val
      <4>3. (t_q' + 1) % ValRange = t_q' + 1 /\ (N - 1) % ValRange = N - 1
        BY <1>1, <4>2, NoWrap
      <4>4. t_q' + 1 # 0 BY <1>1, <2>3, <2>4, <3>1
      <4>5. ts_t(N)' # 0
        BY <2>1, <4>1, <4>3, <4>4 DEF ts_t, t_next, last_now, last
      <4> QED BY <2>1, <4>5 DEF NewOrder
    <3>6. Follows(p)' BY <2>1, <2>4, <2>5, <3>2, <3>4, <3>5 DEF Follows
    <3> QED BY <2>1, <2>3, <2>4, <3>6
  <2> QED BY <2>6, <2>7
<1>5. ASSUME running, valid, HoldPass(trigger, oneshot, N, valid)
      PROVE  t_q' < N' /\ \E p \in Permutations(N') : Follows(p)'
  <2>1. t_q < N /\ N' = N /\ t_q' = t_q /\ visit_q' = FALSE /\ col_q' = col_q
    BY <1>2, <1>5 DEF PassInv, HoldPass
  <2>2. PICK p \in Permutations(N) : Follows(p) BY <1>5 DEF PassInv
  <2>3. /\ \A k \in DOMAIN visited' : visited'[k][1] = p[k - 1]
        /\ Len(visited') = IF t_q = N - 1 THEN 0 ELSE t_q + 1
    <3>1. CASE visit_q /\ t_q = N - 1
      <4>1. visited' = <<>> BY <1>5, <3>1, RecordKeeps
      <4> QED BY <3>1, <4>1
    <3>2. CASE ~(visit_q /\ t_q = N - 1)
      <4>1. visited' = ThisPass BY <1>5, <3>2, RecordKeeps
      <4> QED BY <1>5, <2>2, <3>2, <4>1, ThisPassFollows
    <3> QED BY <3>1, <3>2
  <2>4. t_q' # N' - 1 => p = order'
    <3>1. SUFFICES ASSUME t_q # N - 1 PROVE ~NewOrder
      BY <1>2, <2>1, <2>2 DEF Follows
    <3>2. t_q + 1 < N BY <1>1, <2>1, <3>1 DEF Val
    <3>3. (t_q + 1) % ValRange = t_q + 1 /\ (N - 1) % ValRange = N - 1
      BY <1>1, <2>1, <3>2, NoWrap
    <3>4. ts_t(N)' = t_q + 1
      BY <2>1, <3>1, <3>3 DEF ts_t, t_next, last_now, last
    <3>5. ts_t(N)' # 0 BY <1>1, <3>4 DEF Val
    <3> QED BY <2>1, <3>5 DEF NewOrder
  <2>5. Follows(p)' BY <2>1, <2>3, <2>4 DEF Follows
  <2> QED BY <2>1, <2>5
<1>6. \/ StartPass(start, N, valid, ts_pi)
      \/ running /\ valid /\ Advance(trigger, oneshot, N, valid, ts_pi)
      \/ running /\ valid /\ HoldPass(trigger, oneshot, N, valid)
  BY DEF ObserverEdge, AbortPass, NoPass, EndPass, Advance, HoldPass
<1> QED BY <1>3, <1>4, <1>5, <1>6

\* What a clock leaves of the history is of distinct columns, and empty if the
\* pass is over.
LEMMA HistoryKeeps ==
  ASSUME PassInv, Record
  PROVE  /\ visited' \in Seq(Val \X SUBSET Lanes)
         /\ ~running' => visited' = <<>>
         /\ \A j, k \in DOMAIN visited' :
              j # k => visited'[j][1] # visited'[k][1]
<1>1. CASE visited' = <<>> BY <1>1
<1>2. CASE visited' = visited BY <1>2, RecordKeeps DEF PassInv
<1>3. CASE visited' = ThisPass
  BY <1>3, ThisPassType, ThisPassDistinct, RecordKeeps
<1> QED BY <1>1, <1>2, <1>3, RecordKeeps

(* A clock takes a pass one entry further in its order, or ends or loses   *)
(* it.                                                                     *)
LEMMA ClockKeeps ==
  ASSUME PassInv, NEW start, NEW trigger, Clock(start, trigger)
  PROVE  PassInv'
<1>1. Peripheral /\ SourceEdge /\ Record BY DEF Clock
<1>2. ObserverEdge(start, trigger, oneshot, N, valid, ts_pi) BY DEF Clock
<1>3. N' \in Val /\ order' \in Permutations(N')
  BY <1>1, PeripheralKeeps, SourceKeeps DEF PassInv
<1>4. /\ running' \in BOOLEAN /\ visit_q' \in BOOLEAN
      /\ t_q' \in Val /\ col_q' \in Val
      /\ visit_q' => running'
  <2>1. ts_pi \in Val BY AnswerType
  <2>2. /\ running \in BOOLEAN /\ visit_q \in BOOLEAN /\ t_q \in Val /\ col_q \in Val
        /\ visit_q => running
    BY DEF PassInv
  <2> QED BY <1>2, <2>1, <2>2, EngineKeeps
<1>5. running' /\ valid' => t_q' < N' /\ \E p \in Permutations(N') : Follows(p)'
  BY <1>1, <1>2, PassGoesOn
<1>6. /\ visited' \in Seq(Val \X SUBSET Lanes)
      /\ ~running' => visited' = <<>>
      /\ \A j, k \in DOMAIN visited' : j # k => visited'[j][1] # visited'[k][1]
  BY <1>1, HistoryKeeps
<1> QED BY <1>3, <1>4, <1>5, <1>6 DEF PassInv

(* Every step keeps PassInv: a clock, a reset, a change of the context.    *)
LEMMA PassInvStep == PassInv /\ [Next]_vars => PassInv'
<1> SUFFICES ASSUME PassInv, [Next]_vars PROVE PassInv' OBVIOUS
<1>0. 0 \in Val BY ValRangeAssumption DEF Val
<1>1. CASE StartClock BY <1>1, ClockKeeps DEF StartClock
<1>2. CASE TriggerClock BY <1>2, ClockKeeps DEF TriggerClock
<1>3. CASE QuietClock BY <1>3, ClockKeeps DEF QuietClock
<1>4. CASE StopScan
  <2>1. /\ N' \in Val /\ order' \in Permutations(N')
        /\ running' = FALSE /\ visit_q' = FALSE /\ t_q' = 0 /\ col_q' = 0
    BY <1>4, PeripheralKeeps, SourceKeeps DEF StopScan, ResetObserver, PassInv
  <2>2. Record BY <1>4 DEF StopScan
  <2> QED BY <1>0, <2>1, <2>2, HistoryKeeps DEF PassInv
<1>5. CASE ResetScan
  <2>1. /\ N' = 0 /\ running' = FALSE /\ visit_q' = FALSE /\ t_q' = 0
        /\ col_q' = 0 /\ order' = <<>> /\ visited' = <<>>
    BY <1>5 DEF ResetScan, AbsReset, ResetObserver
  <2>2. /\ visited' \in Seq(Val \X SUBSET Lanes)
        /\ \A j, k \in DOMAIN visited' :
             j # k => visited'[j][1] # visited'[k][1]
    BY <2>1
  <2>3. order' \in Permutations(N') BY <2>1, EmptyRow
  <2> QED BY <1>0, <2>1, <2>2, <2>3 DEF PassInv
<1>6. CASE UNCHANGED vars
  BY <1>6 DEF vars, absVars, observerVars, scanVars, PassInv, Follows, valid
<1> QED BY <1>1, <1>2, <1>3, <1>4, <1>5, <1>6 DEF Next

\* The inductive invariant: every pass follows one permutation of its row.
THEOREM PassFollowsOneOrder == Spec => []PassInv
<1> QED BY PassInvInit, PassInvStep, PTL DEF Spec

\* O1 on the wires: a pass that is done has presented each column once, whatever
\* software, the trigger and the source did meanwhile.
THEOREM PassesArePermutations == Spec => []PassIsAPermutation
<1> QED BY PassFollowsOneOrder, PassInvSuffices, PTL

-----------------------------------------------------------------------------
(* A pass that stops before its end is marked, until the next begins.      *)
LEMMA StepMarks ==
  ASSUME [Next]_vars
  PROVE  /\ running /\ ~running' /\ ~pass_done(N, valid) =>
              aborted_q' \/ ResetObserver
         /\ aborted_q /\ ~aborted_q' => visit_q' \/ ResetObserver
<1> DEFINE Marks ==
      /\ running /\ ~running' /\ ~pass_done(N, valid) => aborted_q'
      /\ aborted_q /\ ~aborted_q' => visit_q'
<1>1. ASSUME NEW start, NEW trigger, Clock(start, trigger)
      PROVE  Marks
  <2>1. ObserverEdge(start, trigger, oneshot, N, valid, ts_pi) BY <1>1 DEF Clock
  <2> QED BY <2>1 DEF ObserverEdge, AbortPass, StartPass, NoPass, EndPass,
             Advance, HoldPass, pass_done, visit_valid
<1>2. CASE StopScan \/ ResetScan BY <1>2 DEF StopScan, ResetScan
<1>3. CASE UNCHANGED vars BY <1>3 DEF vars, observerVars
<1> QED BY <1>1, <1>2, <1>3 DEF Next, StartClock, TriggerClock, QuietClock

\* A pass cut short leaves ABORTED, and only a new pass takes it away.
THEOREM AbortsAreMarked == Spec => IncompletePassIsMarked
<1> QED BY StepMarks, PTL DEF Spec, IncompletePassIsMarked

-----------------------------------------------------------------------------
(* One matrix: the visits of a pass and the pins are columns of the matrix *)
(* that is valid now.                                                      *)

\* While there is a matrix nothing it is made of changes.
LEMMA MatrixStays ==
  ASSUME Peripheral, valid, valid'
  PROVE  UNCHANGED <<N, C, W, offsets>>
<1>1. CASE Program BY <1>1 DEF Program, valid
<1>2. CASE Begin BY <1>2 DEF Begin, valid
<1>3. CASE Complete BY <1>3 DEF Complete, valid
<1>4. CASE AcknowledgeIrq BY <1>4 DEF AcknowledgeIrq
<1>5. CASE UNCHANGED absVars BY <1>5 DEF absVars
<1> QED BY <1>1, <1>2, <1>3, <1>4, <1>5 DEF Peripheral

\* The peripheral's registers keep their types, and a matrix is a transform.
LEMMA PeripheralTypes ==
  ASSUME Peripheral, MatrixInv
  PROVE  /\ status' \in {"invalid", "busy", "valid"}
         /\ <<N', C', W'>> \in Contexts /\ offsets' \in [Lanes -> Val]
         /\ valid' => IsTransform(offsets', Lanes, N', C', W')
<1>1. NoAnswers \in [Lanes -> Val]
  <2>1. 0 \in Val BY ValRangeAssumption DEF Val
  <2> QED BY <2>1 DEF NoAnswers
<1>2. /\ status \in {"invalid", "busy", "valid"} /\ offsets \in [Lanes -> Val]
      /\ valid => IsTransform(offsets, Lanes, N, C, W)
  BY DEF MatrixInv, ScanTypeOK
<1>3. <<N', C', W'>> \in Contexts BY DEF Peripheral
<1>4. CASE Program BY <1>1, <1>3, <1>4 DEF Program, valid
<1>5. CASE Begin BY <1>1, <1>3, <1>5 DEF Begin, valid
<1>6. CASE Complete BY <1>3, <1>6 DEF Complete, valid, IsTransform
<1>7. CASE AcknowledgeIrq BY <1>2, <1>3, <1>7 DEF AcknowledgeIrq, valid, IsTransform
<1>8. CASE UNCHANGED absVars BY <1>2, <1>3, <1>8 DEF absVars, valid, IsTransform
<1> QED BY <1>4, <1>5, <1>6, <1>7, <1>8 DEF Peripheral

\* A column presented is a column of the row, the last visit included.
LEMMA VisitsAreColumns ==
  ASSUME PassInv, running, valid
  PROVE  /\ visit_q => col_q \in 0 .. N - 1
         /\ \A k \in DOMAIN ThisPass : ThisPass[k][1] \in 0 .. N - 1
<1>1. PICK p \in Permutations(N) : Follows(p) BY DEF PassInv
<1>2. p \in [0 .. N - 1 -> 0 .. N - 1] BY DEF Permutations
<1>3. t_q \in 0 .. N - 1 /\ N \in Nat BY NoWrap DEF PassInv
<1>4. visit_q => col_q \in 0 .. N - 1 BY <1>1, <1>2, <1>3 DEF Follows
<1>5. ASSUME NEW k \in DOMAIN ThisPass PROVE ThisPass[k][1] \in 0 .. N - 1
  <2>1. k \in 1 .. N /\ ThisPass[k][1] = p[k - 1] BY <1>1, ThisPassFollows
  <2>2. k - 1 \in 0 .. N - 1 BY <1>3, <2>1
  <2> QED BY <1>2, <2>1, <2>2
<1> QED BY <1>4, <1>5

\* Every visit of the pass so far showed the column of the present matrix.
LEMMA ThisPassColumns ==
  ASSUME PassInv, MatrixInv, running, valid
  PROVE  \A k \in DOMAIN ThisPass : ThisPass[k][2] = column_bits(ThisPass[k][1])
<1>1. visited \in Seq(Val \X SUBSET Lanes) BY DEF PassInv
<1>2. ASSUME NEW k \in DOMAIN ThisPass
      PROVE  ThisPass[k][2] = column_bits(ThisPass[k][1])
  <2>1. ThisPass[k] = IF k <= Len(visited) THEN visited[k]
                      ELSE <<col_q, column_bits(col_q)>>
    BY ThisPassType
  <2>2. CASE k <= Len(visited)
    <3>1. k \in DOMAIN visited BY <1>1, <2>2, ThisPassType
    <3>2. visited[k][2] = column_bits(visited[k][1]) BY <3>1 DEF MatrixInv
    <3> QED BY <2>1, <2>2, <3>2
  <2>3. CASE ~(k <= Len(visited)) BY <2>1, <2>3
  <2> QED BY <2>2, <2>3
<1> QED BY <1>2

(* After reset there is nothing that could be of another matrix.           *)
LEMMA MatrixInvInit == Init => MatrixInv
<1> SUFFICES ASSUME Init PROVE MatrixInv OBVIOUS
<1>1. 0 \in Val BY ValRangeAssumption DEF Val
<1>2. ObserverTypeOK BY <1>1 DEF Init, ObserverInit, ObserverTypeOK
<1>3. /\ status = "invalid" /\ <<N, C, W>> = <<0, 0, NoAnswers>>
      /\ offsets = NoAnswers /\ pattern_q = {} /\ valid_q \in BOOLEAN
      /\ shown = -1 /\ running = FALSE
  BY DEF Init, AbsInit, OutInit, ObserverInit, NoAnswers
<1>4. NoAnswers \in [Lanes -> Val] BY <1>1 DEF NoAnswers
<1>5. order \in Permutations(N) BY PassInvInit DEF PassInv
<1> QED BY <1>2, <1>3, <1>4, <1>5, ContextsAssumption
        DEF MatrixInv, ScanTypeOK, valid

(* With the context its columns stay.                                      *)
LEMMA ColumnsStay ==
  ASSUME UNCHANGED <<N, C, W, offsets>>
  PROVE  \A j : {i \in Lanes : ColumnBit(i, j, N', C', W', offsets')} = column_bits(j)
BY DEF column_bits

\* A pass runs on only over a matrix.
LEMMA RunNeedsMatrix ==
  ASSUME NEW start, NEW trigger, NEW pi,
         ObserverEdge(start, trigger, oneshot, N, valid, pi), running'
  PROVE  valid
BY DEF ObserverEdge, AbortPass, StartPass, NoPass, EndPass, Advance, HoldPass

\* Whatever the engine does in a clock, the output engine and the history
\* follow the matrix.
LEMMA PinsFollow ==
  ASSUME PassInv, MatrixInv, Peripheral, Record,
         OutEdge(column_bits(col_q), visit_valid(valid), valid)
  PROVE  /\ pattern_q' \in SUBSET Lanes /\ valid_q' \in BOOLEAN
         /\ shown' \in Val \cup {-1}
         /\ ~valid_q' => pattern_q' = {} /\ shown' = -1
         /\ shown' = -1 => pattern_q' = {}
         /\ valid' /\ shown' # -1 =>
              shown' \in 0 .. N' - 1 /\ pattern_q' = column_bits(shown)'
<1>1. /\ pattern_q \in SUBSET Lanes /\ valid_q \in BOOLEAN /\ shown \in Val \cup {-1}
      /\ ~valid_q => pattern_q = {} /\ shown = -1
      /\ shown = -1 => pattern_q = {}
      /\ valid /\ shown # -1 =>
           shown \in 0 .. N - 1 /\ pattern_q = column_bits(shown)
  BY DEF MatrixInv, ScanTypeOK
<1>2. col_q \in Val /\ column_bits(col_q) \in SUBSET Lanes
      /\ (valid \in BOOLEAN) /\ valid_q' = valid
  BY DEF PassInv, column_bits, valid, OutEdge
<1>3. CASE ~valid
  <2>1. shown' = -1 /\ ~visit_valid(valid) BY <1>3 DEF Record, visit_valid
  <2>2. pattern_q' = IF valid_q THEN {} ELSE pattern_q
    BY <1>3, <2>1 DEF OutEdge, valid_fell
  <2> QED BY <1>1, <1>2, <1>3, <2>1, <2>2
<1>4. CASE valid
  <2>1. valid' => /\ N' = N
                  /\ \A j : {i \in Lanes : ColumnBit(i, j, N', C', W', offsets')}
                              = column_bits(j)
    BY <1>4, MatrixStays, ColumnsStay
  <2>2. CASE visit_q
    <3>1. /\ shown' = col_q /\ pattern_q' = column_bits(col_q)
      BY <1>4, <2>2 DEF Record, OutEdge, visit_valid, valid_fell
    <3>2. col_q \in 0 .. N - 1
      BY <1>4, <2>2, VisitsAreColumns DEF PassInv
    <3>3. col_q # -1 BY <3>2
    <3> QED BY <1>2, <1>4, <2>1, <3>1, <3>2, <3>3 DEF column_bits
  <2>3. CASE ~visit_q
    <3>1. shown' = shown /\ pattern_q' = pattern_q
      BY <1>4, <2>3 DEF Record, OutEdge, visit_valid, valid_fell
    <3> QED BY <1>1, <1>2, <1>4, <2>1, <3>1 DEF column_bits
  <2> QED BY <2>2, <2>3 DEF PassInv
<1> QED BY <1>3, <1>4

\* The history of a pass that runs on is of the matrix that is still there.
LEMMA HistoryFollows ==
  ASSUME PassInv, MatrixInv, Peripheral, Record, running', valid', valid
  PROVE  \A k \in DOMAIN visited' :
           visited'[k][2] = column_bits(visited[k][1])'
<1>1. \A j : {i \in Lanes : ColumnBit(i, j, N', C', W', offsets')} = column_bits(j)
  BY MatrixStays, ColumnsStay
<1>2. CASE visited' = <<>> BY <1>2
<1>3. CASE visited' # <<>>
  <2>1. running
    BY <1>3, RecordKeeps DEF ThisPass, visit_valid, PassInv
  <2>2. visited' \in {visited, ThisPass} BY <1>3, RecordKeeps
  <2>3. \A k \in DOMAIN visited : visited[k][2] = column_bits(visited[k][1])
    BY <2>1 DEF MatrixInv
  <2>4. \A k \in DOMAIN ThisPass : ThisPass[k][2] = column_bits(ThisPass[k][1])
    BY <2>1, ThisPassColumns
  <2>5. \A k \in DOMAIN visited' : visited'[k][2] = column_bits(visited'[k][1])
    BY <2>2, <2>3, <2>4
  <2> QED BY <1>1, <2>5 DEF column_bits
<1> QED BY <1>2, <1>3

(* A clock adds a column of the present matrix to the pass and to the      *)
(* register, or empties them.                                              *)
LEMMA MatrixClockKeeps ==
  ASSUME PassInv, MatrixInv, NEW start, NEW trigger, Clock(start, trigger)
  PROVE  MatrixInv'
<1>1. /\ Peripheral /\ Record
      /\ OutEdge(column_bits(col_q), visit_valid(valid), valid)
      /\ ObserverEdge(start, trigger, oneshot, N, valid, ts_pi)
  BY DEF Clock
<1>2. PassInv' BY ClockKeeps
<1>3. aborted_q' \in BOOLEAN
  BY <1>1 DEF MatrixInv, ScanTypeOK, ObserverTypeOK, ObserverEdge, AbortPass,
     StartPass, NoPass, EndPass, Advance, HoldPass
<1>4. ObserverTypeOK' BY <1>2, <1>3 DEF PassInv, ObserverTypeOK
<1>5. ScanTypeOK'
  BY <1>1, <1>2, <1>4, PeripheralTypes, PinsFollow DEF ScanTypeOK, PassInv
<1>6. running' /\ valid' => valid BY <1>1, RunNeedsMatrix
<1> QED BY <1>1, <1>5, <1>6, PeripheralTypes, PinsFollow, HistoryFollows
        DEF MatrixInv, valid

(* Every step keeps MatrixInv.                                             *)
LEMMA MatrixInvStep == PassInv /\ MatrixInv /\ [Next]_vars => MatrixInv'
<1> SUFFICES ASSUME PassInv, MatrixInv, [Next]_vars PROVE MatrixInv' OBVIOUS
<1>0. 0 \in Val BY ValRangeAssumption DEF Val
<1>1. PassInv' BY PassInvStep
<1>2. CASE StartClock BY <1>2, MatrixClockKeeps DEF StartClock
<1>3. CASE TriggerClock BY <1>3, MatrixClockKeeps DEF TriggerClock
<1>4. CASE QuietClock BY <1>4, MatrixClockKeeps DEF QuietClock
<1>5. CASE StopScan
  <2>1. /\ Peripheral /\ Record /\ ~running' /\ ResetObserver
        /\ OutEdge(column_bits(col_q), visit_valid(valid), valid)
    BY <1>5 DEF StopScan, ResetObserver
  <2>2. ObserverTypeOK' BY <1>0, <2>1 DEF ResetObserver, ObserverTypeOK
  <2>3. ScanTypeOK'
    BY <1>1, <2>1, <2>2, PeripheralTypes, PinsFollow DEF ScanTypeOK, PassInv
  <2> QED BY <2>1, <2>3, PeripheralTypes, PinsFollow DEF MatrixInv, valid
<1>6. CASE ResetScan
  <2>1. /\ status' = "invalid" /\ <<N', C', W'>> = <<0, 0, NoAnswers>>
        /\ offsets' = NoAnswers /\ pattern_q' = {} /\ valid_q' = valid
        /\ shown' = -1 /\ ~running' /\ ResetObserver
    BY <1>6 DEF ResetScan, AbsReset, ResetOutEngine, ResetObserver, NoAnswers
  <2>2. NoAnswers \in [Lanes -> Val] BY <1>0 DEF NoAnswers
  <2>3. ObserverTypeOK' BY <1>0, <2>1 DEF ResetObserver, ObserverTypeOK
  <2>4. valid_q' \in BOOLEAN /\ ~valid' BY <2>1 DEF valid
  <2>5. order' \in Permutations(N') BY <1>1 DEF PassInv
  <2> QED BY <2>1, <2>2, <2>3, <2>4, <2>5, ContextsAssumption
          DEF MatrixInv, ScanTypeOK
<1>7. CASE UNCHANGED vars
  BY <1>7 DEF vars, absVars, observerVars, outVars, scanVars, MatrixInv,
     ScanTypeOK, ObserverTypeOK, valid, column_bits
<1> QED BY <1>2, <1>3, <1>4, <1>5, <1>6, <1>7 DEF Next

\* The inductive invariant: VALID brackets everything that is shown.
THEOREM OneMatrixAtATime == Spec => []MatrixInv
<1>1. Init => MatrixInv BY MatrixInvInit
<1>2. PassInv /\ MatrixInv /\ [Next]_vars => MatrixInv' BY MatrixInvStep
<1> QED BY PassFollowsOneOrder, <1>1, <1>2, PTL DEF Spec

\* A lane that holds no row is silent, whatever the context.
LEMMA SilentAboveC ==
  ASSUME MatrixInv, NEW j \in Val
  PROVE  \A i \in column_bits(j) : i < C
<1>1. Lanes \subseteq Nat /\ C \in Nat
  BY ContextsAssumption DEF MatrixInv, ScanTypeOK
<1>2. ASSUME NEW i \in column_bits(j), ~(i < C) PROVE FALSE
  <2>1. ColumnBit(i, j, N, C, W, offsets) BY DEF column_bits
  <2> QED BY <1>2, <2>1 DEF ColumnBit, CellBit, Delta, Val
<1> QED BY <1>2

\* Over a legal context the pattern the evaluators show for a column is the
\* column of the reference.
LEMMA PatternIsReference ==
  ASSUME MatrixInv, valid, LegalContext, NEW j \in 0 .. N - 1
  PROVE  column_bits(j) = MatrixColumn(j)
<1>1. /\ N \in Val /\ N \in Nat /\ N # 0 /\ C \in Nat /\ W \in [Lanes -> Val]
      /\ Lanes \subseteq Nat /\ j \in Val
  <2>1. <<N, C, W>> \in Val \X Idx \X [Lanes -> Val]
    BY ContextsAssumption DEF MatrixInv, ScanTypeOK
  <2>2. N \in Val /\ C \in Nat /\ W \in [Lanes -> Val] /\ Lanes \subseteq Nat
    BY <2>1, ContextsAssumption
  <2>3. N \in Nat /\ N # 0 /\ j \in Val BY <2>2, ValRangeAssumption DEF Val
  <2> QED BY <2>2, <2>3
<1>2. /\ 0 .. C - 1 \subseteq Lanes /\ Legal(N, C, W)
      /\ IsTransform(offsets, Lanes, N, C, W)
  BY DEF MatrixInv, LegalContext
<1>3. \A i \in 0 .. C - 1 : W[i] \in Nat
  BY <1>1, <1>2 DEF Val
<1>4. \A i \in 0 .. C - 1 :
        ColumnBit(i, j, N, C, W, offsets) <=> RefBit(i, j, N, C, W)
  BY <1>1, <1>2, <1>3, ColumnsAreReference
<1>5. \A i \in column_bits(j) : i \in 0 .. C - 1
  BY <1>1, SilentAboveC DEF column_bits
<1> QED BY <1>1, <1>2, <1>4, <1>5 DEF column_bits, MatrixColumn

\* A pass over a legal context is a pass of one matrix: whatever software and
\* the trigger did in between, every pattern it has presented is the column of
\* the reference for the context that is valid now.
THEOREM PassesShowOneMatrix == Spec => [](LegalContext => PassOfOneMatrix)
<1>1. ASSUME PassInv, MatrixInv, LegalContext, visit_valid(valid),
             NEW k \in DOMAIN ThisPass
      PROVE  ThisPass[k][2] = MatrixColumn(ThisPass[k][1])
  <2>1. running /\ valid BY <1>1 DEF visit_valid, PassInv
  <2>2. /\ ThisPass[k][2] = column_bits(ThisPass[k][1])
        /\ ThisPass[k][1] \in 0 .. N - 1
    BY <1>1, <2>1, ThisPassColumns, VisitsAreColumns
  <2> QED BY <1>1, <2>1, <2>2, PatternIsReference
<1>2. PassInv /\ MatrixInv => (LegalContext => PassOfOneMatrix)
  BY <1>1 DEF PassOfOneMatrix
<1> QED BY PassFollowsOneOrder, OneMatrixAtATime, <1>2, PTL

\* The pads and the sideband keep their contract: types and lanes in every
\* context, and over a legal one the pattern of the reference.
THEOREM PinsAlwaysKeepTheContract ==
  Spec => [](ScanTypeOK /\ SidebandAssertions /\ (LegalContext => PinsContract))
<1>1. ASSUME PassInv, MatrixInv PROVE SidebandAssertions
  <2>1. visit_valid(valid) => running /\ col_q < N
    <3>1. N \in Nat BY <1>1 DEF PassInv, Val
    <3> QED BY <1>1, <3>1, VisitsAreColumns DEF visit_valid, PassInv
  <2>2. col_q \in Val BY <1>1 DEF PassInv
  <2> QED BY <1>1, <2>1, <2>2, SilentAboveC DEF SidebandAssertions
<1>2. ASSUME MatrixInv, LegalContext PROVE PinsShowTheScan
  <2>1. CASE valid /\ shown # -1
    <3>1. shown \in 0 .. N - 1 /\ pattern_q = column_bits(shown)
      BY <1>2, <2>1 DEF MatrixInv
    <3> QED BY <1>2, <2>1, <3>1, PatternIsReference DEF PinsShowTheScan, pins
  <2>2. CASE ~(valid /\ shown # -1)
    BY <1>2, <2>2 DEF MatrixInv, PinsShowTheScan, pins
  <2> QED BY <2>1, <2>2
<1>3. PassInv /\ MatrixInv =>
        ScanTypeOK /\ SidebandAssertions /\ (LegalContext => PinsContract)
  BY <1>1, <1>2 DEF MatrixInv, PinsContract
<1> QED BY PassFollowsOneOrder, OneMatrixAtATime, <1>3, PTL
=============================================================================
