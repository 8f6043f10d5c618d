--------------------------- MODULE BcmcArith_proofs ---------------------------
(***************************************************************************)
(* The pure mathematics.  The arithmetic of the rows is the matrix of the  *)
(* reference, for every register width, every n and every vector of        *)
(* weights; and what is drawn from a seed is of its row, for every stream  *)
(* of words and every n.  Prefix sums, masks, draws and shuffles are       *)
(* recursive functions: that they exist, and the facts by induction over   *)
(* them, are proved from a least counterexample.                           *)
(***************************************************************************)
EXTENDS BcmcArith, BcmcOrders, WellFoundedInduction, TLAPS

(* A non-empty set of natural numbers has a least element: the form in     *)
(* which the proofs below use induction.                                   *)
LEMMA LeastNatural ==
  ASSUME NEW T, T \subseteq Nat, T # {}
  PROVE  \E m \in T : \A k \in T : m <= k
<1> DEFINE R == OpToRel(<, Nat)
<1>1. \A x, y \in Nat : x < y => <<x, y>> \in R
  BY DEF OpToRel
<1>2. IsWellFoundedOn(R, Nat)
  BY NatLessThanWellFounded
<1> HIDE DEF R
<1>3. PICK m \in T : \A k \in T : ~ (<<k, m>> \in R)
  BY <1>2, WFMin
<1>4. ASSUME NEW k \in T PROVE m <= k
  <2>1. ~ (k < m)
    BY <1>1, <1>3
  <2> QED BY <2>1
<1> QED BY <1>4

(* F is the function of the prefix sums of w on 0 .. m.                    *)
SumsUpTo(f, m, w) ==
  f = [k \in 0 .. m |-> IF k = 0 THEN 0 ELSE f[k - 1] + w[k - 1]]

(* Whatever the weights are, such a function exists.                       *)
LEMMA SumsExist ==
  ASSUME NEW w
  PROVE  \A m \in Nat : \E f : SumsUpTo(f, m, w)
<1> DEFINE Bad == {m \in Nat : ~ \E f : SumsUpTo(f, m, w)}
<1> SUFFICES ASSUME Bad # {} PROVE FALSE
  OBVIOUS
<1>1. PICK m \in Bad : \A k \in Bad : m <= k
  BY LeastNatural
<1>2. SumsUpTo([k \in 0 .. 0 |-> 0], 0, w)
  BY DEF SumsUpTo
<1>3. m \in Nat /\ m # 0
  BY <1>2
<1>4. PICK f : SumsUpTo(f, m - 1, w)
  BY <1>1, <1>3
<1> DEFINE g == [k \in 0 .. m |-> IF k = m THEN f[m - 1] + w[m - 1] ELSE f[k]]
<1>5. ASSUME NEW k \in 0 .. m
      PROVE  g[k] = IF k = 0 THEN 0 ELSE g[k - 1] + w[k - 1]
  <2>1. CASE k = m
    BY <2>1, <1>3
  <2>2. CASE k # m
    <3>1. k \in 0 .. m - 1 /\ (k # 0 => k - 1 \in 0 .. m - 1 /\ k - 1 # m)
      BY <2>2, <1>3
    <3>2. f[k] = IF k = 0 THEN 0 ELSE f[k - 1] + w[k - 1]
      BY <1>4, <3>1 DEF SumsUpTo
    <3> QED BY <3>1, <3>2, <2>2
  <2> QED BY <2>1, <2>2
<1>6. SumsUpTo(g, m, w)
  <2>1. g = [k \in 0 .. m |-> g[k]]
    OBVIOUS
  <2> QED BY <1>5, <2>1 DEF SumsUpTo
<1> QED BY <1>6

(* PrefixSum obeys its recursive equation.                                 *)
LEMMA PrefixSumEquation ==
  ASSUME NEW w, NEW c \in Nat
  PROVE  /\ PrefixSum(c, w)[0] = 0
         /\ \A k \in 1 .. c : PrefixSum(c, w)[k] = PrefixSum(c, w)[k - 1] + w[k - 1]
<1>1. \E f : f = [k \in 0 .. c |-> IF k = 0 THEN 0 ELSE f[k - 1] + w[k - 1]]
  BY SumsExist DEF SumsUpTo
<1>2. PrefixSum(c, w) = [k \in 0 .. c |-> IF k = 0 THEN 0
                                ELSE PrefixSum(c, w)[k - 1] + w[k - 1]]
  BY <1>1, Zenon DEF PrefixSum
<1> HIDE DEF PrefixSum
<1>3. \A k \in 0 .. c : PrefixSum(c, w)[k] = IF k = 0 THEN 0
                                ELSE PrefixSum(c, w)[k - 1] + w[k - 1]
  BY <1>2
<1> QED BY <1>3

(* The prefix sums of natural weights are natural numbers that never       *)
(* decrease from one row to the next.                                      *)
LEMMA PrefixSumNat ==
  ASSUME NEW w, NEW c \in Nat, \A i \in 0 .. c - 1 : w[i] \in Nat
  PROVE  \A k \in 0 .. c : PrefixSum(c, w)[k] \in Nat
<1> DEFINE P == PrefixSum(c, w)
           Bad == {k \in 0 .. c : P[k] \notin Nat}
<1>1. P[0] = 0 /\ \A k \in 1 .. c : P[k] = P[k - 1] + w[k - 1]
  BY PrefixSumEquation
<1> HIDE DEF P
<1> SUFFICES ASSUME Bad # {} PROVE FALSE
  BY DEF P
<1>0. Bad \subseteq Nat
  OBVIOUS
<1>2. PICK k \in Bad : \A m \in Bad : k <= m
  <2> HIDE DEF Bad
  <2> QED BY <1>0, LeastNatural
<1>3. k \in 1 .. c /\ k - 1 \in 0 .. c - 1
  BY <1>1
<1>4. P[k - 1] \in Nat
  BY <1>2, <1>3
<1> QED BY <1>1, <1>3, <1>4

(* What division leaves, and that it is the only way to leave it.          *)
LEMMA DivMod ==
  ASSUME NEW a \in Int, NEW n \in Nat \ {0}
  PROVE  /\ a = n * (a \div n) + (a % n)
         /\ a % n \in 0 .. n - 1
         /\ a \div n \in Int
OBVIOUS

(* Quotient and remainder are determined by what they satisfy.             *)
LEMMA ModUnique ==
  ASSUME NEW a \in Int, NEW n \in Nat \ {0}, NEW q \in Int,
         NEW r \in 0 .. n - 1, a = n * q + r
  PROVE  a % n = r /\ a \div n = q
<1>1. n * (a \div n) + (a % n) = n * q + r /\ a % n \in 0 .. n - 1 /\ a \div n \in Int
  BY DivMod
<1> DEFINE p == a \div n
           s == a % n
<1> HIDE DEF p, s
<1>2. ASSUME p \in Int, s \in 0 .. n - 1, n * p + s = n * q + r
      PROVE  p = q /\ s = r
  BY <1>2
<1> QED BY <1>1, <1>2 DEF p, s

\* The Core's reduction always fits its register.
LEMMA NextOffsetType ==
  ASSUME NEW o \in Val, NEW w \in Val, NEW n \in Val
  PROVE  NextOffset(o, w, n) \in Val
  BY ValRangeAssumption DEF NextOffset, Val

\* With an offset below n and a weight of at most n, one subtraction is the
\* whole reduction: the truncation never bites and the result is below n.
LEMMA NextOffsetBound ==
  ASSUME NEW o \in Val, NEW w \in Val, NEW n \in Val, o < n, w <= n
  PROVE  /\ NextOffset(o, w, n) < n
         /\ NextOffset(o, w, n) = IF o + w >= n THEN o + w - n ELSE o + w
  <1>1. CASE o + w >= n
    <2>1. o + w - n \in 0 .. ValRange - 1
      BY <1>1, ValRangeAssumption DEF Val
    <2>2. (o + w - n) % ValRange = o + w - n
      BY <2>1, ValRangeAssumption
    <2> QED BY <1>1, <2>2 DEF NextOffset, Val
  <1>2. CASE ~(o + w >= n)
    BY <1>2 DEF NextOffset, Val
  <1> QED BY <1>1, <1>2

(* One step of the Core is one addition modulo n: a single subtraction is  *)
(* enough because a residue and a legal weight sum to less than 2 n.       *)
LEMMA NextOffsetIsModular ==
  ASSUME NEW n \in Nat \ {0}, n < ValRange, NEW a \in Nat, NEW w \in 0 .. n
  PROVE  NextOffset(a % n, w, n) = (a + w) % n
<1> DEFINE r == a % n
           q == a \div n
<1>1. a = n * q + r /\ r \in 0 .. n - 1 /\ q \in Int
  BY DivMod
<1> HIDE DEF r, q
<1>2. CASE r + w < n
  <2>1. a + w = n * q + (r + w) /\ r + w \in 0 .. n - 1
    BY <1>1, <1>2
  <2>2. (a + w) % n = r + w
    BY <1>1, <2>1, ModUnique
  <2> QED BY <1>1, <1>2, <2>2 DEF NextOffset, r
<1>3. CASE r + w >= n
  <2>1. a + w = n * (q + 1) + (r + w - n) /\ r + w - n \in 0 .. n - 1
    BY <1>1, <1>3
  <2>2. (a + w) % n = r + w - n
    <3>1. a + w \in Int /\ q + 1 \in Int
      BY <1>1
    <3> QED BY <2>1, <3>1, ModUnique
  <2>3. (r + w - n) % ValRange = r + w - n
    BY <2>1, ValRangeAssumption
  <2> QED BY <1>1, <1>3, <2>2, <2>3 DEF NextOffset, r
<1> QED BY <1>1, <1>2, <1>3

(* The chain of the Core's own steps over legal weights: row k's offset is *)
(* the sum of the weights before it modulo n, as reference.py defines it.  *)
LEMMA ChainIsPrefixSum ==
  ASSUME NEW n \in Nat \ {0}, n < ValRange, NEW c \in Nat, NEW w, NEW o,
         \A i \in 0 .. c - 1 : w[i] \in 0 .. n,
         c # 0 => o[0] = 0,
         \A k \in 1 .. c - 1 : o[k] = NextOffset(o[k - 1], w[k - 1], n)
  PROVE  \A k \in 0 .. c - 1 : o[k] = RefOffset(k, n, c, w)
<1> DEFINE P == PrefixSum(c, w)
           Bad == {k \in 0 .. c - 1 : o[k] # P[k] % n}
<1>1. P[0] = 0 /\ \A k \in 1 .. c : P[k] = P[k - 1] + w[k - 1]
  BY PrefixSumEquation
<1>2. \A k \in 0 .. c : P[k] \in Nat
  BY PrefixSumNat
<1> HIDE DEF P
<1> SUFFICES ASSUME Bad # {} PROVE FALSE
  BY DEF P, RefOffset
<1>3. Bad \subseteq Nat
  OBVIOUS
<1>4. PICK k \in Bad : \A m \in Bad : k <= m
  <2> HIDE DEF Bad
  <2> QED BY <1>3, LeastNatural
<1>5. k # 0
  <2>1. 0 % n = 0
    BY ModUnique
  <2> QED BY <1>1, <2>1
<1>6. k \in 1 .. c - 1 /\ k - 1 \in 0 .. c - 1 /\ k - 1 \notin Bad
  BY <1>4, <1>5
<1>7. o[k - 1] = P[k - 1] % n /\ P[k - 1] \in Nat /\ w[k - 1] \in 0 .. n
  BY <1>2, <1>6
<1>8. o[k] = (P[k - 1] + w[k - 1]) % n
  BY <1>6, <1>7, NextOffsetIsModular
<1> QED BY <1>1, <1>6, <1>8

(* One comparison places a column in its row: with the offset P mod n of a *)
(* row whose interval starts at P, the cell of the hardware is set exactly *)
(* when the interval holds an integer of the column's residue.             *)
LEMMA CellIsReference ==
  ASSUME NEW n \in Nat \ {0}, n < ValRange, NEW p \in Nat, NEW w \in Nat,
         NEW j \in 0 .. n - 1, NEW r, r = p % n
  PROVE  /\ CellBit(w, r, j, n) =>
              /\ p + Delta(j, r, n) \in p .. p + w - 1
              /\ (p + Delta(j, r, n)) % n = j
         /\ \A x \in p .. p + w - 1 : x % n = j => CellBit(w, r, j, n)
<1> DEFINE q == p \div n
           d == IF j < r THEN j + n - r ELSE j - r
<1>1. p = n * q + r /\ r \in 0 .. n - 1 /\ q \in Int
  <2>1. p \in Int
    OBVIOUS
  <2> QED BY <2>1, DivMod
<1> HIDE DEF q
<1>2. Delta(j, r, n) = d
  <2>1. j < r => (j + (n - r)) % ValRange = j + n - r
    BY <1>1, ValRangeAssumption
  <2> QED BY <1>1, <2>1 DEF Delta
<1>3. d \in 0 .. n - 1
  BY <1>1
<1>4. (p + d) % n = j
  <2>1. CASE j < r
    <3>1. p + d = n * (q + 1) + j /\ p + d \in Int /\ q + 1 \in Int
      BY <1>1, <2>1
    <3> QED BY <3>1, ModUnique
  <2>2. CASE ~ (j < r)
    <3>1. p + d = n * q + j /\ p + d \in Int
      BY <1>1, <2>2
    <3> QED BY <1>1, <3>1, ModUnique
  <2> QED BY <2>1, <2>2
<1>5. ASSUME NEW x \in p .. p + w - 1, x % n = j, x - p < n
      PROVE  x - p = d
  <2>1. x \in Int /\ x - p \in 0 .. n - 1
    BY <1>5
  <2>2. CASE r + (x - p) < n
    <3>1. x = n * q + (r + (x - p)) /\ r + (x - p) \in 0 .. n - 1
      BY <1>1, <2>1, <2>2
    <3>2. j = r + (x - p)
      <4> DEFINE s == r + (x - p)
      <4>1. x \in Int /\ s \in 0 .. n - 1 /\ x = n * q + s /\ q \in Int
        BY <1>1, <2>1, <3>1
      <4> HIDE DEF s
      <4>2. x % n = s
        BY <4>1, ModUnique
      <4> QED BY <1>5, <4>2 DEF s
    <3> QED BY <1>1, <2>1, <3>2
  <2>3. CASE r + (x - p) >= n
    <3>1. x = n * (q + 1) + (r + (x - p) - n) /\ r + (x - p) - n \in 0 .. n - 1
          /\ q + 1 \in Int
      BY <1>1, <2>1, <2>3
    <3>2. j = r + (x - p) - n
      BY <1>5, <2>1, <3>1, ModUnique
    <3> QED BY <1>1, <2>1, <3>2
  <2> QED BY <1>1, <2>1, <2>2, <2>3
<1> HIDE DEF d
<1>6. CellBit(w, r, j, n) <=> d < w
  BY <1>2 DEF CellBit
<1>7. d < w => p + d \in p .. p + w - 1
  BY <1>3
<1>8. ASSUME NEW x \in p .. p + w - 1, x % n = j PROVE d < w
  <2>1. x \in Int /\ x - p < w
    OBVIOUS
  <2>2. CASE x - p < n
    BY <1>5, <1>8, <2>1, <2>2
  <2>3. CASE ~ (x - p < n)
    BY <1>3, <2>1, <2>3
  <2> QED BY <2>2, <2>3
<1> QED BY <1>2, <1>4, <1>6, <1>7, <1>8

(* With the offset of the reference in its lane, the column evaluator      *)
(* answers the bit of the reference, for any weight its register holds.    *)
LEMMA EvaluatorIsReference ==
  ASSUME NEW n \in Nat \ {0}, n < ValRange, NEW c \in Nat, NEW w, NEW o,
         \A k \in 0 .. c - 1 : w[k] \in Nat,
         NEW i \in 0 .. c - 1, NEW j \in 0 .. n - 1, o[i] = RefOffset(i, n, c, w)
  PROVE  ColumnBit(i, j, n, c, w, o) <=> RefBit(i, j, n, c, w)
<1> DEFINE P == PrefixSum(c, w)
           p == P[i]
           v == w[i]
           r == p % n
<1>1. p \in Nat /\ v \in Nat /\ P[i + 1] = p + v
  <2>1. i \in 0 .. c /\ i + 1 \in 1 .. c /\ (i + 1) - 1 = i
    OBVIOUS
  <2> QED BY <2>1, PrefixSumNat, PrefixSumEquation
<1>2. ColumnBit(i, j, n, c, w, o) = CellBit(v, r, j, n)
  BY DEF ColumnBit, RefOffset
<1>3. RefBit(i, j, n, c, w) <=> \E x \in p .. P[i + 1] - 1 : x % n = j
  BY DEF RefBit
<1>4. r = p % n
  OBVIOUS
<1> HIDE DEF P, p, v, r
<1>5. CellBit(v, r, j, n) => p + Delta(j, r, n) \in p .. p + v - 1
  BY <1>1, <1>4, CellIsReference
<1>6. CellBit(v, r, j, n) => (p + Delta(j, r, n)) % n = j
  BY <1>1, <1>4, CellIsReference
<1>7. ASSUME NEW x \in p .. p + v - 1, x % n = j
      PROVE  CellBit(v, r, j, n)
  BY <1>1, <1>4, <1>7, CellIsReference
<1>8. RefBit(i, j, n, c, w) <=> \E x \in p .. p + v - 1 : x % n = j
  BY <1>1, <1>3
<1> QED BY <1>2, <1>5, <1>6, <1>7, <1>8

(* The offset window of the Core, read by the column evaluator, is the     *)
(* matrix of reference.py: for every legal weight vector, every row and    *)
(* every column.                                                           *)
THEOREM ColumnsAreReference ==
  ASSUME NEW n \in Val, NEW c \in Nat, NEW w, NEW o, NEW lanes,
         0 .. c - 1 \subseteq lanes, \A i \in 0 .. c - 1 : w[i] \in Nat,
         Legal(n, c, w), IsTransform(o, lanes, n, c, w)
  PROVE  /\ \A k \in 0 .. c - 1 : o[k] = RefOffset(k, n, c, w)
         /\ \A i \in 0 .. c - 1, j \in 0 .. n - 1 :
              ColumnBit(i, j, n, c, w, o) <=> RefBit(i, j, n, c, w)
<1>1. n \in Nat \ {0} /\ n < ValRange /\ \A i \in 0 .. c - 1 : w[i] \in 0 .. n
  BY ValRangeAssumption DEF Val, Legal
<1>2. \A k \in 0 .. c - 1 :
        o[k] = IF k = 0 THEN 0 ELSE NextOffset(o[k - 1], w[k - 1], n)
  BY DEF IsTransform
<1>3. \A k \in 0 .. c - 1 : o[k] = RefOffset(k, n, c, w)
  BY <1>1, <1>2, ChainIsPrefixSum
<1> QED BY <1>1, <1>3, EvaluatorIsReference

\* The width leaves room for the successor of every step inside a row.
LEMMA NoWrap ==
  ASSUME NEW n \in Val, NEW t \in Val, t < n
  PROVE  /\ n \in Nat /\ n >= 1 /\ t \in 0 .. n - 1
         /\ n - 1 \in Val /\ (n - 1) % ValRange = n - 1
         /\ t + 1 < n => t + 1 \in Val /\ (t + 1) % ValRange = t + 1
<1>1. /\ n \in Nat /\ n >= 1 /\ t \in 0 .. n - 1
      /\ n - 1 \in Val /\ t + 1 < n => t + 1 \in Val
  BY ValRangeAssumption DEF Val
<1>2. (n - 1) % ValRange = n - 1
  BY <1>1, ValRangeAssumption DEF Val
<1>3. t + 1 < n => (t + 1) % ValRange = t + 1
  BY ValRangeAssumption DEF Val
<1> QED BY <1>1, <1>2, <1>3, ValRangeAssumption DEF Val

-----------------------------------------------------------------------------
(* Loops.                                                                  *)

(* Induction along a rank: a set that holds an element as soon as it holds *)
(* all elements of a smaller rank holds every element.                     *)
LEMMA RankInduction ==
  ASSUME NEW S, NEW rank \in [S -> Nat], NEW P,
         \A x \in S : (\A y \in S : rank[y] < rank[x] => y \in P) => x \in P
  PROVE  \A x \in S : x \in P
<1> DEFINE Bad == {rank[x] : x \in S \ P}
<1> SUFFICES ASSUME Bad # {} PROVE FALSE
  OBVIOUS
<1>1. Bad \subseteq Nat
  OBVIOUS
<1>2. PICK k \in Bad : \A j \in Bad : k <= j
  <2> HIDE DEF Bad
  <2> QED BY <1>1, LeastNatural
<1>3. PICK x \in S \ P : rank[x] = k
  OBVIOUS
<1>4. ASSUME NEW y \in S, rank[y] < rank[x] PROVE y \in P
  BY <1>2, <1>3, <1>4
<1> QED BY <1>3, <1>4

(* f computes, from x, the value of a loop: the value of x if the loop     *)
(* ends there, and otherwise what the step at x makes of the value from    *)
(* the next element.                                                       *)
IsLoop(f, S, V, ends, val, g, next) ==
  /\ f \in [S -> V]
  /\ \A x \in S : f[x] = IF ends[x] THEN val[x] ELSE g[x][f[next[x]]]

(* A loop that goes on at elements of smaller and smaller ranks is         *)
(* computed by a function.                                                 *)
LEMMA LoopExists ==
  ASSUME NEW S, NEW V, NEW ends, NEW val \in [S -> V], NEW g \in [S -> [V -> V]],
         NEW next, NEW rank \in [S -> Nat],
         \A x \in S : ~ends[x] => next[x] \in S /\ rank[next[x]] < rank[x]
  PROVE  \E f : IsLoop(f, S, V, ends, val, g, next)
<1> DEFINE Eq(f, x) == f[x] = IF ends[x] THEN val[x] ELSE g[x][f[next[x]]]
           Below(f, k) == \A x \in S : rank[x] <= k => Eq(f, x)
           Bad == {k \in Nat : ~ \E f \in [S -> V] : Below(f, k)}
<1>1. Bad = {}
  <2> SUFFICES ASSUME Bad # {} PROVE FALSE
    OBVIOUS
  <2>1. PICK k \in Bad : \A j \in Bad : k <= j
    <3>1. Bad \subseteq Nat
      OBVIOUS
    <3> HIDE DEF Bad
    <3> QED BY <3>1, LeastNatural
  <2>2. k # 0
    <3>1. Below(val, 0)
      OBVIOUS
    <3> QED BY <3>1
  <2>3. PICK f \in [S -> V] : Below(f, k - 1)
    <3>1. k - 1 \in Nat /\ ~(k <= k - 1)
      BY <2>2
    <3> QED BY <2>1, <3>1
  <2> DEFINE h == [x \in S |-> IF ends[x] THEN val[x] ELSE g[x][f[next[x]]]]
  <2>4. h \in [S -> V]
    OBVIOUS
  <2>5. ASSUME NEW x \in S, rank[x] <= k PROVE Eq(h, x)
    <3>1. CASE ends[x]
      BY <3>1
    <3>2. CASE ~ends[x]
      <4>1. next[x] \in S /\ rank[next[x]] \in Nat /\ rank[next[x]] <= k - 1
        BY <3>2, <2>5
      <4>2. f[next[x]] = h[next[x]]
        BY <2>3, <4>1
      <4> QED BY <3>2, <4>2
    <3> QED BY <3>1, <3>2
  <2> QED BY <2>4, <2>5
<1>2. \A k \in Nat : \E f \in [S -> V] : Below(f, k)
  BY <1>1
<1> DEFINE G == [k \in Nat |-> CHOOSE f \in [S -> V] : Below(f, k)]
<1>3. ASSUME NEW k \in Nat PROVE G[k] \in [S -> V] /\ Below(G[k], k)
  <2> HIDE DEF Below
  <2> QED BY <1>2
<1> HIDE DEF G
<1>4. ASSUME NEW k \in Nat, NEW j \in Nat, NEW x \in S, rank[x] <= k, rank[x] <= j
      PROVE  G[k][x] = G[j][x]
  <2> DEFINE P == {y \in S : rank[y] <= k /\ rank[y] <= j => G[k][y] = G[j][y]}
  <2>1. ASSUME NEW y \in S, \A z \in S : rank[z] < rank[y] => z \in P
        PROVE  y \in P
    <3> SUFFICES ASSUME rank[y] <= k, rank[y] <= j PROVE G[k][y] = G[j][y]
      OBVIOUS
    <3>1. Eq(G[k], y) /\ Eq(G[j], y)
      BY <1>3
    <3>2. CASE ends[y]
      BY <3>1, <3>2
    <3>3. CASE ~ends[y]
      <4>1. next[y] \in S /\ rank[next[y]] \in Nat /\ rank[next[y]] < rank[y]
        BY <3>3
      <4>2. G[k][next[y]] = G[j][next[y]]
        BY <2>1, <4>1
      <4> QED BY <3>1, <3>3, <4>2
    <3> QED BY <3>2, <3>3
  <2> HIDE DEF P
  <2>2. \A y \in S : y \in P
    BY <2>1, RankInduction
  <2> QED BY <2>2, <1>4 DEF P
<1> DEFINE F == [x \in S |-> G[rank[x]][x]]
<1>5. F \in [S -> V]
  BY <1>3
<1>6. ASSUME NEW x \in S PROVE Eq(F, x)
  <2>1. Eq(G[rank[x]], x)
    BY <1>3
  <2>2. CASE ends[x]
    BY <2>1, <2>2
  <2>3. CASE ~ends[x]
    <3>1. next[x] \in S /\ rank[next[x]] \in Nat /\ rank[next[x]] < rank[x]
      BY <2>3
    <3>2. G[rank[x]][next[x]] = F[next[x]]
      BY <1>4, <3>1
    <3> QED BY <2>1, <2>3, <3>2
  <2> QED BY <2>2, <2>3
<1> QED BY <1>5, <1>6 DEF IsLoop

-----------------------------------------------------------------------------
(* The loop for a mask goes on until the range is covered.                 *)
LEMMA MaskLoop ==
  ASSUME NEW m \in Nat
  PROVE  \A x \in Nat : /\ mask_from(x, m) \in Nat
                        /\ mask_from(x, m) >= x /\ mask_from(x, m) >= m
                        /\ mask_from(x, m) = IF x >= m THEN x
                                             ELSE mask_from(2 * x + 1, m)
<1> DEFINE ends == [x \in Nat |-> x >= m]
           val == [x \in Nat |-> x]
           g == [x \in Nat |-> [v \in Nat |-> v]]
           next == [x \in Nat |-> 2 * x + 1]
           rank == [x \in Nat |-> IF x >= m THEN 0 ELSE m - x]
           IsMask(M) == M = [x \in Nat |-> IF x >= m THEN x ELSE M[2 * x + 1]]
<1>1. rank \in [Nat -> Nat]
  OBVIOUS
<1>2. \E M : IsMask(M)
  <2>1. val \in [Nat -> Nat] /\ g \in [Nat -> [Nat -> Nat]]
    OBVIOUS
  <2>2. ASSUME NEW x \in Nat, ~ends[x]
        PROVE  next[x] \in Nat /\ rank[next[x]] < rank[x]
    <3>1. next[x] = 2 * x + 1 /\ 2 * x + 1 \in Nat
      OBVIOUS
    <3>2. ~(x >= m)
      BY <2>2
    <3>3. rank[2 * x + 1] < rank[x]
      BY <3>1, <3>2
    <3> QED BY <3>1, <3>3
  <2>3. \E f : IsLoop(f, Nat, Nat, ends, val, g, next)
    <3> HIDE DEF ends, val, g, next, rank
    <3> QED BY <1>1, <2>1, <2>2, LoopExists, Zenon
  <2>4. PICK f : IsLoop(f, Nat, Nat, ends, val, g, next)
    BY <2>3
  <2>5. f \in [Nat -> Nat]
        /\ \A x \in Nat : f[x] = IF ends[x] THEN val[x] ELSE g[x][f[next[x]]]
    BY <2>4 DEF IsLoop
  <2>6. ASSUME NEW x \in Nat PROVE f[x] = IF x >= m THEN x ELSE f[2 * x + 1]
    <3>1. 2 * x + 1 \in Nat
      OBVIOUS
    <3>2. g[x][f[2 * x + 1]] = f[2 * x + 1]
      BY <2>5, <3>1
    <3> QED BY <2>5, <3>2
  <2>7. f = [x \in Nat |-> f[x]]
    BY <2>5
  <2> QED BY <2>6, <2>7
<1> DEFINE M == CHOOSE M : IsMask(M)
<1>3. \A x : mask_from(x, m) = M[x]
  BY Zenon DEF mask_from
<1>4. \A x \in Nat : M[x] = IF x >= m THEN x ELSE M[2 * x + 1]
  <2>1. IsMask(M)
    <3> HIDE DEF IsMask
    <3> QED BY <1>2
  <2> HIDE DEF M
  <2> QED BY <2>1
<1> HIDE DEF M
<1> DEFINE P == {x \in Nat : M[x] \in Nat /\ M[x] >= x /\ M[x] >= m}
<1>5. ASSUME NEW x \in Nat, \A y \in Nat : rank[y] < rank[x] => y \in P
      PROVE  x \in P
  <2>1. CASE x >= m
    BY <1>4, <2>1
  <2>2. CASE ~(x >= m)
    <3>1. 2 * x + 1 \in Nat /\ rank[2 * x + 1] < rank[x]
      BY <2>2
    <3>2. 2 * x + 1 \in P
      BY <1>5, <3>1
    <3> QED BY <1>4, <2>2, <3>2
  <2> QED BY <2>1, <2>2
<1>6. \A x \in Nat : x \in P
  <2> HIDE DEF P, rank
  <2> QED BY <1>1, <1>5, RankInduction
<1>7. ASSUME NEW x \in Nat
      PROVE  /\ M[x] \in Nat /\ M[x] >= x /\ M[x] >= m
             /\ M[x] = IF x >= m THEN x ELSE M[2 * x + 1]
  BY <1>4, <1>6
<1> HIDE DEF P
<1> QED BY <1>3, <1>7

(* The mask of a range covers it.                                          *)
LEMMA MaskCovers ==
  ASSUME NEW m \in Nat
  PROVE  mask(m) \in Nat /\ mask(m) >= 1 /\ mask(m) >= m
<1>1. mask_from(1, m) \in Nat /\ mask_from(1, m) >= 1 /\ mask_from(1, m) >= m
  BY MaskLoop
<1> QED BY <1>1 DEF mask

-----------------------------------------------------------------------------
\* The stream of a seed: words of which one is 0 and one is 1.
IsStream(s) == s \in Seq(Nat) /\ {0, 1} \subseteq {s[k] : k \in DOMAIN s}

Positions(s) == 0 .. Len(s) - 1

\* How far ahead of a position in a cycle of l another one is.
Ahead(at, p, l) == IF at <= p THEN p - at ELSE p + l - at

(* A period has words, at every position counted modulo its length, and    *)
(* among them are 0 and 1.                                                 *)
LEMMA StreamHasWords ==
  ASSUME NEW s, IsStream(s)
  PROVE  /\ Len(s) \in Nat \ {0} /\ 0 \in Positions(s)
         /\ \A i \in Nat : i % Len(s) \in Positions(s) /\ Word(s, i) \in Nat
         /\ \A w \in {0, 1} : \E p \in Positions(s) : s[p + 1] = w
<1>1. s \in Seq(Nat) /\ DOMAIN s = 1 .. Len(s) /\ Len(s) \in Nat
  BY DEF IsStream
<1>2. \A w \in {0, 1} : \E k \in 1 .. Len(s) : s[k] = w
  BY <1>1 DEF IsStream
<1>3. Len(s) # 0
  BY <1>1, <1>2
<1>4. \A w \in {0, 1} : \E p \in Positions(s) : s[p + 1] = w
  <2> SUFFICES ASSUME NEW w \in {0, 1} PROVE \E p \in Positions(s) : s[p + 1] = w
    OBVIOUS
  <2>1. PICK k \in 1 .. Len(s) : s[k] = w
    BY <1>2
  <2>2. k - 1 \in Positions(s) /\ (k - 1) + 1 = k
    BY <1>1 DEF Positions
  <2> QED BY <2>1, <2>2
<1>5. ASSUME NEW i \in Nat
      PROVE  i % Len(s) \in Positions(s) /\ Word(s, i) \in Nat
  <2>1. i % Len(s) \in 0 .. Len(s) - 1
    <3>1. \A n \in Nat \ {0} : i % n \in 0 .. n - 1
      BY DivMod
    <3> QED BY <1>1, <1>3, <3>1
  <2>2. (i % Len(s)) + 1 \in 1 .. Len(s)
    BY <1>1, <2>1
  <2> QED BY <1>1, <2>1, <2>2 DEF Positions, Word
<1> QED BY <1>1, <1>3, <1>4, <1>5 DEF Positions

(* Every position of the period is reached by going on from any other, and *)
(* each word on the way comes nearer.                                      *)
LEMMA AheadIsReached ==
  ASSUME NEW l \in Nat \ {0}, NEW at \in 0 .. l - 1, NEW p \in 0 .. l - 1
  PROVE  /\ Ahead(at, p, l) \in 0 .. l - 1
         /\ (at + Ahead(at, p, l)) % l = p
         /\ \A k \in 0 .. l - 1 : k < Ahead(at, p, l) =>
              Ahead((at + k + 1) % l, p, l) < Ahead(at, p, l)
<1>1. Ahead(at, p, l) \in 0 .. l - 1
  BY DEF Ahead
<1>2. (at + Ahead(at, p, l)) % l = p
  <2>1. CASE at <= p
    <3>1. at + Ahead(at, p, l) = l * 0 + p
      BY <2>1 DEF Ahead
    <3> QED BY <3>1, <1>1, ModUnique
  <2>2. CASE ~(at <= p)
    <3>1. at + Ahead(at, p, l) = l * 1 + p /\ at + Ahead(at, p, l) \in Int
      BY <2>2 DEF Ahead
    <3>2. \A a \in Int : a = l * 1 + p => a % l = p
      BY ModUnique
    <3> QED BY <3>1, <3>2
  <2> QED BY <2>1, <2>2
<1>3. ASSUME NEW k \in 0 .. l - 1, k < Ahead(at, p, l)
      PROVE  Ahead((at + k + 1) % l, p, l) < Ahead(at, p, l)
  <2>1. CASE at + k + 1 < l
    <3>1. at + k + 1 = l * 0 + (at + k + 1) /\ at + k + 1 \in 0 .. l - 1
      BY <2>1
    <3>2. (at + k + 1) % l = at + k + 1
      BY <3>1, ModUnique
    <3> QED BY <3>2, <2>1, <1>3 DEF Ahead
  <2>2. CASE ~(at + k + 1 < l)
    <3>1. at + k + 1 = l * 1 + (at + k + 1 - l) /\ at + k + 1 - l \in 0 .. l - 1
      BY <2>2
    <3>2. (at + k + 1) % l = at + k + 1 - l
      BY <3>1, ModUnique
    <3> QED BY <3>2, <2>2, <1>3 DEF Ahead
  <2> QED BY <2>1, <2>2
<1> QED BY <1>1, <1>2, <1>3

(* 0 passes the mask of any range, 1 that of any range that holds it.      *)
LEMMA MaskedWord ==
  ASSUME NEW m \in Nat
  PROVE  /\ \A w \in Nat : masked(w, m) \in Nat
         /\ masked(0, m) = 0 /\ masked(1, m) = 1
<1>1. mask(m) + 1 \in Nat \ {0} /\ mask(m) + 1 > 1
  BY MaskCovers
<1> DEFINE n == mask(m) + 1
<1> HIDE DEF n
<1>2. n \in Nat \ {0} /\ n > 1 /\ \A w : masked(w, m) = w % n
  BY <1>1 DEF n, masked
<1>3. 0 % n = 0 /\ 1 % n = 1
  BY <1>2
<1>4. \A w \in Nat : w % n \in Nat
  BY <1>2
<1> QED BY <1>2, <1>3, <1>4

(* Section 4.3: the rejection loop ends within a period, at the first word *)
(* that is in the range.                                                   *)
LEMMA RejectionsEnd ==
  ASSUME NEW s, IsStream(s), NEW at \in Positions(s), NEW m \in Nat
  PROVE  /\ rejections(s, at, m) \in Positions(s)
         /\ masked(Word(s, at + rejections(s, at, m)), m) \in 0 .. m
         /\ \A x \in 0 .. rejections(s, at, m) - 1 : masked(Word(s, at + x), m) > m
<1> DEFINE l == Len(s)
           Fits(k) == masked(Word(s, at + k), m) <= m
           Good == {k \in Positions(s) : Fits(k)}
<1>1. l \in Nat \ {0} /\ Positions(s) = 0 .. l - 1
  BY StreamHasWords DEF Positions
<1>2. \A k \in Nat : masked(Word(s, at + k), m) \in Nat
  <2>1. \A k \in Nat : at + k \in Nat
    BY <1>1
  <2> QED BY <2>1, StreamHasWords, MaskedWord
<1>3. Good # {}
  <2>1. PICK p \in Positions(s) : s[p + 1] = 0
    BY StreamHasWords
  <2>2. Ahead(at, p, l) \in Positions(s) /\ (at + Ahead(at, p, l)) % l = p
    BY <1>1, AheadIsReached
  <2>3. Word(s, at + Ahead(at, p, l)) = 0
    BY <2>1, <2>2 DEF Word
  <2>4. Fits(Ahead(at, p, l))
    BY <2>3, MaskedWord
  <2> QED BY <2>2, <2>4
<1>4. PICK k \in Good : \A j \in Good : k <= j
  <2>1. Good \subseteq Nat
    BY <1>1
  <2> HIDE DEF Good
  <2> QED BY <1>3, <2>1, LeastNatural
<1> DEFINE Is(j) == Fits(j) /\ \A x \in 0 .. j - 1 : masked(Word(s, at + x), m) > m
<1>5. k \in 0 .. l - 1 /\ Is(k)
  <2>1. ASSUME NEW x \in 0 .. k - 1 PROVE masked(Word(s, at + x), m) > m
    <3>1. x \in Positions(s) /\ ~(k <= x) /\ x \in Nat
      BY <1>1, <1>4
    <3>2. x \notin Good
      BY <1>4, <3>1
    <3>3. ~Fits(x)
      BY <3>1, <3>2
    <3> QED BY <1>2, <3>1, <3>3
  <2> QED BY <1>1, <1>4, <2>1
<1>6. rejections(s, at, m) = CHOOSE j \in 0 .. l - 1 : Is(j)
  BY Zenon DEF rejections
<1> HIDE DEF Is
<1>7. rejections(s, at, m) \in 0 .. l - 1 /\ Is(rejections(s, at, m))
  BY <1>5, <1>6
<1> QED BY <1>1, <1>2, <1>7 DEF Is

(* The number of rejections is the one with which a word fits and none fits *)
(* before it.                                                              *)
LEMMA RejectionsAre ==
  ASSUME NEW s, IsStream(s), NEW at \in Positions(s), NEW m \in Nat,
         NEW k \in Positions(s), masked(Word(s, at + k), m) <= m,
         \A x \in 0 .. k - 1 : masked(Word(s, at + x), m) > m
  PROVE  rejections(s, at, m) = k
<1> DEFINE j == rejections(s, at, m)
<1>1. Positions(s) \subseteq Nat
  BY DEF Positions
<1>2. /\ j \in Positions(s) /\ masked(Word(s, at + j), m) \in 0 .. m
      /\ \A x \in 0 .. j - 1 : masked(Word(s, at + x), m) > m
  BY RejectionsEnd
<1> HIDE DEF j
<1>3. ~(j < k)
  <2>1. j < k => j \in 0 .. k - 1
    BY <1>1, <1>2
  <2>2. ~(masked(Word(s, at + j), m) > m)
    BY <1>2
  <2> QED BY <2>1, <2>2
<1>4. ~(k < j)
  <2>1. k < j => k \in 0 .. j - 1
    BY <1>1, <1>2
  <2>2. ~(masked(Word(s, at + k), m) > m)
    <3>1. at + k \in Nat
      BY <1>1
    <3>2. masked(Word(s, at + k), m) \in Nat
      BY <3>1, StreamHasWords, MaskedWord
    <3> QED BY <3>2
  <2> QED BY <1>2, <2>1, <2>2
<1> QED BY <1>1, <1>2, <1>3, <1>4 DEF j

(* Taking a word and then x more is taking x + 1.                          *)
LEMMA NextPosition ==
  ASSUME NEW l \in Nat \ {0}, NEW at \in 0 .. l - 1, NEW x \in Nat
  PROVE  (((at + 1) % l) + x) % l = (at + 1 + x) % l
<1>1. CASE at + 1 < l
  <2>1. at + 1 = l * 0 + (at + 1) /\ at + 1 \in 0 .. l - 1
    BY <1>1
  <2>2. (at + 1) % l = at + 1
    BY <2>1, ModUnique
  <2> QED BY <2>2
<1>2. CASE ~(at + 1 < l)
  <2>1. at + 1 = l * 1 + 0 /\ at + 1 \in Int /\ 0 \in 0 .. l - 1
    BY <1>2
  <2>2. \A a \in Int : a = l * 1 + 0 => a % l = 0
    BY <2>1, ModUnique
  <2>3. (at + 1) % l = 0
    BY <2>1, <2>2
  <2>4. PICK q \in Int : x = l * q + (x % l) /\ x % l \in 0 .. l - 1
    <3>1. x = l * (x \div l) + (x % l) /\ x % l \in 0 .. l - 1 /\ x \div l \in Int
      BY DivMod
    <3> QED BY <3>1
  <2>5. at + 1 + x = l * (q + 1) + (x % l)
    <3>1. at + 1 = l
      BY <1>2
    <3>2. l * (q + 1) = l * q + l
      BY <2>4
    <3> QED BY <2>4, <3>1, <3>2
  <2>6. (at + 1 + x) % l = x % l
    <3>1. q + 1 \in Int /\ at + 1 + x \in Int
      BY <2>4
    <3> QED BY <2>4, <2>5, <3>1, ModUnique
  <2> QED BY <2>3, <2>6
<1> QED BY <1>1, <1>2

(* A word that fits is the draw, and one that does not leaves the draw to  *)
(* the words after it.                                                     *)
LEMMA WordIsTaken ==
  ASSUME NEW s, IsStream(s), NEW at \in Positions(s), NEW m \in Nat \ {0},
         masked(Word(s, at), m) <= m
  PROVE  /\ uniform_with_stream(s, at, m).value = masked(Word(s, at), m)
         /\ uniform_with_stream(s, at, m).at = (at + 1) % Len(s)
<1>1. 0 \in Positions(s) /\ at \in Nat /\ at + 0 = at
  BY StreamHasWords DEF Positions
<1>2. rejections(s, at, m) = 0
  BY <1>1, RejectionsAre
<1> QED BY <1>1, <1>2 DEF uniform_with_stream

(* A word out of the range is skipped: the draw is the draw from the next  *)
(* position.                                                               *)
LEMMA WordIsRejected ==
  ASSUME NEW s, IsStream(s), NEW at \in Positions(s), NEW m \in Nat \ {0},
         ~(masked(Word(s, at), m) <= m)
  PROVE  LET next == uniform_with_stream(s, (at + 1) % Len(s), m)
         IN  /\ (at + 1) % Len(s) \in Positions(s)
             /\ uniform_with_stream(s, at, m).value = next.value
             /\ uniform_with_stream(s, at, m).at = next.at
<1> DEFINE l == Len(s)
           k == rejections(s, at, m)
           up == (at + 1) % l
<1>1. l \in Nat \ {0} /\ Positions(s) = 0 .. l - 1 /\ at \in 0 .. l - 1
  BY StreamHasWords DEF Positions
<1>2. up \in Positions(s)
  <2>1. at + 1 \in Nat
    BY <1>1
  <2> QED BY <2>1, StreamHasWords
<1>3. /\ k \in Positions(s) /\ masked(Word(s, at + k), m) \in 0 .. m
      /\ \A x \in 0 .. k - 1 : masked(Word(s, at + x), m) > m
  BY RejectionsEnd
<1>4. k # 0
  <2>1. k = 0 => at + k = at
    BY <1>1
  <2> QED BY <2>1, <1>3
<1> HIDE DEF k, l, up
<1>5. \A x \in Nat : (up + x) % l = (at + 1 + x) % l
  BY <1>1, NextPosition DEF up
<1>6. \A x \in Nat : Word(s, up + x) = Word(s, at + (x + 1))
  <2>1. \A x \in Nat : at + (x + 1) = at + 1 + x
    BY <1>1
  <2> QED BY <2>1, <1>5 DEF Word, l
<1>7. rejections(s, up, m) = k - 1
  <2>1. k - 1 \in Positions(s) /\ k - 1 \in Nat /\ (k - 1) + 1 = k
    BY <1>1, <1>3, <1>4
  <2>2. masked(Word(s, up + (k - 1)), m) <= m
    BY <1>3, <1>6, <2>1
  <2>3. ASSUME NEW x \in 0 .. (k - 1) - 1 PROVE masked(Word(s, up + x), m) > m
    <3>1. x \in Nat /\ x + 1 \in 0 .. k - 1
      BY <2>1
    <3> QED BY <1>3, <1>6, <3>1
  <2> QED BY <1>2, <2>1, <2>2, <2>3, RejectionsAre
<1>8. /\ Word(s, up + (k - 1)) = Word(s, at + k)
      /\ (up + (k - 1) + 1) % l = (at + k + 1) % l
  <2>1. k - 1 \in Nat /\ (k - 1) + 1 = k /\ k \in Nat /\ up \in Nat
    BY <1>1, <1>2, <1>3, <1>4
  <2>2. up + (k - 1) + 1 = up + k /\ at + 1 + k = at + k + 1
    BY <1>1, <2>1
  <2>3. (up + k) % l = (at + 1 + k) % l
    BY <1>5, <2>1
  <2>4. Word(s, up + (k - 1)) = Word(s, at + k)
    BY <1>6, <2>1
  <2> QED BY <2>2, <2>3, <2>4
<1>9. uniform_with_stream(s, at, m) =
        [value |-> masked(Word(s, at + k), m), at |-> (at + k + 1) % l, taken |-> k + 1]
  BY DEF uniform_with_stream, k, l
<1>10. uniform_with_stream(s, up, m) =
        [value |-> masked(Word(s, up + (k - 1)), m), at |-> (up + (k - 1) + 1) % l,
         taken |-> (k - 1) + 1]
  BY <1>7 DEF uniform_with_stream, l
<1> QED BY <1>2, <1>8, <1>9, <1>10 DEF up, l

\* What a draw from 0 .. m is: a value of the range, and where it leaves the
\* stream.
DrawnFrom(s, m) == [value : 0 .. m, at : Positions(s), taken : Nat]

(* A draw gives a value of its range and a position of the period.         *)
LEMMA DrawIsOfItsRange ==
  ASSUME NEW s, IsStream(s), NEW at \in Positions(s), NEW m \in Nat
  PROVE  uniform_with_stream(s, at, m) \in DrawnFrom(s, m)
<1> DEFINE k == rejections(s, at, m)
<1>1. /\ k \in Positions(s) /\ masked(Word(s, at + k), m) \in 0 .. m
      /\ Len(s) \in Nat \ {0}
  BY RejectionsEnd, StreamHasWords
<1>2. CASE m = 0
  BY <1>1, <1>2 DEF uniform_with_stream, DrawnFrom
<1>3. CASE m # 0
  <2>1. uniform_with_stream(s, at, m) =
          [value |-> masked(Word(s, at + k), m), at |-> (at + k + 1) % Len(s),
           taken |-> k + 1]
    BY <1>3 DEF uniform_with_stream
  <2>2. at + k + 1 \in Nat /\ k + 1 \in Nat
    BY <1>1 DEF Positions
  <2>3. (at + k + 1) % Len(s) \in Positions(s)
    BY <2>2, StreamHasWords
  <2> HIDE DEF k
  <2> QED BY <1>1, <2>1, <2>2, <2>3 DEF DrawnFrom
<1> QED BY <1>2, <1>3

(* 1 is coprime to every row, and the row of one column accepts 0.         *)
LEMMA OneIsCoprime ==
  ASSUME NEW n \in Nat \ {0}
  PROVE  gcd(1, n) = 1 /\ gcd(0, 1) = 1
<1> DEFINE Is(a, b, d) == /\ a % d = 0 /\ b % d = 0
                          /\ \A e \in 1 .. a + b : a % e = 0 /\ b % e = 0 => e <= d
<1>1. \A d \in 1 .. 1 + n : Is(1, n, d) <=> d = 1
  <2>1. \A d \in 1 .. 1 + n : d # 1 => 1 % d = 1
    OBVIOUS
  <2>2. 1 % 1 = 0 /\ n % 1 = 0
    OBVIOUS
  <2> QED BY <2>1, <2>2
<1>2. Is(0, 1, 1)
  <2>1. 0 % 1 = 0 /\ 1 % 1 = 0
    OBVIOUS
  <2> QED BY <2>1
<1>3. gcd(1, n) = CHOOSE d \in 1 .. 1 + n : Is(1, n, d)
  <2>1. ~(1 = 0 /\ n = 0)
    OBVIOUS
  <2> QED BY <2>1, Zenon DEF gcd
<1>4. gcd(0, 1) = CHOOSE d \in 1 .. 0 + 1 : Is(0, 1, d)
  <2>1. ~(0 = 0 /\ 1 = 0)
    OBVIOUS
  <2> QED BY <2>1, Zenon DEF gcd
<1> HIDE DEF Is
<1>5. 1 \in 1 .. 1 + n /\ 1 .. 0 + 1 = {1}
  OBVIOUS
<1> QED BY <1>1, <1>2, <1>3, <1>4, <1>5

(* A draw that is not coprime to n has passed no word 1.                   *)
LEMMA DrawComesNearer ==
  ASSUME NEW s, IsStream(s), NEW at \in Positions(s), NEW n \in Nat \ {0},
         NEW p \in Positions(s), s[p + 1] = 1,
         gcd(uniform_with_stream(s, at, n - 1).value, n) # 1
  PROVE  Ahead(uniform_with_stream(s, at, n - 1).at, p, Len(s))
           < Ahead(at, p, Len(s))
<1> DEFINE l == Len(s)
           k == rejections(s, at, n - 1)
           u == uniform_with_stream(s, at, n - 1)
           a == Ahead(at, p, l)
<1>1. /\ l \in Nat \ {0} /\ at \in 0 .. l - 1 /\ p \in 0 .. l - 1
      /\ Positions(s) = 0 .. l - 1
  BY StreamHasWords DEF Positions
<1>2. n - 1 \in Nat /\ n # 1
  <2>1. n = 1 => u.value = 0
    BY DEF uniform_with_stream
  <2> QED BY <2>1, OneIsCoprime
<1>3. u = [value |-> masked(Word(s, at + k), n - 1), at |-> (at + k + 1) % l,
           taken |-> k + 1]
  BY <1>2 DEF uniform_with_stream
<1>4. k \in 0 .. l - 1 /\ \A x \in 0 .. k - 1 : masked(Word(s, at + x), n - 1) > n - 1
  BY <1>1, <1>2, RejectionsEnd
<1>5. a \in 0 .. l - 1 /\ Word(s, at + a) = 1
  <2>1. a \in 0 .. l - 1 /\ (at + a) % l = p
    BY <1>1, AheadIsReached
  <2> QED BY <2>1 DEF Word
<1>6. masked(1, n - 1) = 1
  BY <1>2, MaskedWord
<1>7. k < a
  <2>1. a # k
    <3>1. masked(Word(s, at + k), n - 1) # 1
      BY <1>3, OneIsCoprime
    <3> QED BY <3>1, <1>5, <1>6
  <2>2. ~(a \in 0 .. k - 1)
    <3>1. ~(1 > n - 1)
      BY <1>2
    <3> QED BY <3>1, <1>4, <1>5, <1>6
  <2> QED BY <2>1, <2>2, <1>4, <1>5
<1> HIDE DEF l, k, a
<1>8. Ahead((at + k + 1) % l, p, l) < Ahead(at, p, l)
  BY <1>1, <1>4, <1>7, AheadIsReached DEF a
<1> QED BY <1>3, <1>8 DEF l

(* The draw of a coprime value ends, and is the draw from where a rejected  *)
(* value leaves the stream.                                                *)
LEMMA CoprimeDrawLoop ==
  ASSUME NEW s, IsStream(s), NEW n \in Nat \ {0}
  PROVE  \A from \in Positions(s) :
           /\ coprime_draw(s, from, n) \in DrawnFrom(s, n - 1)
           /\ LET u == uniform_with_stream(s, from, n - 1)
              IN  /\ u.at \in Positions(s)
                  /\ coprime_draw(s, from, n) =
                       IF gcd(u.value, n) = 1 THEN u
                       ELSE [coprime_draw(s, u.at, n) EXCEPT !.taken = @ + u.taken]
<1> DEFINE S == Positions(s)
           V == DrawnFrom(s, n - 1)
           U(at) == uniform_with_stream(s, at, n - 1)
           ends == [at \in S |-> gcd(U(at).value, n) = 1]
           val == [at \in S |-> U(at)]
           g == [at \in S |-> [v \in V |-> [v EXCEPT !.taken = @ + U(at).taken]]]
           next == [at \in S |-> U(at).at]
           IsDraw(f) == f = [at \in 0 .. Len(s) - 1 |->
                               LET u == uniform_with_stream(s, at, n - 1)
                               IN  IF gcd(u.value, n) = 1 THEN u
                                   ELSE [f[u.at] EXCEPT !.taken = @ + u.taken]]
           D == CHOOSE f : IsDraw(f)
<1>1. \A from : coprime_draw(s, from, n) = D[from]
  BY Zenon DEF coprime_draw
<1>2. \A at \in S : U(at) \in V
  <2>1. n - 1 \in Nat
    OBVIOUS
  <2> QED BY <2>1, DrawIsOfItsRange
<1>3. \A v, u \in V : [v EXCEPT !.taken = @ + u.taken] \in V
  BY DEF DrawnFrom
<1>4. PICK p \in S : s[p + 1] = 1
  BY StreamHasWords
<1> DEFINE rank == [at \in S |-> Ahead(at, p, Len(s))]
<1>5. rank \in [S -> Nat]
  <2>1. Len(s) \in Nat \ {0}
    BY StreamHasWords
  <2>2. \A at \in S : Ahead(at, p, Len(s)) \in Nat
    BY <2>1 DEF Positions, Ahead
  <2> QED BY <2>2
<1>6. ASSUME NEW at \in S, gcd(U(at).value, n) # 1
      PROVE  U(at).at \in S /\ rank[U(at).at] < rank[at]
  <2>1. U(at).at \in S
    BY <1>2 DEF DrawnFrom
  <2>2. Ahead(U(at).at, p, Len(s)) < Ahead(at, p, Len(s))
    BY <1>4, <1>6, DrawComesNearer
  <2> QED BY <2>1, <2>2
<1>7. \E f : IsDraw(f)
  <2>1. val \in [S -> V] /\ g \in [S -> [V -> V]]
    <3>1. val \in [S -> V]
      BY <1>2
    <3>2. ASSUME NEW at \in S PROVE g[at] \in [V -> V]
      <4> HIDE DEF U, V, S
      <4> QED BY <1>2, <1>3
    <3>3. g \in [S -> [V -> V]]
      <4>1. g = [at \in S |-> g[at]]
        OBVIOUS
      <4> HIDE DEF g
      <4> QED BY <3>2, <4>1
    <3> QED BY <3>1, <3>3
  <2>2. ASSUME NEW x \in S, ~ends[x] PROVE next[x] \in S /\ rank[next[x]] < rank[x]
    <3> HIDE DEF U, S, rank
    <3> QED BY <2>2, <1>6
  <2>3. PICK f : IsLoop(f, S, V, ends, val, g, next)
    <3> HIDE DEF S, V, ends, val, g, next, rank
    <3> QED BY <1>5, <2>1, <2>2, LoopExists, Zenon
  <2>4. f \in [S -> V]
        /\ \A x \in S : f[x] = IF ends[x] THEN val[x] ELSE g[x][f[next[x]]]
    BY <2>3 DEF IsLoop
  <2>5. ASSUME NEW at \in S
        PROVE  f[at] = IF gcd(U(at).value, n) = 1 THEN U(at)
                       ELSE [f[U(at).at] EXCEPT !.taken = @ + U(at).taken]
    <3> HIDE DEF U, V, S
    <3>1. CASE gcd(U(at).value, n) = 1
      BY <2>4, <3>1
    <3>2. CASE gcd(U(at).value, n) # 1
      <4>1. f[U(at).at] \in V
        BY <1>6, <2>4, <3>2
      <4>2. f[at] = g[at][f[U(at).at]]
        BY <2>4, <3>2
      <4> QED BY <3>2, <4>1, <4>2
    <3> QED BY <3>1, <3>2
  <2>6. f = [at \in S |-> f[at]]
    BY <2>4
  <2>7. f = [at \in S |-> IF gcd(U(at).value, n) = 1 THEN U(at)
                          ELSE [f[U(at).at] EXCEPT !.taken = @ + U(at).taken]]
    <3> HIDE DEF U, S
    <3> QED BY <2>5, <2>6
  <2> QED BY <2>7, Zenon DEF Positions
<1>8. IsDraw(D)
  <2> HIDE DEF IsDraw
  <2> QED BY <1>7
<1>9. \A at \in S : D[at] = IF gcd(U(at).value, n) = 1 THEN U(at)
                            ELSE [D[U(at).at] EXCEPT !.taken = @ + U(at).taken]
  <2> HIDE DEF D
  <2> QED BY <1>8 DEF Positions
<1> DEFINE P == {at \in S : D[at] \in V}
<1> HIDE DEF D, U, V, S
<1>10. ASSUME NEW at \in S, \A y \in S : rank[y] < rank[at] => y \in P
       PROVE  at \in P
  <2>1. CASE gcd(U(at).value, n) = 1
    BY <1>2, <1>9, <2>1
  <2>2. CASE gcd(U(at).value, n) # 1
    <3>1. D[U(at).at] \in V
      BY <1>6, <1>10, <2>2
    <3>2. \A v \in V : v = D[U(at).at] => [v EXCEPT !.taken = @ + U(at).taken] \in V
      BY <1>2, <1>3
    <3>3. [D[U(at).at] EXCEPT !.taken = @ + U(at).taken] \in V
      BY <3>1, <3>2
    <3> QED BY <1>9, <2>2, <3>3
  <2> QED BY <2>1, <2>2
<1>11. \A at \in S : at \in P
  <2> HIDE DEF P, rank
  <2> QED BY <1>5, <1>10, RankInduction
<1>12. ASSUME NEW from \in S
       PROVE  /\ D[from] \in V /\ U(from).at \in S
              /\ D[from] = IF gcd(U(from).value, n) = 1 THEN U(from)
                           ELSE [D[U(from).at] EXCEPT !.taken = @ + U(from).taken]
  <2>1. U(from).at \in S
    BY <1>2 DEF V, S, DrawnFrom
  <2> QED BY <1>9, <1>11, <2>1
<1>13. ASSUME NEW from \in S
       PROVE  /\ coprime_draw(s, from, n) \in V /\ U(from).at \in S
              /\ coprime_draw(s, from, n) =
                   IF gcd(U(from).value, n) = 1 THEN U(from)
                   ELSE [coprime_draw(s, U(from).at, n) EXCEPT !.taken = @ + U(from).taken]
  BY <1>1, <1>12
<1> QED BY <1>13, Zenon DEF S, V, U

(* Section 4.1: the search for a coprime multiplier ends, with a value     *)
(* inside the row.                                                         *)
LEMMA CoprimeDrawEnds ==
  ASSUME NEW s, IsStream(s), NEW from \in Positions(s), NEW n \in Nat \ {0}
  PROVE  coprime_draw(s, from, n) \in DrawnFrom(s, n - 1)
  BY CoprimeDrawLoop


(* One word at a time: a word that is in range and coprime is the draw, and *)
(* any other leaves the draw to the words after it.                        *)
LEMMA CoprimeDrawByWords ==
  ASSUME NEW s, IsStream(s), NEW at \in Positions(s), NEW n \in Nat \ {0, 1}
  PROVE  LET w == masked(Word(s, at), n - 1)
             next == (at + 1) % Len(s)
             now == coprime_draw(s, at, n)
         IN  /\ next \in Positions(s)
             /\ w <= n - 1 /\ gcd(w, n) = 1 => now.value = w /\ now.at = next
             /\ ~(w <= n - 1 /\ gcd(w, n) = 1) =>
                  /\ now.value = coprime_draw(s, next, n).value
                  /\ now.at = coprime_draw(s, next, n).at
<1> DEFINE w == masked(Word(s, at), n - 1)
           next == (at + 1) % Len(s)
           u(x) == uniform_with_stream(s, x, n - 1)
           c(x) == coprime_draw(s, x, n)
<1>1. next \in Positions(s)
  <2>1. at + 1 \in Nat
    BY DEF Positions
  <2> QED BY <2>1, StreamHasWords
<1>2. n - 1 \in Nat \ {0} /\ n \in Nat \ {0}
  OBVIOUS
<1>3. w <= n - 1 => u(at).value = w /\ u(at).at = next
  BY <1>2, WordIsTaken
<1>4. ~(w <= n - 1) => u(at).value = u(next).value /\ u(at).at = u(next).at
  BY <1>2, WordIsRejected
<1>5. ASSUME NEW x \in Positions(s)
      PROVE  /\ gcd(u(x).value, n) = 1 => c(x).value = u(x).value /\ c(x).at = u(x).at
             /\ gcd(u(x).value, n) # 1 =>
                  c(x).value = c(u(x).at).value /\ c(x).at = c(u(x).at).at
  <2>1. /\ u(x).at \in Positions(s)
        /\ c(x) = IF gcd(u(x).value, n) = 1 THEN u(x)
                  ELSE [c(u(x).at) EXCEPT !.taken = @ + u(x).taken]
    <3> HIDE DEF u, c
    <3>1. \A y \in Positions(s) :
            /\ u(y).at \in Positions(s)
            /\ c(y) = IF gcd(u(y).value, n) = 1 THEN u(y)
                      ELSE [c(u(y).at) EXCEPT !.taken = @ + u(y).taken]
      BY <1>2, CoprimeDrawLoop, Zenon DEF u, c
    <3> QED BY <3>1
  <2>2. c(u(x).at) \in DrawnFrom(s, n - 1)
    BY <1>2, <2>1, CoprimeDrawEnds
  <2> HIDE DEF u, c
  <2>3. \A v, k : v \in DrawnFrom(s, n - 1) =>
          /\ [v EXCEPT !.taken = @ + k].value = v.value
          /\ [v EXCEPT !.taken = @ + k].at = v.at
    BY DEF DrawnFrom
  <2> QED BY <2>1, <2>2, <2>3
<1> HIDE DEF w, next, u, c
<1>6. w <= n - 1 /\ gcd(w, n) = 1 => c(at).value = w /\ c(at).at = next
  BY <1>3, <1>5
<1>7. ~(w <= n - 1 /\ gcd(w, n) = 1) => c(at).value = c(next).value /\ c(at).at = c(next).at
  <2>1. CASE w <= n - 1
    BY <1>3, <1>5, <2>1
  <2>2. CASE ~(w <= n - 1)
    BY <1>1, <1>4, <1>5, <2>2
  <2> QED BY <2>1, <2>2
<1> QED BY <1>1, <1>6, <1>7 DEF w, next, c

(* In a row of one column nothing is drawn.                                *)
LEMMA CoprimeDrawOfOne ==
  ASSUME NEW s, IsStream(s), NEW at \in Positions(s)
  PROVE  coprime_draw(s, at, 1).value = 0 /\ coprime_draw(s, at, 1).at = at
<1> DEFINE u == uniform_with_stream(s, at, 1 - 1)
<1>1. u = [value |-> 0, at |-> at, taken |-> 0]
  BY DEF uniform_with_stream
<1>2. gcd(u.value, 1) = 1
  BY <1>1, OneIsCoprime
<1>3. coprime_draw(s, at, 1) =
        IF gcd(u.value, 1) = 1 THEN u
        ELSE [coprime_draw(s, u.at, 1) EXCEPT !.taken = @ + u.taken]
  BY CoprimeDrawLoop
<1> QED BY <1>1, <1>2, <1>3

(* The pair of a seed is of the row, whatever the words are, and takes a    *)
(* number of words that has an end.                                        *)
THEOREM PairIsOfTheRow ==
  ASSUME NEW s, IsStream(s), NEW n \in Nat \ {0}
  PROVE  /\ derive_ab(s, n).a \in 0 .. n - 1 /\ derive_ab(s, n).b \in 0 .. n - 1
         /\ derive_ab(s, n).draws \in Nat
<1> DEFINE a == coprime_draw(s, 0, n)
           b == uniform_with_stream(s, a.at, n - 1)
<1>1. 0 \in Positions(s) /\ n - 1 \in Nat
  BY StreamHasWords
<1>2. a \in DrawnFrom(s, n - 1)
  BY <1>1, CoprimeDrawEnds
<1>3. a.at \in Positions(s)
  BY <1>2 DEF DrawnFrom
<1>4. b \in DrawnFrom(s, n - 1)
  BY <1>1, <1>3, DrawIsOfItsRange
<1>5. derive_ab(s, n) = [a |-> a.value, b |-> b.value, draws |-> a.taken + b.taken]
  BY DEF derive_ab
<1> HIDE DEF a, b
<1> QED BY <1>2, <1>4, <1>5 DEF DrawnFrom

-----------------------------------------------------------------------------
\* The divisors that two numbers have in common.
Common(a, b) == {d \in Nat \ {0} : a % d = 0 /\ b % d = 0}

(* Of two numbers, not both 0, the gcd is the greatest common divisor.     *)
LEMMA GcdIsGreatest ==
  ASSUME NEW a \in Nat, NEW b \in Nat, a # 0 \/ b # 0
  PROVE  gcd(a, b) \in Common(a, b) /\ \A e \in Common(a, b) : e <= gcd(a, b)
<1> DEFINE Is(d) == /\ a % d = 0 /\ b % d = 0
                    /\ \A e \in 1 .. a + b : a % e = 0 /\ b % e = 0 => e <= d
           Free == {a + b - d : d \in Common(a, b)}
<1>1. Common(a, b) \subseteq 1 .. a + b
  <2> SUFFICES ASSUME NEW d \in Common(a, b) PROVE d <= a + b
    BY DEF Common
  <2>1. ASSUME NEW x \in Nat \ {0}, x % d = 0 PROVE d <= x
    <3>1. d \in Nat \ {0}
      BY DEF Common
    <3>2. x < d => x % d = x
      <4>1. x < d => x = d * 0 + x /\ x \in 0 .. d - 1
        BY <3>1
      <4> QED BY <3>1, <4>1, ModUnique
    <3> QED BY <2>1, <3>1, <3>2
  <2>2. d \in Nat /\ a % d = 0 /\ b % d = 0
    BY DEF Common
  <2> QED BY <2>1, <2>2
<1>2. 1 \in Common(a, b)
  <2>1. a % 1 = 0 /\ b % 1 = 0
    OBVIOUS
  <2> QED BY <2>1 DEF Common
<1>3. PICK g \in Common(a, b) : \A e \in Common(a, b) : e <= g
  <2>1. Free \subseteq Nat /\ Free # {}
    BY <1>1, <1>2
  <2>2. PICK f \in Free : \A y \in Free : f <= y
    <3> HIDE DEF Free
    <3> QED BY <2>1, LeastNatural
  <2>3. PICK d \in Common(a, b) : f = a + b - d
    BY <2>2
  <2>4. ASSUME NEW e \in Common(a, b) PROVE e <= d
    <3>1. f <= a + b - e
      BY <2>2
    <3> QED BY <1>1, <2>3, <3>1
  <2> QED BY <2>4
<1>4. g \in 1 .. a + b /\ Is(g)
  <2>1. \A e \in 1 .. a + b : a % e = 0 /\ b % e = 0 => e \in Common(a, b)
    BY DEF Common
  <2> QED BY <1>1, <1>3, <2>1 DEF Common
<1>5. gcd(a, b) = CHOOSE d \in 1 .. a + b : Is(d)
  BY Zenon DEF gcd
<1> HIDE DEF Is
<1>6. gcd(a, b) \in 1 .. a + b /\ Is(gcd(a, b))
  BY <1>4, <1>5
<1> DEFINE h == gcd(a, b)
<1> HIDE DEF h
<1>7. h \in 1 .. a + b /\ Is(h)
  BY <1>6 DEF h
<1>8. h \in Common(a, b) /\ \A e \in Common(a, b) : e <= h
  <2>1. h \in Nat \ {0}
    BY <1>7
  <2> QED BY <1>1, <1>7, <2>1 DEF Is, Common
<1> QED BY <1>8 DEF h

(* It depends on the common divisors alone.                                *)
LEMMA SameGcd ==
  ASSUME NEW a \in Nat, NEW b \in Nat, a # 0 \/ b # 0,
         NEW x \in Nat, NEW y \in Nat, x # 0 \/ y # 0,
         Common(a, b) = Common(x, y)
  PROVE  gcd(a, b) = gcd(x, y)
<1> DEFINE g == gcd(a, b)
           h == gcd(x, y)
<1>1. g \in Common(a, b) /\ \A e \in Common(a, b) : e <= g
  BY GcdIsGreatest
<1>2. h \in Common(x, y) /\ \A e \in Common(x, y) : e <= h
  BY GcdIsGreatest
<1> HIDE DEF g, h
<1>3. g <= h /\ h <= g /\ g \in Nat /\ h \in Nat
  BY <1>1, <1>2 DEF Common
<1> QED BY <1>3 DEF g, h

(* What the two kinds of steps of a subtraction Euclid keep, and what is   *)
(* left at its end.                                                        *)
LEMMA EuclidKeepsTheGcd ==
  ASSUME NEW a \in Nat, NEW b \in Nat \ {0}
  PROVE  /\ gcd(b, a) = gcd(a, b)
         /\ a >= b => gcd(a - b, b) = gcd(a, b)
<1>1. gcd(b, a) = gcd(a, b)
  <2>1. Common(a, b) = Common(b, a)
    BY DEF Common
  <2> QED BY <2>1, SameGcd
<1>2. ASSUME a >= b PROVE gcd(a - b, b) = gcd(a, b)
  <2>1. ASSUME NEW d \in Nat \ {0}, b % d = 0
        PROVE  (a - b) % d = a % d
    <3> DEFINE p == a \div d
               q == b \div d
               z == a % d
    <3>1. a = d * p + z /\ z \in 0 .. d - 1 /\ p \in Int
      BY DivMod
    <3>2. b = d * q + (b % d) /\ q \in Int
      BY DivMod
    <3> HIDE DEF p, q, z
    <3>3. b = d * q
      BY <2>1, <3>2
    <3>4. a - b = d * (p - q) + z
      <4>1. d * (p - q) = d * p - d * q
        BY <3>1, <3>2
      <4> QED BY <3>1, <3>3, <4>1
    <3>5. (a - b) % d = z
      <4>1. a - b \in Int /\ p - q \in Int
        BY <3>1, <3>2
      <4> QED BY <3>1, <3>4, <4>1, ModUnique
    <3> QED BY <3>5 DEF z
  <2>2. Common(a - b, b) = Common(a, b)
    BY <2>1 DEF Common
  <2>3. a - b \in Nat
    BY <1>2
  <2> QED BY <2>2, <2>3, SameGcd
<1> QED BY <1>1, <1>2

(* The Euclid ends with its divisor once the other number is 0.            *)
LEMMA GcdWithZero ==
  ASSUME NEW a \in Nat \ {0}
  PROVE  gcd(a, 0) = a
<1> DEFINE g == gcd(a, 0)
<1>1. g \in Common(a, 0) /\ \A e \in Common(a, 0) : e <= g
  BY GcdIsGreatest
<1> HIDE DEF g
<1>2. a \in Common(a, 0)
  <2>1. a = a * 1 + 0 /\ 0 = a * 0 + 0 /\ 0 \in 0 .. a - 1
    OBVIOUS
  <2>2. a % a = 0
    BY <2>1, ModUnique
  <2>3. 0 % a = 0
    BY <2>1, ModUnique
  <2> QED BY <2>2, <2>3 DEF Common
<1>3. g <= a
  <2>1. g \in Nat \ {0} /\ a % g = 0
    BY <1>1 DEF Common
  <2>2. a < g => a % g = a
    <3>1. a < g => a = g * 0 + a /\ a \in 0 .. g - 1
      BY <2>1
    <3> QED BY <2>1, <3>1, ModUnique
  <2> QED BY <2>1, <2>2
<1>4. a <= g /\ g \in Nat
  BY <1>1, <1>2 DEF Common
<1> QED BY <1>3, <1>4 DEF g

(* The subtractions of Euclid come to an end.                              *)
LEMMA EuclidEnds ==
  ASSUME NEW a \in Nat, NEW b \in Nat
  PROVE  euclid_steps(a, b) \in Nat
<1> DEFINE S == Nat \X Nat
           To(p) == IF p[1] < p[2] THEN <<p[2] - p[1], p[1]>>
                    ELSE <<p[1] - p[2], p[2]>>
           ends == [p \in S |-> p[2] = 0]
           val == [p \in S |-> 0]
           g == [p \in S |-> [v \in Nat |-> 1 + v]]
           next == [p \in S |-> To(p)]
           rank == [p \in S |-> 2 * (p[1] + p[2]) + IF p[2] = 0 THEN 0 ELSE 1]
           IsCount(f) == f = [p \in Nat \X Nat |->
                                IF p[2] = 0 THEN 0
                                ELSE 1 + f[IF p[1] < p[2] THEN <<p[2] - p[1], p[1]>>
                                           ELSE <<p[1] - p[2], p[2]>>]]
           E == CHOOSE f : IsCount(f)
<1>1. euclid_steps(a, b) = E[<<a, b>>]
  BY Zenon DEF euclid_steps
<1>2. rank \in [S -> Nat]
  OBVIOUS
<1>3. ASSUME NEW p \in S, p[2] # 0
      PROVE  To(p) \in S /\ rank[To(p)] < rank[p]
  <2>1. PICK x \in Nat, y \in Nat : p = <<x, y>>
    OBVIOUS
  <2>2. CASE x < y
    <3>1. To(p) = <<y - x, x>> /\ To(p) \in S
      BY <2>1, <2>2
    <3> QED BY <3>1, <2>1, <2>2, <1>3
  <2>3. CASE ~(x < y)
    <3>1. To(p) = <<x - y, y>> /\ To(p) \in S
      BY <2>1, <2>3
    <3> QED BY <3>1, <2>1, <2>3, <1>3
  <2> QED BY <2>2, <2>3
<1> HIDE DEF rank
<1>4. \E f : IsCount(f)
  <2>1. val \in [S -> Nat] /\ g \in [S -> [Nat -> Nat]]
    OBVIOUS
  <2>2. ASSUME NEW x \in S, ~ends[x] PROVE next[x] \in S /\ rank[next[x]] < rank[x]
    <3> HIDE DEF S, To
    <3> QED BY <2>2, <1>3
  <2>3. PICK f : IsLoop(f, S, Nat, ends, val, g, next)
    <3> HIDE DEF S, ends, val, g, next
    <3> QED BY <1>2, <2>1, <2>2, LoopExists, Zenon
  <2>4. f \in [S -> Nat]
        /\ \A x \in S : f[x] = IF ends[x] THEN val[x] ELSE g[x][f[next[x]]]
    BY <2>3 DEF IsLoop
  <2>5. ASSUME NEW p \in S
        PROVE  f[p] = IF p[2] = 0 THEN 0 ELSE 1 + f[To(p)]
    <3> HIDE DEF S, To
    <3>1. CASE p[2] = 0
      BY <2>4, <3>1
    <3>2. CASE p[2] # 0
      <4>1. f[To(p)] \in Nat
        BY <1>3, <2>4, <3>2
      <4> QED BY <2>4, <3>2, <4>1
    <3> QED BY <3>1, <3>2
  <2>6. f = [p \in S |-> f[p]]
    BY <2>4
  <2>7. f = [p \in S |-> IF p[2] = 0 THEN 0 ELSE 1 + f[To(p)]]
    <3> HIDE DEF S, To
    <3> QED BY <2>5, <2>6
  <2> QED BY <2>7, Zenon
<1>5. IsCount(E)
  <2> HIDE DEF IsCount
  <2> QED BY <1>4
<1>6. \A p \in S : E[p] = IF p[2] = 0 THEN 0 ELSE 1 + E[To(p)]
  <2> HIDE DEF E
  <2> QED BY <1>5
<1> DEFINE P == {p \in S : E[p] \in Nat}
<1> HIDE DEF E, To, S
<1>7. ASSUME NEW p \in S, \A y \in S : rank[y] < rank[p] => y \in P
      PROVE  p \in P
  <2>1. CASE p[2] = 0
    BY <1>6, <2>1
  <2>2. CASE p[2] # 0
    <3>1. E[To(p)] \in Nat
      BY <1>3, <1>7, <2>2
    <3> QED BY <1>6, <2>2, <3>1
  <2> QED BY <2>1, <2>2
<1>8. \A p \in S : p \in P
  <2> HIDE DEF P
  <2> QED BY <1>2, <1>7, RankInduction
<1>9. <<a, b>> \in S
  BY DEF S
<1> QED BY <1>1, <1>8, <1>9

-----------------------------------------------------------------------------
\* The orders of a row of n: every column once.
Orders(n) == {p \in [0 .. n - 1 -> 0 .. n - 1] : {p[k] : k \in 0 .. n - 1} = 0 .. n - 1}

(* A step of Fisher-Yates, the exchange of two entries, keeps an order an  *)
(* order.                                                                  *)
LEMMA SwapKeepsAnOrder ==
  ASSUME NEW n \in Nat \ {0}, NEW p \in Orders(n), NEW i \in 0 .. n - 1, NEW j \in 0 .. n - 1
  PROVE  Swapped(p, i, j) \in Orders(n)
<1> DEFINE q == Swapped(p, i, j)
<1>1. /\ p \in [0 .. n - 1 -> 0 .. n - 1]
      /\ \A x \in 0 .. n - 1 : \E k \in 0 .. n - 1 : p[k] = x
  BY DEF Orders
<1>2. q \in [0 .. n - 1 -> 0 .. n - 1]
  BY <1>1 DEF Swapped
<1>3. \A k \in 0 .. n - 1 : q[k] = IF k = j THEN p[i] ELSE IF k = i THEN p[j] ELSE p[k]
  BY <1>1 DEF Swapped
<1> HIDE DEF q
<1>4. ASSUME NEW x \in 0 .. n - 1 PROVE \E k \in 0 .. n - 1 : q[k] = x
  <2>1. PICK k \in 0 .. n - 1 : p[k] = x
    BY <1>1
  <2>2. CASE k = i
    BY <2>1, <2>2, <1>3
  <2>3. CASE k = j
    BY <2>1, <2>3, <1>3
  <2>4. CASE k # i /\ k # j
    BY <2>1, <2>4, <1>3
  <2> QED BY <2>2, <2>3, <2>4
<1>5. {q[k] : k \in 0 .. n - 1} = 0 .. n - 1
  BY <1>2, <1>4
<1> QED BY <1>2, <1>5 DEF q, Orders

\* What a bank under construction is: an order, a position, a number of words.
Banks(s, n) == [bank : Orders(n), at : Positions(s), cost : Nat]

\* One place of the bank, by a draw from the places up to it.
BankStep(s, v, i) ==
  LET u == uniform_with_stream(s, v.at, i)
  IN  [bank |-> Swapped(v.bank, i, u.value), at |-> u.at, cost |-> v.cost + u.taken]

(* The shuffle goes down from the last place.                              *)
LEMMA BankSteps ==
  ASSUME NEW s, IsStream(s), NEW from \in Positions(s), NEW n \in Nat \ {0}
  PROVE  \E f : /\ f \in [1 .. n -> Banks(s, n)]
                /\ f[n] = [bank |-> identity_sequence(n), at |-> from, cost |-> 0]
                /\ \A i \in 1 .. n - 1 : f[i] = BankStep(s, f[i + 1], i)
                /\ bank_and_cost(s, from, n) = f[1]
<1> DEFINE S == 1 .. n
           V == Banks(s, n)
           first == [bank |-> identity_sequence(n), at |-> from, cost |-> 0]
           U(v, i) == uniform_with_stream(s, v.at, i)
           More(v, i) == [bank |-> Swapped(v.bank, i, U(v, i).value),
                          at |-> U(v, i).at, cost |-> v.cost + U(v, i).taken]
           ends == [i \in S |-> i = n]
           val == [i \in S |-> first]
           g == [i \in S |-> [v \in V |-> IF i = n THEN v ELSE More(v, i)]]
           next == [i \in S |-> i + 1]
           rank == [i \in S |-> n - i]
           IsShuffle(f) == f = [i \in 1 .. n |->
              IF i = n
              THEN [bank |-> identity_sequence(n), at |-> from, cost |-> 0]
              ELSE LET u == uniform_with_stream(s, f[i + 1].at, i)
                   IN  [bank |-> Swapped(f[i + 1].bank, i, u.value),
                        at |-> u.at, cost |-> f[i + 1].cost + u.taken]]
           D == CHOOSE f : IsShuffle(f)
<1>1. bank_and_cost(s, from, n) = D[1]
  BY Zenon DEF bank_and_cost
<1>2. first \in V
  <2>1. identity_sequence(n) \in Orders(n)
    BY DEF identity_sequence, Orders
  <2> QED BY <2>1 DEF Banks
<1>3. ASSUME NEW v \in V, NEW i \in S, i # n PROVE More(v, i) \in V
  <2>1. v.bank \in Orders(n) /\ v.at \in Positions(s) /\ v.cost \in Nat /\ i \in Nat
    BY DEF Banks
  <2>2. U(v, i) \in DrawnFrom(s, i)
    BY <2>1, DrawIsOfItsRange
  <2>3. /\ U(v, i).value \in 0 .. n - 1 /\ i \in 0 .. n - 1
        /\ U(v, i).at \in Positions(s) /\ U(v, i).taken \in Nat
    BY <2>2, <1>3 DEF DrawnFrom
  <2> HIDE DEF U
  <2>4. Swapped(v.bank, i, U(v, i).value) \in Orders(n)
    BY <2>1, <2>3, SwapKeepsAnOrder
  <2>5. v.cost + U(v, i).taken \in Nat
    BY <2>1, <2>3
  <2> QED BY <2>3, <2>4, <2>5 DEF Banks
<1>4. rank \in [S -> Nat] /\ \A i \in S : i # n => i + 1 \in S /\ rank[i + 1] < rank[i]
  OBVIOUS
<1> HIDE DEF rank
<1>5. \E f : IsShuffle(f)
  <2>1. val \in [S -> V] /\ g \in [S -> [V -> V]]
    <3> HIDE DEF V, S, More, first
    <3> QED BY <1>2, <1>3
  <2>2. ASSUME NEW x \in S, ~ends[x] PROVE next[x] \in S /\ rank[next[x]] < rank[x]
    <3> HIDE DEF S
    <3> QED BY <2>2, <1>4
  <2>3. PICK f : IsLoop(f, S, V, ends, val, g, next)
    <3> HIDE DEF S, V, ends, val, g, next
    <3> QED BY <1>4, <2>1, <2>2, LoopExists, Zenon
  <2>4. f \in [S -> V]
        /\ \A x \in S : f[x] = IF ends[x] THEN val[x] ELSE g[x][f[next[x]]]
    BY <2>3 DEF IsLoop
  <2>5. ASSUME NEW i \in S
        PROVE  f[i] = IF i = n THEN first ELSE More(f[i + 1], i)
    <3> HIDE DEF S, V, More, first
    <3>1. CASE i = n
      BY <2>4, <3>1
    <3>2. CASE i # n
      <4>1. f[i + 1] \in V
        BY <1>4, <2>4, <3>2
      <4> QED BY <2>4, <3>2, <4>1
    <3> QED BY <3>1, <3>2
  <2>6. f = [i \in S |-> f[i]]
    BY <2>4
  <2>7. f = [i \in S |-> IF i = n THEN first ELSE More(f[i + 1], i)]
    <3> HIDE DEF S, More, first
    <3> QED BY <2>5, <2>6
  <2> QED BY <2>7, Zenon
<1>6. IsShuffle(D)
  <2> HIDE DEF IsShuffle
  <2> QED BY <1>5
<1>7. \A i \in S : D[i] = IF i = n THEN first ELSE More(D[i + 1], i)
  <2> HIDE DEF D
  <2> QED BY <1>6
<1> DEFINE P == {i \in S : D[i] \in V}
<1>8. 1 \in S
  OBVIOUS
<1> HIDE DEF D, More, first, S, V
<1>9. ASSUME NEW i \in S, \A y \in S : rank[y] < rank[i] => y \in P
      PROVE  i \in P
  <2>1. CASE i = n
    BY <1>2, <1>7, <2>1
  <2>2. CASE i # n
    <3>1. D[i + 1] \in V
      BY <1>4, <1>9, <2>2
    <3> QED BY <1>3, <1>7, <2>2, <3>1
  <2> QED BY <2>1, <2>2
<1>10. \A i \in S : i \in P
  <2> HIDE DEF P
  <2> QED BY <1>4, <1>9, RankInduction
<1>11. D \in [S -> V]
  <2>1. D = [i \in S |-> D[i]]
    BY <1>6 DEF S
  <2> HIDE DEF P
  <2>2. \A i \in S : D[i] \in V
    BY <1>10 DEF P
  <2> QED BY <2>1, <2>2
<1>12. D[n] = first /\ \A i \in 1 .. n - 1 : D[i] = More(D[i + 1], i)
  <2>1. n \in S /\ \A i \in 1 .. n - 1 : i \in S /\ i # n
    BY DEF S
  <2> QED BY <1>7, <2>1
<1> QED BY <1>1, <1>11, <1>12 DEF V, S, first, More, BankStep

(* The downward shuffle yields an order of the row, whatever the words are.*)
THEOREM BankIsAnOrder ==
  ASSUME NEW s, IsStream(s), NEW from \in Positions(s), NEW n \in Nat \ {0}
  PROVE  bank_and_cost(s, from, n) \in Banks(s, n)
<1>1. PICK f : /\ f \in [1 .. n -> Banks(s, n)]
               /\ f[n] = [bank |-> identity_sequence(n), at |-> from, cost |-> 0]
               /\ \A i \in 1 .. n - 1 : f[i] = BankStep(s, f[i + 1], i)
               /\ bank_and_cost(s, from, n) = f[1]
  BY BankSteps
<1>2. 1 \in 1 .. n
  OBVIOUS
<1> QED BY <1>1, <1>2

-----------------------------------------------------------------------------
(* The words that a draw takes.                                            *)

(* Divisibility, as a remainder and as a multiple.                         *)
LEMMA Divides ==
  ASSUME NEW x \in Int, NEW n \in Nat \ {0}
  PROVE  x % n = 0 <=> \E q \in Int : x = n * q
<1>1. ASSUME x % n = 0 PROVE \E q \in Int : x = n * q
  <2>1. x = n * (x \div n) + (x % n) /\ x \div n \in Int
    BY DivMod
  <2> QED BY <1>1, <2>1
<1>2. ASSUME NEW q \in Int, x = n * q PROVE x % n = 0
  <2>1. x = n * q + 0 /\ 0 \in 0 .. n - 1
    BY <1>2
  <2> QED BY <2>1, ModUnique
<1> QED BY <1>1, <1>2

(* Of a number coprime to n, the first multiple that n divides is the n-th. *)
LEMMA MultiplesAreApart ==
  ASSUME NEW n \in Nat \ {0}, NEW a \in Nat, gcd(a, n) = 1, NEW d \in 1 .. n - 1
  PROVE  (a * d) % n # 0
<1> DEFINE Zero == {k \in 1 .. n : (a * k) % n = 0}
<1>1. n \in Zero
  <2>1. a * n = n * a /\ a * n \in Int
    OBVIOUS
  <2>2. (a * n) % n = 0
    BY <2>1, Divides
  <2> QED BY <2>2
<1>2. PICK k \in Zero : \A j \in Zero : k <= j
  <2>1. Zero \subseteq Nat
    OBVIOUS
  <2> HIDE DEF Zero
  <2> QED BY <1>1, <2>1, LeastNatural
<1>3. k \in Nat \ {0} /\ k <= n
  BY <1>2
<1>4. PICK e \in Int : a * k = n * e
  <2>1. a * k \in Int /\ (a * k) % n = 0
    BY <1>2, <1>3
  <2> QED BY <2>1, Divides
<1> DEFINE q == n \div k
           r == n % k
<1>5. n = k * q + r /\ q \in Int /\ r \in 0 .. k - 1
  BY <1>3, DivMod
<1> HIDE DEF q, r
<1>6. r = 0
  <2>1. a * r = n * (a - e * q)
    <3>1. a * n = a * (k * q) + a * r
      BY <1>3, <1>5
    <3>2. a * (k * q) = (a * k) * q
      BY <1>3, <1>5
    <3>3. (n * e) * q = n * (e * q)
      BY <1>5
    <3>4. n * (a - e * q) = n * a - n * (e * q)
      <4>1. e * q \in Int
        BY <1>5
      <4> QED BY <4>1
    <3>5. a * n = n * a
      OBVIOUS
    <3>6. a * n \in Int /\ a * (k * q) \in Int /\ a * r \in Int /\ n * (e * q) \in Int
      BY <1>3, <1>5
    <3> QED BY <1>4, <3>1, <3>2, <3>3, <3>4, <3>5, <3>6
  <2>2. (a * r) % n = 0
    <3>1. a * r \in Int /\ a - e * q \in Int
      BY <1>5
    <3> QED BY <2>1, <3>1, Divides
  <2>3. r # 0 => r \in Zero /\ ~(k <= r)
    BY <1>3, <1>5, <2>2
  <2> QED BY <1>2, <2>3
<1>7. q \in Nat \ {0}
  <2>1. n = k * q
    BY <1>3, <1>5, <1>6
  <2>2. q <= 0 => k * q <= 0
    BY <1>3, <1>5
  <2> QED BY <1>5, <2>1, <2>2
<1>8. a = q * e
  <2>1. a * k = (k * q) * e
    BY <1>3, <1>4, <1>5, <1>6
  <2>2. (k * q) * e = (q * e) * k
    BY <1>3, <1>5
  <2>3. \A x, y \in Int : x * k = y * k => x = y
    BY <1>3
  <2>4. q * e \in Int
    BY <1>5
  <2> QED BY <2>1, <2>2, <2>3, <2>4
<1>9. q \in Common(a, n)
  <2>1. n = q * k /\ k \in Int
    BY <1>3, <1>5, <1>6
  <2>2. n % q = 0
    BY <1>7, <2>1, Divides
  <2>3. a % q = 0
    BY <1>7, <1>8, Divides
  <2> QED BY <1>7, <2>2, <2>3 DEF Common
<1>10. q = 1
  <2>1. q <= 1
    BY <1>9, GcdIsGreatest
  <2> QED BY <1>7, <2>1
<1>11. k = n
  BY <1>3, <1>5, <1>6, <1>10
<1>12. d \notin Zero
  BY <1>2, <1>11
<1> QED BY <1>12

(* A draw at the word number c of a stream takes the words up to the first *)
(* that is in range, which is its value.                                   *)
LEMMA DrawTakesWords ==
  ASSUME NEW s, IsStream(s), NEW c \in Nat, NEW m \in Nat \ {0}
  PROVE  LET u == uniform_with_stream(s, c % Len(s), m)
         IN  /\ u.taken \in Nat \ {0} /\ u.at = (c + u.taken) % Len(s)
             /\ u.value \in 0 .. m
             /\ masked(Word(s, c + u.taken - 1), m) = u.value
             /\ \A x \in c .. c + u.taken - 2 : masked(Word(s, x), m) > m
<1> DEFINE l == Len(s)
           at == c % l
           k == rejections(s, at, m)
           u == uniform_with_stream(s, at, m)
<1>1. l \in Nat \ {0} /\ at \in Positions(s) /\ Positions(s) = 0 .. l - 1
  BY StreamHasWords DEF Positions
<1>2. /\ k \in Positions(s) /\ masked(Word(s, at + k), m) \in 0 .. m
      /\ \A x \in 0 .. k - 1 : masked(Word(s, at + x), m) > m
  <2> HIDE DEF at
  <2> QED BY <1>1, RejectionsEnd
<1>3. u = [value |-> masked(Word(s, at + k), m), at |-> (at + k + 1) % l, taken |-> k + 1]
  BY DEF uniform_with_stream
<1>4. \A x \in Nat : (at + x) % l = (c + x) % l
  <2> SUFFICES ASSUME NEW x \in Nat PROVE (at + x) % l = (c + x) % l
    OBVIOUS
  <2> DEFINE q == c \div l
             y == (at + x) \div l
             z == (at + x) % l
  <2>1. c = l * q + at /\ q \in Int
    BY <1>1, DivMod
  <2> HIDE DEF l, at, q
  <2>2. at + x = l * y + z /\ y \in Int /\ z \in 0 .. l - 1
    <3>1. at + x \in Int
      BY <1>1
    <3> QED BY <1>1, <3>1, DivMod
  <2> HIDE DEF y, z
  <2>3. c + x = l * (q + y) + z
    <3>1. l * (q + y) = l * q + l * y /\ l * q \in Int /\ l * y \in Int
      BY <1>1, <2>1, <2>2
    <3> QED BY <1>1, <2>1, <2>2, <3>1
  <2>4. (c + x) % l = z
    <3>1. c + x \in Int /\ q + y \in Int
      BY <2>1, <2>2
    <3> QED BY <1>1, <2>2, <2>3, <3>1, ModUnique
  <2> QED BY <2>4 DEF z
<1>5. \A x \in Nat : Word(s, at + x) = Word(s, c + x)
  BY <1>4 DEF Word
<1> HIDE DEF l, at, k, u
<1>6. k \in Nat /\ u.taken = k + 1 /\ c + u.taken - 1 = c + k
  BY <1>1, <1>2, <1>3
<1>7. u.at = (c + u.taken) % l
  <2>1. at + k + 1 = at + (k + 1) /\ k + 1 \in Nat
    BY <1>1, <1>6
  <2> QED BY <1>3, <1>4, <1>6, <2>1
<1>8. u.value \in 0 .. m /\ masked(Word(s, c + u.taken - 1), m) = u.value
  BY <1>2, <1>3, <1>5, <1>6
<1>9. ASSUME NEW x \in c .. c + u.taken - 2 PROVE masked(Word(s, x), m) > m
  <2>1. x - c \in Nat /\ x - c \in 0 .. k - 1 /\ c + (x - c) = x
    BY <1>6
  <2> QED BY <1>2, <1>5, <2>1
<1> QED BY <1>6, <1>7, <1>8, <1>9 DEF u, at, l

\* A draw of a: the words up to the first that is in range and coprime.
IsCoprimeDraw(s, n, c, d) ==
  /\ d.taken \in Nat \ {0} /\ d.at = (c + d.taken) % Len(s)
  /\ d.value \in 0 .. n - 1 /\ gcd(d.value, n) = 1
  /\ masked(Word(s, c + d.taken - 1), n - 1) = d.value
  /\ \A x \in c .. c + d.taken - 2 :
       LET w == masked(Word(s, x), n - 1) IN w > n - 1 \/ gcd(w, n) # 1

(* The draw of a takes the words up to the first that is acceptable.       *)
LEMMA CoprimeDrawTakesWords ==
  ASSUME NEW s, IsStream(s), NEW c \in Nat, NEW n \in Nat \ {0, 1}
  PROVE  IsCoprimeDraw(s, n, c, coprime_draw(s, c % Len(s), n))
<1> DEFINE S == Positions(s)
           l == Len(s)
           u(at) == uniform_with_stream(s, at, n - 1)
           d(at) == coprime_draw(s, at, n)
           P == {at \in S : \A k \in Nat : k % l = at => IsCoprimeDraw(s, n, k, d(at))}
<1>1. l \in Nat \ {0} /\ S = 0 .. l - 1 /\ \A k \in Nat : k % l \in S
  BY StreamHasWords DEF Positions
<1>2. PICK p \in S : s[p + 1] = 1
  BY StreamHasWords
<1> DEFINE rank == [at \in S |-> Ahead(at, p, l)]
<1>3. rank \in [S -> Nat]
  <2> HIDE DEF l, S
  <2>1. \A at \in 0 .. l - 1 : Ahead(at, p, l) \in Nat
    BY <1>1, <1>2 DEF Ahead
  <2> QED BY <1>1, <2>1
<1>4. ASSUME NEW at \in S, \A y \in S : rank[y] < rank[at] => y \in P
      PROVE  at \in P
  <2> SUFFICES ASSUME NEW k \in Nat, k % l = at PROVE IsCoprimeDraw(s, n, k, d(at))
    OBVIOUS
  <2>1. n - 1 \in Nat \ {0} /\ n \in Nat \ {0}
    OBVIOUS
  <2>2. /\ u(at).taken \in Nat \ {0} /\ u(at).at = (k + u(at).taken) % l
        /\ u(at).value \in 0 .. n - 1
        /\ masked(Word(s, k + u(at).taken - 1), n - 1) = u(at).value
        /\ \A x \in k .. k + u(at).taken - 2 : masked(Word(s, x), n - 1) > n - 1
    BY <2>1, DrawTakesWords
  <2>3. /\ d(at) \in DrawnFrom(s, n - 1) /\ u(at).at \in S
        /\ d(at) = IF gcd(u(at).value, n) = 1 THEN u(at)
                   ELSE [d(u(at).at) EXCEPT !.taken = @ + u(at).taken]
    <3> HIDE DEF u, d, S
    <3>1. \A y \in S :
            /\ d(y) \in DrawnFrom(s, n - 1) /\ u(y).at \in S
            /\ d(y) = IF gcd(u(y).value, n) = 1 THEN u(y)
                      ELSE [d(u(y).at) EXCEPT !.taken = @ + u(y).taken]
      BY <2>1, CoprimeDrawLoop, Zenon DEF u, d, S
    <3> QED BY <3>1
  <2>4. CASE gcd(u(at).value, n) = 1
    <3> HIDE DEF u, d
    <3>1. d(at) = u(at)
      BY <2>3, <2>4
    <3>2. \A x \in k .. k + u(at).taken - 2 : masked(Word(s, x), n - 1) > n - 1
      BY <2>2
    <3> QED BY <2>2, <2>4, <3>1, <3>2 DEF IsCoprimeDraw
  <2>5. CASE gcd(u(at).value, n) # 1
    <3> DEFINE j == k + u(at).taken
               e == d(u(at).at)
    <3>1. u(at).at \in P
      <4>1. Ahead(u(at).at, p, l) < Ahead(at, p, l)
        BY <1>2, <2>1, <2>5, DrawComesNearer
      <4> HIDE DEF u, d, P
      <4> QED BY <1>4, <2>3, <4>1
    <3>2. j \in Nat /\ j % l = u(at).at
      <4>1. u(at).taken \in Nat /\ u(at).at = (k + u(at).taken) % l
        BY <2>2
      <4> HIDE DEF u, l
      <4> QED BY <4>1
    <3>3. IsCoprimeDraw(s, n, j, e)
      <4> HIDE DEF u, d, j
      <4> QED BY <3>1, <3>2
    <3>4. e \in DrawnFrom(s, n - 1)
      <4> HIDE DEF u
      <4> QED BY <2>1, <2>3, CoprimeDrawEnds
    <3> DEFINE t == u(at).taken
               v == u(at).value
    <3>5. d(at) = [e EXCEPT !.taken = @ + t]
      BY <2>3, <2>5
    <3>6. /\ t \in Nat \ {0} /\ j = k + t
          /\ masked(Word(s, j - 1), n - 1) = v /\ gcd(v, n) # 1
          /\ \A x \in k .. j - 2 : masked(Word(s, x), n - 1) > n - 1
      BY <2>2, <2>5
    <3> HIDE DEF u, d, e, t, v, j
    <3>7. /\ d(at).taken = e.taken + t /\ d(at).value = e.value /\ d(at).at = e.at
      BY <3>4, <3>5 DEF DrawnFrom
    <3>8. e.taken \in Nat \ {0} /\ k + d(at).taken = j + e.taken
      BY <3>3, <3>6, <3>7 DEF IsCoprimeDraw
    <3>9. ASSUME NEW x \in k .. k + d(at).taken - 2
          PROVE  masked(Word(s, x), n - 1) > n - 1 \/ gcd(masked(Word(s, x), n - 1), n) # 1
      <4>1. CASE x < j - 1
        <5>1. x \in k .. j - 2
          BY <3>2, <4>1
        <5> QED BY <3>6, <5>1
      <4>2. CASE x = j - 1
        BY <3>6, <4>2
      <4>3. CASE x > j - 1
        <5> DEFINE T == d(at).taken
                   T2 == e.taken
        <5>1. /\ T2 \in Nat \ {0} /\ k + T = j + T2 /\ T = T2 + t
              /\ t \in Nat \ {0} /\ j \in Nat /\ x \in k .. k + T - 2
          BY <3>2, <3>6, <3>7, <3>8
        <5> HIDE DEF T, T2
        <5>2. x \in j .. j + T2 - 2
          BY <4>3, <5>1
        <5> QED BY <3>3, <5>2 DEF IsCoprimeDraw, T2
      <4> QED BY <3>2, <4>1, <4>2, <4>3
    <3>10. d(at).taken \in Nat \ {0}
      BY <3>6, <3>7, <3>8
    <3>11. /\ d(at).at = (k + d(at).taken) % l
           /\ d(at).value \in 0 .. n - 1 /\ gcd(d(at).value, n) = 1
           /\ masked(Word(s, k + d(at).taken - 1), n - 1) = d(at).value
      <4>1. k + d(at).taken - 1 = j + e.taken - 1
        BY <3>2, <3>6, <3>7, <3>8
      <4>2. /\ e.at = (j + e.taken) % l
            /\ e.value \in 0 .. n - 1 /\ gcd(e.value, n) = 1
            /\ masked(Word(s, j + e.taken - 1), n - 1) = e.value
        BY <3>3 DEF IsCoprimeDraw
      <4> HIDE DEF l
      <4> QED BY <3>7, <3>8, <4>1, <4>2
    <3> QED BY <3>9, <3>10, <3>11 DEF IsCoprimeDraw
  <2> QED BY <2>4, <2>5
<1> HIDE DEF P, rank
<1>5. \A at \in S : at \in P
  BY <1>3, <1>4, RankInduction
<1> HIDE DEF S, d
<1>6. IsCoprimeDraw(s, n, c, d(c % l))
  BY <1>1, <1>5 DEF P
<1> QED BY <1>6 DEF d

(* The factor that a derivation draws is coprime to the row.               *)
LEMMA PairIsCoprime ==
  ASSUME NEW s, IsStream(s), NEW n \in Nat \ {0}
  PROVE  gcd(derive_ab(s, n).a, n) = 1
<1> DEFINE a == coprime_draw(s, 0, n)
<1>1. derive_ab(s, n).a = a.value
  BY DEF derive_ab
<1>2. 0 \in Positions(s) /\ Len(s) \in Nat \ {0}
  BY StreamHasWords
<1>3. CASE n = 1
  BY <1>1, <1>2, <1>3, CoprimeDrawOfOne, OneIsCoprime
<1>4. CASE n # 1
  <2>1. 0 % Len(s) = 0
    BY <1>2
  <2>2. IsCoprimeDraw(s, n, 0, coprime_draw(s, 0 % Len(s), n))
    BY <1>4, CoprimeDrawTakesWords
  <2> HIDE DEF a
  <2> QED BY <1>1, <2>1, <2>2 DEF IsCoprimeDraw, a
<1> QED BY <1>3, <1>4

-----------------------------------------------------------------------------
(* The affine walk, the rate, and runs of steps.                           *)

(* The walk without a multiplication is the closed form, if the sum has room. *)
LEMMA WalkIsClosed ==
  ASSUME NEW n \in Nat \ {0}, NEW a \in 0 .. n - 1, NEW b \in 0 .. n - 1,
         NEW width \in Nat, width >= 2 * n
  PROVE  affine_walk(a, b, n, width) = affine_sequence(a, b, n)
<1> DEFINE S == 0 .. n - 1
           p == affine_sequence(a, b, n)
           Step(r) == LET inc == (r + a) % width IN IF inc >= n THEN inc - n ELSE inc
           IsWalk(f) == f = [t \in 0 .. n - 1 |->
              IF t = 0 THEN b % n
              ELSE LET inc == (f[t - 1] + a) % width
                   IN  IF inc >= n THEN inc - n ELSE inc]
           D == CHOOSE f : IsWalk(f)
<1>1. affine_walk(a, b, n, width) = D
  BY Zenon DEF affine_walk
<1>2. p = [t \in S |-> (a * t + b) % n]
  BY DEF affine_sequence
<1>3. ASSUME NEW t \in S, t # 0
      PROVE  t - 1 \in S /\ p[t] = Step(p[t - 1])
  <2>1. t - 1 \in S
    BY <1>3
  <2> DEFINE q == (a * (t - 1) + b) \div n
             r == (a * (t - 1) + b) % n
  <2>2. a * (t - 1) + b = n * q + r /\ q \in Int /\ r \in 0 .. n - 1
    <3>1. a * (t - 1) + b \in Int
      BY <2>1
    <3> QED BY <3>1, DivMod
  <2>3. a * t + b = a * (t - 1) + b + a /\ a * t + b \in Int
    BY <1>3
  <2>4. p[t - 1] = r
    BY <1>2, <2>1
  <2>5. p[t] = (a * t + b) % n
    BY <1>2
  <2> HIDE DEF p, q, r
  <2>6. (r + a) % width = r + a
    <3>1. r + a = width * 0 + (r + a) /\ r + a \in 0 .. width - 1 /\ width \in Nat \ {0}
      BY <2>2
    <3> QED BY <3>1, ModUnique
  <2>7. Step(r) = IF r + a >= n THEN r + a - n ELSE r + a
    BY <2>2, <2>6
  <2>8. CASE r + a >= n
    <3>1. a * t + b = n * (q + 1) + (r + a - n)
      <4>1. n * (q + 1) = n * q + n /\ n * q \in Int
        BY <2>2
      <4> QED BY <2>2, <2>3, <4>1
    <3>2. r + a - n \in 0 .. n - 1 /\ q + 1 \in Int
      BY <2>2, <2>8
    <3>3. (a * t + b) % n = r + a - n
      BY <2>3, <3>1, <3>2, ModUnique
    <3> QED BY <2>1, <2>4, <2>5, <2>7, <2>8, <3>3
  <2>9. CASE ~(r + a >= n)
    <3>1. a * t + b = n * q + (r + a) /\ r + a \in 0 .. n - 1
      <4>1. n * q \in Int
        BY <2>2
      <4> QED BY <2>2, <2>3, <2>9, <4>1
    <3>2. (a * t + b) % n = r + a
      BY <2>2, <2>3, <3>1, ModUnique
    <3> QED BY <2>1, <2>4, <2>5, <2>7, <2>9, <3>2
  <2> QED BY <2>8, <2>9
<1>4. p[0] = b % n
  BY <1>2
<1> HIDE DEF p
<1>5. p = [t \in S |-> IF t = 0 THEN b % n ELSE Step(p[t - 1])]
  <2> HIDE DEF S, Step
  <2>1. \A t \in S : p[t] = IF t = 0 THEN b % n ELSE Step(p[t - 1])
    BY <1>3, <1>4
  <2>2. p = [t \in S |-> p[t]]
    BY <1>2
  <2> QED BY <2>1, <2>2
<1>6. IsWalk(D)
  <2>1. IsWalk(p)
    BY <1>5, Zenon
  <2> HIDE DEF IsWalk
  <2> QED BY <2>1
<1>7. D = [t \in S |-> IF t = 0 THEN b % n ELSE Step(D[t - 1])]
  <2> HIDE DEF D
  <2> QED BY <1>6, Zenon
<1> HIDE DEF D, Step
<1> DEFINE P == {t \in S : D[t] = p[t]}
           rank == [t \in S |-> t]
<1>8. ASSUME NEW t \in S, \A y \in S : rank[y] < rank[t] => y \in P
      PROVE  t \in P
  <2>1. CASE t = 0
    BY <1>4, <1>7, <2>1
  <2>2. CASE t # 0
    <3>1. t - 1 \in P
      <4>1. t - 1 \in S /\ t - 1 < t
        BY <2>2
      <4>2. rank[t - 1] < rank[t]
        BY <4>1
      <4> HIDE DEF P, S
      <4> QED BY <1>8, <4>1, <4>2
    <3> QED BY <1>3, <1>7, <2>2, <3>1
  <2> QED BY <2>1, <2>2
<1>9. rank \in [S -> Nat]
  OBVIOUS
<1>10. \A t \in S : t \in P
  <2> HIDE DEF P, rank, S
  <2> QED BY <1>8, <1>9, RankInduction
<1>11. D = [t \in S |-> D[t]] /\ p = [t \in S |-> p[t]]
  BY <1>2, <1>7
<1>12. D = p
  <2> HIDE DEF S
  <2> QED BY <1>10, <1>11
<1> QED BY <1>1, <1>12 DEF p

(* The ceiling of a quotient is the least that covers the dividend.        *)
LEMMA CeilingCovers ==
  ASSUME NEW x \in Nat, NEW y \in Nat \ {0}
  PROVE  /\ ceiling(x, y) \in Nat
         /\ ceiling(x, y) * y >= x
         /\ ceiling(x, y) > 0 => (ceiling(x, y) - 1) * y < x
         /\ x <= y => ceiling(x, y) <= 1
<1> DEFINE c == (x + y - 1) \div y
           r == (x + y - 1) % y
<1>1. x + y - 1 = y * c + r /\ c \in Int /\ r \in 0 .. y - 1
  <2>1. x + y - 1 \in Int
    OBVIOUS
  <2> QED BY <2>1, DivMod
<1>2. ceiling(x, y) = c
  BY DEF ceiling
<1> HIDE DEF c, r
<1>3. y * c \in Int /\ c * y = y * c /\ (c - 1) * y = y * c - y
  BY <1>1
<1>4. c * y >= x /\ (c - 1) * y < x
  BY <1>1, <1>3
<1>5. c \in Nat
  <2>1. c < 0 => y * c <= y * (-1)
    BY <1>1
  <2> QED BY <1>1, <1>3, <2>1
<1>6. x <= y => c <= 1
  <2>1. c >= 2 => y * c >= y * 2
    BY <1>1
  <2> QED BY <1>1, <1>3, <2>1
<1> QED BY <1>2, <1>4, <1>5, <1>6

(* Induction up to a bound.                                                *)
LEMMA UpTo ==
  ASSUME NEW K \in Nat, NEW P, 0 \in P, \A k \in 1 .. K : k - 1 \in P => k \in P
  PROVE  \A k \in 0 .. K : k \in P
<1> DEFINE S == 0 .. K
           rank == [k \in S |-> k]
<1>1. rank \in [S -> Nat]
  OBVIOUS
<1>2. ASSUME NEW k \in S, \A y \in S : rank[y] < rank[k] => y \in P
      PROVE  k \in P
  <2>1. CASE k = 0
    BY <2>1
  <2>2. CASE k # 0
    <3>1. k \in 1 .. K /\ k - 1 \in S /\ k - 1 < k
      BY <2>2
    <3>2. rank[k - 1] < rank[k]
      BY <3>1
    <3>3. k - 1 \in P
      <4> HIDE DEF S, rank
      <4> QED BY <1>2, <3>1, <3>2
    <3> QED BY <3>1, <3>3
  <2> QED BY <2>1, <2>2
<1> HIDE DEF S, rank
<1>3. \A k \in S : k \in P
  BY <1>1, <1>2, RankInduction
<1> QED BY <1>3 DEF S

(* What holds at a word, and passes from each word to the next, holds from *)
(* there on: the count of a run need not start at zero.                    *)
LEMMA FromTo ==
  ASSUME NEW T, NEW lo \in Nat, NEW hi \in Nat, lo <= hi, lo \in T,
         \A k \in lo + 1 .. hi : k - 1 \in T => k \in T
  PROVE  \A k \in lo .. hi : k \in T
<1> DEFINE K == hi - lo
           P == {x \in 0 .. K : lo + x \in T}
<1>1. K \in Nat /\ 0 \in P
  <2>1. lo + 0 = lo /\ K \in Nat /\ 0 \in 0 .. K
    OBVIOUS
  <2> QED BY <2>1
<1>2. ASSUME NEW x \in 1 .. K, x - 1 \in P PROVE x \in P
  <2>1. lo + x \in lo + 1 .. hi /\ lo + (x - 1) = (lo + x) - 1 /\ x \in 0 .. K
    OBVIOUS
  <2>2. (lo + x) - 1 \in T
    BY <1>2, <2>1
  <2> QED BY <2>1, <2>2
<1>3. \A x \in 0 .. K : x \in P
  <2> HIDE DEF P, K
  <2> QED BY <1>1, <1>2, UpTo
<1>4. ASSUME NEW k \in lo .. hi PROVE k \in T
  <2>1. k - lo \in 0 .. K /\ lo + (k - lo) = k
    OBVIOUS
  <2>2. lo + (k - lo) \in T
    BY <1>3, <2>1
  <2> QED BY <2>1, <2>2
<1> QED BY <1>4

(* f computes, word after word, what the steps g make of a first state.    *)
IsRunOf(f, V, first, g, words) ==
  /\ f \in [0 .. words -> V] /\ f[0] = first
  /\ \A k \in 1 .. words : f[k] = g[k][f[k - 1]]

(* Such a function exists, whatever the steps are.                         *)
LEMMA RunExists ==
  ASSUME NEW V, NEW first \in V, NEW words \in Nat, NEW g \in [0 .. words -> [V -> V]]
  PROVE  \E f : IsRunOf(f, V, first, g, words)
<1> DEFINE S == 0 .. words
           ends == [k \in S |-> k = 0]
           val == [k \in S |-> first]
           next == [k \in S |-> k - 1]
           rank == [k \in S |-> k]
<1>1. val \in [S -> V] /\ rank \in [S -> Nat]
  OBVIOUS
<1>2. ASSUME NEW k \in S, ~ends[k] PROVE next[k] \in S /\ rank[next[k]] < rank[k]
  <2>1. k # 0
    BY <1>2
  <2>2. next[k] = k - 1 /\ k - 1 \in S /\ k - 1 < k
    BY <2>1
  <2> QED BY <2>2
<1>3. PICK f : IsLoop(f, S, V, ends, val, g, next)
  <2>1. g \in [S -> [V -> V]]
    OBVIOUS
  <2> HIDE DEF S, ends, val, next, rank
  <2> QED BY <1>1, <1>2, <2>1, LoopExists, Zenon
<1>4. /\ f \in [S -> V]
      /\ \A k \in S : f[k] = IF ends[k] THEN val[k] ELSE g[k][f[next[k]]]
  BY <1>3 DEF IsLoop
<1>5. 0 \in S /\ f[0] = first
  <2>1. 0 \in S
    OBVIOUS
  <2> QED BY <1>4, <2>1
<1>6. ASSUME NEW k \in 1 .. words PROVE f[k] = g[k][f[k - 1]]
  <2>1. k \in S /\ k # 0
    OBVIOUS
  <2> QED BY <1>4, <2>1
<1> QED BY <1>4, <1>5, <1>6 DEF IsRunOf
=============================================================================
