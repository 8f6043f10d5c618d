------------------------- MODULE BcmcStream_proofs -------------------------
(***************************************************************************)
(* The Core behind its stream interface, for every width, every C and      *)
(* every pattern of gaps: the contract of the interface, and then the      *)
(* Balance Theorem of what the evaluators make of a finished run.  The     *)
(* counting is by bijections: the columns that a row marks are the clocks  *)
(* 0 .. w - 1 of its interval, and the rows that mark a column are the     *)
(* integers below the total that have its residue.                         *)
(***************************************************************************)
EXTENDS BcmcStream, BcmcObservers, BcmcArith_proofs, FiniteSetTheorems, SequenceTheorems

-----------------------------------------------------------------------------
(* Counting.                                                               *)

(* A set that another is mapped onto one to one has its size.              *)
LEMMA CountByMap ==
  ASSUME NEW S, NEW T, IsFiniteSet(S), NEW f \in [S -> T],
         \A x, y \in S : f[x] = f[y] => x = y,
         \A z \in T : \E x \in S : f[x] = z
  PROVE  IsFiniteSet(T) /\ Cardinality(T) = Cardinality(S)
<1>1. f \in Bijection(S, T)
  BY DEF Bijection, Injection, Surjection, IsInjective
<1>2. ExistsBijection(S, T) BY <1>1 DEF ExistsBijection
<1> QED BY <1>2, FS_Bijection

(* There are k naturals below k.                                           *)
LEMMA CountBelow ==
  ASSUME NEW k \in Nat
  PROVE  IsFiniteSet(0 .. k - 1) /\ Cardinality(0 .. k - 1) = k
<1>1. /\ IsFiniteSet(0 .. k - 1)
      /\ Cardinality(0 .. k - 1) = IF 0 > k - 1 THEN 0 ELSE (k - 1) - 0 + 1
  <2>1. 0 \in Int /\ k - 1 \in Int OBVIOUS
  <2> QED BY <2>1, FS_Interval
<1>2. (IF 0 > k - 1 THEN 0 ELSE (k - 1) - 0 + 1) = k OBVIOUS
<1> QED BY <1>1, <1>2

\* Row conservation: a cell row of weight w marks w columns.
LEMMA RowCount ==
  ASSUME NEW n \in Nat \ {0}, n < ValRange, NEW r \in 0 .. n - 1, NEW w \in 0 .. n
  PROVE  Cardinality({j \in 0 .. n - 1 : CellBit(w, r, j, n)}) = w
<1> DEFINE D(j) == IF j < r THEN j + n - r ELSE j - r
           T == {j \in 0 .. n - 1 : CellBit(w, r, j, n)}
           S == 0 .. w - 1
           f == [d \in S |-> IF r + d < n THEN r + d ELSE r + d - n]
<1>1. ASSUME NEW j \in 0 .. n - 1 PROVE j \in T <=> D(j) < w
  <2>1. j < r => (j + (n - r)) % ValRange = j + n - r
    BY ValRangeAssumption
  <2>2. Delta(j, r, n) = D(j) BY <2>1 DEF Delta
  <2> QED BY <2>2 DEF CellBit
<1>2. \A d \in S : f[d] \in 0 .. n - 1 /\ D(f[d]) = d OBVIOUS
<1>3. f \in [S -> T]
  <2> HIDE DEF D, T
  <2>1. \A d \in S : f[d] \in T
    <3> HIDE DEF f
    <3> QED BY <1>1, <1>2
  <2> QED BY <2>1
<1>4. \A x, y \in S : f[x] = f[y] => x = y
  <2> HIDE DEF D, f
  <2> QED BY <1>2
<1>5. ASSUME NEW j \in T PROVE \E d \in S : f[d] = j
  <2>1. j \in 0 .. n - 1 /\ D(j) < w BY <1>1, <1>5
  <2>2. D(j) \in S BY <2>1
  <2>3. f[D(j)] = j BY <2>1, <2>2
  <2> QED BY <2>2, <2>3
<1>6. IsFiniteSet(S) /\ Cardinality(S) = w
  <2>1. w \in Nat OBVIOUS
  <2> QED BY <2>1, CountBelow
<1> HIDE DEF f, S, T
<1>7. Cardinality(T) = Cardinality(S)
  BY <1>3, <1>4, <1>5, <1>6, CountByMap
<1> QED BY <1>6, <1>7 DEF T

-----------------------------------------------------------------------------
(* The Balance Theorem.                                                    *)

(* A product grows with its factor.                                        *)
LEMMA TimesMonotone ==
  ASSUME NEW n \in Nat, NEW a \in Int, NEW b \in Int, a <= b
  PROVE  n * a <= n * b
<1>1. n * b = n * a + n * (b - a) OBVIOUS
<1>2. n * (b - a) >= 0 OBVIOUS
<1>3. n * a \in Int /\ n * b \in Int /\ n * (b - a) \in Int OBVIOUS
<1> QED BY <1>1, <1>2, <1>3

\* How many integers below a total have the residue of a column.
LEMMA ResidueCount ==
  ASSUME NEW n \in Nat \ {0}, NEW total \in Nat, NEW j \in 0 .. n - 1
  PROVE  /\ IsFiniteSet({x \in 0 .. total - 1 : x % n = j})
         /\ Cardinality({x \in 0 .. total - 1 : x % n = j})
              = PredictedOccupancy(j, n, total)
<1> DEFINE X == {x \in 0 .. total - 1 : x % n = j}
           q == total \div n
           r == total % n
           k == IF j < r THEN q + 1 ELSE q
           f == [d \in 0 .. k - 1 |-> n * d + j]
<1>1. total = n * q + r /\ r \in 0 .. n - 1 /\ q \in Int
  <2>1. total \in Int OBVIOUS
  <2> QED BY <2>1, DivMod
<1>2. PredictedOccupancy(j, n, total) = k BY DEF PredictedOccupancy
<1> HIDE DEF q, r
<1>3. q \in Nat
  <2>1. SUFFICES ASSUME q <= -1 PROVE FALSE BY <1>1
  <2>2. n * q <= n * (-1) BY <1>1, <2>1, TimesMonotone
  <2>3. n * q \in Int BY <1>1
  <2>4. n * (-1) = -n OBVIOUS
  <2> QED BY <1>1, <2>2, <2>3, <2>4
<1>4. k \in Nat BY <1>3
<1>5. ASSUME NEW d \in Nat PROVE n * d + j < total <=> d < k
  <2> DEFINE nd == n * d
             nq == n * q
  <2>1. nd \in Int /\ nq \in Int BY <1>3
  <2>2. d < q => nd + n <= nq
    <3>1. SUFFICES ASSUME d < q PROVE nd + n <= nq OBVIOUS
    <3>2. n * (d + 1) <= n * q BY <1>3, <3>1, TimesMonotone
    <3>3. n * (d + 1) = nd + n OBVIOUS
    <3> QED BY <3>2, <3>3
  <2>3. d > q => nq + n <= nd
    <3>1. SUFFICES ASSUME d > q PROVE nq + n <= nd OBVIOUS
    <3>2. n * (q + 1) <= n * d BY <1>3, <3>1, TimesMonotone
    <3>3. n * (q + 1) = nq + n BY <1>3
    <3> QED BY <3>2, <3>3
  <2>4. d = q => nd = nq OBVIOUS
  <2>5. total = nq + r BY <1>1
  <2> HIDE DEF nd, nq
  <2>6. nd + j < total <=> d < k
    BY <1>1, <1>3, <2>1, <2>2, <2>3, <2>4, <2>5
  <2> QED BY <2>6 DEF nd
<1>6. \A d \in Nat : n * d + j \in Nat /\ (n * d + j) % n = j
  <2> TAKE d \in Nat
  <2> DEFINE x == n * d + j
  <2>1. x \in Nat OBVIOUS
  <2>2. x \in Int /\ d \in Int /\ x = n * d + j BY <2>1
  <2> HIDE DEF x
  <2>3. x % n = j BY <2>2, ModUnique
  <2> QED BY <2>1, <2>3 DEF x
<1> HIDE DEF k
<1>7. f \in [0 .. k - 1 -> X]
  <2>1. ASSUME NEW d \in 0 .. k - 1 PROVE n * d + j \in X
    <3>1. d \in Nat /\ d < k BY <1>4
    <3>2. n * d + j < total /\ n * d + j \in Nat /\ (n * d + j) % n = j
      BY <1>5, <1>6, <3>1
    <3> QED BY <3>2
  <2> HIDE DEF X
  <2> QED BY <2>1
<1>8. ASSUME NEW x \in X PROVE \E d \in 0 .. k - 1 : f[d] = x
  <2> DEFINE d == x \div n
  <2>1. x \in Nat /\ x < total /\ x % n = j BY <1>8
  <2>2. x = n * d + (x % n) /\ d \in Int
    <3>1. x \in Int BY <2>1
    <3> QED BY <3>1, DivMod
  <2> HIDE DEF d
  <2>3. x = n * d + j BY <2>1, <2>2
  <2>4. d \in Nat
    <3>1. SUFFICES ASSUME d <= -1 PROVE FALSE BY <2>2
    <3>2. n * d <= n * (-1) BY <2>2, <3>1, TimesMonotone
    <3>3. n * d \in Int /\ n * (-1) = -n BY <2>2
    <3> QED BY <2>1, <2>3, <3>2, <3>3
  <2>5. d < k BY <1>5, <2>1, <2>3, <2>4
  <2>6. d \in 0 .. k - 1 BY <1>4, <2>4, <2>5
  <2> QED BY <2>3, <2>6
<1>9. \A x, y \in 0 .. k - 1 : f[x] = f[y] => x = y
  <2>1. ASSUME NEW x \in 0 .. k - 1, NEW y \in 0 .. k - 1, n * x + j = n * y + j
        PROVE  x = y
    <3>1. x \in Int /\ y \in Int /\ n * x \in Int /\ n * y \in Int BY <1>4
    <3>2. (n * x + j) \div n = x
      <4> DEFINE z == n * x + j
      <4>1. z \in Int /\ z = n * x + j BY <3>1
      <4> HIDE DEF z
      <4>2. z \div n = x BY <3>1, <4>1, ModUnique
      <4> QED BY <4>2 DEF z
    <3>3. (n * y + j) \div n = y
      <4> DEFINE z == n * y + j
      <4>1. z \in Int /\ z = n * y + j BY <3>1
      <4> HIDE DEF z
      <4>2. z \div n = y BY <3>1, <4>1, ModUnique
      <4> QED BY <4>2 DEF z
    <3> QED BY <2>1, <3>2, <3>3
  <2> QED BY <2>1
<1>10. IsFiniteSet(0 .. k - 1) /\ Cardinality(0 .. k - 1) = k
  BY <1>4, CountBelow
<1> HIDE DEF f, X
<1>11. IsFiniteSet(X) /\ Cardinality(X) = Cardinality(0 .. k - 1)
  <2> DEFINE S == 0 .. k - 1
  <2>1. /\ f \in [S -> X] /\ IsFiniteSet(S)
        /\ \A x, y \in S : f[x] = f[y] => x = y
        /\ \A z \in X : \E x \in S : f[x] = z
    BY <1>7, <1>8, <1>9, <1>10
  <2> HIDE DEF S
  <2>2. IsFiniteSet(X) /\ Cardinality(X) = Cardinality(S)
    BY <2>1, CountByMap
  <2> QED BY <2>2 DEF S
<1> QED BY <1>2, <1>10, <1>11 DEF X

\* Two integers of one residue are a whole row apart.
LEMMA ResiduesAreApart ==
  ASSUME NEW n \in Nat \ {0}, NEW x \in Int, NEW y \in Int,
         x % n = y % n, x < y
  PROVE  y - x >= n
<1> DEFINE a == x \div n
           b == y \div n
           s == x % n
           na == n * a
           nb == n * b
<1>1. x = na + s /\ a \in Int /\ s \in 0 .. n - 1 BY DivMod
<1>2. y = nb + s /\ b \in Int
  <2>1. y = n * b + (y % n) /\ b \in Int BY DivMod
  <2> QED BY <2>1
<1> HIDE DEF a, b, s
<1>3. na \in Int /\ nb \in Int BY <1>1, <1>2
<1>4. a < b
  <2>1. SUFFICES ASSUME b <= a PROVE FALSE BY <1>1, <1>2
  <2>2. nb <= na BY <1>1, <1>2, <2>1, TimesMonotone
  <2> HIDE DEF na, nb
  <2> QED BY <1>1, <1>2, <1>3, <2>2
<1>5. na + n <= nb
  <2>1. n * (a + 1) <= n * b BY <1>1, <1>2, <1>4, TimesMonotone
  <2>2. n * (a + 1) = na + n BY <1>1
  <2> QED BY <2>1, <2>2
<1> HIDE DEF na, nb
<1> QED BY <1>1, <1>2, <1>3, <1>5

(* The prefix sums of natural weights grow.                                *)
LEMMA PrefixSumGrows ==
  ASSUME NEW w, NEW c \in Nat, \A i \in 0 .. c - 1 : w[i] \in Nat
  PROVE  \A k \in 0 .. c : \A i \in 0 .. k : PrefixSum(c, w)[i] <= PrefixSum(c, w)[k]
<1> DEFINE P == PrefixSum(c, w)
           Bad == {k \in 0 .. c : \E i \in 0 .. k : ~(P[i] <= P[k])}
<1>1. \A k \in 1 .. c : P[k] = P[k - 1] + w[k - 1]
  BY PrefixSumEquation
<1>2. \A k \in 0 .. c : P[k] \in Nat
  BY PrefixSumNat
<1> HIDE DEF P
<1> SUFFICES ASSUME Bad # {} PROVE FALSE
  BY DEF P
<1>3. Bad \subseteq Nat OBVIOUS
<1>4. PICK k \in Bad : \A x \in Bad : k <= x
  <2> HIDE DEF Bad
  <2> QED BY <1>3, LeastNatural
<1>5. PICK i \in 0 .. k : ~(P[i] <= P[k]) OBVIOUS
<1>6. k \in 1 .. c /\ i \in 0 .. k - 1 /\ k - 1 \in 0 .. c - 1
  BY <1>2, <1>5
<1>7. k - 1 \notin Bad BY <1>4, <1>6
<1>8. P[i] <= P[k - 1] BY <1>6, <1>7
<1>9. P[k - 1] <= P[k]
  <2>1. w[k - 1] \in Nat /\ P[k - 1] \in Nat BY <1>2, <1>6
  <2> QED BY <1>1, <1>6, <2>1
<1>10. P[i] \in Nat /\ P[k - 1] \in Nat /\ P[k] \in Nat BY <1>2, <1>6
<1> QED BY <1>5, <1>8, <1>9, <1>10

\* A sum depends on the weights before it only.
LEMMA PrefixSumAgrees ==
  ASSUME NEW w, NEW v, NEW c \in Nat, NEW d \in Nat, NEW e \in Nat, e <= c, e <= d,
         \A i \in 0 .. e - 1 : w[i] = v[i]
  PROVE  PrefixSum(c, w)[e] = PrefixSum(d, v)[e]
<1> DEFINE P == PrefixSum(c, w)
           Q == PrefixSum(d, v)
           Bad == {k \in 0 .. e : P[k] # Q[k]}
<1>1. P[0] = 0 /\ \A k \in 1 .. c : P[k] = P[k - 1] + w[k - 1]
  BY PrefixSumEquation
<1>2. Q[0] = 0 /\ \A k \in 1 .. d : Q[k] = Q[k - 1] + v[k - 1]
  BY PrefixSumEquation
<1> HIDE DEF P, Q
<1> SUFFICES ASSUME Bad # {} PROVE FALSE
  BY DEF P, Q
<1>3. Bad \subseteq Nat OBVIOUS
<1>4. PICK k \in Bad : \A x \in Bad : k <= x
  <2> HIDE DEF Bad
  <2> QED BY <1>3, LeastNatural
<1>5. k \in 1 .. e /\ k - 1 \in 0 .. e - 1 BY <1>1, <1>2
<1>6. P[k - 1] = Q[k - 1] BY <1>4, <1>5
<1>7. w[k - 1] = v[k - 1] BY <1>5
<1>8. P[k] = P[k - 1] + w[k - 1] /\ Q[k] = Q[k - 1] + v[k - 1]
  BY <1>1, <1>2, <1>5
<1> QED BY <1>6, <1>7, <1>8

\* Every integer below the total is in the interval of a row.
LEMMA EveryIntegerHasARow ==
  ASSUME NEW w, NEW c \in Nat, \A i \in 0 .. c - 1 : w[i] \in Nat,
         NEW x \in 0 .. PrefixSum(c, w)[c] - 1
  PROVE  \E i \in 0 .. c - 1 : x \in PrefixSum(c, w)[i] .. PrefixSum(c, w)[i + 1] - 1
<1> DEFINE P == PrefixSum(c, w)
           Above == {k \in 0 .. c : x < P[k]}
<1>1. P[0] = 0 BY PrefixSumEquation
<1>2. \A k \in 0 .. c : P[k] \in Nat
  BY PrefixSumNat
<1>3. x \in 0 .. P[c] - 1 OBVIOUS
<1> HIDE DEF P
<1>4. c \in Above BY <1>2, <1>3
<1>5. Above \subseteq Nat OBVIOUS
<1>6. PICK k \in Above : \A y \in Above : k <= y
  <2> HIDE DEF Above
  <2> QED BY <1>4, <1>5, LeastNatural
<1>7. k \in 1 .. c /\ k - 1 \in 0 .. c - 1 BY <1>1, <1>3
<1>8. k - 1 \notin Above BY <1>6, <1>7
<1>9. P[k - 1] <= x /\ x < P[k] /\ P[k - 1] \in Nat /\ P[k] \in Nat
  BY <1>2, <1>3, <1>7, <1>8
<1>10. x \in P[k - 1] .. P[(k - 1) + 1] - 1
  <2>1. (k - 1) + 1 = k BY <1>7
  <2> QED BY <1>3, <1>9, <2>1
<1> QED BY <1>7, <1>10 DEF P

\* The Balance Theorem: for legal weights the rows that mark column j are as
\* many as the integers below the total whose residue is j.
THEOREM BalanceTheorem ==
  ASSUME NEW n \in Nat \ {0}, NEW c \in Nat, NEW w,
         \A i \in 0 .. c - 1 : w[i] \in 0 .. n, NEW j \in 0 .. n - 1
  PROVE  Cardinality({i \in 0 .. c - 1 : RefBit(i, j, n, c, w)})
           = PredictedOccupancy(j, n, PrefixSum(c, w)[c])
<1> DEFINE P == PrefixSum(c, w)
           X == {x \in 0 .. P[c] - 1 : x % n = j}
           I == {i \in 0 .. c - 1 : RefBit(i, j, n, c, w)}
           f == [x \in X |-> CHOOSE i \in 0 .. c - 1 : x \in P[i] .. P[i + 1] - 1]
<1>1. \A i \in 0 .. c - 1 : w[i] \in Nat OBVIOUS
<1>2. \A k \in 1 .. c : P[k] = P[k - 1] + w[k - 1]
  BY PrefixSumEquation
<1>3. \A k \in 0 .. c : P[k] \in Nat
  BY <1>1, PrefixSumNat
<1>4. \A k \in 0 .. c : \A i \in 0 .. k : P[i] <= P[k]
  BY <1>1, PrefixSumGrows
<1>5. \A x \in 0 .. P[c] - 1 :
        \E i \in 0 .. c - 1 : x \in P[i] .. P[i + 1] - 1
  BY <1>1, EveryIntegerHasARow
<1>6. \A i \in 0 .. c - 1 :
        RefBit(i, j, n, c, w) <=> \E x \in P[i] .. P[i + 1] - 1 : x % n = j
  BY DEF RefBit
<1>7. IsFiniteSet(X) /\ Cardinality(X) = PredictedOccupancy(j, n, P[c])
  <2> DEFINE total == P[c]
  <2>1. total \in Nat BY <1>3
  <2> HIDE DEF total
  <2>2. /\ IsFiniteSet({x \in 0 .. total - 1 : x % n = j})
        /\ Cardinality({x \in 0 .. total - 1 : x % n = j})
             = PredictedOccupancy(j, n, total)
    BY <2>1, ResidueCount
  <2> QED BY <2>2 DEF total
<1> HIDE DEF P
<1>8. ASSUME NEW i \in 0 .. c - 1
      PROVE  /\ P[i] \in Nat /\ P[i + 1] \in Nat /\ P[i + 1] = P[i] + w[i]
             /\ P[i + 1] <= P[c]
  <2>1. i \in 0 .. c /\ i + 1 \in 1 .. c /\ (i + 1) - 1 = i /\ i + 1 \in 0 .. c
    OBVIOUS
  <2>2. c \in 0 .. c OBVIOUS
  <2> QED BY <1>2, <1>3, <1>4, <2>1, <2>2
<1>9. ASSUME NEW x \in X
      PROVE  f[x] \in 0 .. c - 1 /\ x \in P[f[x]] .. P[f[x] + 1] - 1
  <2>1. x \in 0 .. P[c] - 1 OBVIOUS
  <2>2. \E i \in 0 .. c - 1 : x \in P[i] .. P[i + 1] - 1 BY <1>5, <2>1
  <2> DEFINE g == CHOOSE i \in 0 .. c - 1 : x \in P[i] .. P[i + 1] - 1
  <2>3. g \in 0 .. c - 1 /\ x \in P[g] .. P[g + 1] - 1 BY <2>2
  <2>4. f[x] = g OBVIOUS
  <2> HIDE DEF f, g
  <2> QED BY <2>3, <2>4
<1>10. DOMAIN f = X OBVIOUS
<1>11. f = [x \in X |-> f[x]] OBVIOUS
<1> HIDE DEF f
<1>12. f \in [X -> I]
  <2>1. ASSUME NEW x \in X PROVE f[x] \in I
    <3>1. x % n = j OBVIOUS
    <3> QED BY <1>6, <1>9, <3>1
  <2> HIDE DEF X, I
  <2> QED BY <1>10, <1>11, <2>1
\* An interval of at most n integers holds a residue once.
<1>13. ASSUME NEW x \in X, NEW y \in X, f[x] = f[y] PROVE x = y
  <2> DEFINE i == f[x]
  <2>1. /\ i \in 0 .. c - 1 /\ x \in P[i] .. P[i + 1] - 1
        /\ y \in P[i] .. P[i + 1] - 1
    BY <1>9, <1>13
  <2> HIDE DEF i
  <2>2. /\ P[i] \in Nat /\ P[i + 1] \in Nat /\ P[i + 1] = P[i] + w[i]
        /\ w[i] \in 0 .. n
    BY <1>8, <2>1
  <2>3. x \in Int /\ y \in Int /\ x - y < n /\ y - x < n BY <2>1, <2>2
  <2>4. x % n = y % n OBVIOUS
  <2> HIDE DEF X
  <2>5. ~(x < y)
    <3>1. SUFFICES ASSUME x < y PROVE FALSE OBVIOUS
    <3>2. y - x >= n BY <2>3, <2>4, <3>1, ResiduesAreApart
    <3> QED BY <2>3, <3>2
  <2>6. ~(y < x)
    <3>1. SUFFICES ASSUME y < x PROVE FALSE OBVIOUS
    <3>2. y % n = x % n BY <2>4
    <3>3. x - y >= n BY <2>3, <3>1, <3>2, ResiduesAreApart
    <3> QED BY <2>3, <3>3
  <2> QED BY <2>3, <2>5, <2>6
\* The intervals of two rows do not meet.
<1>14. ASSUME NEW i \in 0 .. c - 1, NEW k \in 0 .. c - 1, i < k, NEW x,
              x \in P[i] .. P[i + 1] - 1
       PROVE  ~(x \in P[k] .. P[k + 1] - 1)
  <2>1. i + 1 \in 0 .. k /\ k \in 0 .. c BY <1>14
  <2>2. P[i + 1] <= P[k] BY <1>4, <2>1
  <2>3. P[i + 1] \in Nat /\ P[k] \in Nat /\ P[i] \in Nat /\ P[k + 1] \in Nat BY <1>8
  <2> QED BY <1>14, <2>2, <2>3
<1>15. ASSUME NEW i \in I PROVE \E x \in X : f[x] = i
  <2>1. i \in 0 .. c - 1 /\ RefBit(i, j, n, c, w) OBVIOUS
  <2>2. PICK x \in P[i] .. P[i + 1] - 1 : x % n = j BY <1>6, <2>1
  <2>3. x \in 0 .. P[c] - 1 BY <1>3, <1>8, <2>1
  <2>4. x \in X BY <2>2, <2>3
  <2>5. f[x] \in 0 .. c - 1 /\ x \in P[f[x]] .. P[f[x] + 1] - 1 BY <1>9, <2>4
  <2>6. ~(i < f[x]) /\ ~(f[x] < i) BY <1>14, <2>1, <2>5
  <2> QED BY <2>1, <2>4, <2>5, <2>6
<1> HIDE DEF X, I
<1>16. Cardinality(I) = Cardinality(X)
  <2>1. \A x, y \in X : f[x] = f[y] => x = y BY <1>13
  <2>2. \A i \in I : \E x \in X : f[x] = i BY <1>15
  <2> QED BY <1>7, <1>12, <2>1, <2>2, CountByMap
<1> QED BY <1>7, <1>16 DEF I, P

-----------------------------------------------------------------------------
(* The contract of the stream.                                             *)

\* Weights are natural numbers, one for each row taken.
LEMMA WeightsAreNatural ==
  ASSUME accepted \in Seq(Val)
  PROVE  /\ Len(accepted) \in Nat
         /\ \A i \in 0 .. Len(accepted) - 1 : Weights[i] = accepted[i + 1]
         /\ \A i \in 0 .. Len(accepted) - 1 : Weights[i] \in Val /\ Weights[i] \in Nat
<1>1. Len(accepted) \in Nat OBVIOUS
<1>2. \A i \in 0 .. Len(accepted) - 1 : Weights[i] = accepted[i + 1]
  BY DEF Weights
<1>3. \A i \in 0 .. Len(accepted) - 1 : accepted[i + 1] \in Val
  <2> TAKE i \in 0 .. Len(accepted) - 1
  <2>1. i + 1 \in 1 .. Len(accepted) BY <1>1
  <2> QED BY <2>1, ElementOfSeq
<1>4. Val \subseteq Nat BY ValRangeAssumption DEF Val
<1> QED BY <1>1, <1>2, <1>3, <1>4

\* A weight more does not change the offsets of the rows before it, and the next
\* offset is one step of the Core.
LEMMA ReferenceGrows ==
  ASSUME accepted \in Seq(Val), NEW weight \in Val, NEW L, L = Len(accepted),
         accepted' = Append(accepted, weight), n_q' = n_q
  PROVE  /\ \A k \in 0 .. L : Reference(k)' = Reference(k)
         /\ n_q \in Val \ {0} /\ weight <= n_q =>
              Reference(L + 1)' = NextOffset(Reference(L), weight, n_q)
<1> DEFINE w == Weights
           v == Weights'
<1>1. /\ accepted' \in Seq(Val) /\ Len(accepted') = L + 1 /\ L \in Nat
      /\ \A i \in 1 .. L : accepted'[i] = accepted[i]
      /\ accepted'[L + 1] = weight
  BY AppendProperties
<1>2. \A i \in 0 .. L - 1 : v[i] = w[i]
  <2> TAKE i \in 0 .. L - 1
  <2>1. i + 1 \in 1 .. L /\ i \in 0 .. (L + 1) - 1 BY <1>1
  <2>2. v[i] = accepted'[i + 1] BY <1>1, <2>1 DEF Weights
  <2>3. w[i] = accepted[i + 1] BY DEF Weights
  <2> QED BY <1>1, <2>1, <2>2, <2>3
<1>3. v[L] = weight
  <2>1. L \in 0 .. (L + 1) - 1 BY <1>1
  <2> QED BY <1>1, <2>1 DEF Weights
<1>4. \A i \in 0 .. L - 1 : w[i] \in Nat
  BY WeightsAreNatural
<1>5. weight \in Nat BY ValRangeAssumption DEF Val
<1>6. \A i \in 0 .. (L + 1) - 1 : v[i] \in Nat
  BY <1>1, <1>2, <1>3, <1>4, <1>5
<1>7. \A k : Reference(k)' = PrefixSum(L + 1, v)[k] % n_q
  BY <1>1 DEF Reference, RefOffset
<1>8. \A k : Reference(k) = PrefixSum(L, w)[k] % n_q
  BY DEF Reference, RefOffset
<1> HIDE DEF w, v
<1>9. \A k \in 0 .. L : PrefixSum(L + 1, v)[k] = PrefixSum(L, w)[k]
  <2> SUFFICES ASSUME NEW k \in 0 .. L
               PROVE  PrefixSum(L + 1, v)[k] = PrefixSum(L, w)[k]
    OBVIOUS
  <2> DEFINE d == L + 1
  <2>1. k \in Nat /\ k <= L /\ L \in Nat BY <1>1
  <2>2. d \in Nat /\ k <= d BY <1>1
  <2>3. \A i \in 0 .. k - 1 : v[i] = w[i] BY <1>1, <1>2
  <2> HIDE DEF d
  <2>4. PrefixSum(d, v)[k] = PrefixSum(L, w)[k]
    BY <2>1, <2>2, <2>3, PrefixSumAgrees
  <2> QED BY <2>4 DEF d
<1>10. \A k \in 0 .. L : Reference(k)' = Reference(k)
  BY <1>7, <1>8, <1>9
<1>11. ASSUME n_q \in Val \ {0}, weight <= n_q
       PROVE  Reference(L + 1)' = NextOffset(Reference(L), weight, n_q)
  <2> DEFINE a == PrefixSum(L, w)[L]
  <2>1. a \in Nat
    <3>1. L \in 0 .. L BY <1>1
    <3> QED BY <1>1, <1>4, <3>1, PrefixSumNat
  <2>2. PrefixSum(L + 1, v)[L + 1] = a + weight
    <3>1. L + 1 \in Nat /\ L + 1 \in 1 .. L + 1 /\ (L + 1) - 1 = L /\ L \in 0 .. L
      BY <1>1
    <3>2. PrefixSum(L + 1, v)[L + 1] = PrefixSum(L + 1, v)[(L + 1) - 1] + v[(L + 1) - 1]
      BY <3>1, PrefixSumEquation
    <3> QED BY <1>3, <1>9, <3>1, <3>2
  <2>3. Reference(L + 1)' = (a + weight) % n_q BY <1>7, <2>2
  <2>4. Reference(L) = a % n_q BY <1>8
  <2>5. n_q \in Nat \ {0} /\ n_q < ValRange /\ weight \in 0 .. n_q
    BY <1>5, <1>11, ValRangeAssumption DEF Val
  <2> HIDE DEF a
  <2>6. NextOffset(a % n_q, weight, n_q) = (a + weight) % n_q
    BY <2>1, <2>5, NextOffsetIsModular
  <2> QED BY <2>3, <2>4, <2>6
<1> QED BY <1>10, <1>11

(* The Core after reset keeps StreamInv.                                   *)
LEMMA StreamInit == Init => StreamInv
<1> SUFFICES ASSUME Init PROVE StreamInv OBVIOUS
<1>1. 0 \in Val /\ 0 \in Idx /\ MaxRows \in Nat /\ MaxRows >= 0
  BY ValRangeAssumption, IdxRangeAssumption, MaxRowsAssumption DEF Val, Idx
<1>2. accepted = <<>> /\ emitted = <<>> /\ Len(accepted) = 0 /\ Len(emitted) = 0
      /\ accepted \in Seq(Val) /\ emitted \in Seq(Val)
  BY DEF Init
<1>3. DOMAIN Weights = {} /\ DOMAIN Offsets = {}
  BY <1>2 DEF Weights, Offsets
<1>4. /\ state = "IDLE" /\ offset_q = 0 /\ row_q = 0 /\ n_q = 0 /\ c_q = 0
      /\ offset_out = 0 /\ offset_valid = FALSE
  BY DEF Init, CoreInit
<1>5. TypeOK BY <1>1, <1>2, <1>4 DEF TypeOK, CoreTypeOK
<1>6. OffsetsArePrefixSums BY <1>2, <1>3, <1>4 DEF OffsetsArePrefixSums
<1> QED BY <1>1, <1>2, <1>3, <1>4, <1>5, <1>6 DEF StreamInv

\* The consumer takes the offset on the bus, so that it holds the offsets of all
\* the weights taken before this clock.
LEMMA ConsumeKeeps ==
  ASSUME StreamInv, Consume
  PROVE  /\ emitted' \in Seq(Val) /\ Len(emitted') = Len(accepted)
         /\ Len(accepted) \in Nat
         /\ \A k \in 0 .. Len(accepted) - 1 : emitted'[k + 1] = Reference(k)
<1>1. /\ emitted \in Seq(Val) /\ accepted \in Seq(Val) /\ offset_out \in Val
      /\ Len(emitted) \in Nat /\ Len(accepted) \in Nat /\ offset_valid \in BOOLEAN
  BY DEF StreamInv, TypeOK, CoreTypeOK
<1>2. Len(accepted) = Len(emitted) + (IF offset_valid THEN 1 ELSE 0)
  BY DEF StreamInv, OffsetsArePrefixSums
<1>3. \A k \in 0 .. Len(emitted) - 1 : emitted[k + 1] = Reference(k)
  BY DEF StreamInv, OffsetsArePrefixSums, Offsets, Reference
<1>4. CASE ~offset_valid
  <2>1. emitted' = emitted BY <1>4 DEF Consume
  <2> QED BY <1>1, <1>2, <1>3, <1>4, <2>1
<1>5. CASE offset_valid
  <2>1. emitted' = Append(emitted, offset_out) BY <1>5 DEF Consume
  <2>2. /\ emitted' \in Seq(Val) /\ Len(emitted') = Len(emitted) + 1
        /\ \A i \in 1 .. Len(emitted) : emitted'[i] = emitted[i]
        /\ emitted'[Len(emitted) + 1] = offset_out
    BY <1>1, <2>1, AppendProperties
  <2>3. Len(accepted) = Len(emitted) + 1 BY <1>2, <1>5
  <2>4. offset_out = Reference(Len(accepted) - 1) BY <1>5 DEF StreamInv
  <2>5. ASSUME NEW k \in 0 .. Len(accepted) - 1
        PROVE  emitted'[k + 1] = Reference(k)
    <3>1. CASE k = Len(emitted)
      <4>1. k = Len(accepted) - 1 BY <1>1, <2>3, <3>1
      <4> QED BY <2>2, <2>4, <3>1, <4>1
    <3>2. CASE k # Len(emitted)
      <4>1. k \in 0 .. Len(emitted) - 1 /\ k + 1 \in 1 .. Len(emitted)
        BY <1>1, <2>3, <3>2
      <4> QED BY <1>3, <2>2, <4>1
    <3> QED BY <3>1, <3>2
  <2> QED BY <1>1, <2>2, <2>3, <2>5
<1> QED BY <1>1, <1>4, <1>5

\* A clock that takes no weight moves no reference.
LEMMA ReferenceKeeps ==
  ASSUME accepted' = accepted, n_q' = n_q
  PROVE  Weights' = Weights /\ \A k : Reference(k)' = Reference(k)
<1>1. Weights' = Weights BY DEF Weights
<1>2. \A k : Reference(k)' = Reference(k)
  BY <1>1 DEF Reference
<1> QED BY <1>1, <1>2

(* Offsets that are the references of their rows keep the contract.        *)
LEMMA EmittedOffsets ==
  ASSUME NEW L \in Nat, Len(emitted') = L,
         \A k \in 0 .. L - 1 : emitted'[k + 1] = Reference(k)',
         Len(accepted') = L + (IF offset_valid' THEN 1 ELSE 0)
  PROVE  OffsetsArePrefixSums'
<1>1. \A k \in (DOMAIN Offsets)' : Offsets'[k] = Reference(k)'
  BY DEF Offsets
<1>2. \A k \in (DOMAIN Offsets)' :
        Offsets'[k] = RefOffset(k, n_q', Len(accepted'), Weights')
  BY <1>1 DEF Reference
<1> QED BY <1>2 DEF OffsetsArePrefixSums

(* The types that the steps need, from StreamInv.                          *)
LEMMA StreamTypes ==
  ASSUME StreamInv
  PROVE  /\ state \in {"IDLE", "RUN", "DONE"} /\ offset_valid \in BOOLEAN
         /\ offset_q \in Val /\ n_q \in Val /\ offset_out \in Val
         /\ row_q \in Idx /\ c_q \in Idx /\ c_q <= MaxRows
         /\ accepted \in Seq(Val) /\ emitted \in Seq(Val)
         /\ Len(accepted) \in Nat /\ Len(accepted) <= MaxRows
         /\ Len(emitted) \in Nat /\ Len(emitted) <= MaxRows
         /\ DOMAIN Weights = 0 .. Len(accepted) - 1
         /\ Val \subseteq Nat /\ Idx \subseteq Nat /\ 0 \in Val /\ 0 \in Idx
         /\ MaxRows \in Nat
<1>1. /\ Val \subseteq Nat /\ Idx \subseteq Nat /\ 0 \in Val /\ 0 \in Idx
      /\ MaxRows \in Nat
  BY ValRangeAssumption, IdxRangeAssumption, MaxRowsAssumption DEF Val, Idx
<1>2. TypeOK /\ c_q <= MaxRows BY DEF StreamInv
<1>3. accepted \in Seq(Val) /\ emitted \in Seq(Val) BY <1>2 DEF TypeOK
<1>4. Len(accepted) \in Nat /\ Len(emitted) \in Nat BY <1>3
<1>5. DOMAIN Weights = 0 .. Len(accepted) - 1 BY DEF Weights
<1> QED BY <1>1, <1>2, <1>3, <1>4, <1>5 DEF TypeOK, CoreTypeOK

(* A begin keeps StreamInv.                                                *)
LEMMA BeginStep ==
  ASSUME StreamInv, Begin
  PROVE  StreamInv'
<1>1. PICK n \in Val \ {0}, c \in 0 .. MaxRows : Edge(TRUE, n, c, FALSE, 0)
  BY DEF Begin
<1>2. StartCore(n, c)
  BY <1>1 DEF Begin, Edge, Finish, Retire, Gap, Accept, WaitStart
<1>3. /\ state' = "RUN" /\ n_q' = n /\ c_q' = c /\ offset_q' = 0 /\ row_q' = 0
      /\ offset_valid' = FALSE /\ offset_out' = offset_out
  BY <1>2 DEF StartCore
<1>4. /\ accepted' = <<>> /\ emitted' = <<>>
      /\ Len(accepted') = 0 /\ Len(emitted') = 0
      /\ accepted' \in Seq(Val) /\ emitted' \in Seq(Val)
  BY DEF Begin
<1>5. (DOMAIN Weights)' = {} /\ (DOMAIN Offsets)' = {}
  BY <1>4 DEF Weights, Offsets
<1>6. offset_out \in Val /\ 0 \in Val /\ 0 \in Idx /\ MaxRows \in Nat /\ Val \subseteq Nat
  BY StreamTypes
<1>7. c \in Idx /\ c <= MaxRows /\ c \in Nat
  BY MaxRowsAssumption, IdxRangeAssumption DEF Idx
<1>8. TypeOK'
  <2>1. CoreTypeOK' BY <1>3, <1>6, <1>7 DEF CoreTypeOK
  <2>2. Len(accepted') <= MaxRows /\ Len(emitted') <= MaxRows BY <1>4, <1>6
  <2> QED BY <1>4, <2>1, <2>2 DEF TypeOK
<1>9. OffsetsArePrefixSums'
  BY <1>3, <1>4, <1>5 DEF OffsetsArePrefixSums
<1>10. Reference(0)' = 0
  <2>1. Reference(0)' = PrefixSum(0, Weights')[0] % n
    BY <1>3, <1>4 DEF Reference, RefOffset
  <2>2. PrefixSum(0, Weights')[0] = 0
    <3> DEFINE v == Weights'
    <3> HIDE DEF v
    <3>1. PrefixSum(0, v)[0] = 0 BY PrefixSumEquation
    <3> QED BY <3>1 DEF v
  <2>3. n \in Nat \ {0} BY <1>6
  <2>4. 0 % n = 0 BY <2>3
  <2> QED BY <2>1, <2>2, <2>4
<1>11. n_q' # 0 => offset_q' = Reference(Len(accepted))'
  BY <1>3, <1>4, <1>10
<1> QED BY <1>3, <1>4, <1>5, <1>7, <1>8, <1>9, <1>11 DEF StreamInv

(* So does a weight.                                                       *)
LEMMA FeedStep ==
  ASSUME StreamInv, Feed
  PROVE  StreamInv'
<1> SUFFICES ASSUME NEW L, L = Len(accepted) PROVE StreamInv' OBVIOUS
<1>1. PICK weight \in 0 .. n_q :
        Edge(FALSE, 0, 0, TRUE, weight) /\ accepted' = Append(accepted, weight)
  BY DEF Feed
<1>2. state = "RUN" /\ rows_left /\ Consume BY DEF Feed, busy
<1>3. Accept(weight)
  BY <1>1, <1>2 DEF Edge, StartCore, WaitStart, Gap, Finish, Retire
<1>4. /\ offset_out' = offset_q /\ offset_valid' = TRUE
      /\ offset_q' = NextOffset(offset_q, weight, n_q) /\ row_q' = row_q + 1
      /\ state' = "RUN" /\ n_q' = n_q /\ c_q' = c_q
  BY <1>2, <1>3 DEF Accept
<1>5. /\ offset_q \in Val /\ n_q \in Val /\ row_q \in Nat /\ c_q \in Idx
      /\ c_q <= MaxRows /\ accepted \in Seq(Val) /\ L \in Nat
      /\ Val \subseteq Nat /\ Idx \subseteq Nat /\ MaxRows \in Nat
      /\ DOMAIN Weights = 0 .. L - 1
  BY StreamTypes
<1>6. n_q # 0 /\ row_q = L /\ row_q <= c_q /\ row_q # c_q
  BY <1>2 DEF StreamInv, rows_left
<1>7. weight \in Val /\ weight <= n_q
  BY <1>1, <1>5, ValRangeAssumption DEF Val
<1>8. /\ accepted' \in Seq(Val) /\ Len(accepted') = L + 1
      /\ \A i \in 1 .. L : accepted'[i] = accepted[i]
      /\ accepted'[L + 1] = weight
  BY <1>1, <1>5, <1>7, AppendProperties
<1>9. /\ row_q' <= c_q' /\ row_q' = Len(accepted') /\ row_q' \in Idx
      /\ L + 1 <= MaxRows /\ L <= MaxRows
  BY <1>4, <1>5, <1>6, <1>8, IdxRangeAssumption DEF Idx
<1>10. /\ emitted' \in Seq(Val) /\ Len(emitted') = L
       /\ \A k \in 0 .. L - 1 : emitted'[k + 1] = Reference(k)
  BY <1>2, ConsumeKeeps
<1>11. offset_q = Reference(L) BY <1>6 DEF StreamInv
<1>12. \A i \in DOMAIN Weights : Weights[i] <= n_q BY DEF StreamInv
<1>13. /\ \A k \in 0 .. L : Reference(k)' = Reference(k)
       /\ Reference(L + 1)' = NextOffset(Reference(L), weight, n_q)
  <2>1. n_q \in Val \ {0} BY <1>5, <1>6
  <2> QED BY <1>1, <1>4, <1>5, <1>7, <2>1, ReferenceGrows
<1>14. TypeOK'
  <2>1. offset_q' \in Val BY <1>4, <1>5, <1>7, NextOffsetType
  <2> QED BY <1>4, <1>5, <1>8, <1>9, <1>10, <2>1 DEF TypeOK, CoreTypeOK
<1>15. OffsetsArePrefixSums'
  <2>1. \A k \in 0 .. L - 1 : emitted'[k + 1] = Reference(k)'
    BY <1>5, <1>10, <1>13
  <2>2. Len(accepted') = L + (IF offset_valid' THEN 1 ELSE 0)
    BY <1>4, <1>8
  <2> QED BY <1>5, <1>10, <2>1, <2>2, EmittedOffsets
<1>16. \A i \in (DOMAIN Weights)' : Weights'[i] <= n_q'
  <2>1. \A i \in 0 .. (L + 1) - 1 : Weights'[i] = accepted'[i + 1]
    BY <1>8 DEF Weights
  <2>2. (DOMAIN Weights)' = 0 .. (L + 1) - 1 BY <1>8 DEF Weights
  <2>3. \A i \in 0 .. L - 1 : Weights[i] = accepted[i + 1]
    BY DEF Weights
  <2>4. ASSUME NEW i \in 0 .. (L + 1) - 1 PROVE Weights'[i] <= n_q
    <3>1. CASE i = L BY <1>7, <1>8, <2>1, <2>4, <3>1
    <3>2. CASE i # L
      <4>1. i \in 0 .. L - 1 /\ i + 1 \in 1 .. L BY <1>5, <3>2
      <4>2. accepted'[i + 1] = accepted[i + 1] BY <1>8, <4>1
      <4>3. Weights'[i] = Weights[i] BY <2>1, <2>3, <4>1, <4>2
      <4> QED BY <1>5, <1>12, <4>1, <4>3
    <3> QED BY <3>1, <3>2
  <2> QED BY <1>4, <2>2, <2>4
<1>17. /\ offset_q' = Reference(Len(accepted))'
       /\ offset_out' = Reference(Len(accepted) - 1)'
  <2>1. Reference(L)' = Reference(L) /\ (L + 1) - 1 = L BY <1>5, <1>13
  <2>2. Reference(Len(accepted))' = Reference(L + 1)' BY <1>8 DEF Reference
  <2>3. Reference(Len(accepted) - 1)' = Reference(L)'
    BY <1>8, <2>1 DEF Reference
  <2> QED BY <1>4, <1>11, <1>13, <2>1, <2>2, <2>3
<1> QED
  BY <1>4, <1>5, <1>6, <1>9, <1>14, <1>15, <1>16, <1>17 DEF StreamInv

(* So does a clock without one.                                            *)
LEMMA IdleStep ==
  ASSUME StreamInv, Idle
  PROVE  StreamInv'
<1> DEFINE L == Len(accepted)
<1>1. Consume /\ accepted' = accepted BY DEF Idle
<1>2. WaitStart \/ Gap \/ Finish \/ Retire BY DEF Idle, Edge
<1>3. /\ offset_q' = offset_q /\ row_q' = row_q /\ n_q' = n_q /\ c_q' = c_q
      /\ offset_out' = offset_out /\ offset_valid' = FALSE
  BY <1>2 DEF WaitStart, Gap, Finish, Retire
<1>4. /\ state' \in {"IDLE", "RUN", "DONE"}
      /\ state' # "IDLE" => state # "IDLE"
      /\ state' = "DONE" => row_q = c_q
  BY <1>2 DEF WaitStart, Gap, Finish, Retire, rows_left
<1>5. /\ offset_q \in Val /\ n_q \in Val /\ offset_out \in Val
      /\ row_q \in Idx /\ c_q \in Idx /\ c_q <= MaxRows
      /\ accepted \in Seq(Val) /\ L \in Nat /\ L <= MaxRows
  BY StreamTypes
<1>6. /\ emitted' \in Seq(Val) /\ Len(emitted') = L
      /\ \A k \in 0 .. L - 1 : emitted'[k + 1] = Reference(k)
  BY <1>1, ConsumeKeeps
<1>7. Weights' = Weights /\ \A k : Reference(k)' = Reference(k)
  BY <1>1, <1>3, ReferenceKeeps
<1>8. Len(accepted') = L BY <1>1
<1>9. TypeOK'
  BY <1>1, <1>3, <1>4, <1>5, <1>6 DEF TypeOK, CoreTypeOK
<1> HIDE DEF L
<1>10. OffsetsArePrefixSums'
  <2>1. Len(accepted') = L + (IF offset_valid' THEN 1 ELSE 0)
    BY <1>3, <1>5, <1>8
  <2>2. \A k \in 0 .. L - 1 : emitted'[k + 1] = Reference(k)'
    BY <1>6, <1>7
  <2> QED BY <1>5, <1>6, <2>1, <2>2, EmittedOffsets
<1>11. \A i \in (DOMAIN Weights)' : Weights'[i] <= n_q'
  BY <1>3, <1>7 DEF StreamInv
<1>12. Reference(Len(accepted))' = Reference(Len(accepted))
  BY <1>1, <1>3, <1>7 DEF Reference
<1>13. n_q' # 0 => offset_q' = Reference(Len(accepted))'
  BY <1>3, <1>12 DEF StreamInv
<1>14. state # "IDLE" => n_q # 0 /\ row_q = Len(accepted) /\ row_q <= c_q
  BY DEF StreamInv
<1> QED
  BY <1>1, <1>3, <1>4, <1>5, <1>9, <1>10, <1>11, <1>13, <1>14 DEF StreamInv

(* So does reset.                                                          *)
LEMMA StreamReset ==
  ASSUME ResetAll
  PROVE  StreamInv'
<1>1. 0 \in Val /\ 0 \in Idx /\ MaxRows \in Nat /\ MaxRows >= 0
  BY ValRangeAssumption, IdxRangeAssumption, MaxRowsAssumption DEF Val, Idx
<1>2. /\ accepted' = <<>> /\ emitted' = <<>>
      /\ Len(accepted') = 0 /\ Len(emitted') = 0
      /\ accepted' \in Seq(Val) /\ emitted' \in Seq(Val)
  BY DEF ResetAll
<1>3. (DOMAIN Weights)' = {} /\ (DOMAIN Offsets)' = {}
  BY <1>2 DEF Weights, Offsets
<1>4. /\ state' = "IDLE" /\ offset_q' = 0 /\ row_q' = 0 /\ n_q' = 0 /\ c_q' = 0
      /\ offset_out' = 0 /\ offset_valid' = FALSE
  BY DEF ResetAll, ResetCore
<1>5. TypeOK' BY <1>1, <1>2, <1>4 DEF TypeOK, CoreTypeOK
<1>6. OffsetsArePrefixSums' BY <1>2, <1>3, <1>4 DEF OffsetsArePrefixSums
<1> QED BY <1>1, <1>2, <1>3, <1>4, <1>5, <1>6 DEF StreamInv

(* And so does every step.                                                 *)
LEMMA StreamStep == StreamInv /\ [Next]_vars => StreamInv'
<1> SUFFICES ASSUME StreamInv, [Next]_vars PROVE StreamInv' OBVIOUS
<1>1. CASE Begin BY <1>1, BeginStep
<1>2. CASE Feed BY <1>2, FeedStep
<1>3. CASE Idle BY <1>3, IdleStep
<1>4. CASE ResetAll BY <1>4, StreamReset
<1>5. CASE UNCHANGED vars
  <2>1. /\ state' = state /\ offset_q' = offset_q /\ row_q' = row_q /\ n_q' = n_q
        /\ c_q' = c_q /\ offset_out' = offset_out /\ offset_valid' = offset_valid
        /\ accepted' = accepted /\ emitted' = emitted
    BY <1>5 DEF vars, coreVars
  <2>2. Weights' = Weights /\ Offsets' = Offsets
    BY <2>1 DEF Weights, Offsets
  <2>3. \A k : Reference(k)' = Reference(k)
    BY <2>1, ReferenceKeeps
  <2>4. /\ Reference(Len(accepted))' = Reference(Len(accepted))
        /\ Reference(Len(accepted) - 1)' = Reference(Len(accepted) - 1)
    BY <2>1, <2>2 DEF Reference
  <2>5. TypeOK' BY <2>1 DEF StreamInv, TypeOK, CoreTypeOK
  <2>6. OffsetsArePrefixSums'
    BY <2>1, <2>2 DEF StreamInv, OffsetsArePrefixSums
  <2> QED BY <2>1, <2>2, <2>4, <2>5, <2>6 DEF StreamInv
<1> QED BY <1>1, <1>2, <1>3, <1>4, <1>5 DEF Next

\* The register that holds the next offset is a residue.
LEMMA StreamGivesContract == StreamInv => StreamContract
<1> SUFFICES ASSUME StreamInv PROVE StreamContract OBVIOUS
<1>1. TypeOK /\ OffsetsArePrefixSums BY DEF StreamInv
<1>2. OffsetBelowN
  <2> SUFFICES ASSUME state = "RUN" PROVE offset_q < n_q BY DEF OffsetBelowN
  <2> DEFINE L == Len(accepted)
             p == PrefixSum(L, Weights)[L]
  <2>1. n_q \in Nat \ {0} /\ accepted \in Seq(Val) /\ L \in Nat
    BY StreamTypes DEF StreamInv
  <2>2. offset_q = p % n_q BY <2>1 DEF StreamInv, Reference, RefOffset
  <2>3. p \in Nat
    <3>1. \A i \in 0 .. L - 1 : Weights[i] \in Nat BY <2>1, WeightsAreNatural
    <3> DEFINE w == Weights
    <3>2. \A i \in 0 .. L - 1 : w[i] \in Nat BY <3>1
    <3>3. L \in 0 .. L BY <2>1
    <3> HIDE DEF w, L
    <3>4. PrefixSum(L, w)[L] \in Nat BY <2>1, <3>2, <3>3, PrefixSumNat
    <3> QED BY <3>4 DEF w
  <2> HIDE DEF p
  <2>4. p % n_q \in 0 .. n_q - 1
    <3>1. p \in Int BY <2>3
    <3> QED BY <2>1, <3>1, DivMod
  <2> QED BY <2>1, <2>2, <2>4
<1>3. DoneAfterLastOffset
  <2> SUFFICES ASSUME state = "DONE"
               PROVE  Len(accepted) = c_q /\ Len(emitted) = c_q /\ ~offset_valid
    BY DEF DoneAfterLastOffset, done
  <2>1. Len(accepted) = c_q /\ ~offset_valid BY DEF StreamInv
  <2>2. Len(accepted) = Len(emitted) + 0 BY <1>1, <2>1 DEF OffsetsArePrefixSums
  <2>3. Len(emitted) \in Nat BY StreamTypes
  <2> QED BY <2>1, <2>2, <2>3
<1> QED BY <1>1, <1>2, <1>3 DEF StreamContract

\* The strengthened contract holds in every reachable state of the Core behind
\* its stream: offset_q and the offset on the bus are the reference's.
LEMMA StreamInductive == Spec => []StreamInv
<1> QED BY StreamInit, StreamStep, PTL DEF Spec

\* bcmc_core under its Prefix Stream Interface, for every VAL_W, every IDX_W,
\* every C within them and any gaps between the weights: the offsets emitted are
\* the prefix sums modulo N of the weights accepted, one per weight, each below N
\* while the Core runs, and done comes after the last of them.
THEOREM StreamKeepsItsContract == Spec => []StreamContract
<1> QED BY StreamInductive, StreamGivesContract, PTL

-----------------------------------------------------------------------------
(* What the evaluators make of a finished run.                             *)

\* Legal weights and the offsets that the reference gives them.
IsRun(n, c, w, o) ==
  /\ n \in Nat \ {0} /\ n < ValRange /\ c \in Nat
  /\ \A k \in 0 .. c - 1 : w[k] \in 0 .. n
  /\ \A k \in 0 .. c - 1 : o[k] = RefOffset(k, n, c, w)

\* Both evaluators compute the bits of the characteristic definition.
LEMMA EvaluatorsAgree ==
  ASSUME NEW n, NEW c, NEW w, NEW o, IsRun(n, c, w, o),
         NEW i \in 0 .. c - 1, NEW j \in 0 .. n - 1
  PROVE  /\ ColumnBit(i, j, n, c, w, o) = RefBit(i, j, n, c, w)
         /\ RowBit(w[i], o[i], j, n) = ColumnBit(i, j, n, c, w, o)
         /\ ColumnBit(i, j, n, c, w, o) = CellBit(w[i], o[i], j, n)
<1> USE DEF IsRun
<1>1. ColumnBit(i, j, n, c, w, o) <=> RefBit(i, j, n, c, w)
  <2>1. \A k \in 0 .. c - 1 : w[k] \in Nat OBVIOUS
  <2> QED BY <2>1, EvaluatorIsReference
<1>2. ColumnBit(i, j, n, c, w, o) = CellBit(w[i], o[i], j, n)
  BY DEF ColumnBit
<1>3. RowBit(w[i], o[i], j, n) = CellBit(w[i], o[i], j, n)
  BY DEF RowBit
<1>4. ColumnBit(i, j, n, c, w, o) \in BOOLEAN BY DEF ColumnBit, CellBit
<1>5. RefBit(i, j, n, c, w) \in BOOLEAN BY DEF RefBit
<1> QED BY <1>1, <1>2, <1>3, <1>4, <1>5

\* Row conservation, of the bits of the column evaluator.
LEMMA RowsAreConserved ==
  ASSUME NEW n, NEW c, NEW w, NEW o, IsRun(n, c, w, o),
         NEW i \in 0 .. c - 1
  PROVE  Cardinality({j \in 0 .. n - 1 : ColumnBit(i, j, n, c, w, o)}) = w[i]
<1> USE DEF IsRun
<1> DEFINE P == PrefixSum(c, w)
<1>1. o[i] \in 0 .. n - 1
  <2>1. \A k \in 0 .. c - 1 : w[k] \in Nat OBVIOUS
  <2>2. i \in 0 .. c OBVIOUS
  <2>3. P[i] \in Nat BY <2>1, <2>2, PrefixSumNat
  <2>4. P[i] % n \in 0 .. n - 1
    <3> HIDE DEF P
    <3>1. P[i] \in Int BY <2>3
    <3> QED BY <3>1, DivMod
  <2> QED BY <2>4 DEF RefOffset
<1>2. {j \in 0 .. n - 1 : ColumnBit(i, j, n, c, w, o)}
        = {j \in 0 .. n - 1 : CellBit(w[i], o[i], j, n)}
  BY DEF ColumnBit
<1>3. w[i] \in 0 .. n OBVIOUS
<1>4. Cardinality({j \in 0 .. n - 1 : CellBit(w[i], o[i], j, n)}) = w[i]
  BY <1>1, <1>3, RowCount
<1> QED BY <1>2, <1>4

\* The Balance Theorem, of the bits of the column evaluator.
LEMMA ColumnsAreBalanced ==
  ASSUME NEW n, NEW c, NEW w, NEW o, IsRun(n, c, w, o),
         NEW j \in 0 .. n - 1
  PROVE  Cardinality({i \in 0 .. c - 1 : ColumnBit(i, j, n, c, w, o)})
           = PredictedOccupancy(j, n, PrefixSum(c, w)[c])
<1> USE DEF IsRun
<1>1. {i \in 0 .. c - 1 : ColumnBit(i, j, n, c, w, o)}
        = {i \in 0 .. c - 1 : RefBit(i, j, n, c, w)}
  <2>1. \A i \in 0 .. c - 1 :
          ColumnBit(i, j, n, c, w, o) = RefBit(i, j, n, c, w)
    <3> HIDE DEF IsRun
    <3> QED BY EvaluatorsAgree
  <2> QED BY <2>1
<1>2. Cardinality({i \in 0 .. c - 1 : RefBit(i, j, n, c, w)})
        = PredictedOccupancy(j, n, PrefixSum(c, w)[c])
  BY BalanceTheorem
<1> QED BY <1>1, <1>2

(* At done the evaluators answer the matrix, which is balanced.            *)
LEMMA FinishedRunIsTheMatrix == StreamInv => EvaluatesTheMatrix
<1> SUFFICES ASSUME StreamInv, done
             PROVE  /\ \A i \in Rows, j \in Columns :
                         /\ Bit(i, j) = RefBit(i, j, n_q, c_q, Weights)
                         /\ RowBit(Weights[i], Offsets[i], j, n_q) = Bit(i, j)
                    /\ Balanced
  BY DEF EvaluatesTheMatrix
<1>1. DoneAfterLastOffset /\ OffsetsArePrefixSums
  BY StreamGivesContract DEF StreamContract
<1>2. Len(accepted) = c_q /\ Len(emitted) = c_q
  BY <1>1 DEF DoneAfterLastOffset
<1>3. n_q \in Nat \ {0} /\ n_q < ValRange /\ c_q \in Nat /\ accepted \in Seq(Val)
  <2>1. n_q \in Val /\ n_q # 0 BY StreamTypes DEF StreamInv, done
  <2>2. c_q \in Nat /\ accepted \in Seq(Val) BY StreamTypes
  <2> QED BY <2>1, <2>2, ValRangeAssumption DEF Val
<1>4. \A i \in 0 .. c_q - 1 : Weights[i] \in 0 .. n_q
  <2>1. \A i \in 0 .. c_q - 1 : Weights[i] \in Nat
    BY <1>2, <1>3, WeightsAreNatural
  <2>2. \A i \in 0 .. c_q - 1 : Weights[i] <= n_q
    <3>1. DOMAIN Weights = 0 .. c_q - 1 BY <1>2 DEF Weights
    <3> QED BY <3>1 DEF StreamInv
  <2> QED BY <1>3, <2>1, <2>2
<1>5. \A i \in 0 .. c_q - 1 : Offsets[i] = RefOffset(i, n_q, c_q, Weights)
  <2>1. DOMAIN Offsets = 0 .. c_q - 1 BY <1>2 DEF Offsets
  <2> QED BY <1>1, <1>2, <2>1 DEF OffsetsArePrefixSums
<1> DEFINE w == Weights
           o == Offsets
<1> HIDE DEF w, o
<1>6. IsRun(n_q, c_q, w, o)
  BY <1>3, <1>4, <1>5 DEF IsRun, w, o
<1>7. ASSUME NEW i \in 0 .. c_q - 1, NEW j \in 0 .. n_q - 1
      PROVE  /\ ColumnBit(i, j, n_q, c_q, w, o) = RefBit(i, j, n_q, c_q, w)
             /\ RowBit(w[i], o[i], j, n_q) = ColumnBit(i, j, n_q, c_q, w, o)
  BY <1>6, EvaluatorsAgree
<1>8. ASSUME NEW i \in 0 .. c_q - 1
      PROVE  Cardinality({j \in 0 .. n_q - 1 : ColumnBit(i, j, n_q, c_q, w, o)}) = w[i]
  BY <1>6, RowsAreConserved
<1>9. ASSUME NEW j \in 0 .. n_q - 1
      PROVE  Cardinality({i \in 0 .. c_q - 1 : ColumnBit(i, j, n_q, c_q, w, o)})
               = PredictedOccupancy(j, n_q, PrefixSum(c_q, w)[c_q])
  BY <1>6, ColumnsAreBalanced
<1>10. Balanced BY <1>8, <1>9 DEF Balanced, Rows, Columns, Bit, w, o
<1>11. \A i \in Rows, j \in Columns :
         /\ Bit(i, j) = RefBit(i, j, n_q, c_q, Weights)
         /\ RowBit(Weights[i], Offsets[i], j, n_q) = Bit(i, j)
  BY <1>7 DEF Rows, Columns, Bit, w, o
<1> QED BY <1>10, <1>11

\* The Core, the column evaluator and the row evaluator together, for every
\* VAL_W, every C and every legal weights: when done is raised, both evaluators
\* answer the matrix of the characteristic definition, row i has exactly w_i ones,
\* and the columns are filled as predicted_occupancy says, the fuller ones first.
THEOREM FinishedRunsAreBalanced == Spec => []EvaluatesTheMatrix
<1> QED BY StreamInductive, FinishedRunIsTheMatrix, PTL

-----------------------------------------------------------------------------
(* The software side: what an order and its derivation take of a stream.   *)

(* The affine formula of a coprime factor is an order of the row (O1).     *)
LEMMA AffineIsAnOrder ==
  ASSUME NEW n \in Nat \ {0}, NEW a \in Nat, NEW b \in Nat, gcd(a, n) = 1
  PROVE  affine_sequence(a, b, n) \in Orders(n)
<1> DEFINE S == 0 .. n - 1
           p == affine_sequence(a, b, n)
           v(t) == (a * t + b) % n
<1>0. \A x \in Nat : /\ x = n * (x \div n) + (x % n)
                     /\ x % n \in S /\ x \div n \in Int
  <2> SUFFICES ASSUME NEW x \in Nat
               PROVE  x = n * (x \div n) + (x % n) /\ x % n \in S /\ x \div n \in Int
    OBVIOUS
  <2>1. x \in Int
    OBVIOUS
  <2> QED BY <2>1, DivMod
<1>1. \A t \in S : a * t + b \in Nat /\ v(t) \in S
  <2> SUFFICES ASSUME NEW t \in S PROVE a * t + b \in Nat /\ v(t) \in S
    OBVIOUS
  <2>1. a * t + b \in Nat
    OBVIOUS
  <2> QED BY <1>0, <2>1
<1>2. p = [t \in S |-> v(t)] /\ p \in [S -> S]
  <2>1. p = [t \in S |-> v(t)]
    BY DEF affine_sequence
  <2> HIDE DEF v, S, p
  <2> QED BY <1>1, <2>1
<1>3. ASSUME NEW i \in S, NEW j \in S, i < j PROVE v(i) # v(j)
  <2> SUFFICES ASSUME v(i) = v(j) PROVE FALSE
    OBVIOUS
  <2> DEFINE x == (a * i + b) \div n
             y == (a * j + b) \div n
             r == v(i)
  <2>1. a * i + b = n * x + r /\ a * j + b = n * y + r /\ x \in Int /\ y \in Int /\ r \in Int
    <3>1. a * i + b \in Nat /\ a * j + b \in Nat /\ r \in Int
      BY <1>1
    <3> QED BY <1>0, <3>1
  <2> HIDE DEF x, y, r, v
  <2>2. a * (j - i) = n * (y - x)
    <3>1. a * (j - i) = a * j - a * i
      OBVIOUS
    <3>2. n * (y - x) = n * y - n * x
      BY <2>1
    <3>3. a * i \in Int /\ a * j \in Int /\ n * x \in Int /\ n * y \in Int
      BY <2>1
    <3> QED BY <2>1, <3>1, <3>2, <3>3
  <2>3. j - i \in 1 .. n - 1 /\ y - x \in Int /\ a * (j - i) \in Int
    BY <1>3, <2>1
  <2>4. (a * (j - i)) % n = 0
    BY <2>2, <2>3, Divides
  <2> QED BY <2>3, <2>4, MultiplesAreApart
<1>4. \A i, j \in S : p[i] = p[j] => i = j
  <2> SUFFICES ASSUME NEW i \in S, NEW j \in S, i # j PROVE p[i] # p[j]
    OBVIOUS
  <2>1. i < j \/ j < i
    OBVIOUS
  <2> HIDE DEF p, v
  <2>2. v(i) # v(j)
    BY <1>3, <2>1
  <2> QED BY <1>2, <2>2
<1>5. p \in Injection(S, S)
  <2> HIDE DEF p, S
  <2> QED BY <1>2, <1>4 DEF Injection, IsInjective
<1>6. IsFiniteSet(S)
  <2>1. 0 \in Int /\ n - 1 \in Int
    OBVIOUS
  <2> QED BY <2>1, FS_Interval
<1>7. p \in Surjection(S, S)
  <2> HIDE DEF p, S
  <2> QED BY <1>5, <1>6, FS_Injection
<1>8. {p[k] : k \in S} = S
  <2> HIDE DEF p
  <2> QED BY <1>2, <1>7 DEF Surjection
<1> QED BY <1>2, <1>8 DEF Orders

\* The affine order derived from a stream visits each column once (O1),
\* whatever words the generator yields and whatever the length of the row.
THEOREM DerivedOrderIsAnOrder ==
  ASSUME NEW s, IsStream(s), NEW n \in Nat \ {0}
  PROVE  affine_sequence(derive_ab(s, n).a, derive_ab(s, n).b, n) \in Orders(n)
<1>1. derive_ab(s, n).a \in Nat /\ derive_ab(s, n).b \in Nat
  BY PairIsOfTheRow
<1> QED BY <1>1, PairIsCoprime, AffineIsAnOrder

\* What the shuffle of a row of n makes of a state, at the word number k - 1.
ShuffleStep(s, k, q) ==
  LET x == masked(Word(s, k - 1), q.i)
  IN  IF q.i = 0 \/ x > q.i THEN q
      ELSE [i |-> q.i - 1, p |-> Swapped(q.p, q.i, x)]

(* What a shuffle is in: the place it fills, the order so far.             *)
Shuffles(n) == [i : 0 .. n - 1, p : Orders(n)]

(* A word keeps a shuffle a shuffle.                                       *)
LEMMA ShuffleStepType ==
  ASSUME NEW s, IsStream(s), NEW k \in Nat \ {0}, NEW n \in Nat \ {0}, NEW q \in Shuffles(n)
  PROVE  ShuffleStep(s, k, q) \in Shuffles(n)
<1> DEFINE x == masked(Word(s, k - 1), q.i)
<1>1. q.i \in 0 .. n - 1 /\ q.p \in Orders(n) /\ q.i \in Nat
  BY DEF Shuffles
<1>2. x \in Nat
  <2>1. k - 1 \in Nat
    OBVIOUS
  <2> QED BY <1>1, <2>1, StreamHasWords, MaskedWord
<1>3. CASE q.i = 0 \/ x > q.i
  BY <1>3 DEF ShuffleStep
<1>4. CASE ~(q.i = 0 \/ x > q.i)
  <2>1. x \in 0 .. n - 1 /\ q.i - 1 \in 0 .. n - 1
    BY <1>1, <1>2, <1>4
  <2>2. Swapped(q.p, q.i, x) \in Orders(n)
    BY <1>1, <2>1, SwapKeepsAnOrder
  <2>3. ShuffleStep(s, k, q) = [i |-> q.i - 1, p |-> Swapped(q.p, q.i, x)]
    BY <1>4 DEF ShuffleStep
  <2> HIDE DEF x
  <2> QED BY <2>1, <2>2, <2>3 DEF Shuffles
<1> QED BY <1>3, <1>4

(* The shuffle after some words is the run of its steps.                   *)
LEMMA ShuffleRuns ==
  ASSUME IsStream(stream), N \in Nat \ {0}, NEW words \in Nat
  PROVE  \E f : /\ f \in [0 .. words -> Shuffles(N)]
                /\ f[0] = [i |-> N - 1, p |-> identity_sequence(N)]
                /\ \A k \in 1 .. words : f[k] = ShuffleStep(stream, k, f[k - 1])
                /\ ShuffledAfter(words) = f[words]
<1> DEFINE V == Shuffles(N)
           first == [i |-> N - 1, p |-> identity_sequence(N)]
           St(k, q) == ShuffleStep(stream, k, q)
           g == [k \in 0 .. words |-> [q \in V |-> IF k = 0 THEN q ELSE St(k, q)]]
           IsIt(f) == f = [k \in 0 .. words |->
              IF k = 0 THEN [i |-> N - 1, p |-> identity_sequence(N)]
              ELSE LET q == f[k - 1]
                       x == masked(Word(stream, k - 1), q.i)
                   IN  IF q.i = 0 \/ x > q.i THEN q
                       ELSE [i |-> q.i - 1, p |-> Swapped(q.p, q.i, x)]]
           D == CHOOSE f : IsIt(f)
<1>1. ShuffledAfter(words) = D[words]
  BY Zenon DEF ShuffledAfter
<1>2. first \in V
  <2>1. identity_sequence(N) \in Orders(N)
    BY DEF identity_sequence, Orders
  <2> QED BY <2>1 DEF Shuffles
<1>3. ASSUME NEW k \in 0 .. words, k # 0, NEW q \in V PROVE St(k, q) \in V
  <2>1. k \in Nat \ {0}
    BY <1>3
  <2> QED BY <2>1, ShuffleStepType
<1>4. \A f : IsIt(f) <=> f = [k \in 0 .. words |-> IF k = 0 THEN first ELSE St(k, f[k - 1])]
  BY DEF ShuffleStep
<1> HIDE DEF V, first, St, IsIt
<1>5. g \in [0 .. words -> [V -> V]]
  BY <1>3
<1>6. PICK f : IsRunOf(f, V, first, g, words)
  <2> HIDE DEF g
  <2> QED BY <1>2, <1>5, RunExists
<1>7. ASSUME NEW h, IsRunOf(h, V, first, g, words)
      PROVE  \A k \in 0 .. words : h[k] = IF k = 0 THEN first ELSE St(k, h[k - 1])
  <2> SUFFICES ASSUME NEW k \in 0 .. words, k # 0 PROVE h[k] = St(k, h[k - 1])
    BY <1>7 DEF IsRunOf
  <2>1. k \in 1 .. words /\ k - 1 \in 0 .. words
    OBVIOUS
  <2>2. h[k] = g[k][h[k - 1]] /\ h[k - 1] \in V
    BY <1>7, <2>1 DEF IsRunOf
  <2> QED BY <2>2
<1>8. IsIt(f)
  <2>1. \A k \in 0 .. words : f[k] = IF k = 0 THEN first ELSE St(k, f[k - 1])
    BY <1>6, <1>7
  <2>2. f = [k \in 0 .. words |-> f[k]]
    BY <1>6 DEF IsRunOf
  <2> HIDE DEF g
  <2>3. f = [k \in 0 .. words |-> IF k = 0 THEN first ELSE St(k, f[k - 1])]
    BY <2>1, <2>2
  <2> QED BY <1>4, <2>3
<1>9. IsIt(D)
  BY <1>8
<1>10. \A k \in 0 .. words : D[k] = IF k = 0 THEN first ELSE St(k, D[k - 1])
  <2> HIDE DEF D
  <2> QED BY <1>4, <1>9
<1>11. \A k \in 0 .. words : D[k] \in V
  <2> DEFINE P == {k \in 0 .. words : D[k] \in V}
  <2> HIDE DEF D
  <2>1. 0 \in P
    BY <1>2, <1>10
  <2>2. ASSUME NEW k \in 1 .. words, k - 1 \in P PROVE k \in P
    <3>1. k \in 0 .. words /\ k # 0
      OBVIOUS
    <3> QED BY <1>3, <1>10, <2>2, <3>1
  <2> HIDE DEF P
  <2>3. \A k \in 0 .. words : k \in P
    BY <2>1, <2>2, UpTo
  <2> QED BY <2>3 DEF P
<1>12. D = [k \in 0 .. words |-> D[k]]
  <2>1. D = [k \in 0 .. words |-> IF k = 0 THEN first ELSE St(k, D[k - 1])]
    <3> HIDE DEF D
    <3> QED BY <1>4, <1>9
  <2> HIDE DEF D
  <2> QED BY <2>1
<1> HIDE DEF D, g
<1>13. D \in [0 .. words -> V]
  BY <1>11, <1>12
<1>14. D[0] = first /\ \A k \in 1 .. words : D[k] = St(k, D[k - 1])
  BY <1>10
<1> QED BY <1>1, <1>13, <1>14 DEF V, first, St

\* What the derivation of the pair of a row of n makes of a state; none is the
\* value of a constant that is not drawn yet.
PairStep(s, n, none, k, q) ==
  LET x == masked(Word(s, k - 1), n - 1)
  IN  IF x > n - 1 THEN q
      ELSE IF q.a # none THEN [q EXCEPT !.b = x]
      ELSE IF gcd(x, n) = 1 THEN [q EXCEPT !.a = x]
      ELSE q

(* What a derivation is in.                                                *)
Pairs == [a : Nat, b : Nat]

(* The pair after some words is the run of its steps.                      *)
LEMMA PairRuns ==
  ASSUME IsStream(stream), N \in Nat \ {0}, VAL \in Nat, NEW words \in Nat
  PROVE  \E f : /\ f \in [0 .. words -> Pairs]
                /\ f[0] = [a |-> VAL, b |-> VAL]
                /\ \A k \in 1 .. words : f[k] = PairStep(stream, N, VAL, k, f[k - 1])
                /\ PairAfter(words) = f[words]
<1> DEFINE V == Pairs
           first == [a |-> VAL, b |-> VAL]
           St(k, q) == PairStep(stream, N, VAL, k, q)
           g == [k \in 0 .. words |-> [q \in V |-> IF k = 0 THEN q ELSE St(k, q)]]
           IsIt(f) == f = [k \in 0 .. words |->
              IF k = 0 THEN [a |-> VAL, b |-> VAL]
              ELSE LET q == f[k - 1]
                       x == masked(Word(stream, k - 1), N - 1)
                   IN  IF x > N - 1 THEN q
                       ELSE IF q.a # VAL THEN [q EXCEPT !.b = x]
                       ELSE IF gcd(x, N) = 1 THEN [q EXCEPT !.a = x]
                       ELSE q]
           D == CHOOSE f : IsIt(f)
<1>1. PairAfter(words) = D[words]
  BY Zenon DEF PairAfter, NotYet
<1>2. first \in V
  BY DEF Pairs
<1>3. ASSUME NEW k \in 0 .. words, k # 0, NEW q \in V PROVE St(k, q) \in V
  <2> DEFINE x == masked(Word(stream, k - 1), N - 1)
  <2>1. x \in Nat
    <3>1. k - 1 \in Nat /\ N - 1 \in Nat
      BY <1>3
    <3> QED BY <3>1, StreamHasWords, MaskedWord
  <2> HIDE DEF x
  <2>2. [q EXCEPT !.a = x] \in V /\ [q EXCEPT !.b = x] \in V
    BY <2>1 DEF Pairs
  <2>3. St(k, q) = IF x > N - 1 THEN q
                   ELSE IF q.a # VAL THEN [q EXCEPT !.b = x]
                   ELSE IF gcd(x, N) = 1 THEN [q EXCEPT !.a = x]
                   ELSE q
    BY Zenon DEF PairStep, x
  <2> HIDE DEF St, V
  <2> QED BY <2>2, <2>3
<1>4. \A f : IsIt(f) <=> f = [k \in 0 .. words |-> IF k = 0 THEN first ELSE St(k, f[k - 1])]
  BY DEF PairStep
<1> HIDE DEF V, first, St, IsIt
<1>5. g \in [0 .. words -> [V -> V]]
  BY <1>3
<1>6. PICK f : IsRunOf(f, V, first, g, words)
  <2> HIDE DEF g
  <2> QED BY <1>2, <1>5, RunExists
<1>7. ASSUME NEW k \in 0 .. words
      PROVE  f[k] = IF k = 0 THEN first ELSE St(k, f[k - 1])
  <2> SUFFICES ASSUME k # 0 PROVE f[k] = St(k, f[k - 1])
    BY <1>6 DEF IsRunOf
  <2>1. k \in 1 .. words /\ k - 1 \in 0 .. words
    OBVIOUS
  <2>2. f[k] = g[k][f[k - 1]] /\ f[k - 1] \in V
    BY <1>6, <2>1 DEF IsRunOf
  <2> QED BY <2>2
<1>8. IsIt(f)
  <2>1. f = [k \in 0 .. words |-> f[k]]
    BY <1>6 DEF IsRunOf
  <2> HIDE DEF g
  <2>2. f = [k \in 0 .. words |-> IF k = 0 THEN first ELSE St(k, f[k - 1])]
    BY <1>7, <2>1
  <2> QED BY <1>4, <2>2
<1>9. IsIt(D)
  BY <1>8
<1>10. D = [k \in 0 .. words |-> IF k = 0 THEN first ELSE St(k, D[k - 1])]
  <2> HIDE DEF D
  <2> QED BY <1>4, <1>9
<1> HIDE DEF D, g
<1>11. \A k \in 0 .. words : D[k] = IF k = 0 THEN first ELSE St(k, D[k - 1])
  BY <1>10
<1>12. \A k \in 0 .. words : D[k] \in V
  <2> DEFINE P == {k \in 0 .. words : D[k] \in V}
  <2>1. 0 \in P
    BY <1>2, <1>11
  <2>2. ASSUME NEW k \in 1 .. words, k - 1 \in P PROVE k \in P
    <3>1. k \in 0 .. words /\ k # 0
      OBVIOUS
    <3> QED BY <1>3, <1>11, <2>2, <3>1
  <2> HIDE DEF P
  <2>3. \A k \in 0 .. words : k \in P
    BY <2>1, <2>2, UpTo
  <2> QED BY <2>3 DEF P
<1>13. D \in [0 .. words -> V]
  BY <1>10, <1>12
<1>14. D[0] = first /\ \A k \in 1 .. words : D[k] = St(k, D[k - 1])
  BY <1>11
<1> QED BY <1>1, <1>13, <1>14 DEF V, first, St

(* The pair takes the words that its derivation counts.                    *)
LEMMA PairTakesItsWords ==
  ASSUME IsStream(stream), N \in Nat \ {0, 1}, VAL \in Nat, N <= VAL
  PROVE  LET d == derive_ab(stream, N)
         IN  /\ PairAfter(d.draws) = [a |-> d.a, b |-> d.b]
             /\ PairAfter(d.draws - 1).b = NotYet
<1> DEFINE s == stream
           l == Len(s)
           da == coprime_draw(s, 0, N)
           db == uniform_with_stream(s, da.at, N - 1)
           A == da.taken
           B == db.taken
           w(k) == masked(Word(s, k - 1), N - 1)
           none == [a |-> VAL, b |-> VAL]
           half == [a |-> da.value, b |-> VAL]
           full == [a |-> da.value, b |-> db.value]
<1>1. l \in Nat \ {0} /\ 0 % l = 0
  BY StreamHasWords
<1>2. /\ A \in Nat \ {0} /\ da.at = A % l
      /\ da.value \in 0 .. N - 1 /\ gcd(da.value, N) = 1
      /\ w(A) = da.value
      /\ \A k \in 1 .. A - 1 : w(k) > N - 1 \/ gcd(w(k), N) # 1
  <2>1. IsCoprimeDraw(s, N, 0, da)
    <3>1. IsCoprimeDraw(s, N, 0, coprime_draw(s, 0 % l, N))
      BY CoprimeDrawTakesWords
    <3> HIDE DEF l
    <3> QED BY <1>1, <3>1
  <2> HIDE DEF da, s
  <2>2. A \in Nat \ {0} /\ 0 + A = A
    BY <2>1 DEF IsCoprimeDraw
  <2>3. ASSUME NEW k \in 1 .. A - 1 PROVE w(k) > N - 1 \/ gcd(w(k), N) # 1
    <3>1. k - 1 \in 0 .. 0 + A - 2
      BY <2>2
    <3> QED BY <2>1, <3>1 DEF IsCoprimeDraw
  <2> QED BY <2>1, <2>2, <2>3 DEF IsCoprimeDraw
<1>3. /\ B \in Nat \ {0} /\ db.value \in 0 .. N - 1
      /\ w(A + B) = db.value
      /\ \A k \in A + 1 .. A + B - 1 : w(k) > N - 1
  <2>1. N - 1 \in Nat \ {0} /\ A \in Nat
    BY <1>2
  <2> DEFINE u == uniform_with_stream(s, A % l, N - 1)
  <2>2. /\ u.taken \in Nat \ {0} /\ u.value \in 0 .. N - 1
        /\ masked(Word(s, A + u.taken - 1), N - 1) = u.value
        /\ \A x \in A .. A + u.taken - 2 : masked(Word(s, x), N - 1) > N - 1
    BY <2>1, DrawTakesWords
  <2>3. u = db
    BY <1>2
  <2> HIDE DEF u, db, da
  <2>4. ASSUME NEW k \in A + 1 .. A + B - 1 PROVE w(k) > N - 1
    <3>1. k - 1 \in A .. A + u.taken - 2
      BY <2>1, <2>2, <2>3
    <3> QED BY <2>2, <3>1
  <2>5. w(A + B) = db.value
    <3>1. B \in Nat /\ A + u.taken - 1 = (A + B) - 1
      BY <2>1, <2>2, <2>3
    <3>2. masked(Word(s, A + u.taken - 1), N - 1) = db.value
      BY <2>2, <2>3
    <3> HIDE DEF A, B
    <3> QED BY <3>1, <3>2
  <2> HIDE DEF w
  <2> QED BY <2>2, <2>3, <2>4, <2>5
<1>4. derive_ab(s, N) = [a |-> da.value, b |-> db.value, draws |-> A + B]
  BY DEF derive_ab
<1> HIDE DEF da, db, w, l, A, B
<1>5. \A k \in Nat \ {0} : w(k) \in Nat
  <2>1. \A k \in Nat \ {0} : k - 1 \in Nat
    OBVIOUS
  <2>2. N - 1 \in Nat
    OBVIOUS
  <2> QED BY <2>1, <2>2, StreamHasWords, MaskedWord DEF w
<1>6. ASSUME NEW words \in Nat, NEW f,
             f[0] = none, \A k \in 1 .. words : f[k] = PairStep(s, N, VAL, k, f[k - 1])
      PROVE  /\ A <= words => f[A] = half
             /\ A + B - 1 <= words => f[A + B - 1] = half
             /\ A + B <= words => f[A + B] = full
  <2> DEFINE St(x, q) == IF x > N - 1 THEN q
                         ELSE IF q.a # VAL THEN [q EXCEPT !.b = x]
                         ELSE IF gcd(x, N) = 1 THEN [q EXCEPT !.a = x]
                         ELSE q
  <2>1. \A k \in 1 .. words : f[k] = St(w(k), f[k - 1])
    BY <1>6, Zenon DEF PairStep, w
  <2>2. /\ \A x \in Nat : x > N - 1 \/ gcd(x, N) # 1 => St(x, none) = none
        /\ St(da.value, none) = half
        /\ \A x \in Nat : x > N - 1 => St(x, half) = half
        /\ St(db.value, half) = full
    <3>1. /\ \A x \in 0 .. N - 1 : ~(x > N - 1)
          /\ da.value # VAL
      BY <1>2
    <3> QED BY <1>2, <1>3, <3>1
  <2> HIDE DEF St, none, half, full
  <2>3. ASSUME A <= words PROVE f[A - 1] = none
    <3>1. A - 1 \in 0 .. words /\ 0 \in 0 .. words
      BY <1>2, <2>3
    <3>2. ASSUME NEW k \in 0 + 1 .. A - 1, f[k - 1] = f[0] PROVE f[k] = f[0]
      <4>1. k \in 1 .. words /\ k \in 1 .. A - 1 /\ k \in Nat \ {0}
        BY <1>2, <2>3
      <4>2. w(k) \in Nat /\ (w(k) > N - 1 \/ gcd(w(k), N) # 1)
        BY <1>2, <1>5, <4>1
      <4>3. f[k] = St(w(k), none)
        BY <1>6, <2>1, <3>2, <4>1
      <4> QED BY <1>6, <2>2, <4>2, <4>3
    <3>3. \A k \in 0 .. A - 1 : f[k] = f[0]
      <4> DEFINE T == {k \in 0 .. A - 1 : f[k] = f[0]}
      <4>1. 0 \in T /\ 0 \in Nat /\ A - 1 \in Nat /\ 0 <= A - 1
        BY <1>2
      <4>2. ASSUME NEW k \in 0 + 1 .. A - 1, k - 1 \in T PROVE k \in T
        <5>1. f[k] = f[0]
          BY <3>2, <4>2
        <5> QED BY <1>2, <5>1
      <4>3. \A k \in 0 .. A - 1 : k \in T
        <5> HIDE DEF T
        <5> QED BY <4>1, <4>2, FromTo
      <4> QED BY <4>3
    <3>4. A - 1 \in 0 .. A - 1
      BY <1>2
    <3> QED BY <1>6, <3>3, <3>4
  <2>4. ASSUME A <= words PROVE f[A] = half
    <3>1. A \in 1 .. words
      BY <1>2, <2>4
    <3>2. f[A] = St(w(A), none)
      BY <2>1, <2>3, <2>4, <3>1
    <3> QED BY <1>2, <2>2, <3>2
  <2>5. ASSUME A + B - 1 <= words PROVE f[A + B - 1] = half
    <3> DEFINE hi == A + B - 1
    <3>1. A \in 0 .. words /\ hi \in A .. words /\ A <= words
      BY <1>2, <1>3, <2>5
    <3>2. f[A] = half
      BY <2>4, <3>1
    <3>3. ASSUME NEW k \in A + 1 .. hi, f[k - 1] = f[A] PROVE f[k] = f[A]
      <4>1. k \in 1 .. words /\ k \in Nat \ {0}
        BY <1>2, <1>3, <2>5
      <4>2. w(k) \in Nat /\ w(k) > N - 1
        BY <1>3, <1>5, <4>1
      <4>3. f[k] = St(w(k), half)
        BY <2>1, <3>2, <3>3, <4>1
      <4> QED BY <2>2, <3>2, <4>2, <4>3
    <3> HIDE DEF hi
    <3>4. \A k \in A .. hi : f[k] = f[A]
      <4> DEFINE T == {k \in A .. hi : f[k] = f[A]}
      <4>1. A \in T /\ A \in Nat /\ hi \in Nat /\ A <= hi
        BY <3>1
      <4>2. ASSUME NEW k \in A + 1 .. hi, k - 1 \in T PROVE k \in T
        <5>1. f[k] = f[A]
          BY <3>3, <4>2
        <5>2. k \in A .. hi
          BY <4>1
        <5> QED BY <5>1, <5>2
      <4>3. \A k \in A .. hi : k \in T
        <5> HIDE DEF T
        <5> QED BY <4>1, <4>2, FromTo
      <4> QED BY <4>3
    <3>5. hi \in A .. hi
      BY <3>1
    <3>6. f[hi] = half
      BY <3>2, <3>4, <3>5
    <3> QED BY <3>6 DEF hi
  <2>6. ASSUME A + B <= words PROVE f[A + B] = full
    <3>1. A + B \in 1 .. words /\ A + B - 1 <= words
      BY <1>2, <1>3, <2>6
    <3>2. f[A + B] = St(w(A + B), half)
      <4>1. f[A + B] = St(w(A + B), f[A + B - 1])
        <5> DEFINE e == A + B
        <5>1. e \in 1 .. words
          BY <3>1
        <5> HIDE DEF e
        <5>2. f[e] = St(w(e), f[e - 1])
          BY <2>1, <5>1
        <5>3. e - 1 = A + B - 1
          BY <1>2, <1>3 DEF e
        <5>4. f[e] = St(w(e), f[A + B - 1])
          BY <5>2, <5>3
        <5> QED BY <5>4 DEF e
      <4> QED BY <2>5, <3>1, <4>1
    <3> QED BY <1>3, <2>2, <3>2
  <2> QED BY <2>4, <2>5, <2>6
<1>7. A + B \in Nat /\ A + B - 1 \in Nat
  BY <1>2, <1>3
<1>8. PairAfter(A + B) = full
  <2>1. PICK f : /\ f[0] = none
                 /\ \A k \in 1 .. A + B : f[k] = PairStep(s, N, VAL, k, f[k - 1])
                 /\ PairAfter(A + B) = f[A + B]
    BY <1>7, PairRuns
  <2> HIDE DEF none, full, half, s
  <2>2. f[A + B] = full
    <3>1. A + B <= A + B
      BY <1>7
    <3> QED BY <1>6, <1>7, <2>1, <3>1
  <2> QED BY <2>1, <2>2
<1>9. PairAfter(A + B - 1) = half
  <2>1. PICK f : /\ f[0] = none
                 /\ \A k \in 1 .. A + B - 1 : f[k] = PairStep(s, N, VAL, k, f[k - 1])
                 /\ PairAfter(A + B - 1) = f[A + B - 1]
    BY <1>7, PairRuns
  <2> HIDE DEF none, full, half, s
  <2>2. f[A + B - 1] = half
    <3>1. A + B - 1 <= A + B - 1
      BY <1>7
    <3> QED BY <1>6, <1>7, <2>1, <3>1
  <2> QED BY <2>1, <2>2
<1> DEFINE d == derive_ab(s, N)
<1>10. d.draws = A + B /\ full = [a |-> d.a, b |-> d.b] /\ half.b = NotYet
  BY <1>4 DEF NotYet
<1> HIDE DEF d, full, half
<1>11. PairAfter(d.draws) = [a |-> d.a, b |-> d.b] /\ PairAfter(d.draws - 1).b = NotYet
  <2> DEFINE e == d.draws
  <2>1. e = A + B /\ PairAfter(e) = full /\ PairAfter(e - 1) = half
    <3>1. A + B = e /\ A + B - 1 = e - 1
      <4>1. A + B = e
        BY <1>10
      <4>2. (A + B) - 1 = A + B - 1
        BY <1>2, <1>3
      <4> HIDE DEF e
      <4> QED BY <4>1, <4>2
    <3> HIDE DEF e
    <3> QED BY <1>8, <1>9, <3>1
  <2> QED BY <1>10, <2>1
<1> QED BY <1>11 DEF d

(* The shuffle takes the words that the cost of its bank counts.           *)
LEMMA BankTakesItsWords ==
  ASSUME IsStream(stream), N \in Nat \ {0}
  PROVE  LET v == bank_and_cost(stream, 0, N)
         IN  /\ ShuffledAfter(v.cost) = [i |-> 0, p |-> v.bank]
             /\ v.cost > 0 => ShuffledAfter(v.cost - 1).i > 0
<1> DEFINE s == stream
           l == Len(s)
           w(k, m) == masked(Word(s, k - 1), m)
           first == [bank |-> identity_sequence(N), at |-> 0, cost |-> 0]
           Is(i, v) == [i |-> i - 1, p |-> v.bank]
<1>1. l \in Nat \ {0} /\ 0 \in Positions(s) /\ 0 % l = 0
  BY StreamHasWords
<1>2. PICK B : /\ B \in [1 .. N -> Banks(s, N)] /\ B[N] = first
               /\ \A i \in 1 .. N - 1 : B[i] = BankStep(s, B[i + 1], i)
               /\ bank_and_cost(s, 0, N) = B[1]
  BY <1>1, BankSteps
<1> DEFINE c(i) == B[i].cost
           t(i) == uniform_with_stream(s, B[i + 1].at, i).taken
           x(i) == uniform_with_stream(s, B[i + 1].at, i).value
<1>3. \A i \in 1 .. N : B[i].bank \in Orders(N) /\ c(i) \in Nat
  BY <1>2 DEF Banks
<1>4. ASSUME NEW i \in 1 .. N - 1
      PROVE  B[i].bank = Swapped(B[i + 1].bank, i, x(i)) /\ c(i) = c(i + 1) + t(i)
             /\ B[i].at = uniform_with_stream(s, B[i + 1].at, i).at
  <2> DEFINE v == B[i + 1]
             u == uniform_with_stream(s, v.at, i)
  <2>1. B[i] = BankStep(s, v, i)
    BY <1>2
  <2> HIDE DEF v
  <2>2. B[i] = [bank |-> Swapped(v.bank, i, u.value), at |-> u.at, cost |-> v.cost + u.taken]
    BY <2>1 DEF BankStep
  <2> HIDE DEF u
  <2>3. B[i].bank = Swapped(v.bank, i, u.value) /\ B[i].at = u.at /\ B[i].cost = v.cost + u.taken
    BY <2>2
  <2> QED BY <2>3 DEF u, v
<1> DEFINE At == {i \in 1 .. N : B[i].at = c(i) % l}
<1>5. ASSUME NEW i \in 1 .. N - 1, i + 1 \in At
      PROVE  /\ i \in At /\ t(i) \in Nat \ {0} /\ x(i) \in 0 .. i
             /\ w(c(i), i) = x(i)
             /\ \A k \in c(i + 1) + 1 .. c(i) - 1 : w(k, i) > i
  <2> DEFINE y == c(i + 1)
             u == uniform_with_stream(s, y % l, i)
  <2>1. y \in Nat /\ i \in Nat \ {0} /\ B[i + 1].at = y % l
    BY <1>3, <1>5
  <2>2. /\ u.taken \in Nat \ {0} /\ u.at = (y + u.taken) % l
        /\ u.value \in 0 .. i
        /\ masked(Word(s, y + u.taken - 1), i) = u.value
        /\ \A k \in y .. y + u.taken - 2 : masked(Word(s, k), i) > i
    <3> HIDE DEF y
    <3> QED BY <2>1, DrawTakesWords
  <2>3. t(i) = u.taken /\ x(i) = u.value /\ B[i].at = u.at /\ c(i) = y + u.taken
    BY <1>4, <2>1
  <2> HIDE DEF t, x, c, y, u
  <2>4. i \in At
    <3>1. i \in 1 .. N
      OBVIOUS
    <3> QED BY <2>2, <2>3, <3>1
  <2>5. w(c(i), i) = x(i)
    <3>1. c(i) - 1 = y + u.taken - 1
      <4>1. \A a, b \in Int : (a + b) - 1 = a + b - 1
        OBVIOUS
      <4>2. y \in Int /\ u.taken \in Int
        BY <2>1, <2>2
      <4> QED BY <2>3, <4>1, <4>2
    <3>2. masked(Word(s, y + u.taken - 1), i) = x(i)
      BY <2>2, <2>3
    <3> QED BY <3>1, <3>2
  <2>6. ASSUME NEW k \in y + 1 .. c(i) - 1 PROVE w(k, i) > i
    <3>1. k - 1 \in y .. y + u.taken - 2
      BY <2>1, <2>2, <2>3
    <3> QED BY <2>2, <3>1
  <2> HIDE DEF At, w
  <2> QED BY <2>2, <2>3, <2>4, <2>5, <2>6 DEF y
<1> HIDE DEF t, x, c, At, w
<1>6. \A i \in 1 .. N : i \in At
  <2> DEFINE P == {d \in 0 .. N - 1 : N - d \in At}
  <2>1. 0 \in P
    <3>1. N \in At
      <4>1. N \in 1 .. N /\ B[N].at = 0 /\ B[N].cost = 0
        BY <1>2
      <4> QED BY <1>1, <4>1 DEF At, c
    <3>2. N - 0 = N /\ 0 \in 0 .. N - 1
      OBVIOUS
    <3> QED BY <3>1, <3>2
  <2>2. ASSUME NEW d \in 1 .. N - 1, d - 1 \in P PROVE d \in P
    <3>1. N - d \in 1 .. N - 1 /\ (N - d) + 1 = N - (d - 1) /\ d \in 0 .. N - 1
      OBVIOUS
    <3>2. (N - d) + 1 \in At
      BY <2>2, <3>1
    <3>3. N - d \in At
      BY <1>5, <3>1, <3>2
    <3> QED BY <3>1, <3>3
  <2>3. \A d \in 0 .. N - 1 : d \in P
    <3> HIDE DEF P
    <3>1. N - 1 \in Nat
      OBVIOUS
    <3> QED BY <2>1, <2>2, <3>1, UpTo
  <2>4. ASSUME NEW i \in 1 .. N PROVE i \in At
    <3>1. N - i \in 0 .. N - 1 /\ N - (N - i) = i
      OBVIOUS
    <3> QED BY <2>3, <3>1
  <2> QED BY <2>4
<1>7. ASSUME NEW i \in 1 .. N - 1
      PROVE  /\ i + 1 \in 1 .. N /\ i \in 1 .. N
             /\ t(i) \in Nat \ {0} /\ x(i) \in 0 .. i
             /\ c(i) = c(i + 1) + t(i) /\ w(c(i), i) = x(i)
             /\ \A k \in c(i + 1) + 1 .. c(i) - 1 : w(k, i) > i
             /\ B[i].bank = Swapped(B[i + 1].bank, i, x(i))
  <2>1. i + 1 \in 1 .. N /\ i \in 1 .. N
    OBVIOUS
  <2> QED BY <1>4, <1>5, <1>6, <2>1
<1>8. c(N) = 0
  BY <1>2 DEF c
<1> HIDE DEF Is
<1>9. ASSUME NEW words \in Nat, NEW f,
             f[0] = Is(N, B[N]),
             \A k \in 1 .. words : f[k] = ShuffleStep(s, k, f[k - 1])
      PROVE  \A i \in 1 .. N - 1 :
               /\ c(i) - 1 <= words => f[c(i) - 1] = Is(i + 1, B[i + 1])
               /\ c(i) <= words => f[c(i)] = Is(i, B[i])
  <2> DEFINE P == {d \in 0 .. N - 1 : c(N - d) <= words => f[c(N - d)] = Is(N - d, B[N - d])}
  <2>1. ASSUME NEW i \in 1 .. N - 1, c(i) - 1 <= words,
               c(i + 1) <= words => f[c(i + 1)] = Is(i + 1, B[i + 1])
        PROVE  f[c(i) - 1] = Is(i + 1, B[i + 1])
    <3> DEFINE start == c(i + 1)
               last == c(i) - 1
    <3>1. start \in 0 .. words /\ last \in start .. words
      <4>1. c(i + 1) \in Nat /\ t(i) \in Nat \ {0} /\ c(i) = c(i + 1) + t(i)
        BY <1>3, <1>7
      <4> QED BY <2>1, <4>1
    <3>2. f[start] = Is(i + 1, B[i + 1])
      BY <2>1, <3>1
    <3>3. ASSUME NEW k \in start + 1 .. last, f[k - 1] = f[start] PROVE f[k] = f[start]
      <4>1. k \in 1 .. words
        <5> HIDE DEF start, last
        <5> QED BY <3>1
      <4>2. f[k - 1].i = i
        BY <3>2, <3>3 DEF Is
      <4>3. w(k, i) > i
        BY <1>7
      <4>4. ShuffleStep(s, k, f[k - 1]) = f[k - 1]
        BY <4>2, <4>3 DEF ShuffleStep, w
      <4> QED BY <1>9, <3>3, <4>1, <4>4
    <3> HIDE DEF start, last
    <3>4. \A k \in start .. last : f[k] = f[start]
      <4> DEFINE T == {k \in start .. last : f[k] = f[start]}
      <4>1. start \in T /\ start \in Nat /\ last \in Nat /\ start <= last
        BY <3>1
      <4>2. ASSUME NEW k \in start + 1 .. last, k - 1 \in T PROVE k \in T
        <5>1. f[k] = f[start]
          BY <3>3, <4>2
        <5>2. k \in start .. last
          BY <4>1
        <5> QED BY <5>1, <5>2
      <4>3. \A k \in start .. last : k \in T
        <5> HIDE DEF T
        <5> QED BY <4>1, <4>2, FromTo
      <4> QED BY <4>3
    <3>5. last \in start .. last
      BY <3>1
    <3>6. f[last] = Is(i + 1, B[i + 1])
      BY <3>2, <3>4, <3>5
    <3> QED BY <3>6 DEF last
  <2>2. ASSUME NEW i \in 1 .. N - 1, c(i) <= words,
               f[c(i) - 1] = Is(i + 1, B[i + 1])
        PROVE  f[c(i)] = Is(i, B[i])
    <3>1. c(i) \in 1 .. words
      <4>1. c(i + 1) \in Nat /\ t(i) \in Nat \ {0} /\ c(i) = c(i + 1) + t(i)
        BY <1>3, <1>7
      <4> QED BY <2>2, <4>1
    <3> DEFINE q == Is(i + 1, B[i + 1])
               e == B[i + 1].bank
    <3>2. q.i = i /\ q.p = e
      BY DEF Is
    <3>3. f[c(i)] = ShuffleStep(s, c(i), q)
      BY <1>9, <2>2, <3>1
    <3> HIDE DEF q, e
    <3>4. /\ masked(Word(s, c(i) - 1), i) = x(i)
          /\ ~(i = 0 \/ x(i) > i)
      BY <1>7 DEF w
    <3>5. ShuffleStep(s, c(i), q) = [i |-> i - 1, p |-> Swapped(e, i, x(i))]
      BY <3>2, <3>4, Zenon DEF ShuffleStep
    <3>6. B[i].bank = Swapped(e, i, x(i))
      BY <1>7 DEF e
    <3> QED BY <3>3, <3>5, <3>6, Zenon DEF Is
  <2>3. \A d \in 0 .. N - 1 : d \in P
    <3>1. 0 \in P
      <4>1. N - 0 = N /\ 0 \in 0 .. N - 1
        OBVIOUS
      <4> QED BY <1>8, <1>9, <4>1
    <3>2. ASSUME NEW d \in 1 .. N - 1, d - 1 \in P PROVE d \in P
      <4> DEFINE i == N - d
      <4>1. i \in 1 .. N - 1 /\ N - (d - 1) = i + 1 /\ d \in 0 .. N - 1
        OBVIOUS
      <4>2. c(i + 1) <= words => f[c(i + 1)] = Is(i + 1, B[i + 1])
        BY <3>2, <4>1
      <4> HIDE DEF i
      <4>3. c(i) <= words => c(i) - 1 <= words
        BY <1>3, <1>7, <4>1
      <4>4. c(i) <= words => f[c(i)] = Is(i, B[i])
        BY <2>1, <2>2, <4>1, <4>2, <4>3
      <4> QED BY <4>1, <4>4 DEF i
    <3> HIDE DEF P
    <3>3. N - 1 \in Nat
      OBVIOUS
    <3> QED BY <3>1, <3>2, <3>3, UpTo
  <2>4. ASSUME NEW i \in 1 .. N PROVE c(i) <= words => f[c(i)] = Is(i, B[i])
    <3>1. N - i \in 0 .. N - 1 /\ N - (N - i) = i
      OBVIOUS
    <3>2. N - i \in P
      <4> HIDE DEF P
      <4> QED BY <2>3, <3>1
    <3> QED BY <3>1, <3>2
  <2>5. ASSUME NEW i \in 1 .. N - 1
        PROVE  /\ c(i) - 1 <= words => f[c(i) - 1] = Is(i + 1, B[i + 1])
               /\ c(i) <= words => f[c(i)] = Is(i, B[i])
    <3>1. i \in 1 .. N /\ i + 1 \in 1 .. N
      BY <1>7
    <3> HIDE DEF P
    <3> QED BY <2>1, <2>4, <3>1
  <2> QED BY <2>5
<1>10. Is(N, B[N]) = [i |-> N - 1, p |-> identity_sequence(N)]
  BY <1>2 DEF Is
<1>11. 1 \in 1 .. N /\ c(1) \in Nat /\ c(1) <= c(1)
  BY <1>3
<1>12. ShuffledAfter(c(1)) = Is(1, B[1])
  <2>1. PICK f : /\ f[0] = Is(N, B[N])
                 /\ \A k \in 1 .. c(1) : f[k] = ShuffleStep(s, k, f[k - 1])
                 /\ ShuffledAfter(c(1)) = f[c(1)]
    BY <1>10, <1>11, ShuffleRuns
  <2>2. CASE N = 1
    BY <1>8, <2>1, <2>2
  <2>3. CASE N # 1
    <3>1. 1 \in 1 .. N - 1
      BY <2>3
    <3> QED BY <1>9, <1>11, <2>1, <3>1
  <2> QED BY <2>2, <2>3
<1>13. ASSUME c(1) > 0 PROVE ShuffledAfter(c(1) - 1).i > 0
  <2>1. 1 \in 1 .. N - 1 /\ c(1) - 1 \in Nat /\ c(1) - 1 <= c(1) - 1
    <3>1. N # 1
      BY <1>8, <1>13
    <3> QED BY <1>11, <1>13, <3>1
  <2> DEFINE words == c(1) - 1
  <2>2. PICK f : /\ f[0] = Is(N, B[N])
                 /\ \A k \in 1 .. words : f[k] = ShuffleStep(s, k, f[k - 1])
                 /\ ShuffledAfter(words) = f[words]
    <3>1. words \in Nat
      BY <2>1
    <3> HIDE DEF words
    <3> QED BY <1>10, <3>1, ShuffleRuns
  <2>3. f[words] = Is(1 + 1, B[1 + 1])
    <3>1. words \in Nat /\ c(1) - 1 <= words
      BY <2>1
    <3>2. \A i \in 1 .. N - 1 : c(i) - 1 <= words => f[c(i) - 1] = Is(i + 1, B[i + 1])
      <4> HIDE DEF words
      <4> QED BY <1>9, <2>2, <3>1
    <3> QED BY <2>1, <3>1, <3>2
  <2>4. Is(1 + 1, B[1 + 1]).i = 1
    BY DEF Is
  <2> QED BY <2>2, <2>3, <2>4
<1>14. Is(1, B[1]) = [i |-> 0, p |-> B[1].bank]
  BY DEF Is
<1> QED BY <1>2, <1>12, <1>13, <1>14 DEF c

\* What the draws are made from.
SeedInv == N \in 1 .. VAL - 1 /\ stream \in Seq(Words)

(* The words and the length are never anything else.                       *)
LEMMA SeedInvariance == ObserversSpec => []SeedInv
<1>1. ObserversInit => SeedInv
  BY DEF ObserversInit, SeedInv
<1>2. SeedInv /\ [ObserversNext]_observersVars => SeedInv'
  <2> SUFFICES ASSUME SeedInv, [ObserversNext]_observersVars PROVE SeedInv'
    OBVIOUS
  <2> USE DEF SeedInv
  <2>1. CASE NextWord
    <3>1. PICK x \in Words : stream' = Append(stream, x)
      BY <2>1 DEF NextWord
    <3>2. N' = N
      BY <2>1 DEF NextWord
    <3> QED BY <3>1, <3>2, AppendProperties
  <2>2. CASE DrawOrder
    BY <2>2 DEF DrawOrder
  <2>3. CASE ReadWeights
    BY <2>3 DEF ReadWeights
  <2>4. CASE Perturb
    BY <2>4 DEF Perturb
  <2>5. CASE VisitNext
    BY <2>5 DEF VisitNext
  <2>6. CASE UNCHANGED observersVars
    BY <2>6 DEF observersVars
  <2> QED BY <2>1, <2>2, <2>3, <2>4, <2>5, <2>6 DEF ObserversNext
<1> QED BY <1>1, <1>2, PTL DEF ObserversSpec

(* A whole period of a generator is a stream that has every word.          *)
LEMMA PeriodIsAStream == SeedInv /\ IsPeriod => IsStream(stream)
<1> SUFFICES ASSUME SeedInv, IsPeriod PROVE IsStream(stream)
  OBVIOUS
<1>1. Words \subseteq Nat
  BY ObserversAssumption
<1>2. stream \in Seq(Nat)
  BY <1>1, SeqMonotonic DEF SeedInv
<1>3. {0, 1} \subseteq {stream[k] : k \in DOMAIN stream}
  BY DEF IsPeriod
<1> QED BY <1>2, <1>3 DEF IsStream

(* The two statements of O1 are one.                                       *)
LEMMA OrdersAreOrders ==
  ASSUME NEW p \in Orders(N)
  PROVE  IsOrder(p)
<1>1. DOMAIN p = 0 .. N - 1 /\ {p[k] : k \in 0 .. N - 1} = 0 .. N - 1
  BY DEF Orders
<1> QED BY <1>1, Zenon DEF IsOrder

(* A multiple of a row that covers a count covers one more clock, unless   *)
(* the count is itself a multiple of the row.                              *)
LEMMA RoomForOneClock ==
  ASSUME NEW n \in Nat \ {0}, NEW cost \in Nat \ {0}, NEW rate \in Nat \ {0},
         rate * n >= cost, (rate - 1) * n < cost
  PROVE  rate * n >= 1 + cost <=> cost % n # 0
<1> DEFINE q == cost \div n
           rest == cost % n
<1>1. cost = n * q + rest /\ rest \in 0 .. n - 1 /\ q \in Int
  BY DivMod
<1>2. rate * n = n * rate /\ (rate - 1) * n = n * rate - n /\ n * rate \in Int
  OBVIOUS
<1>3. CASE rest = 0
  <2> HIDE DEF q, rest
  <2>1. n * q < n * rate + 1 /\ n * rate < n * q + n
    <3>1. n * q \in Int
      BY <1>1
    <3>2. cost = n * q
      BY <1>1, <1>3, <3>1
    <3> QED BY <1>2, <3>1, <3>2
  <2>2. n * (rate - q) < n /\ n * (q - rate) <= 0
    <3>1. n * (rate - q) = n * rate - n * q /\ n * (q - rate) = n * q - n * rate
      BY <1>1
    <3>2. n * q \in Int /\ n * rate \in Int
      BY <1>1, <1>2
    <3> QED BY <2>1, <3>1, <3>2
  <2>3. rate - q < 1 /\ q - rate <= 0
    <3>1. rate - q >= 1 => n * (rate - q) >= n
      <4>1. ASSUME NEW k \in Int, k >= 1 PROVE n * k >= n
        BY <4>1
      <4> QED BY <1>1, <4>1
    <3>2. q - rate >= 1 => n * (q - rate) >= n
      <4>1. ASSUME NEW k \in Int, k >= 1 PROVE n * k >= n
        BY <4>1
      <4> QED BY <1>1, <4>1
    <3> QED BY <1>1, <2>2, <3>1, <3>2
  <2>4. rate = q
    BY <1>1, <2>3
  <2>5. rate * n = cost
    BY <1>1, <1>2, <1>3, <2>4
  <2> QED BY <1>3, <2>5 DEF rest
<1>4. CASE rest # 0
  <2>1. rate * n # cost
    <3> SUFFICES ASSUME rate * n = cost PROVE FALSE
      OBVIOUS
    <3>1. cost = n * rate + 0 /\ 0 \in 0 .. n - 1 /\ rate \in Int /\ cost \in Int
      BY <1>2
    <3>2. cost % n = 0
      BY <3>1, ModUnique
    <3> QED BY <1>4, <3>2 DEF rest
  <2> QED BY <1>2, <1>4, <2>1 DEF rest
<1> QED BY <1>3, <1>4

(* The rate of a fill covers its steps, no smaller one does, and the clock *)
(* of the setup fits unless the steps are whole rows.                      *)
LEMMA RateSuffices ==
  ASSUME NEW cost \in Nat, NEW n \in Nat \ {0}
  PROVE  LET need == ceiling(cost, n)
             rate == IF need < 1 THEN 1 ELSE need
         IN  /\ rate * n >= cost
             /\ rate > 1 => (rate - 1) * n < cost
             /\ ceiling(cost, n * rate) <= 1
             /\ rate * n >= fill_clocks(cost) <=> cost = 0 \/ cost % n # 0
             /\ (rate + 1) * n >= fill_clocks(cost)
<1> DEFINE need == ceiling(cost, n)
           rate == IF need < 1 THEN 1 ELSE need
<1>1. need \in Nat /\ need * n >= cost /\ (need > 0 => (need - 1) * n < cost)
  BY CeilingCovers
<1> HIDE DEF need
<1>2. rate \in Nat \ {0}
  BY <1>1
<1>3. rate * n >= cost
  <2>1. CASE need < 1
    <3>1. need = 0 /\ rate = 1
      BY <1>1, <2>1
    <3>2. need * n = 0 /\ rate * n = n
      BY <3>1
    <3> QED BY <1>1, <3>2
  <2>2. CASE ~(need < 1)
    BY <1>1, <2>2
  <2> QED BY <2>1, <2>2
<1>4. rate > 1 => (rate - 1) * n < cost
  BY <1>1
<1> HIDE DEF rate
<1>5. ceiling(cost, n * rate) <= 1
  <2> DEFINE y == n * rate
  <2>1. y = rate * n
    BY <1>2
  <2>2. y \in Nat \ {0}
    <3>1. n >= 1 /\ rate >= 1
      BY <1>2
    <3>2. n * rate >= n * 1
      BY <1>2, <3>1
    <3> QED BY <1>2, <3>1, <3>2
  <2> HIDE DEF y
  <2>3. cost <= y
    <3>1. rate * n \in Int
      BY <1>2
    <3> QED BY <1>3, <2>1, <3>1
  <2>4. ceiling(cost, y) <= 1
    BY <2>2, <2>3, CeilingCovers
  <2> QED BY <2>4 DEF y
<1>6. rate * n >= fill_clocks(cost) <=> cost = 0 \/ cost % n # 0
  <2>1. CASE cost = 0
    <3>1. rate >= 1 /\ n >= 1
      BY <1>2
    <3>2. rate * n >= 1 * n
      BY <1>2, <3>1
    <3> QED BY <1>2, <2>1, <3>1, <3>2 DEF fill_clocks
  <2>2. CASE cost # 0
    <3>1. (rate - 1) * n < cost
      BY <1>2, <1>4, <2>2
    <3> QED BY <1>2, <1>3, <2>2, <3>1, RoomForOneClock DEF fill_clocks
  <2> QED BY <2>1, <2>2
<1>7. (rate + 1) * n >= fill_clocks(cost)
  <2>1. (rate + 1) * n = rate * n + n /\ rate * n \in Int
    BY <1>2
  <2> QED BY <1>3, <2>1 DEF fill_clocks
<1> QED BY <1>3, <1>4, <1>5, <1>6, <1>7 DEF need, rate

\* Whatever words the generator yields, and for every N: the fill of a bank and
\* the derivation of a pair take the words they count, each once; both orders are
\* permutations; the walk without multiplication is the closed form; and the
\* rate required of a pass is the least that covers the steps of a fill, late by
\* the clock of its setup exactly when those steps are whole rows.
THEOREM DrawsTakeTheirWords == ObserversSpec => []DrawsAreOfTheirWords
<1>1. SeedInv => DrawsAreOfTheirWords
  <2> SUFFICES ASSUME SeedInv PROVE DrawsAreOfTheirWords
    OBVIOUS
  <2>1. CASE ~IsPeriod
    BY <2>1 DEF DrawsAreOfTheirWords, BankIsOfItsWords, PairIsOfItsWords,
                WalkIsTheClosedForm, RateCoversTheFill
  <2>2. CASE IsPeriod
    <3>1. IsStream(stream)
      BY <2>2, PeriodIsAStream
    <3>2. N \in Nat \ {0} /\ VAL \in Nat /\ N < VAL
      BY ObserversAssumption DEF SeedInv
    <3> DEFINE v == bank_and_cost(stream, 0, N)
               d == derive_ab(stream, N)
    <3>3. v.bank \in Orders(N) /\ v.cost \in Nat
      <4>1. 0 \in Positions(stream)
        BY <3>1, StreamHasWords
      <4>2. v \in Banks(stream, N)
        BY <3>1, <3>2, <4>1, BankIsAnOrder
      <4> QED BY <4>2 DEF Banks
    <3>4. permuted_order(stream, N) = v.bank /\ bank_fill_cycles(stream, N) = v.cost
      BY DEF permuted_order, shuffle_from, bank_fill_cycles
    <3>5. BankIsOfItsWords
      <4>1. /\ ShuffledAfter(v.cost) = [i |-> 0, p |-> v.bank]
            /\ v.cost > 0 => ShuffledAfter(v.cost - 1).i > 0
        BY <3>1, <3>2, BankTakesItsWords
      <4>2. IsOrder(v.bank)
        BY <3>3, OrdersAreOrders
      <4> HIDE DEF v
      <4> QED BY <3>4, <4>1, <4>2 DEF BankIsOfItsWords
    <3>6. PairIsOfItsWords
      <4> SUFFICES ASSUME N > 1
                   PROVE  /\ PairAfter(d.draws) = [a |-> d.a, b |-> d.b]
                          /\ PairAfter(d.draws - 1).b = NotYet
        BY DEF PairIsOfItsWords
      <4>1. N \in Nat \ {0, 1} /\ N <= VAL
        BY <3>2
      <4> QED BY <3>1, <3>2, <4>1, PairTakesItsWords
    <3>7. WalkIsTheClosedForm
      <4> DEFINE closed == affine_sequence(d.a, d.b, N)
      <4>1. d.a \in 0 .. N - 1 /\ d.b \in 0 .. N - 1
        BY <3>1, <3>2, PairIsOfTheRow
      <4>2. IsOrder(closed)
        BY <3>1, <3>2, DerivedOrderIsAnOrder, OrdersAreOrders
      <4>3. affine_incremental(d.a, d.b, N, VAL) = closed
        <5>1. 2 * VAL \in Nat /\ 2 * VAL >= 2 * N
          BY <3>2
        <5> HIDE DEF d
        <5>2. affine_walk(d.a, d.b, N, 2 * VAL) = affine_sequence(d.a, d.b, N)
          BY <3>2, <4>1, <5>1, WalkIsClosed
        <5> QED BY <5>2 DEF affine_incremental
      <4>4. 2 * N <= VAL => affine_incremental_narrow(d.a, d.b, N, VAL) = closed
        <5> SUFFICES ASSUME 2 * N <= VAL
                     PROVE  affine_walk(d.a, d.b, N, VAL) = affine_sequence(d.a, d.b, N)
          BY DEF affine_incremental_narrow
        <5>1. VAL >= 2 * N
          BY <3>2
        <5> HIDE DEF d
        <5> QED BY <3>2, <4>1, <5>1, WalkIsClosed
      <4> QED BY <4>2, <4>3, <4>4 DEF WalkIsTheClosedForm
    <3>8. RateCoversTheFill
      <4> DEFINE cost == v.cost
                 need == ceiling(cost, N)
                 rate == IF need < 1 THEN 1 ELSE need
      <4>1. cost \in Nat
        BY <3>3
      <4> HIDE DEF cost
      <4>2. /\ rate * N >= cost
            /\ rate > 1 => (rate - 1) * N < cost
            /\ ceiling(cost, N * rate) <= 1
            /\ rate * N >= fill_clocks(cost) <=> cost = 0 \/ cost % N # 0
            /\ (rate + 1) * N >= fill_clocks(cost)
        BY <3>2, <4>1, RateSuffices
      <4>3. bank_fill_cycles(stream, N) = cost
        BY <3>4 DEF cost
      <4>4. required_rate(stream, N) = rate
        BY <4>3, Zenon DEF required_rate
      <4>5. bank_fill_passes(stream, N, rate) = ceiling(cost, N * rate)
        BY <4>3, Zenon DEF bank_fill_passes
      <4> HIDE DEF rate
      <4> QED BY <4>2, <4>3, <4>4, <4>5 DEF RateCoversTheFill
    <3> QED BY <3>5, <3>6, <3>7, <3>8 DEF DrawsAreOfTheirWords
  <2> QED BY <2>1, <2>2
<1> QED BY <1>1, SeedInvariance, PTL

-----------------------------------------------------------------------------
(* The reference model.  The sum of the library, FoldFunction, is given its *)
(* equation (it is defined by CHOOSE over recursions), then shown not to    *)
(* depend on the order of the summation.                                    *)

(* Induction over a finite set, an element at a time.                      *)
LEMMA ElementByElement ==
  ASSUME NEW S, IsFiniteSet(S), NEW P, {} \in P,
         \A s \in SUBSET S : \A x \in S \ s : s \in P => s \cup {x} \in P
  PROVE  S \in P
<1> DEFINE D == SUBSET S
           rank == [s \in D |-> Cardinality(s)]
<1>1. \A s \in D : IsFiniteSet(s) /\ Cardinality(s) \in Nat
  BY FS_Subset, FS_CardinalityType
<1>2. rank \in [D -> Nat]
  BY <1>1
<1>3. ASSUME NEW s \in D, \A y \in D : rank[y] < rank[s] => y \in P PROVE s \in P
  <2>1. CASE s = {}
    BY <2>1
  <2>2. CASE s # {}
    <3>1. PICK x \in s : TRUE
      BY <2>2
    <3> DEFINE r == s \ {x}
    <3>2. IsFiniteSet(s) /\ Cardinality(s) \in Nat
      BY <1>1
    <3>3. r \in D /\ x \in S \ r /\ r \cup {x} = s
      BY <3>1
    <3>4. Cardinality(r) = Cardinality(s) - 1
      BY <3>1, <3>2, FS_RemoveElement
    <3>5. Cardinality(r) \in Nat
      BY <1>1, <3>3
    <3>6. rank[r] < rank[s]
      BY <3>2, <3>3, <3>4, <3>5
    <3>7. r \in P
      <4> HIDE DEF r, rank
      <4> QED BY <1>3, <3>3, <3>6
    <3> HIDE DEF r
    <3> QED BY <3>3, <3>7
  <2> QED BY <2>1, <2>2
<1> HIDE DEF rank, D
<1>4. \A s \in D : s \in P
  BY <1>2, <1>3, RankInduction
<1> QED BY <1>4 DEF D

\* The sum of f over S, in the words of the library.
SumOn(S, f) == FoldFunctionOnSet(+, 0, f, S)

IsSum(I, S, f) ==
  I = [s \in SUBSET S |-> IF s = {} THEN 0
                          ELSE LET x == CHOOSE x \in s : TRUE IN f[x] + I[s \ {x}]]

(* The recursion of the library has a solution.                            *)
LEMMA SumExists ==
  ASSUME NEW S, IsFiniteSet(S), NEW f, \A x \in S : f[x] \in Nat
  PROVE  \E I : I \in [SUBSET S -> Nat] /\ IsSum(I, S, f)
<1> DEFINE D == SUBSET S
           pick(s) == CHOOSE x \in s : TRUE
           ends == [s \in D |-> s = {}]
           val == [s \in D |-> 0]
           g == [s \in D |-> [v \in Nat |-> IF s = {} THEN 0 ELSE f[pick(s)] + v]]
           next == [s \in D |-> s \ {pick(s)}]
           rank == [s \in D |-> Cardinality(s)]
<1>1. \A s \in D : IsFiniteSet(s) /\ Cardinality(s) \in Nat
  BY FS_Subset, FS_CardinalityType
<1>2. \A s \in D : s # {} => pick(s) \in s /\ f[pick(s)] \in Nat
  OBVIOUS
<1>3. rank \in [D -> Nat] /\ val \in [D -> Nat]
  BY <1>1
<1>4. g \in [D -> [Nat -> Nat]]
  <2>1. \A s \in D : [v \in Nat |-> IF s = {} THEN 0 ELSE f[pick(s)] + v] \in [Nat -> Nat]
    <3> HIDE DEF pick, D
    <3> QED BY <1>2
  <2> HIDE DEF D, pick
  <2> QED BY <2>1
<1>5. ASSUME NEW s \in D, ~ends[s] PROVE next[s] \in D /\ rank[next[s]] < rank[s]
  <2> DEFINE x == pick(s)
             r == s \ {x}
  <2>1. s # {} /\ x \in s
    BY <1>2, <1>5
  <2>2. r \in D /\ next[s] = r
    OBVIOUS
  <2>3. IsFiniteSet(s) /\ Cardinality(s) \in Nat /\ Cardinality(r) \in Nat
    BY <1>1, <2>2
  <2>4. Cardinality(r) = Cardinality(s) - 1
    <3> HIDE DEF x
    <3> QED BY <2>1, <2>3, FS_RemoveElement
  <2>5. rank[r] = Cardinality(r) /\ rank[s] = Cardinality(s)
    BY <2>2
  <2> HIDE DEF r, rank, next
  <2> QED BY <2>2, <2>3, <2>4, <2>5
<1>6. PICK I : IsLoop(I, D, Nat, ends, val, g, next)
  <2> HIDE DEF D, ends, val, g, next, rank
  <2> QED BY <1>3, <1>4, <1>5, LoopExists, Zenon
<1>7. I \in [D -> Nat]
  BY <1>6 DEF IsLoop
<1>8. ASSUME NEW s \in D
      PROVE  I[s] = IF s = {} THEN 0 ELSE f[pick(s)] + I[s \ {pick(s)}]
  <2>1. I[s] = IF ends[s] THEN val[s] ELSE g[s][I[next[s]]]
    BY <1>6 DEF IsLoop
  <2>2. ends[s] <=> s = {}
    OBVIOUS
  <2>3. val[s] = 0 /\ next[s] = s \ {pick(s)} /\ next[s] \in D
    OBVIOUS
  <2>4. s # {} => g[s][I[next[s]]] = f[pick(s)] + I[next[s]]
    <3>1. I[next[s]] \in Nat
      <4> HIDE DEF next, D
      <4> QED BY <1>7, <2>3
    <3> HIDE DEF next, pick, D
    <3> QED BY <3>1
  <2> HIDE DEF ends, val, next, g, pick, D
  <2> QED BY <2>1, <2>2, <2>3, <2>4
<1>9. IsSum(I, S, f)
  <2> HIDE DEF ends, val, next, g
  <2>1. I = [s \in D |-> I[s]]
    BY <1>7
  <2>2. \A s \in D : I[s] = IF s = {} THEN 0
                            ELSE LET x == CHOOSE x \in s : TRUE IN f[x] + I[s \ {x}]
    BY <1>8
  <2> QED BY <2>1, <2>2 DEF IsSum
<1> QED BY <1>7, <1>9

(* Hence it is the sum: nothing of nothing, and an element more of more.   *)
LEMMA SumEquation ==
  ASSUME NEW S, IsFiniteSet(S), NEW f, \A x \in S : f[x] \in Nat
  PROVE  /\ SumOn(S, f) \in Nat
         /\ S = {} => SumOn(S, f) = 0
         /\ S # {} => LET x == CHOOSE x \in S : TRUE
                      IN  SumOn(S, f) = f[x] + SumOn(S \ {x}, f)
<1> DEFINE J(s) == CHOOSE I : IsSum(I, s, f)
<1>1. \A s : SumOn(s, f) = J(s)[s]
  BY Zenon DEF SumOn, FoldFunctionOnSet, MapThenFoldSet, IsSum
<1>2. ASSUME NEW s \in SUBSET S
      PROVE  IsSum(J(s), s, f)
  <2>1. IsFiniteSet(s) /\ \A x \in s : f[x] \in Nat
    BY FS_Subset
  <2>2. \E I : IsSum(I, s, f)
    BY <2>1, SumExists
  <2> QED BY <2>2, Zenon
<1> HIDE DEF J
<1>3. ASSUME NEW s \in SUBSET S, NEW t \in SUBSET s
      PROVE  J(s)[t] = IF t = {} THEN 0
                       ELSE LET x == CHOOSE x \in t : TRUE IN f[x] + J(s)[t \ {x}]
  BY <1>2 DEF IsSum
<1>4. ASSUME NEW s \in SUBSET S, NEW t \in SUBSET s
      PROVE  J(s)[t] = J(t)[t] /\ J(t)[t] \in Nat
  <2> DEFINE D == SUBSET t
             rank == [u \in D |-> Cardinality(u)]
             P == {u \in D : J(s)[u] = J(t)[u] /\ J(t)[u] \in Nat}
  <2>1. \A u \in D : IsFiniteSet(u) /\ Cardinality(u) \in Nat
    BY FS_Subset, FS_CardinalityType
  <2>2. rank \in [D -> Nat]
    BY <2>1
  <2>3. ASSUME NEW u \in D, \A y \in D : rank[y] < rank[u] => y \in P PROVE u \in P
    <3>1. u \in SUBSET s /\ t \in SUBSET S
      OBVIOUS
    <3>2. CASE u = {}
      <4>1. J(s)[u] = 0 /\ J(t)[u] = 0
        BY <1>3, <3>1, <3>2
      <4> QED BY <4>1
    <3>3. CASE u # {}
      <4> DEFINE x == CHOOSE x \in u : TRUE
                 r == u \ {x}
      <4>1. x \in u /\ r \in D
        BY <3>3
      <4>2. J(s)[u] = f[x] + J(s)[r] /\ J(t)[u] = f[x] + J(t)[r]
        BY <1>3, <3>1, <3>3
      <4> HIDE DEF x
      <4>3. Cardinality(r) = Cardinality(u) - 1
        BY <2>1, <4>1, FS_RemoveElement
      <4>4. rank[r] < rank[u]
        BY <2>1, <4>1, <4>3
      <4>5. r \in P
        <5> HIDE DEF rank, P, r, D
        <5> QED BY <2>3, <4>1, <4>4
      <4>6. f[x] \in Nat
        BY <4>1
      <4> HIDE DEF r
      <4> QED BY <4>2, <4>5, <4>6
    <3> QED BY <3>2, <3>3
  <2>4. \A u \in D : u \in P
    <3> HIDE DEF rank, P, D
    <3> QED BY <2>2, <2>3, RankInduction
  <2>5. t \in D
    OBVIOUS
  <2> QED BY <2>4, <2>5
<1>5. S \in SUBSET S /\ J(S)[S] \in Nat
  BY <1>4
<1>6. ASSUME S = {} PROVE J(S)[S] = 0
  BY <1>3, <1>5, <1>6
<1>7. ASSUME S # {}
      PROVE  LET x == CHOOSE x \in S : TRUE
             IN  x \in S /\ J(S)[S] = f[x] + J(S \ {x})[S \ {x}]
  <2> DEFINE x == CHOOSE x \in S : TRUE
  <2>1. x \in S
    BY <1>7
  <2>2. J(S)[S] = f[x] + J(S)[S \ {x}]
    BY <1>3, <1>5, <1>7
  <2> HIDE DEF x
  <2>3. J(S)[S \ {x}] = J(S \ {x})[S \ {x}]
    BY <1>4, <1>5
  <2>4. x \in S /\ J(S)[S] = f[x] + J(S \ {x})[S \ {x}]
    BY <2>1, <2>2, <2>3
  <2> QED BY <2>4 DEF x
<1> HIDE DEF SumOn
<1>8. \A s : SumOn(s, f) = J(s)[s]
  BY <1>1
<1> QED BY <1>5, <1>6, <1>7, <1>8

(* The order of the summation does not matter: any element can be last.    *)
LEMMA SumPoint ==
  ASSUME NEW S, IsFiniteSet(S), NEW f, \A x \in S : f[x] \in Nat, NEW e \in S
  PROVE  SumOn(S, f) = f[e] + SumOn(S \ {e}, f)
<1> DEFINE D == SUBSET S
           rank == [s \in D |-> Cardinality(s)]
           P == {s \in D : \A x \in s : SumOn(s, f) = f[x] + SumOn(s \ {x}, f)}
<1>1. \A s \in D : IsFiniteSet(s) /\ Cardinality(s) \in Nat
  BY FS_Subset, FS_CardinalityType
<1>2. rank \in [D -> Nat]
  BY <1>1
<1>3. ASSUME NEW s \in D
      PROVE  /\ SumOn(s, f) \in Nat
             /\ s # {} => LET x == CHOOSE x \in s : TRUE
                          IN  SumOn(s, f) = f[x] + SumOn(s \ {x}, f)
  BY <1>1, SumEquation
<1>4. ASSUME NEW s \in D, NEW x \in s
      PROVE  s \ {x} \in D /\ rank[s \ {x}] < rank[s]
  <2> DEFINE r == s \ {x}
  <2>1. r \in D
    OBVIOUS
  <2>2. IsFiniteSet(s) /\ Cardinality(s) \in Nat /\ Cardinality(r) \in Nat
    BY <1>1, <2>1
  <2>3. Cardinality(r) = Cardinality(s) - 1
    BY <2>2, FS_RemoveElement
  <2>4. rank[r] = Cardinality(r) /\ rank[s] = Cardinality(s)
    BY <2>1
  <2> HIDE DEF rank, r
  <2>5. r \in D /\ rank[r] < rank[s]
    BY <2>1, <2>2, <2>3, <2>4
  <2> QED BY <2>5 DEF r
<1>5. ASSUME NEW s \in D, \A y \in D : rank[y] < rank[s] => y \in P PROVE s \in P
  <2> SUFFICES ASSUME NEW x \in s PROVE SumOn(s, f) = f[x] + SumOn(s \ {x}, f)
    OBVIOUS
  <2> DEFINE y == CHOOSE y \in s : TRUE
  <2>1. y \in s /\ SumOn(s, f) = f[y] + SumOn(s \ {y}, f)
    BY <1>3
  <2> HIDE DEF y, rank
  <2>2. CASE x = y
    BY <2>1, <2>2
  <2>3. CASE x # y
    <3> DEFINE r == s \ {x}
               q == s \ {y}
               b == s \ {x, y}
    <3>1. /\ r \in D /\ q \in D /\ b \in D /\ y \in r /\ x \in q
          /\ r \ {y} = b /\ q \ {x} = b
      BY <2>1, <2>3
    <3>2. rank[r] < rank[s] /\ rank[q] < rank[s]
      BY <1>4, <2>1
    <3> HIDE DEF r, q, b
    <3>3. r \in P /\ q \in P
      <4> HIDE DEF P, D
      <4> QED BY <1>5, <3>1, <3>2
    <3>4. SumOn(r, f) = f[y] + SumOn(b, f) /\ SumOn(q, f) = f[x] + SumOn(b, f)
      BY <3>1, <3>3
    <3>5. SumOn(b, f) \in Nat /\ f[x] \in Nat /\ f[y] \in Nat
      BY <1>3, <2>1, <3>1
    <3>6. SumOn(s, f) = f[y] + SumOn(q, f)
      BY <2>1 DEF q
    <3>7. SumOn(s, f) = f[x] + SumOn(r, f)
      BY <3>4, <3>5, <3>6
    <3> QED BY <3>7 DEF r
  <2> QED BY <2>2, <2>3
<1>6. \A s \in D : s \in P
  <2> HIDE DEF rank, P, D
  <2> QED BY <1>2, <1>5, RankInduction
<1>7. S \in D
  OBVIOUS
<1> QED BY <1>6, <1>7

(* Sums over one set add up pointwise.                                     *)
LEMMA SumAdd ==
  ASSUME NEW S, IsFiniteSet(S), NEW f, \A x \in S : f[x] \in Nat,
         NEW s \in SUBSET S, NEW e \in S \ s
  PROVE  /\ SumOn(s \cup {e}, f) = f[e] + SumOn(s, f)
         /\ SumOn(s, f) \in Nat /\ SumOn({}, f) = 0
<1> DEFINE t == s \cup {e}
<1>1. t \in SUBSET S /\ t \ {e} = s /\ e \in t
  OBVIOUS
<1>2. IsFiniteSet(t) /\ IsFiniteSet(s) /\ \A x \in t : f[x] \in Nat
  BY <1>1, FS_Subset
<1> HIDE DEF t
<1>3. SumOn(t, f) = f[e] + SumOn(t \ {e}, f)
  BY <1>1, <1>2, SumPoint
<1>4. SumOn(s, f) \in Nat
  BY <1>2, SumEquation
<1>5. SumOn({}, f) = 0
  <2>1. IsFiniteSet({})
    BY FS_EmptySet
  <2> QED BY <2>1, SumEquation
<1> QED BY <1>1, <1>3, <1>4, <1>5 DEF t

(* Nothing adds up to nothing: a list of no rows has the total 0.          *)
LEMMA SumEmpty ==
  ASSUME NEW f
  PROVE  SumOn({}, f) = 0
<1>1. IsFiniteSet({}) /\ \A x \in {} : f[x] \in Nat
  BY FS_EmptySet
<1> QED BY <1>1, SumEquation

(* Only the values over the set matter, in whatever order they come.       *)
LEMMA SumReindexed ==
  ASSUME NEW S, IsFiniteSet(S), NEW T, NEW p \in [S -> T],
         \A x, y \in S : p[x] = p[y] => x = y,
         {p[x] : x \in S} = T,
         NEW f, \A z \in T : f[z] \in Nat, NEW g, \A x \in S : g[x] = f[p[x]]
  PROVE  SumOn(S, g) = SumOn(T, f)
<1> DEFINE im(s) == {p[x] : x \in s}
           P == {s \in SUBSET S : SumOn(s, g) = SumOn(im(s), f)}
<1>1. IsFiniteSet(T)
  <2>1. \A z \in T : \E x \in S : p[x] = z
    OBVIOUS
  <2> QED BY <2>1, CountByMap
<1>2. {} \in P
  <2>1. im({}) = {}
    OBVIOUS
  <2> QED BY <2>1, SumEmpty
<1>3. ASSUME NEW s \in SUBSET S, NEW x \in S \ s, s \in P PROVE s \cup {x} \in P
  <2>1. im(s \cup {x}) = im(s) \cup {p[x]} /\ im(s) \in SUBSET T /\ p[x] \in T \ im(s)
    OBVIOUS
  <2>2. \A y \in S : g[y] \in Nat
    OBVIOUS
  <2> HIDE DEF im
  <2>3. SumOn(s \cup {x}, g) = g[x] + SumOn(s, g)
    BY <2>2, SumAdd
  <2>4. SumOn(im(s) \cup {p[x]}, f) = f[p[x]] + SumOn(im(s), f)
    BY <1>1, <2>1, SumAdd
  <2>5. s \cup {x} \in SUBSET S
    OBVIOUS
  <2> QED BY <1>3, <2>1, <2>3, <2>4, <2>5
<1>4. S \in P
  <2> HIDE DEF P
  <2> QED BY <1>2, <1>3, ElementByElement
<1> QED BY <1>4

(* Two functions with the same values over a set have the same sum.        *)
LEMMA SumCongruent ==
  ASSUME NEW S, IsFiniteSet(S), NEW f, \A x \in S : f[x] \in Nat,
         NEW g, \A x \in S : g[x] = f[x]
  PROVE  SumOn(S, g) = SumOn(S, f)
<1> DEFINE p == [x \in S |-> x]
<1>1. p \in [S -> S] /\ {p[x] : x \in S} = S
  OBVIOUS
<1>2. \A x \in S : g[x] = f[p[x]]
  OBVIOUS
<1>3. \A x, y \in S : p[x] = p[y] => x = y
  OBVIOUS
<1> HIDE DEF p
<1> QED BY <1>1, <1>2, <1>3, SumReindexed

(* A sum of bits counts the ones.                                          *)
LEMMA SumOfBits ==
  ASSUME NEW S, IsFiniteSet(S), NEW f, \A x \in S : f[x] \in {0, 1}
  PROVE  SumOn(S, f) = Cardinality({x \in S : f[x] = 1})
<1> DEFINE ones(s) == {x \in s : f[x] = 1}
           P == {s \in SUBSET S : SumOn(s, f) = Cardinality(ones(s))}
<1>1. {} \in P
  <2>1. ones({}) = {}
    OBVIOUS
  <2> QED BY <2>1, SumEmpty, FS_EmptySet
<1>2. ASSUME NEW s \in SUBSET S, NEW x \in S \ s, s \in P PROVE s \cup {x} \in P
  <2>1. ones(s \cup {x}) = IF f[x] = 1 THEN ones(s) \cup {x} ELSE ones(s)
    OBVIOUS
  <2>2. IsFiniteSet(ones(s)) /\ Cardinality(ones(s)) \in Nat
    <3>1. ones(s) \in SUBSET S
      OBVIOUS
    <3> HIDE DEF ones
    <3> QED BY <3>1, FS_Subset, FS_CardinalityType
  <2>3. x \notin ones(s)
    OBVIOUS
  <2>4. \A y \in S : f[y] \in Nat
    OBVIOUS
  <2> HIDE DEF ones
  <2>5. Cardinality(ones(s) \cup {x}) = Cardinality(ones(s)) + 1
    BY <2>2, <2>3, FS_AddElement
  <2>6. SumOn(s \cup {x}, f) = f[x] + SumOn(s, f)
    BY <2>4, SumAdd
  <2>7. s \cup {x} \in SUBSET S /\ f[x] \in {0, 1}
    OBVIOUS
  <2> QED BY <1>2, <2>1, <2>2, <2>5, <2>6, <2>7
<1>3. S \in P
  <2> HIDE DEF P
  <2> QED BY <1>1, <1>2, ElementByElement
<1> QED BY <1>3

(* The sums over the first rows are the prefix sums.                       *)
LEMMA SumIsPrefix ==
  ASSUME NEW c \in Nat, NEW w, \A i \in 0 .. c - 1 : w[i] \in Nat, NEW k \in 0 .. c
  PROVE  SumOn(0 .. k - 1, w) = PrefixSum(c, w)[k]
<1> DEFINE S == 0 .. c - 1
           P == {x \in 0 .. c : SumOn(0 .. x - 1, w) = PrefixSum(c, w)[x]}
<1>1. 0 \in P
  <2>1. 0 .. 0 - 1 = {}
    OBVIOUS
  <2> QED BY <2>1, SumEmpty, PrefixSumEquation
<1>2. ASSUME NEW x \in 1 .. c, x - 1 \in P PROVE x \in P
  <2> DEFINE s == 0 .. (x - 1) - 1
  <2>1. s \in SUBSET S /\ x - 1 \in S \ s /\ 0 .. x - 1 = s \cup {x - 1} /\ x - 1 \in 0 .. c
    OBVIOUS
  <2>2. IsFiniteSet(S)
    BY CountBelow
  <2> HIDE DEF s
  <2>3. SumOn(s \cup {x - 1}, w) = w[x - 1] + SumOn(s, w)
    <3> DEFINE e == x - 1
    <3> HIDE DEF S, e
    <3>1. \A i \in S : w[i] \in Nat
      BY DEF S
    <3>2. e \in S \ s
      BY <2>1 DEF e
    <3>3. SumOn(s \cup {e}, w) = w[e] + SumOn(s, w)
      BY <2>1, <2>2, <3>1, <3>2, SumAdd
    <3> QED BY <3>3 DEF e
  <2>4. PrefixSum(c, w)[x] = PrefixSum(c, w)[x - 1] + w[x - 1]
    BY PrefixSumEquation
  <2>5. SumOn(s, w) = PrefixSum(c, w)[x - 1]
    BY <1>2 DEF s
  <2>6. w[x - 1] \in Nat /\ PrefixSum(c, w)[x - 1] \in Nat
    BY <2>1, PrefixSumNat
  <2>7. SumOn(0 .. x - 1, w) = PrefixSum(c, w)[x]
    <3>1. SumOn(0 .. x - 1, w) = w[x - 1] + PrefixSum(c, w)[x - 1]
      BY <2>1, <2>3, <2>5
    <3> QED BY <2>4, <2>6, <3>1
  <2> QED BY <2>7
<1>3. \A x \in 0 .. c : x \in P
  <2> HIDE DEF P
  <2> QED BY <1>1, <1>2, UpTo
<1> QED BY <1>3

-----------------------------------------------------------------------------
(* The residues of n consecutive integers from a on are all different: the *)
(* one at d is j exactly if d is the distance of j from a.                 *)
LEMMA PlaceOfResidue ==
  ASSUME NEW n \in Nat \ {0}, NEW a \in Nat, NEW j \in 0 .. n - 1
  PROVE  LET d == (j - (a % n)) % n
         IN  /\ d \in 0 .. n - 1
             /\ \A t \in 0 .. n - 1 : (a + t) % n = j <=> t = d
             /\ \A t \in Nat : ((a % n) + t) % n = (a + t) % n
<1> DEFINE o == a % n
           q == a \div n
           d == (j - o) % n
           e == (j - o) \div n
<1>1. a = n * q + o /\ o \in 0 .. n - 1 /\ q \in Int
  BY DivMod
<1> HIDE DEF o, q
<1>2. j - o = n * e + d /\ d \in 0 .. n - 1 /\ e \in Int
  <2>1. j - o \in Int
    BY <1>1
  <2> QED BY <2>1, DivMod
<1> HIDE DEF d, e
<1>3. (a + d) % n = j
  <2>1. a + d = n * (q - e) + j
    <3>1. n * (q - e) = n * q - n * e
      BY <1>1, <1>2
    <3>2. n * q \in Int /\ n * e \in Int
      BY <1>1, <1>2
    <3> QED BY <1>1, <1>2, <3>1, <3>2
  <2>2. a + d \in Int /\ q - e \in Int
    BY <1>1, <1>2
  <2> QED BY <2>1, <2>2, ModUnique
<1>4. ASSUME NEW t \in 0 .. n - 1, (a + t) % n = j PROVE t = d
  <2> DEFINE r == (a + t) \div n
  <2>1. a + t = n * r + j /\ r \in Int
    <3>1. a + t \in Int
      OBVIOUS
    <3>2. a + t = n * r + ((a + t) % n) /\ r \in Int
      BY <3>1, DivMod
    <3> QED BY <1>4, <3>2
  <2> HIDE DEF r
  <2>2. j - o = n * (q - r) + t
    <3>1. n * (q - r) = n * q - n * r
      BY <1>1, <2>1
    <3>2. n * q \in Int /\ n * r \in Int
      BY <1>1, <2>1
    <3> QED BY <1>1, <2>1, <3>1, <3>2
  <2>3. j - o \in Int /\ q - r \in Int
    BY <1>1, <2>1
  <2>4. (j - o) % n = t
    BY <2>2, <2>3, ModUnique
  <2> QED BY <2>4 DEF d
<1>5. ASSUME NEW t \in Nat PROVE (o + t) % n = (a + t) % n
  <2> DEFINE r == (o + t) \div n
             m == (o + t) % n
  <2>1. o + t = n * r + m /\ r \in Int /\ m \in 0 .. n - 1
    <3>1. o + t \in Int
      BY <1>1
    <3> QED BY <3>1, DivMod
  <2> HIDE DEF r, m
  <2>2. a + t = n * (q + r) + m
    <3>1. n * (q + r) = n * q + n * r
      BY <1>1, <2>1
    <3>2. n * q \in Int /\ n * r \in Int
      BY <1>1, <2>1
    <3> QED BY <1>1, <2>1, <3>1, <3>2
  <2>3. a + t \in Int /\ q + r \in Int
    BY <1>1, <2>1
  <2>4. (a + t) % n = m
    BY <2>1, <2>2, <2>3, ModUnique
  <2> QED BY <2>4 DEF m
<1> QED BY <1>2, <1>3, <1>4, <1>5 DEF d, o

(* A set that is one place if a condition holds, none otherwise: its size  *)
(* is the bit a cell stores.                                               *)
LEMMA OneOrNone ==
  ASSUME NEW S, NEW d, NEW b \in BOOLEAN, S = IF b THEN {d} ELSE {}
  PROVE  Cardinality(S) = IF b THEN 1 ELSE 0
BY FS_EmptySet, FS_Singleton

\* The places and the integers of a row of w, from a on, that mark column j.
PlacesOf(w, a, j, n) == {t \in 0 .. w - 1 : ((a % n) + t) % n = j}
IntegersOf(w, a, j, n) == {x \in a .. a + w - 1 : x % n = j}

(* One row: its places, its interval and its cell mark the same columns,   *)
(* each once.                                                              *)
LEMMA RowForms ==
  ASSUME NEW n \in Nat \ {0}, NEW a \in Nat, NEW w \in 0 .. n, NEW j \in 0 .. n - 1
  PROVE  LET cell == bcmc_cell(w, a % n, j, n)
         IN  /\ cell \in {0, 1}
             /\ Cardinality(PlacesOf(w, a, j, n)) = cell
             /\ Cardinality(IntegersOf(w, a, j, n)) = cell
             /\ IntegersOf(w, a, j, n) # {} <=> cell = 1
<1> DEFINE d == (j - (a % n)) % n
           cell == bcmc_cell(w, a % n, j, n)
           S == PlacesOf(w, a, j, n)
           X == IntegersOf(w, a, j, n)
<1>1. /\ d \in 0 .. n - 1
      /\ \A t \in 0 .. n - 1 : (a + t) % n = j <=> t = d
      /\ \A t \in Nat : ((a % n) + t) % n = (a + t) % n
  BY PlaceOfResidue
<1>2. cell = IF d < w THEN 1 ELSE 0
  BY DEF bcmc_cell
<1> HIDE DEF d, cell
<1>3. S = IF d < w THEN {d} ELSE {}
  <2>1. ASSUME NEW t \in 0 .. w - 1 PROVE ((a % n) + t) % n = j <=> t = d
    <3>1. t \in 0 .. n - 1 /\ t \in Nat
      OBVIOUS
    <3> QED BY <1>1, <3>1
  <2>2. S = {t \in 0 .. w - 1 : t = d}
    BY <2>1 DEF PlacesOf
  <2>3. d \in 0 .. w - 1 <=> d < w
    BY <1>1
  <2> HIDE DEF S
  <2> QED BY <2>2, <2>3
<1>4. X = IF d < w THEN {a + d} ELSE {}
  <2>1. ASSUME NEW x \in a .. a + w - 1 PROVE x % n = j <=> x = a + d
    <3> DEFINE t == x - a
    <3>1. t \in 0 .. n - 1 /\ a + t = x
      OBVIOUS
    <3> HIDE DEF t
    <3>2. x % n = j <=> t = d
      BY <1>1, <3>1
    <3> QED BY <1>1, <3>1, <3>2
  <2>2. X = {x \in a .. a + w - 1 : x = a + d}
    BY <2>1 DEF IntegersOf
  <2>3. a + d \in a .. a + w - 1 <=> d < w
    BY <1>1
  <2> HIDE DEF X
  <2> QED BY <2>2, <2>3
<1> HIDE DEF S, X
<1>6. (d < w) \in BOOLEAN
  OBVIOUS
<1>7. Cardinality(S) = cell /\ Cardinality(X) = cell
  BY <1>2, <1>3, <1>4, <1>6, OneOrNone
<1>8. X # {} <=> cell = 1
  BY <1>2, <1>4
<1>9. cell \in {0, 1}
  BY <1>2
<1> QED BY <1>7, <1>8, <1>9 DEF S, X, cell

(* The cells of a row count its weight.                                    *)
LEMMA RowOfCells ==
  ASSUME NEW n \in Nat \ {0}, NEW a \in Nat, NEW w \in 0 .. n
  PROVE  Sum(bcmc_row(w, a % n, n)) = w
<1> DEFINE S == 0 .. n - 1
           r == bcmc_row(w, a % n, n)
           T == {j \in S : r[j] = 1}
           f == [d \in 0 .. w - 1 |-> (a + d) % n]
<1>1. DOMAIN r = S /\ \A j \in S : r[j] = bcmc_cell(w, a % n, j, n)
  BY DEF bcmc_row
<1>2. ASSUME NEW j \in S
      PROVE  r[j] \in {0, 1} /\ (r[j] = 1 <=> (j - (a % n)) % n < w)
  BY <1>1 DEF bcmc_cell
<1> HIDE DEF r
<1>3. Sum(r) = Cardinality(T)
  <2>1. IsFiniteSet(S)
    BY CountBelow
  <2>2. Sum(r) = SumOn(S, r)
    BY <1>1 DEF Sum, FoldFunction, SumOn
  <2> HIDE DEF S
  <2> QED BY <1>2, <2>1, <2>2, SumOfBits
<1>4. ASSUME NEW d \in 0 .. w - 1
      PROVE  /\ f[d] \in S /\ f[d] = (a + d) % n
             /\ (f[d] - (a % n)) % n = d
  <2>1. f[d] \in S /\ f[d] = (a + d) % n /\ d \in 0 .. n - 1
    BY DivMod
  <2> HIDE DEF f
  <2>2. d = (f[d] - (a % n)) % n
    BY <2>1, PlaceOfResidue
  <2> QED BY <2>1, <2>2
<1>5. f \in [0 .. w - 1 -> T]
  <2>1. f = [d \in 0 .. w - 1 |-> f[d]]
    OBVIOUS
  <2>2. \A d \in 0 .. w - 1 : f[d] \in T
    <3> HIDE DEF f
    <3> QED BY <1>2, <1>4
  <2> HIDE DEF f, T
  <2> QED BY <2>1, <2>2
<1>6. \A x, y \in 0 .. w - 1 : f[x] = f[y] => x = y
  <2> HIDE DEF f
  <2> QED BY <1>4
<1>7. ASSUME NEW j \in T PROVE \E d \in 0 .. w - 1 : f[d] = j
  <2> DEFINE d == (j - (a % n)) % n
  <2>1. j \in S /\ d < w
    BY <1>2
  <2>2. d \in 0 .. n - 1 /\ (a + d) % n = j
    <3>1. j \in 0 .. n - 1
      BY <2>1
    <3>2. /\ d \in 0 .. n - 1
          /\ \A t \in 0 .. n - 1 : (a + t) % n = j <=> t = d
      BY <3>1, PlaceOfResidue
    <3> HIDE DEF d
    <3> QED BY <3>2
  <2> HIDE DEF d
  <2>3. d \in 0 .. w - 1
    BY <2>1, <2>2
  <2>4. f[d] = j
    BY <2>2, <2>3
  <2> QED BY <2>3, <2>4
<1>8. IsFiniteSet(0 .. w - 1) /\ Cardinality(0 .. w - 1) = w
  BY CountBelow
<1> DEFINE D == 0 .. w - 1
<1> HIDE DEF f, T
<1>9. Cardinality(T) = Cardinality(D)
  <2>1. \A j \in T : \E d \in D : f[d] = j
    BY <1>7
  <2>2. f \in [D -> T] /\ IsFiniteSet(D) /\ \A x, y \in D : f[x] = f[y] => x = y
    BY <1>5, <1>6, <1>8
  <2> HIDE DEF D
  <2> QED BY <2>1, <2>2, CountByMap
<1> QED BY <1>3, <1>8, <1>9 DEF r

-----------------------------------------------------------------------------
(* A list of weights and its offsets.                                      *)

\* A legal list of c weights for rows of n.
Lists(c, n) == [0 .. c - 1 -> 0 .. n]

(* What a list of c weights of at most n is.                               *)
LEMMA ListFacts ==
  ASSUME NEW n \in Nat \ {0}, NEW c \in Nat, NEW w \in Lists(c, n)
  PROVE  /\ DOMAIN w = 0 .. c - 1 /\ Size(w) = c
         /\ IsFiniteSet(0 .. c - 1)
         /\ \A i \in 0 .. c - 1 : w[i] \in 0 .. n /\ w[i] \in Nat
<1>1. DOMAIN w = 0 .. c - 1 /\ \A i \in 0 .. c - 1 : w[i] \in 0 .. n /\ w[i] \in Nat
  BY DEF Lists
<1>2. IsFiniteSet(0 .. c - 1) /\ Cardinality(0 .. c - 1) = c
  BY CountBelow
<1> QED BY <1>1, <1>2 DEF Size

(* The sum, the size and the partial sums of a list, as prefix sums.       *)
LEMMA SumsOfList ==
  ASSUME NEW n \in Nat \ {0}, NEW c \in Nat, NEW w \in Lists(c, n)
  PROVE  /\ Sum(w) = PrefixSum(c, w)[c]
         /\ \A i \in 0 .. c : Before(w, i) = PrefixSum(c, w)[i]
         /\ \A i \in 0 .. c : PrefixSum(c, w)[i] \in Nat
<1>1. DOMAIN w = 0 .. c - 1 /\ \A i \in 0 .. c - 1 : w[i] \in Nat
  BY ListFacts
<1>2. Sum(w) = PrefixSum(c, w)[c]
  <2>1. Sum(w) = SumOn(0 .. c - 1, w)
    BY <1>1 DEF Sum, FoldFunction, SumOn
  <2>2. c \in 0 .. c
    OBVIOUS
  <2> QED BY <1>1, <2>1, <2>2, SumIsPrefix
<1>3. ASSUME NEW i \in 0 .. c PROVE Before(w, i) = PrefixSum(c, w)[i]
  <2> DEFINE S == 0 .. i - 1
             v == [k \in S |-> w[k]]
  <2>1. Before(w, i) = SumOn(S, v)
    <3>1. Before(w, i) = Sum(v)
      BY DEF Before
    <3>2. DOMAIN v = S
      OBVIOUS
    <3> HIDE DEF v, S
    <3> QED BY <3>1, <3>2 DEF Sum, FoldFunction, SumOn
  <2>2. IsFiniteSet(S)
    <3>1. i \in Nat
      OBVIOUS
    <3> QED BY <3>1, CountBelow
  <2>3. (\A k \in S : w[k] \in Nat) /\ (\A k \in S : v[k] = w[k])
    BY <1>1
  <2>4. SumOn(S, v) = SumOn(S, w)
    <3> HIDE DEF S, v
    <3> QED BY <2>2, <2>3, SumCongruent
  <2>5. SumOn(S, w) = PrefixSum(c, w)[i]
    BY <1>1, SumIsPrefix
  <2> QED BY <2>1, <2>4, <2>5
<1>4. \A i \in 0 .. c : PrefixSum(c, w)[i] \in Nat
  BY <1>1, PrefixSumNat
<1> QED BY <1>2, <1>3, <1>4

(* One conditional subtraction, as bcmc_core wraps, is the remainder.      *)
LEMMA WrapIsModular ==
  ASSUME NEW n \in Nat \ {0}, NEW a \in Nat, NEW w \in 0 .. n
  PROVE  LET s == (a % n) + w
         IN  (a + w) % n = IF s >= n THEN s - n ELSE s
<1> DEFINE o == a % n
           q == a \div n
<1>1. a = n * q + o /\ o \in 0 .. n - 1 /\ q \in Int
  BY DivMod
<1> HIDE DEF o, q
<1>2. n * q \in Int /\ a + w \in Int
  BY <1>1
<1>3. CASE o + w >= n
  <2>1. a + w = n * (q + 1) + (o + w - n)
    <3>1. n * (q + 1) = n * q + n
      BY <1>1
    <3> QED BY <1>1, <1>2, <3>1
  <2>2. q + 1 \in Int /\ o + w - n \in 0 .. n - 1
    BY <1>1, <1>3
  <2>3. (a + w) % n = o + w - n
    BY <1>2, <2>1, <2>2, ModUnique
  <2> QED BY <1>3, <2>3 DEF o
<1>4. CASE ~(o + w >= n)
  <2>1. a + w = n * q + (o + w) /\ o + w \in 0 .. n - 1
    BY <1>1, <1>2, <1>4
  <2>2. (a + w) % n = o + w
    BY <1>1, <1>2, <2>1, ModUnique
  <2> QED BY <1>4, <2>2 DEF o
<1> QED BY <1>3, <1>4

(* The running offset of bcmc_core is the prefix sum modulo n.             *)
LEMMA CoreIsPrefix ==
  ASSUME NEW n \in Nat \ {0}, NEW c \in Nat, NEW w \in Lists(c, n)
  PROVE  bcmc_core(w, n) = [i \in 0 .. c - 1 |-> PrefixSum(c, w)[i] % n]
<1> DEFINE S == 0 .. c
           P == PrefixSum(c, w)
           St(k, v) == LET s == v + w[k - 1] IN IF s >= n THEN s - n ELSE s
           g == [k \in S |-> [v \in Int |-> IF k = 0 THEN 0 ELSE St(k, v)]]
           Is(f, m) == f = [i \in 0 .. m |-> IF i = 0 THEN 0
                                             ELSE LET s == f[i - 1] + w[i - 1]
                                                  IN  IF s >= n THEN s - n ELSE s]
           o == CHOOSE f : Is(f, Size(w))
<1>0. /\ DOMAIN w = 0 .. c - 1 /\ Size(w) = c
      /\ \A i \in 0 .. c - 1 : w[i] \in 0 .. n /\ w[i] \in Nat
  BY ListFacts
<1>1. bcmc_core(w, n) = [i \in 0 .. c - 1 |-> o[i]]
  <2>1. bcmc_core(w, n) = [i \in DOMAIN w |-> o[i]]
    BY Zenon DEF bcmc_core
  <2> HIDE DEF o
  <2> QED BY <1>0, <2>1
<1>2. g \in [S -> [Int -> Int]]
  <2>1. \A k \in S : \A v \in Int : (IF k = 0 THEN 0 ELSE St(k, v)) \in Int
    <3>1. \A k \in S : k # 0 => k - 1 \in 0 .. c - 1
      OBVIOUS
    <3> QED BY <1>0, <3>1
  <2> HIDE DEF St, S
  <2> QED BY <2>1
<1>3. \E f : Is(f, c)
  <2>1. PICK f : IsRunOf(f, Int, 0, g, c)
    <3>1. 0 \in Int /\ g \in [0 .. c -> [Int -> Int]]
      BY <1>2
    <3> HIDE DEF g
    <3> QED BY <3>1, RunExists, Zenon
  <2>2. f \in [S -> Int] /\ f[0] = 0 /\ \A k \in 1 .. c : f[k] = g[k][f[k - 1]]
    BY <2>1 DEF IsRunOf
  <2>3. ASSUME NEW k \in 1 .. c PROVE f[k] = St(k, f[k - 1])
    <3>1. k \in S /\ k - 1 \in S /\ k # 0
      OBVIOUS
    <3>2. f[k - 1] \in Int
      BY <2>2, <3>1
    <3>3. g[k][f[k - 1]] = St(k, f[k - 1])
      <4> HIDE DEF St, S
      <4> QED BY <3>1, <3>2
    <3> QED BY <2>2, <3>3
  <2>4. f = [i \in S |-> f[i]]
    BY <2>2
  <2>5. \A i \in S : f[i] = IF i = 0 THEN 0
                            ELSE LET s == f[i - 1] + w[i - 1]
                                 IN  IF s >= n THEN s - n ELSE s
    BY <2>2, <2>3
  <2>6. Is(f, c)
    BY <2>4, <2>5
  <2> QED BY <2>6
<1>4. Is(o, c)
  <2> DEFINE m == Size(w)
  <2>1. m = c /\ \E f : Is(f, m)
    BY <1>0, <1>3
  <2>2. Is(o, m)
    <3> HIDE DEF Is, m
    <3>1. Is(CHOOSE f : Is(f, m), m)
      BY <2>1, Zenon
    <3> QED BY <3>1, Zenon DEF m
  <2> HIDE DEF Is, o, m
  <2> QED BY <2>1, <2>2
<1> HIDE DEF o
<1>5. \A i \in S : o[i] = IF i = 0 THEN 0
                          ELSE LET s == o[i - 1] + w[i - 1]
                               IN  IF s >= n THEN s - n ELSE s
  BY <1>4
<1> HIDE DEF P, g
<1>6. /\ P[0] = 0 /\ \A k \in 1 .. c : P[k] = P[k - 1] + w[k - 1]
      /\ \A k \in S : P[k] \in Nat
  BY <1>0, PrefixSumEquation, PrefixSumNat DEF P
<1> DEFINE Q == {k \in S : o[k] = P[k] % n}
<1>7. 0 \in Q
  <2>1. 0 % n = 0
    BY ModUnique
  <2> QED BY <1>5, <1>6, <2>1
<1>8. ASSUME NEW k \in 1 .. c, k - 1 \in Q PROVE k \in Q
  <2>1. k \in S /\ k # 0 /\ k - 1 \in 0 .. c - 1 /\ k - 1 \in S
    OBVIOUS
  <2>2. w[k - 1] \in 0 .. n /\ P[k - 1] \in Nat /\ P[k] = P[k - 1] + w[k - 1]
    BY <1>0, <1>6, <2>1
  <2>3. o[k] = LET s == (P[k - 1] % n) + w[k - 1] IN IF s >= n THEN s - n ELSE s
    BY <1>5, <1>8, <2>1
  <2>4. P[k] % n = LET s == (P[k - 1] % n) + w[k - 1] IN IF s >= n THEN s - n ELSE s
    BY <2>2, WrapIsModular
  <2> QED BY <2>1, <2>3, <2>4
<1>9. \A k \in S : k \in Q
  <2> HIDE DEF Q
  <2> QED BY <1>7, <1>8, UpTo
<1>10. \A i \in 0 .. c - 1 : o[i] = P[i] % n
  BY <1>9
<1> QED BY <1>1, <1>10 DEF P

-----------------------------------------------------------------------------
(* The forms of the transform.                                             *)
\* The same of row i of a list.
PlacesIn(w, i, j, n) == {t \in 0 .. w[i] - 1 : ((Before(w, i) % n) + t) % n = j}
IntegersIn(w, i, j, n) == {x \in Interval(w, i) : x % n = j}

(* Column by column or row by row, a cell is the cell of its row's offset. *)
LEMMA CellByColumnOrRow ==
  ASSUME NEW n \in Nat \ {0}, NEW c \in Nat, NEW w \in Lists(c, n),
         NEW i \in 0 .. c - 1, NEW j \in 0 .. n - 1
  PROVE  /\ bcmc_column(w, bcmc_core(w, n), j, n)[i] = bcmc_cell(w[i], PrefixSum(c, w)[i] % n, j, n)
         /\ bcmc_matrix(w, n)[i][j] = bcmc_cell(w[i], PrefixSum(c, w)[i] % n, j, n)
<1> DEFINE a == PrefixSum(c, w)[i]
           cell == bcmc_cell(w[i], a % n, j, n)
<1>1. DOMAIN w = 0 .. c - 1
  BY ListFacts
<1>3. bcmc_core(w, n)[i] = a % n
  BY CoreIsPrefix
<1>4. bcmc_column(w, bcmc_core(w, n), j, n)[i] = cell
  <2> DEFINE o == bcmc_core(w, n)
  <2> HIDE DEF o, cell
  <2>1. bcmc_column(w, o, j, n)[i] = bcmc_cell(w[i], o[i], j, n)
    BY <1>1 DEF bcmc_column
  <2> QED BY <1>3, <2>1 DEF o, cell
<1>5. bcmc_matrix(w, n)[i][j] = cell
  <2> DEFINE o == bcmc_core(w, n)
  <2> HIDE DEF cell
  <2>1. bcmc_matrix(w, n)[i] = bcmc_row(w[i], o[i], n)
    <3> HIDE DEF o
    <3>1. [k \in DOMAIN w |-> bcmc_row(w[k], o[k], n)][i] = bcmc_row(w[i], o[i], n)
      BY <1>1
    <3> QED BY <3>1 DEF bcmc_matrix, o
  <2>2. bcmc_row(w[i], o[i], n)[j] = bcmc_cell(w[i], o[i], j, n)
    BY DEF bcmc_row
  <2> QED BY <1>3, <2>1, <2>2 DEF cell
<1> QED BY <1>4, <1>5

(* Every form marks a cell as the matrix does.                             *)
LEMMA CellsOfTheMatrix ==
  ASSUME NEW n \in Nat \ {0}, NEW c \in Nat, NEW w \in Lists(c, n),
         NEW i \in 0 .. c - 1, NEW j \in 0 .. n - 1
  PROVE  LET cell == bcmc_column(w, bcmc_core(w, n), j, n)[i]
         IN  /\ cell \in {0, 1}
             /\ Cardinality(PlacesIn(w, i, j, n)) = cell
             /\ Cardinality(IntegersIn(w, i, j, n)) = cell
             /\ IntegersIn(w, i, j, n) # {} <=> cell = 1
             /\ RefBit(i, j, n, c, w) <=> cell = 1
<1> DEFINE P == PrefixSum(c, w)
           a == P[i]
           cell == bcmc_cell(w[i], a % n, j, n)
<1>1. /\ DOMAIN w = 0 .. c - 1 /\ w[i] \in 0 .. n
  BY ListFacts
<1>2. a \in Nat /\ Before(w, i) = a /\ P[i + 1] = a + w[i]
  <2>1. i \in 0 .. c /\ i + 1 \in 1 .. c /\ (i + 1) - 1 = i
    OBVIOUS
  <2> QED BY <2>1, SumsOfList, PrefixSumEquation
<1>4. bcmc_column(w, bcmc_core(w, n), j, n)[i] = cell
  BY CellByColumnOrRow
<1> HIDE DEF a, P
<1>6. /\ cell \in {0, 1}
      /\ Cardinality(PlacesOf(w[i], a, j, n)) = cell
      /\ Cardinality(IntegersOf(w[i], a, j, n)) = cell
      /\ IntegersOf(w[i], a, j, n) # {} <=> cell = 1
  BY <1>1, <1>2, RowForms
<1> HIDE DEF cell
<1>7. Interval(w, i) = a .. a + w[i] - 1
  BY <1>2 DEF Interval
<1>8. RefBit(i, j, n, c, w) <=> \E x \in a .. a + w[i] - 1 : x % n = j
  <2>1. RefBit(i, j, n, c, w) <=> \E x \in P[i] .. P[i + 1] - 1 : x % n = j
    BY DEF RefBit, P
  <2>2. P[i] .. P[i + 1] - 1 = a .. a + w[i] - 1
    <3>1. P[i] = a
      BY DEF a
    <3>2. w[i] \in Int /\ a \in Int
      BY <1>1, <1>2
    <3>3. P[i + 1] - 1 = a + w[i] - 1
      BY <1>2, <3>2
    <3> QED BY <3>1, <3>3
  <2> QED BY <2>1, <2>2
<1>9. /\ PlacesOf(w[i], a, j, n) = PlacesIn(w, i, j, n)
      /\ IntegersOf(w[i], a, j, n) = IntegersIn(w, i, j, n)
  BY <1>2, <1>7 DEF PlacesOf, IntegersOf, PlacesIn, IntegersIn
<1>10. /\ IntegersIn(w, i, j, n) # {} <=> cell = 1
       /\ RefBit(i, j, n, c, w) <=> cell = 1
  BY <1>6, <1>7, <1>8, <1>9 DEF IntegersOf
<1> QED BY <1>4, <1>6, <1>9, <1>10

\* R(j) of the matrix of a list.
ActiveRows(w, j, n) == {i \in DOMAIN w : bcmc_column(w, bcmc_core(w, n), j, n)[i] = 1}

(* A row is active in a column exactly if the matrix has a one there.      *)
LEMMA ActiveRowsOfTheMatrix ==
  ASSUME NEW n \in Nat \ {0}, NEW c \in Nat, NEW w \in Lists(c, n),
         NEW i \in 0 .. c - 1, NEW j \in 0 .. n - 1
  PROVE  i \in ActiveRows(w, j, n) <=> bcmc_matrix(w, n)[i][j] = 1
<1> DEFINE column == bcmc_column(w, bcmc_core(w, n), j, n)[i]
           cell == bcmc_cell(w[i], PrefixSum(c, w)[i] % n, j, n)
<1>1. DOMAIN w = 0 .. c - 1
  BY ListFacts
<1>2. i \in ActiveRows(w, j, n) <=> column = 1
  BY <1>1 DEF ActiveRows
<1>3. column = cell
  BY CellByColumnOrRow
<1>4. bcmc_matrix(w, n)[i][j] = cell
  BY CellByColumnOrRow
<1> HIDE DEF column, cell
<1> QED BY <1>2, <1>3, <1>4

(* The four forms have the loads of the Balance Theorem.                   *)
LEMMA FormsOfList ==
  ASSUME NEW n \in Nat \ {0}, NEW c \in Nat, NEW w \in Lists(c, n)
  PROVE  /\ bcmc_algorithmic(w, n) = column_occupancy(w, n)
         /\ bcmc_interval(w, n) = column_occupancy(w, n)
         /\ bcmc_binary(w, n) = column_occupancy(w, n)
         /\ column_occupancy(w, n) = predicted_occupancy(Sum(w), n)
         /\ \A j \in 0 .. n - 1 : column_occupancy(w, n)[j] = Cardinality(ActiveRows(w, j, n))
<1> DEFINE S == 0 .. c - 1
           col(j) == bcmc_column(w, bcmc_core(w, n), j, n)
           ones(j) == {i \in S : col(j)[i] = 1}
<1>1. /\ DOMAIN w = S /\ IsFiniteSet(S)
      /\ \A i \in 0 .. c - 1 : w[i] \in 0 .. n
  BY ListFacts
<1>2. ASSUME NEW j \in 0 .. n - 1
      PROVE  /\ DOMAIN col(j) = S
             /\ col(j) = [i \in S |-> col(j)[i]]
             /\ column_occupancy(w, n)[j] = Sum(col(j))
             /\ Sum(col(j)) = Cardinality(ones(j))
  <2> DEFINE o == bcmc_core(w, n)
  <2>1. DOMAIN col(j) = S /\ col(j) = [i \in S |-> col(j)[i]]
    <3> HIDE DEF o
    <3>1. /\ DOMAIN bcmc_column(w, o, j, n) = S
          /\ bcmc_column(w, o, j, n) = [i \in S |-> bcmc_column(w, o, j, n)[i]]
      BY <1>1 DEF bcmc_column
    <3> QED BY <3>1 DEF o
  <2>2. column_occupancy(w, n)[j] = Sum(col(j))
    BY DEF column_occupancy
  <2>3. \A i \in S : col(j)[i] \in {0, 1}
    BY CellsOfTheMatrix
  <2> DEFINE v == col(j)
  <2> HIDE DEF v, S
  <2>4. DOMAIN v = S /\ \A i \in S : v[i] \in {0, 1}
    BY <2>1, <2>3 DEF v
  <2>5. Sum(v) = SumOn(S, v)
    BY <2>4 DEF Sum, FoldFunction, SumOn
  <2>6. Sum(v) = Cardinality({i \in S : v[i] = 1})
    BY <1>1, <2>4, <2>5, SumOfBits
  <2> QED BY <2>1, <2>2, <2>6 DEF v
<1>3. column_occupancy(w, n) = [j \in 0 .. n - 1 |-> column_occupancy(w, n)[j]]
  BY DEF column_occupancy
<1>4. ASSUME NEW j \in 0 .. n - 1, NEW i \in S
      PROVE  /\ Cardinality(PlacesIn(w, i, j, n)) = col(j)[i]
             /\ Cardinality(IntegersIn(w, i, j, n)) = col(j)[i]
             /\ IntegersIn(w, i, j, n) # {} <=> col(j)[i] = 1
             /\ RefBit(i, j, n, c, w) <=> col(j)[i] = 1
  BY CellsOfTheMatrix
<1>5. ASSUME NEW j \in 0 .. n - 1
      PROVE  /\ bcmc_algorithmic(w, n)[j] = column_occupancy(w, n)[j]
             /\ bcmc_interval(w, n)[j] = column_occupancy(w, n)[j]
             /\ bcmc_binary(w, n)[j] = column_occupancy(w, n)[j]
             /\ column_occupancy(w, n)[j] = predicted_occupancy(Sum(w), n)[j]
  <2>1. bcmc_algorithmic(w, n)[j] = Sum(col(j))
    <3> DEFINE v == [i \in S |-> Cardinality(PlacesIn(w, i, j, n))]
    <3>1. bcmc_algorithmic(w, n)[j] = Sum(v)
      BY <1>1 DEF bcmc_algorithmic, PlacesIn
    <3>2. \A i \in S : v[i] = col(j)[i]
      BY <1>4
    <3>3. v = [i \in S |-> v[i]] /\ col(j) = [i \in S |-> col(j)[i]]
      BY <1>2
    <3> HIDE DEF v, col, S
    <3>4. v = col(j)
      BY <3>2, <3>3
    <3> QED BY <3>1, <3>4
  <2>2. bcmc_interval(w, n)[j] = Sum(col(j))
    <3> DEFINE v == [i \in S |-> Cardinality(IntegersIn(w, i, j, n))]
    <3>1. bcmc_interval(w, n)[j] = Sum(v)
      BY <1>1 DEF bcmc_interval, IntegersIn
    <3>2. \A i \in S : v[i] = col(j)[i]
      BY <1>4
    <3>3. v = [i \in S |-> v[i]] /\ col(j) = [i \in S |-> col(j)[i]]
      BY <1>2
    <3> HIDE DEF v, col, S
    <3>4. v = col(j)
      BY <3>2, <3>3
    <3> QED BY <3>1, <3>4
  <2>3. bcmc_binary(w, n)[j] = Cardinality(ones(j))
    <3>1. bcmc_binary(w, n)[j]
            = Cardinality({i \in S : \E x \in Interval(w, i) : x % n = j})
      BY <1>1 DEF bcmc_binary
    <3>2. {i \in S : \E x \in Interval(w, i) : x % n = j} = ones(j)
      <4> HIDE DEF col
      <4>1. \A i \in S : (\E x \in Interval(w, i) : x % n = j) <=> IntegersIn(w, i, j, n) # {}
        BY DEF IntegersIn
      <4> QED BY <1>4, <4>1
    <3> HIDE DEF ones, S
    <3> QED BY <3>1, <3>2
  <2>4. Cardinality(ones(j)) = predicted_occupancy(Sum(w), n)[j]
    <3>1. ones(j) = {i \in 0 .. c - 1 : RefBit(i, j, n, c, w)}
      <4> HIDE DEF col
      <4> QED BY <1>4
    <3>2. Cardinality({i \in 0 .. c - 1 : RefBit(i, j, n, c, w)})
            = PredictedOccupancy(j, n, PrefixSum(c, w)[c])
      BY <1>1, BalanceTheorem
    <3>3. Sum(w) = PrefixSum(c, w)[c]
      BY SumsOfList
    <3>4. predicted_occupancy(Sum(w), n)[j] = PredictedOccupancy(j, n, Sum(w))
      BY DEF predicted_occupancy, PredictedOccupancy
    <3> HIDE DEF ones
    <3> QED BY <3>1, <3>2, <3>3, <3>4
  <2> HIDE DEF ones, col
  <2> QED BY <1>2, <2>1, <2>2, <2>3, <2>4
<1>6. /\ bcmc_algorithmic(w, n) = [j \in 0 .. n - 1 |-> bcmc_algorithmic(w, n)[j]]
      /\ bcmc_interval(w, n) = [j \in 0 .. n - 1 |-> bcmc_interval(w, n)[j]]
      /\ bcmc_binary(w, n) = [j \in 0 .. n - 1 |-> bcmc_binary(w, n)[j]]
      /\ predicted_occupancy(Sum(w), n) = [j \in 0 .. n - 1 |-> predicted_occupancy(Sum(w), n)[j]]
  BY DEF bcmc_algorithmic, bcmc_interval, bcmc_binary, predicted_occupancy
<1>7. \A j \in 0 .. n - 1 : column_occupancy(w, n)[j] = Cardinality(ActiveRows(w, j, n))
  <2>1. \A j : ActiveRows(w, j, n) = ones(j)
    BY <1>1 DEF ActiveRows
  <2> HIDE DEF ones, col
  <2> QED BY <1>2, <2>1
<1> QED BY <1>3, <1>5, <1>6, <1>7

(* Row conservation, of the matrix of the reference.                       *)
LEMMA RowsOfList ==
  ASSUME NEW n \in Nat \ {0}, NEW c \in Nat, NEW w \in Lists(c, n)
  PROVE  row_weights(w, n) = w
<1>1. DOMAIN w = 0 .. c - 1 /\ w = [i \in 0 .. c - 1 |-> w[i]]
  BY DEF Lists
<1>2. ASSUME NEW i \in 0 .. c - 1 PROVE Sum(bcmc_matrix(w, n)[i]) = w[i]
  <2> DEFINE a == PrefixSum(c, w)[i]
             o == bcmc_core(w, n)
             v == w[i]
  <2>1. a \in Nat /\ v \in 0 .. n
    <3>1. i \in 0 .. c
      OBVIOUS
    <3> QED BY <3>1, SumsOfList, ListFacts
  <2>2. o[i] = a % n
    BY CoreIsPrefix
  <2> HIDE DEF a, o, v
  <2>3. bcmc_matrix(w, n)[i] = bcmc_row(v, o[i], n)
    <3>1. [k \in DOMAIN w |-> bcmc_row(w[k], o[k], n)][i] = bcmc_row(w[i], o[i], n)
      BY <1>1
    <3> QED BY <3>1 DEF bcmc_matrix, o, v
  <2>4. Sum(bcmc_row(v, a % n, n)) = v
    BY <2>1, RowOfCells
  <2> QED BY <2>2, <2>3, <2>4 DEF v
<1>3. row_weights(w, n) = [i \in 0 .. c - 1 |-> Sum(bcmc_matrix(w, n)[i])]
  BY <1>1 DEF row_weights
<1> QED BY <1>1, <1>2, <1>3

(* The loads add up to the total.                                          *)
LEMMA SumOfLoads ==
  ASSUME NEW n \in Nat \ {0}, NEW W \in Nat
  PROVE  /\ SumOn(0 .. n - 1, predicted_occupancy(W, n)) = W
         /\ \A j \in 0 .. n - 1 : predicted_occupancy(W, n)[j] \in Nat
<1> DEFINE q == W \div n
           r == W % n
           L == predicted_occupancy(W, n)
           least(k) == IF k < r THEN k ELSE r
           S == 0 .. n - 1
<1>1. W = n * q + r /\ q \in Nat /\ r \in 0 .. n - 1
  <2>1. W = n * q + r /\ q \in Int /\ r \in 0 .. n - 1
    BY DivMod
  <2>2. q >= 0
    <3> HIDE DEF q, r
    <3>1. q < 0 => n * q <= n * (-1)
      BY <2>1
    <3> QED BY <2>1, <3>1
  <2> QED BY <2>1, <2>2
<1>2. \A j \in S : L[j] = IF j < r THEN q + 1 ELSE q
  BY DEF predicted_occupancy
<1> HIDE DEF L, q, r
<1>3. \A j \in S : L[j] \in Nat
  BY <1>1, <1>2
<1> DEFINE P == {k \in 0 .. n : SumOn(0 .. k - 1, L) = k * q + least(k)}
<1>4. 0 \in P
  <2>1. 0 .. 0 - 1 = {} /\ 0 * q + least(0) = 0
    BY <1>1
  <2> QED BY <2>1, SumEmpty
<1>5. ASSUME NEW k \in 1 .. n, k - 1 \in P PROVE k \in P
  <2> DEFINE s == 0 .. (k - 1) - 1
             e == k - 1
  <2>1. s \in SUBSET S /\ e \in S \ s /\ 0 .. k - 1 = s \cup {e} /\ e \in Nat /\ k = e + 1
    OBVIOUS
  <2>2. IsFiniteSet(S)
    BY CountBelow
  <2>3. SumOn(s, L) = e * q + least(e)
    BY <1>5
  <2> HIDE DEF s, e, S, least
  <2>4. SumOn(s \cup {e}, L) = L[e] + SumOn(s, L)
    <3> HIDE DEF P
    <3>1. (\A j \in S : L[j] \in Nat) /\ s \in SUBSET S /\ e \in S \ s
      BY <1>3, <2>1
    <3> QED BY <2>2, <3>1, SumAdd
  <2>5. L[e] = q + (IF e < r THEN 1 ELSE 0)
    BY <1>1, <1>2, <2>1
  <2>6. least(k) = least(e) + (IF e < r THEN 1 ELSE 0) /\ least(e) \in Nat
    BY <1>1, <2>1 DEF least
  <2>7. k * q = e * q + q /\ e * q \in Nat
    BY <1>1, <2>1
  <2>8. SumOn(0 .. k - 1, L) = k * q + least(k)
    <3>1. SumOn(0 .. k - 1, L) = L[e] + (e * q + least(e))
      BY <2>1, <2>3, <2>4
    <3> DEFINE m == e * q
               d == IF e < r THEN 1 ELSE 0
    <3>2. d \in Nat /\ m \in Nat /\ k * q = m + q /\ least(k) = least(e) + d /\ L[e] = q + d
      BY <2>5, <2>6, <2>7
    <3>3. SumOn(0 .. k - 1, L) = (q + d) + (m + least(e))
      BY <3>1, <3>2
    <3> HIDE DEF m, d
    <3> QED BY <1>1, <2>6, <3>2, <3>3
  <2> QED BY <2>8
<1>6. \A k \in 0 .. n : k \in P
  <2> HIDE DEF P
  <2> QED BY <1>4, <1>5, UpTo
<1>7. SumOn(0 .. n - 1, L) = n * q + r
  <2>1. n \in 0 .. n /\ least(n) = r
    BY <1>1
  <2> HIDE DEF least
  <2> QED BY <1>6, <2>1
<1> QED BY <1>1, <1>3, <1>7 DEF L

-----------------------------------------------------------------------------
(* What an observer sees.                                                  *)

(* Appending adds one element to the range of a sequence.                  *)
LEMMA RangeOfAppend ==
  ASSUME NEW s \in Seq(Nat), NEW e \in Nat
  PROVE  Range(Append(s, e)) = Range(s) \cup {e}
<1> DEFINE a == Append(s, e)
           l == Len(s)
<1>1. /\ l \in Nat /\ DOMAIN s = 1 .. l /\ DOMAIN a = 1 .. l + 1
      /\ \A k \in 1 .. l : a[k] = s[k]
      /\ a[l + 1] = e
  BY AppendProperties
<1> HIDE DEF a, l
<1>2. 1 .. l + 1 = (1 .. l) \cup {l + 1}
  BY <1>1
<1>3. Range(a) = Range(s) \cup {e}
  BY <1>1, <1>2 DEF Range
<1> QED BY <1>3 DEF a

(* A visit lists the active rows, each once.                               *)
LEMMA VisitListsTheOnes ==
  ASSUME NEW n \in Nat \ {0}, NEW c \in Nat, NEW w \in Lists(c, n), NEW j
  PROVE  LET rows == visit(w, bcmc_core(w, n), j, n)
         IN  /\ rows \in Seq(Nat) /\ Range(rows) = ActiveRows(w, j, n)
             /\ Len(rows) = Cardinality(ActiveRows(w, j, n))
<1> DEFINE S == 0 .. c
           o == bcmc_core(w, n)
           bits == bcmc_column(w, o, j, n)
           St(k, v) == IF bits[k - 1] = 1 THEN Append(v, k - 1) ELSE v
           V == Seq(Nat)
           g == [k \in S |-> [v \in V |-> IF k = 0 THEN v ELSE St(k, v)]]
           Is(f, m) == f = [i \in 0 .. m |-> IF i = 0 THEN <<>>
                              ELSE IF bits[i - 1] = 1 THEN Append(f[i - 1], i - 1) ELSE f[i - 1]]
           R == CHOOSE f : Is(f, Size(w))
           ones(k) == {i \in 0 .. k - 1 : bits[i] = 1}
<1>1. Size(w) = c
  BY ListFacts
<1>2. visit(w, o, j, n) = R[c]
  <2>1. visit(w, o, j, n) = R[Size(w)]
    BY Zenon DEF visit
  <2> HIDE DEF R
  <2> QED BY <1>1, <2>1
<1> HIDE DEF bits
<1>3. g \in [S -> [V -> V]]
  <2>1. \A k \in S : \A v \in V : (IF k = 0 THEN v ELSE St(k, v)) \in V
    <3>1. \A k \in S : k # 0 => k - 1 \in Nat
      OBVIOUS
    <3> QED BY <3>1, AppendProperties
  <2> HIDE DEF St, S, V
  <2> QED BY <2>1
<1>4. \E f : f \in [S -> V] /\ Is(f, c)
  <2>1. PICK f : IsRunOf(f, V, <<>>, g, c)
    <3>1. <<>> \in V /\ g \in [0 .. c -> [V -> V]]
      BY <1>3
    <3> HIDE DEF g, V
    <3> QED BY <3>1, RunExists, Zenon
  <2>2. f \in [S -> V] /\ f[0] = <<>> /\ \A k \in 1 .. c : f[k] = g[k][f[k - 1]]
    BY <2>1 DEF IsRunOf
  <2>3. ASSUME NEW k \in 1 .. c PROVE f[k] = St(k, f[k - 1])
    <3>1. k \in S /\ k - 1 \in S /\ k # 0
      OBVIOUS
    <3>2. f[k - 1] \in V
      <4> HIDE DEF V
      <4> QED BY <2>2, <3>1
    <3>3. g[k][f[k - 1]] = St(k, f[k - 1])
      <4> HIDE DEF St, S, V
      <4> QED BY <3>1, <3>2
    <3> QED BY <2>2, <3>3
  <2>4. f = [i \in S |-> f[i]]
    BY <2>2
  <2>5. ASSUME NEW i \in S
        PROVE  f[i] = IF i = 0 THEN <<>>
                      ELSE IF bits[i - 1] = 1 THEN Append(f[i - 1], i - 1) ELSE f[i - 1]
    <3>1. CASE i = 0
      BY <2>2, <3>1
    <3>2. CASE i # 0
      <4>1. i \in 1 .. c
        BY <3>2
      <4>2. f[i] = St(i, f[i - 1])
        BY <2>3, <4>1
      <4> QED BY <3>2, <4>2
    <3> QED BY <3>1, <3>2
  <2>6. Is(f, c)
    <3> HIDE DEF V, g
    <3> QED BY <2>4, <2>5
  <2> HIDE DEF Is, V
  <2> QED BY <2>2, <2>6
<1>5. Is(R, c)
  <2> DEFINE m == Size(w)
  <2>1. m = c /\ \E f : Is(f, m)
    <3> HIDE DEF Is
    <3> QED BY <1>1, <1>4
  <2>2. Is(R, m)
    <3> HIDE DEF Is, m
    <3>1. Is(CHOOSE f : Is(f, m), m)
      BY <2>1, Zenon
    <3> QED BY <3>1, Zenon DEF m
  <2> HIDE DEF Is, R, m
  <2> QED BY <2>1, <2>2
<1> HIDE DEF R, g
<1>6. \A i \in S : R[i] = IF i = 0 THEN <<>>
                          ELSE IF bits[i - 1] = 1 THEN Append(R[i - 1], i - 1) ELSE R[i - 1]
  BY <1>5
<1> HIDE DEF Is
<1> DEFINE P == {k \in S : /\ R[k] \in Seq(Nat) /\ Range(R[k]) = ones(k)
                           /\ IsFiniteSet(ones(k)) /\ Len(R[k]) = Cardinality(ones(k))}
<1>7. 0 \in P
  <2>1. 0 \in S /\ R[0] = <<>>
    BY <1>6
  <2>2. ones(0) = {} /\ Range(<<>>) = {} /\ <<>> \in Seq(Nat) /\ Len(<<>>) = 0
    BY DEF Range
  <2> HIDE DEF ones
  <2> QED BY <2>1, <2>2, FS_EmptySet
<1>8. ASSUME NEW k \in 1 .. c, k - 1 \in P PROVE k \in P
  <2> DEFINE e == k - 1
             s == R[e]
  <2>1. k \in S /\ k # 0 /\ e \in Nat /\ k = e + 1
    OBVIOUS
  <2>2. /\ s \in Seq(Nat) /\ Range(s) = ones(e)
        /\ IsFiniteSet(ones(e)) /\ Len(s) = Cardinality(ones(e))
    BY <1>8
  <2>3. R[k] = IF bits[e] = 1 THEN Append(s, e) ELSE s
    BY <1>6
  <2>4. ones(k) = (IF bits[e] = 1 THEN ones(e) \cup {e} ELSE ones(e)) /\ e \notin ones(e)
    <3> HIDE DEF e
    <3>1. 0 .. k - 1 = (0 .. e - 1) \cup {e} /\ e \notin 0 .. e - 1
      BY <2>1
    <3> QED BY <3>1
  <2> HIDE DEF e, s, ones, S
  <2>5. CASE bits[e] = 1
    <3>1. /\ Append(s, e) \in Seq(Nat) /\ Len(Append(s, e)) = Len(s) + 1
          /\ Range(Append(s, e)) = Range(s) \cup {e}
      BY <2>1, <2>2, AppendProperties, RangeOfAppend
    <3>2. IsFiniteSet(ones(e) \cup {e}) /\ Cardinality(ones(e) \cup {e}) = Cardinality(ones(e)) + 1
      BY <2>2, <2>4, FS_AddElement
    <3> QED BY <2>1, <2>2, <2>3, <2>4, <2>5, <3>1, <3>2
  <2>6. CASE bits[e] # 1
    BY <2>1, <2>2, <2>3, <2>4, <2>6
  <2> QED BY <2>5, <2>6
<1>9. c \in P
  <2>1. \A k \in 0 .. c : k \in P
    <3> HIDE DEF P
    <3> QED BY <1>7, <1>8, UpTo
  <2> QED BY <2>1
<1>10. R[c] \in Seq(Nat) /\ Range(R[c]) = ones(c) /\ Len(R[c]) = Cardinality(ones(c))
  BY <1>9
<1>11. ones(c) = ActiveRows(w, j, n)
  <2>1. DOMAIN w = 0 .. c - 1
    BY ListFacts
  <2> QED BY <2>1 DEF ActiveRows, bits, o
<1> HIDE DEF ones
<1> QED BY <1>2, <1>10, <1>11 DEF o

(* An order of the columns names every column, and none twice.             *)
LEMMA OrdersAreInjective ==
  ASSUME NEW n \in Nat \ {0}, NEW p \in Orders(n)
  PROVE  /\ \A x \in 0 .. n - 1 : p[x] \in 0 .. n - 1
         /\ \A x, y \in 0 .. n - 1 : p[x] = p[y] => x = y
         /\ \A j \in 0 .. n - 1 : \E x \in 0 .. n - 1 : p[x] = j
<1> DEFINE S == 0 .. n - 1
<1>1. p \in [S -> S] /\ \A j \in S : \E x \in S : p[x] = j
  BY DEF Orders
<1>2. IsFiniteSet(S)
  BY CountBelow
<1> HIDE DEF S
<1>3. p \in Surjection(S, S)
  BY <1>1 DEF Surjection
<1>4. p \in Injection(S, S)
  BY <1>2, <1>3, FS_SurjSameCardinalityImpliesInj
<1>5. \A x, y \in S : p[x] = p[y] => x = y
  BY <1>4 DEF Injection, IsInjective
<1> QED BY <1>1, <1>5 DEF S

(* The ones of the matrix, as the events of a pass are.                    *)
EventsOf(w, n) ==
  {e \in (DOMAIN w) \X (0 .. n - 1) : bcmc_matrix(w, n)[e[1]][e[2]] = 1}

(* The occupancies of a pass, in its order, added up.                      *)
TotalOf(q) == FoldFunction(+, 0, occupancy_sequence(q))

(* A whole pass, in whatever order, yields the matrix.                     *)
LEMMA WholePass ==
  ASSUME NEW n \in Nat \ {0}, NEW c \in Nat, NEW w \in Lists(c, n), NEW p \in Orders(n),
         NEW q, DOMAIN q = 1 .. n, \A t \in 1 .. n : q[t] = observe(w, n, p[t - 1])
  PROVE  /\ events(q) = EventsOf(w, n)
         /\ TotalOf(q) = Sum(w)
         /\ \A t \in 1 .. n : occupancy_sequence(q)[t] = column_occupancy(w, n)[p[t - 1]]
<1> DEFINE S == 0 .. n - 1
           ones(j) == ActiveRows(w, j, n)
           L == column_occupancy(w, n)
           occ == occupancy_sequence(q)
<1>1. ASSUME NEW t \in 1 .. n PROVE t - 1 \in S /\ p[t - 1] \in S
  <2>1. t - 1 \in S
    OBVIOUS
  <2> QED BY <2>1, OrdersAreInjective
<1>2. ASSUME NEW t \in 1 .. n
      PROVE  /\ q[t].column = p[t - 1]
             /\ Range(q[t].rows) = ones(p[t - 1])
             /\ Len(q[t].rows) = Cardinality(ones(p[t - 1]))
  <2> DEFINE j == p[t - 1]
             v == visit(w, bcmc_core(w, n), j, n)
  <2>1. Range(v) = ones(j) /\ Len(v) = Cardinality(ones(j))
    BY VisitListsTheOnes
  <2>2. q[t] = [column |-> j, rows |-> v]
    BY DEF observe
  <2> HIDE DEF v, j
  <2>3. q[t].column = j /\ q[t].rows = v
    BY <2>2
  <2> HIDE DEF ones
  <2> QED BY <2>1, <2>3 DEF j
<1>3. ASSUME NEW t \in 1 .. n PROVE occ[t] = L[p[t - 1]]
  <2>1. occ[t] = Len(q[t].rows)
    BY DEF occupancy_sequence
  <2>2. L[p[t - 1]] = Cardinality(ones(p[t - 1]))
    <3> DEFINE j == p[t - 1]
    <3>1. j \in 0 .. n - 1
      BY <1>1
    <3> HIDE DEF j
    <3>2. L[j] = Cardinality(ones(j))
      BY <3>1, FormsOfList
    <3> QED BY <3>2 DEF j
  <2> HIDE DEF ones, occ, L
  <2> QED BY <1>2, <2>1, <2>2
<1>4. Sum(w) \in Nat /\ L = predicted_occupancy(Sum(w), n)
  <2>1. c \in 0 .. c
    OBVIOUS
  <2> QED BY <2>1, SumsOfList, FormsOfList
<1>5. SumOn(S, L) = Sum(w) /\ \A j \in S : L[j] \in Nat
  <2> HIDE DEF L
  <2> QED BY <1>4, SumOfLoads
<1>6. TotalOf(q) = Sum(w)
  <2> DEFINE T == 1 .. n
             m == [t \in T |-> p[t - 1]]
  <2>1. DOMAIN occ = T
    BY DEF occupancy_sequence
  <2>2. TotalOf(q) = SumOn(T, occ)
    <3>1. TotalOf(q) = FoldFunction(+, 0, occ)
      BY DEF TotalOf
    <3> HIDE DEF T, occ
    <3> QED BY <2>1, <3>1 DEF FoldFunction, SumOn
  <2>3. IsFiniteSet(T)
    BY FS_Interval
  <2>4. m \in [T -> S]
    <3> HIDE DEF S
    <3> QED BY <1>1
  <2>5. \A x, y \in T : m[x] = m[y] => x = y
    <3> SUFFICES ASSUME NEW x \in T, NEW y \in T, m[x] = m[y] PROVE x = y
      OBVIOUS
    <3>1. p[x - 1] = p[y - 1] /\ x - 1 \in 0 .. n - 1 /\ y - 1 \in 0 .. n - 1
      OBVIOUS
    <3>2. x - 1 = y - 1
      BY <3>1, OrdersAreInjective
    <3> QED BY <3>2
  <2>6. {m[t] : t \in T} = S
    <3>1. ASSUME NEW j \in S PROVE \E t \in T : m[t] = j
      <4>1. PICK k \in 0 .. n - 1 : p[k] = j
        BY OrdersAreInjective
      <4>2. k + 1 \in T /\ (k + 1) - 1 = k
        OBVIOUS
      <4>3. m[k + 1] = j
        BY <4>1, <4>2
      <4> QED BY <4>2, <4>3
    <3> HIDE DEF m, T, S
    <3> QED BY <2>4, <3>1
  <2>7. \A t \in T : occ[t] = L[m[t]]
    <3> HIDE DEF occ, L
    <3> QED BY <1>3
  <2> HIDE DEF m, T, S, occ, L
  <2>8. SumOn(T, occ) = SumOn(S, L)
    BY <1>5, <2>3, <2>4, <2>5, <2>6, <2>7, SumReindexed
  <2> QED BY <1>5, <2>2, <2>8
<1>7. events(q) = EventsOf(w, n)
  <2> DEFINE E == {e \in (DOMAIN w) \X S : bcmc_matrix(w, n)[e[1]][e[2]] = 1}
             At(t) == {<<i, p[t - 1]>> : i \in ones(p[t - 1])}
  <2>1. DOMAIN w = 0 .. c - 1
    BY ListFacts
  <2>2. ASSUME NEW i \in 0 .. c - 1, NEW j \in S
        PROVE  i \in ones(j) <=> bcmc_matrix(w, n)[i][j] = 1
    <3>1. j \in 0 .. n - 1
      OBVIOUS
    <3> QED BY <3>1, ActiveRowsOfTheMatrix
  <2>3. events(q) = UNION {At(t) : t \in 1 .. n}
    <3>1. events(q) = UNION {{<<i, q[t].column>> : i \in Range(q[t].rows)} : t \in 1 .. n}
      BY DEF events
    <3>2. \A t \in 1 .. n : {<<i, q[t].column>> : i \in Range(q[t].rows)} = At(t)
      <4> HIDE DEF ones
      <4> QED BY <1>2
    <3> HIDE DEF At
    <3> QED BY <3>1, <3>2
  <2>4. ASSUME NEW t \in 1 .. n PROVE At(t) \subseteq E
    <3> SUFFICES ASSUME NEW i \in ones(p[t - 1]) PROVE <<i, p[t - 1]>> \in E
      OBVIOUS
    <3> DEFINE j == p[t - 1]
    <3>1. i \in 0 .. c - 1 /\ j \in S /\ i \in ones(j)
      BY <1>1, <2>1 DEF ActiveRows
    <3> HIDE DEF j, ones
    <3>2. bcmc_matrix(w, n)[i][j] = 1
      BY <2>2, <3>1
    <3>3. <<i, j>> \in E
      BY <2>1, <3>1, <3>2
    <3> QED BY <3>3 DEF j
  <2>5. ASSUME NEW e \in E PROVE \E t \in 1 .. n : e \in At(t)
    <3>1. PICK i \in 0 .. c - 1, j \in S : e = <<i, j>>
      BY <2>1
    <3>2. bcmc_matrix(w, n)[i][j] = 1
      BY <2>5, <3>1
    <3>3. i \in ones(j)
      <4> HIDE DEF ones
      <4> QED BY <2>2, <3>2
    <3>4. PICK k \in 0 .. n - 1 : p[k] = j
      <4>1. j \in 0 .. n - 1
        OBVIOUS
      <4> HIDE DEF ones, At, E, L, occ, S
      <4> QED BY <4>1, OrdersAreInjective
    <3>5. k + 1 \in 1 .. n /\ (k + 1) - 1 = k
      OBVIOUS
    <3>6. e \in At(k + 1)
      <4> HIDE DEF ones
      <4> QED BY <3>1, <3>3, <3>4, <3>5
    <3> HIDE DEF At
    <3> QED BY <3>5, <3>6
  <2> HIDE DEF E, At
  <2>6. UNION {At(t) : t \in 1 .. n} = E
    BY <2>4, <2>5
  <2> QED BY <2>3, <2>6 DEF E, EventsOf
<1> QED BY <1>3, <1>6, <1>7

-----------------------------------------------------------------------------
(* Moving weight from one row to another leaves the total alone.           *)
LEMMA PerturbKeepsTheSum ==
  ASSUME NEW n \in Nat \ {0}, NEW c \in Nat, NEW w \in Lists(c, n),
         NEW i \in 0 .. c - 1, NEW k \in 0 .. c - 1, i # k, w[i] # 0, w[k] # n
  PROVE  LET v == [w EXCEPT ![i] = @ - 1, ![k] = @ + 1]
         IN  v \in Lists(c, n) /\ Sum(v) = Sum(w)
<1> DEFINE S == 0 .. c - 1
           v == [w EXCEPT ![i] = @ - 1, ![k] = @ + 1]
           r == (S \ {i}) \ {k}
<1>1. /\ w \in [S -> 0 .. n] /\ IsFiniteSet(S)
      /\ \A x \in S : w[x] \in 0 .. n /\ w[x] \in Nat
  BY ListFacts DEF Lists
<1>2. /\ v \in [S -> 0 .. n]
      /\ v[i] = w[i] - 1 /\ v[k] = w[k] + 1
      /\ \A x \in r : v[x] = w[x]
  <2>1. w[i] - 1 \in 0 .. n /\ w[k] + 1 \in 0 .. n
    BY <1>1
  <2> QED BY <1>1, <2>1
<1> HIDE DEF v
<1>3. \A x \in S : v[x] \in Nat
  BY <1>2
<1>4. ASSUME NEW f, f = v \/ f = w
      PROVE  SumOn(S, f) = f[i] + (f[k] + SumOn(r, f)) /\ SumOn(r, f) \in Nat
  <2>1. \A x \in S : f[x] \in Nat
    BY <1>1, <1>3, <1>4
  <2>2. i \in S /\ k \in S \ {i}
    OBVIOUS
  <2> DEFINE t == S \ {i}
  <2>3. IsFiniteSet(t) /\ IsFiniteSet(r) /\ \A x \in t : f[x] \in Nat
    BY <1>1, <2>1, FS_Subset
  <2>4. SumOn(S, f) = f[i] + SumOn(t, f)
    <3> HIDE DEF S
    <3> QED BY <1>1, <2>1, <2>2, SumPoint
  <2>5. SumOn(t, f) = f[k] + SumOn(r, f)
    <3>1. k \in t /\ r = t \ {k}
      BY <2>2 DEF t
    <3> HIDE DEF S, t, r
    <3>2. SumOn(t, f) = f[k] + SumOn(t \ {k}, f)
      BY <2>3, <3>1, SumPoint
    <3> QED BY <3>1, <3>2
  <2>6. SumOn(r, f) \in Nat
    <3>1. \A x \in r : f[x] \in Nat
      BY <2>1
    <3> HIDE DEF r
    <3> QED BY <2>3, <3>1, SumEquation
  <2> QED BY <2>4, <2>5, <2>6
<1>5. SumOn(r, v) = SumOn(r, w)
  <2>1. IsFiniteSet(r) /\ \A x \in r : w[x] \in Nat
    BY <1>1, FS_Subset
  <2> HIDE DEF r
  <2> QED BY <1>2, <2>1, SumCongruent
<1>6. SumOn(S, v) = SumOn(S, w)
  <2> DEFINE m == SumOn(r, w)
  <2>1. SumOn(S, v) = v[i] + (v[k] + m) /\ SumOn(S, w) = w[i] + (w[k] + m) /\ m \in Nat
    BY <1>4, <1>5
  <2>2. w[i] \in Nat /\ w[k] \in Nat
    BY <1>1
  <2> HIDE DEF m, S, r
  <2> QED BY <1>2, <2>1, <2>2
<1>7. Sum(v) = SumOn(S, v) /\ Sum(w) = SumOn(S, w)
  <2>1. DOMAIN v = S /\ DOMAIN w = S
    BY <1>1, <1>2
  <2> HIDE DEF S
  <2> QED BY <2>1 DEF Sum, FoldFunction, SumOn
<1> QED BY <1>2, <1>6, <1>7 DEF v, Lists

-----------------------------------------------------------------------------
\* What a list and a pass over it are.
PassInv ==
  /\ order # Undrawn => order \in Orders(N)
  /\ \E c \in Nat : weights \in Lists(c, N)
  /\ base # <<>> => order # Undrawn /\ base = predicted_occupancy(Sum(weights), N)
  /\ base = <<>> => pass = <<>>
  /\ Len(pass) \in 0 .. N
  /\ pass \in Seq({observe(weights, N, order[t]) : t \in 0 .. N - 1})
  /\ \A t \in 1 .. Len(pass) : pass[t] = observe(weights, N, order[t - 1])

(* The identity order is one of the orders.                                *)
LEMMA IdentityIsAnOrder ==
  ASSUME NEW n \in Nat \ {0}
  PROVE  identity_sequence(n) \in Orders(n)
<1> DEFINE p == identity_sequence(n)
<1>1. p \in [0 .. n - 1 -> 0 .. n - 1] /\ \A k \in 0 .. n - 1 : p[k] = k
  BY DEF identity_sequence
<1> HIDE DEF p
<1>2. {p[k] : k \in 0 .. n - 1} = 0 .. n - 1
  BY <1>1
<1> QED BY <1>1, <1>2 DEF p, Orders

(* Every list, every order and every prefix of a pass keep PassInv.        *)
LEMMA PassInductive == ObserversSpec => [](SeedInv /\ PassInv)
<1>1. ObserversInit => PassInv
  <2> SUFFICES ASSUME ObserversInit PROVE PassInv
    OBVIOUS
  <2>1. N \in Nat \ {0}
    BY ObserversAssumption DEF ObserversInit
  <2>2. weights \in Lists(0, N)
    BY <2>1 DEF ObserversInit, Lists
  <2>3. pass = <<>> /\ base = <<>> /\ order = Undrawn
    BY DEF ObserversInit, Undrawn
  <2>4. Len(pass) = 0 /\ pass \in Seq({observe(weights, N, order[t]) : t \in 0 .. N - 1})
    BY <2>3
  <2> QED BY <2>1, <2>2, <2>3, <2>4 DEF PassInv
<1>2. SeedInv /\ PassInv /\ [ObserversNext]_observersVars => PassInv'
  <2> SUFFICES ASSUME SeedInv, PassInv, [ObserversNext]_observersVars PROVE PassInv'
    OBVIOUS
  <2>0. N \in Nat \ {0} /\ (N' = N => N' \in Nat \ {0})
    BY ObserversAssumption DEF SeedInv
  <2>1. CASE UNCHANGED observersVars
    BY <2>1 DEF observersVars, PassInv
  <2>2. CASE NextWord
    BY <2>2 DEF NextWord, PassInv
  <2>3. CASE DrawOrder
    <3>1. UNCHANGED <<N, weights, base, pass>> /\ order = Undrawn
      BY <2>3 DEF DrawOrder
    <3>2. base = <<>> /\ pass = <<>>
      BY <3>1 DEF PassInv
    <3>3. order' \in Orders(N)
      <4>1. CASE order' = identity_sequence(N)
        BY <2>0, <4>1, IdentityIsAnOrder
      <4>2. CASE IsPeriod /\ order' = permuted_order(stream, N)
        <5>1. IsStream(stream)
          BY <4>2, PeriodIsAStream
        <5>2. 0 \in Positions(stream)
          BY <5>1, StreamHasWords
        <5>3. bank_and_cost(stream, 0, N).bank \in Orders(N)
          BY <2>0, <5>1, <5>2, BankIsAnOrder DEF Banks
        <5> QED BY <4>2, <5>3 DEF permuted_order, shuffle_from
      <4> QED BY <2>3, <4>1, <4>2 DEF DrawOrder
    <3>4. Len(pass') = 0 /\ pass' \in Seq({observe(weights', N', order'[t]) : t \in 0 .. N' - 1})
      BY <3>1, <3>2
    <3> QED BY <2>0, <3>1, <3>2, <3>3, <3>4 DEF PassInv
  <2>4. CASE ReadWeights
    <3>1. /\ UNCHANGED <<N, stream, order, pass>> /\ order # Undrawn /\ pass = <<>>
          /\ base' = bcmc_algorithmic(weights', N)
      BY <2>4 DEF ReadWeights, PassInv
    <3>2. PICK c \in Nat : weights' \in [0 .. c - 1 -> 0 .. MaxN]
      <4>1. \A c \in 0 .. MaxList : c \in Nat
        OBVIOUS
      <4> QED BY <2>4, <4>1 DEF ReadWeights
    <3>3. weights' \in Lists(c, N)
      <4>1. \A i \in 0 .. c - 1 : weights'[i] \in 0 .. N
        BY <2>4, <3>2 DEF ReadWeights, check_weights
      <4> QED BY <3>2, <4>1 DEF Lists
    <3>4. base' = predicted_occupancy(Sum(weights'), N)
      BY <2>0, <3>1, <3>3, FormsOfList
    <3>5. Len(pass') = 0 /\ pass' = <<>>
          /\ pass' \in Seq({observe(weights', N', order'[t]) : t \in 0 .. N' - 1})
      BY <3>1
    <3> QED BY <2>0, <3>1, <3>3, <3>4, <3>5 DEF PassInv
  <2>5. CASE Perturb
    <3>1. PICK i \in DOMAIN weights, k \in DOMAIN weights :
            /\ i # k /\ weights[i] # 0 /\ weights[k] # N
            /\ weights' = [weights EXCEPT ![i] = @ - 1, ![k] = @ + 1]
            /\ pass' = <<>> /\ UNCHANGED <<N, stream, order, base>>
      BY <2>5 DEF Perturb
    <3>2. PICK c \in Nat : weights \in Lists(c, N)
      BY DEF PassInv
    <3>3. DOMAIN weights = 0 .. c - 1
      BY <2>0, <3>2, ListFacts
    <3>4. weights' \in Lists(c, N) /\ Sum(weights') = Sum(weights)
      BY <2>0, <3>1, <3>2, <3>3, PerturbKeepsTheSum
    <3>5. Len(pass') = 0 /\ pass' \in Seq({observe(weights', N', order'[t]) : t \in 0 .. N' - 1})
      BY <3>1
    <3> QED BY <2>0, <3>1, <3>4, <3>5 DEF PassInv
  <2>6. CASE VisitNext
    <3> DEFINE T == {observe(weights, N, order[t]) : t \in 0 .. N - 1}
               l == Len(pass)
               e == observe(weights, N, order[l])
    <3>1. /\ base # <<>> /\ l < N /\ pass' = Append(pass, e)
          /\ UNCHANGED <<N, stream, order, weights, base>>
      BY <2>6 DEF VisitNext
    <3>2. l \in 0 .. N - 1 /\ pass \in Seq(T) /\ \A t \in 1 .. l : pass[t] = observe(weights, N, order[t - 1])
      BY <2>0, <3>1 DEF PassInv
    <3>3. e \in T
      BY <3>2
    <3> HIDE DEF T, e, l
    <3>4. /\ pass' \in Seq(T) /\ Len(pass') = l + 1
          /\ \A t \in 1 .. l : pass'[t] = pass[t]
          /\ pass'[l + 1] = e
      BY <3>1, <3>2, <3>3, AppendProperties DEF l
    <3>5. ASSUME NEW t \in 1 .. l + 1 PROVE pass'[t] = observe(weights, N, order[t - 1])
      <4>1. CASE t = l + 1
        <5>1. t - 1 = l
          BY <3>2, <4>1
        <5> QED BY <3>4, <4>1, <5>1 DEF e
      <4>2. CASE t # l + 1
        <5>1. t \in 1 .. l
          BY <3>2, <4>2
        <5> QED BY <3>2, <3>4, <5>1
      <4> QED BY <4>1, <4>2
    <3>6. l + 1 \in 0 .. N
      BY <2>0, <3>2
    <3>7. pass' \in Seq({observe(weights', N', order'[t]) : t \in 0 .. N' - 1})
      BY <3>1, <3>4 DEF T
    <3>8. \A t \in 1 .. Len(pass') : pass'[t] = observe(weights', N', order'[t - 1])
      BY <3>1, <3>4, <3>5
    <3>9. Len(pass') \in 0 .. N'
      BY <3>1, <3>4, <3>6
    <3> QED BY <3>1, <3>7, <3>8, <3>9 DEF PassInv
  <2> QED BY <2>1, <2>2, <2>3, <2>4, <2>5, <2>6 DEF ObserversNext
<1>3. ObserversSpec => []SeedInv
  BY SeedInvariance
<1> QED BY <1>1, <1>2, <1>3, PTL DEF ObserversSpec

(***************************************************************************)
(* For every N, every list of weights and every order of the columns: the  *)
(* four forms of the reference model have the same loads, a row has as     *)
(* many ones as its weight, the loads depend on the total alone, and a     *)
(* whole pass yields every one of the matrix once, the occupancies adding  *)
(* up to the total.                                                        *)
(***************************************************************************)
THEOREM ReferenceAlwaysAgrees == ObserversSpec => []ReferenceAgrees
<1>1. SeedInv /\ PassInv => ReferenceAgrees
  <2> SUFFICES ASSUME SeedInv, PassInv PROVE ReferenceAgrees
    OBVIOUS
  <2>1. N \in Nat \ {0}
    BY ObserversAssumption DEF SeedInv
  <2>2. PICK c \in Nat : weights \in Lists(c, N)
    BY DEF PassInv
  <2>3. FormsAgree
    BY <2>1, <2>2, FormsOfList DEF FormsAgree
  <2>4. RowsConserved
    BY <2>1, <2>2, RowsOfList DEF RowsConserved
  <2>5. LoadsAreIndependent
    BY <2>3 DEF FormsAgree, LoadsAreIndependent, PassInv
  <2>6. PassYieldsTheMatrix
    <3> SUFFICES ASSUME Len(pass) = N PROVE
          /\ events(pass) = {e \in (DOMAIN weights) \X (0 .. N - 1) :
                               bcmc_matrix(weights, N)[e[1]][e[2]] = 1}
          /\ FoldFunction(+, 0, occupancy_sequence(pass)) = Sum(weights)
          /\ \A t \in 1 .. N : occupancy_sequence(pass)[t] = base[order[t - 1]]
      BY DEF PassYieldsTheMatrix
    <3>1. base # <<>>
      <4>1. pass = <<>> => Len(pass) = 0
        OBVIOUS
      <4> QED BY <2>1, <4>1 DEF PassInv
    <3>2. order \in Orders(N) /\ base = column_occupancy(weights, N)
      BY <2>3, <3>1 DEF PassInv, FormsAgree
    <3>3. DOMAIN pass = 1 .. N /\ \A t \in 1 .. N : pass[t] = observe(weights, N, order[t - 1])
      BY DEF PassInv
    <3>4. /\ events(pass) = EventsOf(weights, N)
          /\ TotalOf(pass) = Sum(weights)
          /\ \A t \in 1 .. N : occupancy_sequence(pass)[t] = column_occupancy(weights, N)[order[t - 1]]
      <4> SUFFICES ASSUME NEW n \in Nat \ {0}, n = N, NEW w \in Lists(c, n), w = weights,
                          NEW p \in Orders(n), p = order, NEW q, q = pass
                   PROVE  /\ events(q) = EventsOf(w, n)
                          /\ TotalOf(q) = Sum(w)
                          /\ \A t \in 1 .. n : occupancy_sequence(q)[t] = column_occupancy(w, n)[p[t - 1]]
        BY <2>1, <2>2, <3>2
      <4>1. DOMAIN q = 1 .. n /\ \A t \in 1 .. n : q[t] = observe(w, n, p[t - 1])
        BY <3>3
      <4>2. ASSUME NEW t \in 1 .. n PROVE q[t] = observe(w, n, p[t - 1])
        BY <4>1
      <4>3. DOMAIN q = 1 .. n
        BY <4>1
      <4> QED BY <4>2, <4>3, WholePass
    <3> QED BY <3>2, <3>4 DEF EventsOf, TotalOf
  <2> QED BY <2>3, <2>4, <2>5, <2>6 DEF ReferenceAgrees
<1> QED BY <1>1, PassInductive, PTL
=============================================================================
