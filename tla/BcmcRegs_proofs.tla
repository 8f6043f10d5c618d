--------------------------- MODULE BcmcRegs_proofs --------------------------
(***************************************************************************)
(* The golden peripheral, the Python client that programs it, and the C    *)
(* driver with its interrupt handler: what each relies on, and what it     *)
(* promises to its caller, for every context and every interleaving.       *)
(***************************************************************************)
EXTENDS BcmcClient, BcmcDriver, BcmcArith_proofs, SequenceTheorems

-----------------------------------------------------------------------------
(* The peripheral.                                                         *)

\* bcmc_core of reference.py over the rows in use: the chain of the Core's steps
\* is a solution of the recursion that the golden model evaluates.
LEMMA ReferenceIsChain ==
  ASSUME NEW n \in Nat \ {0}, n < ValRange, NEW u \in Nat, NEW w,
         \A i \in 0 .. u - 1 : w[i] \in 0 .. n
  PROVE  /\ u # 0 => RefOffset(0, n, u, w) = 0
         /\ \A i \in 0 .. u - 1 : RefOffset(i, n, u, w) \in 0 .. n - 1
         /\ \A i \in 1 .. u - 1 :
              RefOffset(i, n, u, w) = NextOffset(RefOffset(i - 1, n, u, w), w[i - 1], n)
<1> DEFINE P == PrefixSum(u, w)
<1>1. P[0] = 0 /\ \A k \in 1 .. u : P[k] = P[k - 1] + w[k - 1]
  BY PrefixSumEquation
<1>2. \A k \in 0 .. u : P[k] \in Nat
  <2>1. \A i \in 0 .. u - 1 : w[i] \in Nat OBVIOUS
  <2> QED BY <2>1, PrefixSumNat
<1>3. \A i : RefOffset(i, n, u, w) = P[i] % n BY DEF RefOffset
<1> HIDE DEF P
<1>4. 0 % n = 0 OBVIOUS
<1>5. ASSUME NEW i \in 0 .. u - 1 PROVE P[i] % n \in 0 .. n - 1
  <2> DEFINE a == P[i]
  <2>1. a \in Int BY <1>2
  <2> HIDE DEF a
  <2>2. a % n \in 0 .. n - 1 BY <2>1, DivMod
  <2> QED BY <2>2 DEF a
<1>6. ASSUME NEW i \in 1 .. u - 1
      PROVE  P[i] % n = NextOffset(P[i - 1] % n, w[i - 1], n)
  <2> DEFINE a == P[i - 1]
             v == w[i - 1]
  <2>1. i - 1 \in 0 .. u - 1 /\ i - 1 \in 0 .. u /\ i \in 1 .. u OBVIOUS
  <2>2. a \in Nat /\ v \in 0 .. n BY <1>2, <2>1
  <2>3. P[i] = a + v BY <1>1, <2>1
  <2> HIDE DEF a, v
  <2>4. NextOffset(a % n, v, n) = (a + v) % n BY <2>2, NextOffsetIsModular
  <2> QED BY <2>3, <2>4 DEF a, v
<1> QED BY <1>1, <1>3, <1>4, <1>5, <1>6

(* The offsets the golden model computes by a running sum are the          *)
(* reference's.                                                            *)
LEMMA StreamIsTransform ==
  ASSUME NEW d \in Device, start_legal(d)
  PROVE  /\ stream(d) \in Window
         /\ IsTransform(stream(d), Rows, d.n, d.c, d.weights)
<1> DEFINE n == d.n
           c == d.c
           w == d.weights
           u == used_rows(d)
           f == [i \in Rows |-> IF i >= c THEN 0 ELSE RefOffset(i, n, u, w)]
           next(x, i) == LET s == x[i - 1] + w[i - 1]
                         IN  IF s >= n THEN s - n ELSE s
<1>1. /\ n \in Nat \ {0} /\ n < ValRange /\ c \in Nat /\ u \in Nat
      /\ \A i \in 0 .. u - 1 : w[i] \in 0 .. n
      /\ \A i \in Rows : i \in Nat /\ (i < c <=> i < u)
      /\ Rows \subseteq Nat /\ \A i \in Rows : i # 0 => i - 1 \in Rows
  <2>1. /\ n \in Val /\ c \in Nat /\ w \in Window /\ MAX_C \in Nat /\ IdxRange \in Nat
    BY RegsAssumption DEF Device
  <2>2. u \in Nat /\ u <= MAX_C /\ \A i \in Rows : i \in Nat /\ (i < c <=> i < u)
    BY <2>1 DEF used_rows, Rows
  <2>3. n >= 1 /\ \A i \in 0 .. u - 1 : w[i] <= n BY DEF start_legal, Legal
  <2>4. \A i \in 0 .. u - 1 : w[i] \in Val
    BY <2>1, <2>2 DEF Window, Rows
  <2> QED BY <2>1, <2>2, <2>3, <2>4, ValRangeAssumption DEF Val, Rows
<1> HIDE DEF n, c, w, u
<1>2. /\ u # 0 => RefOffset(0, n, u, w) = 0
      /\ \A i \in 0 .. u - 1 : RefOffset(i, n, u, w) \in 0 .. n - 1
      /\ \A i \in 1 .. u - 1 :
           RefOffset(i, n, u, w) = NextOffset(RefOffset(i - 1, n, u, w), w[i - 1], n)
  BY <1>1, ReferenceIsChain
<1>3. ASSUME NEW i \in Rows
      PROVE  /\ f[i] \in 0 .. n - 1
             /\ i = 0 \/ i >= c => f[i] = 0
             /\ ~(i = 0 \/ i >= c) =>
                  f[i] = NextOffset(f[i - 1], w[i - 1], n) /\ f[i] = next(f, i)
  <2>1. CASE i >= c BY <1>1, <2>1
  <2>2. CASE i < c /\ i = 0
    <3>1. i \in 0 .. u - 1 /\ u # 0 BY <1>1, <2>2
    <3> QED BY <1>1, <1>2, <2>2, <3>1
  <2>3. CASE i < c /\ i # 0
    <3>1. i \in 1 .. u - 1 /\ i - 1 \in 0 .. u - 1 /\ i - 1 \in Rows /\ i - 1 < c
      BY <1>1, <2>3
    <3>2. /\ f[i] = RefOffset(i, n, u, w) /\ f[i - 1] = RefOffset(i - 1, n, u, w)
      BY <1>1, <2>3, <3>1
    <3> DEFINE a == f[i - 1]
               v == w[i - 1]
    <3>3. f[i] \in 0 .. n - 1 /\ a \in 0 .. n - 1 /\ v \in 0 .. n
      BY <1>1, <1>2, <3>1, <3>2
    <3>4. f[i] = NextOffset(a, v, n) BY <1>2, <3>1, <3>2
    <3>5. next(f, i) = IF a + v >= n THEN (a + v) - n ELSE a + v OBVIOUS
    <3> HIDE DEF a, v, f, next
    <3>6. a \in Val /\ v \in Val /\ n \in Val /\ a < n /\ v <= n
      BY <1>1, <3>3, ValRangeAssumption DEF Val
    <3>7. NextOffset(a, v, n) = IF a + v >= n THEN (a + v) - n ELSE a + v
      <4>1. NextOffset(a, v, n) = IF a + v >= n THEN a + v - n ELSE a + v
        BY <3>6, NextOffsetBound
      <4>2. a + v - n = (a + v) - n BY <3>6, ValRangeAssumption DEF Val
      <4> QED BY <4>1, <4>2
    <3> QED BY <1>1, <2>3, <3>3, <3>4, <3>5, <3>7 DEF a, v
  <2> QED BY <1>1, <2>1, <2>2, <2>3
<1>4. f = [i \in Rows |-> IF i = 0 \/ i >= c THEN 0 ELSE next(f, i)]
  <2>1. f = [i \in Rows |-> f[i]] OBVIOUS
  <2>2. \A i \in Rows : f[i] = IF i = 0 \/ i >= c THEN 0 ELSE next(f, i)
    <3> HIDE DEF f, next
    <3> QED BY <1>3
  <2> HIDE DEF f, next
  <2> QED BY <2>1, <2>2
<1>5. stream(d) = [i \in Rows |-> IF i = 0 \/ i >= c THEN 0 ELSE next(stream(d), i)]
  <2>1. \E g : g = [i \in Rows |-> IF i = 0 \/ i >= d.c THEN 0
                     ELSE LET s == g[i - 1] + d.weights[i - 1]
                          IN  IF s >= d.n THEN s - d.n ELSE s]
    <3> HIDE DEF f
    <3> QED BY <1>4 DEF n, c, w
  <2>2. stream(d) = [i \in Rows |-> IF i = 0 \/ i >= d.c THEN 0
                     ELSE LET s == stream(d)[i - 1] + d.weights[i - 1]
                          IN  IF s >= d.n THEN s - d.n ELSE s]
    BY <2>1, Zenon DEF stream
  <2> QED BY <2>2 DEF n, c, w
<1> DEFINE g == stream(d)
<1> HIDE DEF g, f
<1>6. \A i \in Rows : g[i] = f[i]
  <2> DEFINE Bad == {i \in Rows : g[i] # f[i]}
  <2>1. \A i \in Rows : g[i] = IF i = 0 \/ i >= c THEN 0 ELSE next(g, i)
    <3> HIDE DEF next
    <3>1. g = [i \in Rows |-> IF i = 0 \/ i >= c THEN 0 ELSE next(g, i)]
      BY <1>5 DEF g
    <3> QED BY <3>1
  <2> SUFFICES ASSUME Bad # {} PROVE FALSE OBVIOUS
  <2>2. Bad \subseteq Nat BY <1>1
  <2>3. PICK i \in Bad : \A k \in Bad : i <= k
    <3> HIDE DEF Bad
    <3> QED BY <2>2, LeastNatural
  <2>4. ~(i = 0 \/ i >= c) BY <1>3, <2>1, <2>3
  <2>5. i - 1 \in Rows /\ i \in Nat BY <1>1, <2>4
  <2>6. i - 1 \notin Bad BY <2>3, <2>5
  <2>7. g[i - 1] = f[i - 1] BY <2>5, <2>6
  <2> QED BY <1>3, <2>1, <2>3, <2>4, <2>7
<1>7. \A i \in Rows : f[i] \in Val
  <2>1. \A i \in Rows : f[i] \in 0 .. n - 1 BY <1>3
  <2> QED BY <1>1, <2>1, ValRangeAssumption DEF Val
<1>8. g \in Window
  <2>1. DOMAIN g = Rows /\ g = [i \in Rows |-> g[i]]
    <3> HIDE DEF next
    <3> QED BY <1>5 DEF g
  <2> QED BY <1>6, <1>7, <2>1 DEF Window
<1>9. IsTransform(g, Rows, n, c, w)
  <2>1. \A k \in Rows :
          g[k] = IF k = 0 \/ k >= c THEN 0 ELSE NextOffset(g[k - 1], w[k - 1], n)
    BY <1>1, <1>3, <1>6
  <2> QED BY <2>1 DEF IsTransform
<1> QED BY <1>8, <1>9 DEF g, n, c, w

Registers ==
  {"CONST", "CTRL", "STATUS", "N", "C", "CELL_ROW", "CELL_COL", "CELL", "COLUMN",
   "WEIGHT", "OFFSET", "HOLE", "ODD"}

\* The data that an access of this address carries.
Fits(addr, data) ==
  /\ addr \in [reg : Registers, i : Nat]
  /\ addr.reg = "CTRL" => data \in [start : BOOLEAN, irq_en : BOOLEAN]
  /\ addr.reg = "STATUS" => data \in [irq : BOOLEAN]
  /\ addr.reg \notin {"CTRL", "STATUS"} => data \in Nat

(* Whether offsets are current depends on the context alone.               *)
LEMMA CurrentIsOfContext ==
  ASSUME NEW d, NEW e, SameContext(d, e), NEW o
  PROVE  /\ start_legal(d) <=> start_legal(e)
         /\ IsCurrent(d, o) <=> IsCurrent(e, o)
BY DEF SameContext, IsCurrent, start_legal, used_rows

\* Time passes: the transform under way is an access nearer to its end, or ends.
LEMMA AdvanceEffect ==
  ASSUME NEW d, DeviceInv(d), NEW e, e = advance(d)
  PROVE  /\ DeviceInv(e) /\ SameContext(e, d)
         /\ e.latency = d.latency /\ e.cell_row = d.cell_row /\ e.cell_col = d.cell_col
         /\ e.irq_en = d.irq_en
         /\ ~d.busy => e = d
         /\ d.busy => \/ e.busy /\ d.remaining # 0 /\ e.remaining = d.remaining - 1
                      \/ ~e.busy /\ e.valid /\ d.remaining = 0
         /\ d.valid => e.valid
<1>1. d \in Device /\ d.remaining <= d.latency
      /\ (d.valid => ~d.busy /\ IsCurrent(d, d.offsets))
      /\ (d.busy => IsCurrent(d, d.pending))
  BY DEF DeviceInv
<1>2. CASE ~d.busy
  <2>1. e = d BY <1>2 DEF advance
  <2> QED BY <1>2, <2>1 DEF SameContext
<1>3. CASE d.busy /\ d.remaining = 0
  <2>1. e = [d EXCEPT !.offsets = d.pending, !.pending = Zeros,
                      !.busy = FALSE, !.valid = TRUE, !.irq = TRUE]
    BY <1>3 DEF advance, complete
  <2>2. Zeros \in Window
    BY ValRangeAssumption DEF Zeros, Window, Val
  <2>3. e \in Device BY <1>1, <2>1, <2>2 DEF Device
  <2>4. /\ SameContext(e, d) /\ e.offsets = d.pending /\ ~e.busy /\ e.valid
        /\ e.remaining = d.remaining /\ e.latency = d.latency
        /\ e.cell_row = d.cell_row /\ e.cell_col = d.cell_col /\ e.irq_en = d.irq_en
    BY <1>1, <2>1 DEF Device, SameContext
  <2>5. IsCurrent(e, e.offsets) BY <1>1, <1>3, <2>4, CurrentIsOfContext
  <2> QED BY <1>1, <1>3, <2>3, <2>4, <2>5 DEF DeviceInv
<1>4. CASE d.busy /\ d.remaining # 0
  <2>1. e = [d EXCEPT !.remaining = @ - 1] BY <1>4 DEF advance
  <2>2. e \in Device BY <1>1, <1>4, <2>1 DEF Device
  <2>3. /\ SameContext(e, d) /\ e.pending = d.pending /\ e.busy /\ e.valid = d.valid
        /\ e.remaining = d.remaining - 1 /\ e.latency = d.latency
        /\ e.cell_row = d.cell_row /\ e.cell_col = d.cell_col /\ e.irq_en = d.irq_en
        /\ d.remaining \in Nat /\ d.latency \in Nat
    BY <1>1, <1>4, <2>1 DEF Device, SameContext
  <2>4. IsCurrent(e, e.pending) BY <1>1, <1>4, <2>3, CurrentIsOfContext
  <2> QED BY <1>1, <1>4, <2>2, <2>3, <2>4 DEF DeviceInv
<1> QED BY <1>1, <1>2, <1>3, <1>4

\* START over a legal context: a transform of it is under way.
LEMMA StartEffect ==
  ASSUME NEW d, DeviceInv(d), ~d.busy, NEW e, e = start(d)
  PROVE  /\ DeviceInv(e) /\ SameContext(e, d)
         /\ e.latency = d.latency /\ e.cell_row = d.cell_row /\ e.cell_col = d.cell_col
         /\ e.irq_en = d.irq_en
         /\ start_legal(d) => e.busy /\ ~e.valid /\ e.remaining = e.latency
         /\ ~start_legal(d) => e = d
<1>1. d \in Device BY DEF DeviceInv
<1>2. CASE ~start_legal(d)
  <2>1. e = d BY <1>2 DEF start
  <2> QED BY <1>2, <2>1 DEF SameContext
<1>3. CASE start_legal(d)
  <2>1. e = [d EXCEPT !.pending = stream(d), !.valid = FALSE, !.busy = TRUE,
                      !.remaining = d.latency]
    BY <1>3 DEF start
  <2>2. stream(d) \in Window /\ IsTransform(stream(d), Rows, d.n, d.c, d.weights)
    BY <1>1, <1>3, StreamIsTransform
  <2>3. IsCurrent(d, stream(d)) BY <1>3, <2>2 DEF IsCurrent
  <2> HIDE DEF stream
  <2>4. e \in Device BY <1>1, <2>1, <2>2 DEF Device
  <2>5. /\ SameContext(e, d) /\ e.pending = stream(d) /\ e.busy /\ ~e.valid
        /\ e.remaining = d.latency /\ e.latency = d.latency /\ d.latency \in Nat
        /\ e.cell_row = d.cell_row /\ e.cell_col = d.cell_col /\ e.irq_en = d.irq_en
    BY <1>1, <2>1 DEF Device, SameContext
  <2>6. IsCurrent(e, e.pending) BY <2>3, <2>5, CurrentIsOfContext
  <2> QED BY <1>3, <2>4, <2>5, <2>6 DEF DeviceInv
<1> QED BY <1>2, <1>3

\* The error model, in one line for each direction.
Admitted(d, addr, data) ==
  /\ addr.reg \in {"CTRL", "STATUS", "N", "C", "CELL_ROW", "CELL_COL", "WEIGHT"}
  /\ addr.reg = "WEIGHT" => addr.i < MAX_C
  /\ d.busy => addr.reg \notin Context
  /\ addr.reg = "CTRL" /\ data.start => ~d.busy

(* A write is not refused exactly if the register map admits it.           *)
LEMMA WriteAdmitted ==
  ASSUME NEW d \in Device, NEW addr, NEW data, Fits(addr, data), NEW sel \in BOOLEAN
  PROVE  write_refusal(d, addr, data, sel) = "none" <=> sel /\ Admitted(d, addr, data)
<1>1. addr.reg \in Registers /\ addr.i \in Nat /\ MAX_C \in Nat
  BY RegsAssumption DEF Fits
<1> DEFINE r == check_access(d, addr, sel, TRUE)
<1>2. write_refusal(d, addr, data, sel) = "none" <=>
        r = "none" /\ (addr.reg = "CTRL" /\ data.start => ~d.busy)
  BY DEF write_refusal, start_guard
<1>3. r = "none" <=>
        /\ sel
        /\ addr.reg \in {"CTRL", "STATUS", "N", "C", "CELL_ROW", "CELL_COL", "WEIGHT"}
        /\ addr.reg = "WEIGHT" => addr.i < MAX_C
        /\ d.busy => addr.reg \notin Context
  BY <1>1 DEF check_access, Registers, ReadOnly, Context, Matrix
<1> QED BY <1>2, <1>3 DEF Admitted

(* A read is not refused exactly if it is in a window and its data are     *)
(* valid.                                                                  *)
LEMMA ReadAdmitted ==
  ASSUME NEW d \in Device, NEW addr \in [reg : Registers, i : Nat], NEW sel \in BOOLEAN
  PROVE  read_refusal(d, addr, sel) = "none" <=>
           /\ sel
           /\ addr.reg \notin {"HOLE", "ODD"}
           /\ addr.reg \in {"WEIGHT", "OFFSET"} => addr.i < MAX_C
           /\ addr.reg = "COLUMN" => addr.i < column_words
           /\ addr.reg \in Matrix => d.valid /\ ~d.busy
<1>1. addr.reg \in Registers /\ addr.i \in Nat /\ MAX_C \in Nat /\ column_words \in Int
  BY RegsAssumption DEF column_words
<1> DEFINE r == check_access(d, addr, sel, FALSE)
<1>2. read_refusal(d, addr, sel) = "none" <=>
        r = "none" /\ (addr.reg \in Matrix => d.valid)
  BY DEF read_refusal, require_matrix
<1>3. r = "none" <=>
        /\ sel
        /\ addr.reg \notin {"HOLE", "ODD"}
        /\ addr.reg \in {"WEIGHT", "OFFSET"} => addr.i < MAX_C
        /\ addr.reg = "COLUMN" => addr.i < column_words
        /\ addr.reg \in Matrix => ~d.busy
  BY <1>1 DEF check_access, Registers, ReadOnly, Context, Matrix
<1> QED BY <1>2, <1>3

(* A field keeps its bits, and a value that fits comes back as it was.     *)
LEMMA FieldType ==
  ASSUME NEW x \in Nat
  PROVE  /\ field(x, ValRange) \in Val /\ field(x, IdxRange) \in 0 .. IdxRange - 1
         /\ x \in Val => field(x, ValRange) = x
         /\ x \in 0 .. IdxRange - 1 => field(x, IdxRange) = x
BY ValRangeAssumption, RegsAssumption DEF field, Val

\* What an admitted write changes and what it leaves alone.
Changes(d, e, addr, data) ==
  /\ DeviceInv(e) /\ e.latency = d.latency
  /\ addr.reg \notin Context => SameContext(e, d)
  /\ addr.reg \in Context => ~d.busy /\ ~e.busy /\ ~e.valid
  /\ addr.reg # "CELL_ROW" => e.cell_row = d.cell_row
  /\ addr.reg # "CELL_COL" => e.cell_col = d.cell_col
  /\ addr.reg # "CTRL" => e.irq_en = d.irq_en /\ e.busy = d.busy
  /\ addr.reg \notin {"CTRL"} \cup Context =>
       e.valid = d.valid /\ e.remaining = d.remaining
  /\ addr.reg = "N" => /\ e.n = field(data, ValRange)
                       /\ e.c = d.c /\ e.weights = d.weights
  /\ addr.reg = "C" => /\ e.c = field(data, IdxRange)
                       /\ e.n = d.n /\ e.weights = d.weights
  /\ addr.reg = "WEIGHT" =>
       /\ e.n = d.n /\ e.c = d.c /\ addr.i \in Rows
       /\ e.weights = [d.weights EXCEPT ![addr.i] = field(data, ValRange)]
  /\ addr.reg = "CELL_ROW" => e.cell_row = field(data, IdxRange)
  /\ addr.reg = "CELL_COL" => e.cell_col = field(data, ValRange)
  /\ addr.reg = "CTRL" =>
       /\ e.irq_en = data.irq_en
       /\ data.start /\ start_legal(d) => e.busy /\ ~e.valid /\ e.remaining = e.latency
       /\ ~(data.start /\ start_legal(d)) =>
            e.busy = d.busy /\ e.valid = d.valid /\ e.remaining = d.remaining

(* What a write that is admitted changes, and that the device stays in its *)
(* invariant.                                                              *)
LEMMA WrittenEffect ==
  ASSUME NEW d, DeviceInv(d), NEW addr, NEW data, Fits(addr, data),
         Admitted(d, addr, data), NEW e, e = written(d, addr, data)
  PROVE  Changes(d, e, addr, data)
<1>1. /\ d \in Device /\ d.remaining <= d.latency
      /\ (d.valid => ~d.busy /\ IsCurrent(d, d.offsets))
      /\ (d.busy => IsCurrent(d, d.pending))
  BY DEF DeviceInv
<1>2. /\ addr.reg \in {"CTRL", "STATUS", "N", "C", "CELL_ROW", "CELL_COL", "WEIGHT"}
      /\ addr.reg = "WEIGHT" => addr.i < MAX_C
      /\ d.busy => addr.reg \notin Context
      /\ addr.reg = "CTRL" /\ data.start => ~d.busy
  BY DEF Admitted
<1>3. addr.reg \notin {"CTRL", "STATUS"} =>
        field(data, ValRange) \in Val /\ field(data, IdxRange) \in 0 .. IdxRange - 1
  BY FieldType DEF Fits
<1> USE DEF Context, Changes
<1>4. CASE addr.reg = "CTRL"
  <2> DEFINE armed == [d EXCEPT !.irq_en = data.irq_en]
  <2>1. e = IF data.start THEN start(armed) ELSE armed BY <1>4 DEF written
  <2>2. data.irq_en \in BOOLEAN /\ data.start \in BOOLEAN BY <1>4 DEF Fits
  <2>3. armed \in Device BY <1>1, <2>2 DEF Device
  <2>4. /\ SameContext(armed, d) /\ armed.offsets = d.offsets /\ armed.pending = d.pending
        /\ armed.busy = d.busy /\ armed.valid = d.valid /\ armed.irq_en = data.irq_en
        /\ armed.remaining = d.remaining /\ armed.latency = d.latency
        /\ armed.cell_row = d.cell_row /\ armed.cell_col = d.cell_col
    BY <1>1 DEF Device, SameContext
  <2> HIDE DEF armed
  <2>5. DeviceInv(armed) BY <1>1, <2>3, <2>4, CurrentIsOfContext DEF DeviceInv
  <2>6. start_legal(armed) <=> start_legal(d) BY <2>4, CurrentIsOfContext
  <2>7. CASE ~data.start BY <1>4, <2>1, <2>4, <2>5, <2>7
  <2>8. CASE data.start
    <3>1. e = start(armed) /\ ~armed.busy BY <1>2, <1>4, <2>1, <2>4, <2>8
    <3>2. /\ DeviceInv(e) /\ SameContext(e, armed)
          /\ e.latency = armed.latency /\ e.cell_row = armed.cell_row
          /\ e.cell_col = armed.cell_col /\ e.irq_en = armed.irq_en
          /\ start_legal(armed) => e.busy /\ ~e.valid /\ e.remaining = e.latency
          /\ ~start_legal(armed) => e = armed
      BY <2>5, <3>1, StartEffect
    <3>3. SameContext(e, d) BY <2>4, <3>2 DEF SameContext
    <3> QED BY <1>4, <2>4, <2>6, <2>8, <3>2, <3>3
  <2> QED BY <2>2, <2>7, <2>8
<1>5. CASE addr.reg = "STATUS"
  <2>1. e = [d EXCEPT !.irq = @ /\ ~data.irq] BY <1>5 DEF written
  <2>2. e \in Device BY <1>1, <2>1 DEF Device
  <2>3. /\ SameContext(e, d) /\ e.offsets = d.offsets /\ e.pending = d.pending
        /\ e.busy = d.busy /\ e.valid = d.valid /\ e.irq_en = d.irq_en
        /\ e.remaining = d.remaining /\ e.latency = d.latency
        /\ e.cell_row = d.cell_row /\ e.cell_col = d.cell_col
    BY <1>1, <2>1 DEF Device, SameContext
  <2>4. DeviceInv(e) BY <1>1, <2>2, <2>3, CurrentIsOfContext DEF DeviceInv
  <2> QED BY <1>5, <2>3, <2>4
<1>6. CASE addr.reg \in {"CELL_ROW", "CELL_COL"}
  <2>1. e = IF addr.reg = "CELL_ROW" THEN [d EXCEPT !.cell_row = field(data, IdxRange)]
            ELSE [d EXCEPT !.cell_col = field(data, ValRange)]
    BY <1>6 DEF written
  <2>2. e \in Device BY <1>1, <1>3, <1>6, <2>1 DEF Device
  <2>3. /\ SameContext(e, d) /\ e.offsets = d.offsets /\ e.pending = d.pending
        /\ e.busy = d.busy /\ e.valid = d.valid /\ e.irq_en = d.irq_en
        /\ e.remaining = d.remaining /\ e.latency = d.latency
        /\ e.cell_row = IF addr.reg = "CELL_ROW" THEN field(data, IdxRange) ELSE d.cell_row
        /\ e.cell_col = IF addr.reg = "CELL_COL" THEN field(data, ValRange) ELSE d.cell_col
    BY <1>1, <1>6, <2>1 DEF Device, SameContext
  <2>4. DeviceInv(e) BY <1>1, <2>2, <2>3, CurrentIsOfContext DEF DeviceInv
  <2> QED BY <1>6, <2>3, <2>4
<1>7. CASE addr.reg = "N"
  <2>1. e = [d EXCEPT !.n = field(data, ValRange), !.valid = FALSE] BY <1>7 DEF written
  <2>2. e \in Device BY <1>1, <1>3, <1>7, <2>1 DEF Device
  <2> QED BY <1>1, <1>2, <1>7, <2>1, <2>2 DEF Device, DeviceInv
<1>8. CASE addr.reg = "C"
  <2>1. e = [d EXCEPT !.c = field(data, IdxRange), !.valid = FALSE] BY <1>8 DEF written
  <2>2. e \in Device BY <1>1, <1>3, <1>8, <2>1 DEF Device
  <2> QED BY <1>1, <1>2, <1>8, <2>1, <2>2 DEF Device, DeviceInv
<1>9. CASE addr.reg = "WEIGHT"
  <2>1. e = [d EXCEPT !.weights[addr.i] = field(data, ValRange), !.valid = FALSE]
    BY <1>9 DEF written, weight_written
  <2>2. addr.i \in Rows BY <1>2, <1>9, RegsAssumption DEF Rows, Fits
  <2>3. [d.weights EXCEPT ![addr.i] = field(data, ValRange)] \in Window
    BY <1>1, <1>3, <1>9 DEF Device, Window
  <2>4. e = [d EXCEPT !.weights = [d.weights EXCEPT ![addr.i] = field(data, ValRange)],
                      !.valid = FALSE]
    BY <1>1, <2>1 DEF Device
  <2>5. e \in Device BY <1>1, <2>3, <2>4 DEF Device
  <2> QED BY <1>1, <1>2, <1>9, <2>2, <2>4, <2>5 DEF Device, DeviceInv
<1> QED BY <1>2, <1>4, <1>5, <1>6, <1>7, <1>8, <1>9

-----------------------------------------------------------------------------
(* The answers.                                                            *)

\* The rows that the window does not hold do not matter to those it does.
LEMMA PrefixSumCut ==
  ASSUME NEW w, NEW u \in Nat, NEW c \in Nat, u <= c
  PROVE  \A k \in 0 .. u : PrefixSum(c, w)[k] = PrefixSum(u, w)[k]
<1> DEFINE P == PrefixSum(c, w)
           Q == PrefixSum(u, w)
           Bad == {k \in 0 .. u : P[k] # Q[k]}
<1>1. /\ P[0] = 0 /\ \A k \in 1 .. c : P[k] = P[k - 1] + w[k - 1]
      /\ Q[0] = 0 /\ \A k \in 1 .. u : Q[k] = Q[k - 1] + w[k - 1]
  BY PrefixSumEquation
<1> HIDE DEF P, Q
<1> SUFFICES ASSUME Bad # {} PROVE FALSE BY DEF P, Q
<1>2. Bad \subseteq Nat OBVIOUS
<1>3. PICK k \in Bad : \A x \in Bad : k <= x
  <2> HIDE DEF Bad
  <2> QED BY <1>2, LeastNatural
<1>4. k # 0 BY <1>1
<1>5. k \in 1 .. u /\ k \in 1 .. c /\ k - 1 \in 0 .. u BY <1>4
<1>6. k - 1 \notin Bad BY <1>3, <1>5
<1>7. P[k - 1] = Q[k - 1] BY <1>5, <1>6
<1> QED BY <1>1, <1>5, <1>7

\* In a row, the evaluator's wrap and the mathematical one are the same.
LEMMA DeltaIsResidue ==
  ASSUME NEW n \in Nat \ {0}, n < ValRange, NEW j \in 0 .. n - 1, NEW o \in 0 .. n - 1
  PROVE  Delta(j, o, n) = (j - o) % n
<1>1. CASE j < o
  <2>1. j - o = n * (-1) + (j + (n - o)) /\ j + (n - o) \in 0 .. n - 1
        /\ j - o \in Int /\ -1 \in Int
    BY <1>1
  <2>2. (j - o) % n = j + (n - o) BY <2>1, ModUnique
  <2>3. (j + (n - o)) % ValRange = j + (n - o) BY <2>1, ValRangeAssumption
  <2> QED BY <1>1, <2>2, <2>3 DEF Delta
<1>2. CASE ~(j < o)
  <2>1. j - o = n * 0 + (j - o) /\ j - o \in 0 .. n - 1 /\ j - o \in Int /\ 0 \in Int
    BY <1>2
  <2>2. (j - o) % n = j - o BY <2>1, ModUnique
  <2> QED BY <1>2, <2>2 DEF Delta
<1> QED BY <1>1, <1>2

\* A valid matrix is the reference's, in every lane of the window.
LEMMA ValidIsReference ==
  ASSUME NEW d, DeviceInv(d), d.valid, NEW row \in Rows
  PROVE  /\ d.offsets[row] = IF row < d.c
                             THEN RefOffset(row, d.n, d.c, d.weights) ELSE 0
         /\ evaluate(d, row) => row < d.c
         /\ row < d.c /\ d.cell_col < d.n =>
              (evaluate(d, row) <=> RefBit(row, d.cell_col, d.n, d.c, d.weights))
<1> DEFINE n == d.n
           c == d.c
           w == d.weights
           o == d.offsets
           u == used_rows(d)
           j == d.cell_col
<1>1. d \in Device /\ start_legal(d) /\ IsTransform(o, Rows, n, c, w)
  BY DEF DeviceInv, IsCurrent
<1>2. /\ n \in Val /\ c \in Nat /\ w \in Window /\ o \in Window /\ j \in Val
      /\ MAX_C \in Nat /\ row \in Nat /\ row < MAX_C
  BY <1>1, RegsAssumption DEF Device, Rows
<1>3. /\ u \in Nat /\ u <= c /\ u <= MAX_C
      /\ \A i \in Rows : i < c <=> i < u
  BY <1>2 DEF used_rows, Rows
<1>4. Legal(n, u, w) BY <1>1 DEF start_legal
<1>5. evaluate(d, row) <=> row < c /\ (j - o[row]) % n < w[row]
  BY DEF evaluate
<1> HIDE DEF n, c, w, o, u, j
<1>6. CASE ~(row < c)
  <2>1. o[row] = 0 BY <1>1, <1>2, <1>6 DEF IsTransform
  <2> QED BY <1>5, <1>6, <2>1 DEF c, o
<1>7. CASE row < c
  <2>1. row \in 0 .. u - 1 /\ row \in 0 .. u /\ row + 1 \in 0 .. u
    BY <1>2, <1>3, <1>7
  <2>2. IsTransform(o, Rows, n, u, w)
    BY <1>1, <1>2, <1>3 DEF IsTransform, Rows
  <2>3. 0 .. u - 1 \subseteq Rows /\ \A i \in 0 .. u - 1 : w[i] \in Nat
    <3>1. 0 .. u - 1 \subseteq Rows BY <1>2, <1>3 DEF Rows
    <3> QED BY <1>2, <3>1, ValRangeAssumption DEF Window, Val
  <2>4. /\ \A k \in 0 .. u - 1 : o[k] = RefOffset(k, n, u, w)
        /\ \A i \in 0 .. u - 1, x \in 0 .. n - 1 :
             ColumnBit(i, x, n, u, w, o) <=> RefBit(i, x, n, u, w)
    BY <1>2, <1>3, <1>4, <2>2, <2>3, ColumnsAreReference
  <2>5. \A k \in 0 .. u : PrefixSum(c, w)[k] = PrefixSum(u, w)[k]
    BY <1>2, <1>3, PrefixSumCut
  <2>6. RefOffset(row, n, u, w) = RefOffset(row, n, c, w)
    BY <2>1, <2>5 DEF RefOffset
  <2>7. o[row] = RefOffset(row, n, c, w) BY <2>1, <2>4, <2>6
  <2>8. ASSUME j < n PROVE evaluate(d, row) <=> RefBit(row, j, n, c, w)
    <3>1. n \in Nat \ {0} /\ n < ValRange /\ j \in 0 .. n - 1
      BY <1>2, <1>4, <2>8, ValRangeAssumption DEF Val, Legal
    <3>2. o[row] \in 0 .. n - 1
      <4>1. \A i \in 0 .. u - 1 : w[i] \in Nat BY <2>3
      <4>2. PrefixSum(u, w)[row] \in Nat
        BY <1>3, <2>1, <4>1, PrefixSumNat
      <4> DEFINE p == PrefixSum(u, w)[row]
      <4>3. o[row] = p % n BY <2>1, <2>4 DEF RefOffset
      <4> HIDE DEF p
      <4>4. p \in Int BY <4>2 DEF p
      <4> QED BY <3>1, <4>3, <4>4, DivMod
    <3>3. Delta(j, o[row], n) = (j - o[row]) % n BY <3>1, <3>2, DeltaIsResidue
    <3>4. ColumnBit(row, j, n, u, w, o) <=> Delta(j, o[row], n) < w[row]
      BY <2>1, <1>3 DEF ColumnBit, CellBit
    <3>5. ColumnBit(row, j, n, u, w, o) <=> RefBit(row, j, n, u, w)
      BY <2>1, <2>4, <3>1
    <3>6. RefBit(row, j, n, u, w) <=> RefBit(row, j, n, c, w)
      <4>1. /\ PrefixSum(c, w)[row] = PrefixSum(u, w)[row]
            /\ PrefixSum(c, w)[row + 1] = PrefixSum(u, w)[row + 1]
        BY <2>1, <2>5
      <4> QED BY <4>1 DEF RefBit
    <3> QED BY <1>5, <1>7, <3>3, <3>4, <3>5, <3>6
  <2> QED BY <1>5, <1>7, <2>7, <2>8 DEF n, c, w, o, j
<1> QED BY <1>6, <1>7

-----------------------------------------------------------------------------
(* The two methods, whoever calls them.                                    *)

(* No refusal is the acknowledgement.                                      *)
LEMMA RefusalIsNoAck ==
  ASSUME NEW d \in Device, NEW addr \in [reg : Registers, i : Nat], NEW data,
         NEW sel \in BOOLEAN
  PROVE  /\ write_refusal(d, addr, data, sel) # "ack"
         /\ read_refusal(d, addr, sel) # "ack"
<1>1. ASSUME NEW write \in BOOLEAN PROVE check_access(d, addr, sel, write) # "ack"
  <2>1. addr.reg \in Registers /\ addr.i \in Nat /\ MAX_C \in Nat /\ column_words \in Int
    BY RegsAssumption DEF column_words
  <2> QED BY <2>1 DEF check_access, Registers, ReadOnly, Context, Matrix
<1> QED BY <1>1 DEF write_refusal, read_refusal

(* A read lets time pass, changes nothing else, and is answered unless     *)
(* refused.                                                                *)
LEMMA ReadOutcome ==
  ASSUME DeviceInv(dev), NEW addr \in [reg : Registers, i : Nat], NEW sel \in BOOLEAN,
         Read(addr, sel)
  PROVE  /\ dev' = advance(dev)
         /\ resp'.kind = "ack" <=>
              read_refusal(dev', addr, sel) = "none" /\ ~read_raises(dev', addr)
         /\ resp'.kind = "ack" => resp' = Answer(addr, read_value(dev', addr))
<1> DEFINE d == advance(dev)
           reason == read_refusal(d, addr, sel)
<1>1. dev' = d /\ resp' = IF reason # "none" THEN Outcome(reason)
                          ELSE IF read_raises(d, addr) THEN Outcome("IndexError")
                          ELSE Answer(addr, read_value(d, addr))
  BY DEF Read
<1>2. d \in Device BY AdvanceEffect DEF DeviceInv
<1>3. reason # "ack" BY <1>2, RefusalIsNoAck
<1> HIDE DEF d, reason
<1>4. reason = read_refusal(dev', addr, sel) BY <1>1 DEF reason
<1>5. /\ Outcome(reason).kind = reason /\ Outcome("IndexError").kind = "IndexError"
      /\ Answer(addr, read_value(d, addr)).kind = "ack"
  BY DEF Outcome, Answer
<1> QED BY <1>1, <1>3, <1>4, <1>5 DEF d

(* A write lets time pass, and then takes effect or is refused; START over *)
(* an illegal context raises.                                              *)
LEMMA WriteOutcome ==
  ASSUME DeviceInv(dev), NEW addr, NEW data, Fits(addr, data), NEW sel \in BOOLEAN,
         Write(addr, data, sel)
  PROVE  LET d == advance(dev)
         IN  /\ write_refusal(d, addr, data, sel) # "none" =>
                  dev' = d /\ resp'.kind # "ack"
             /\ write_refusal(d, addr, data, sel) = "none" => dev' = written(d, addr, data)
             /\ resp'.kind = "ack" <=>
                  /\ write_refusal(d, addr, data, sel) = "none"
                  /\ ~(addr.reg = "CTRL" /\ data.start /\ ~start_legal(d))
             /\ resp'.addr = At("CONST") /\ resp'.data = 0
<1> DEFINE d == advance(dev)
           reason == write_refusal(d, addr, data, sel)
           raises == addr.reg = "CTRL" /\ data.start /\ ~start_legal(d)
<1>1. IF reason # "none" THEN dev' = d /\ resp' = Outcome(reason)
      ELSE /\ dev' = written(d, addr, data)
           /\ resp' = Outcome(IF raises THEN "PreconditionError" ELSE "ack")
  BY DEF Write
<1>2. d \in Device BY AdvanceEffect DEF DeviceInv
<1>3. reason # "ack" BY <1>2, RefusalIsNoAck DEF Fits
<1>4. \A kind : Outcome(kind) = [kind |-> kind, addr |-> At("CONST"), data |-> 0]
  BY DEF Outcome
<1> HIDE DEF d, reason, raises
<1>5. /\ reason # "none" => dev' = d /\ resp'.kind = reason
      /\ reason = "none" => dev' = written(d, addr, data)
      /\ reason = "none" => resp'.kind = IF raises THEN "PreconditionError" ELSE "ack"
      /\ resp'.addr = At("CONST") /\ resp'.data = 0
  BY <1>1, <1>4
<1> QED BY <1>3, <1>5 DEF d, reason, raises

\* Any access keeps the registers and the answers, and is counted.
LEMMA AccessKeeps ==
  ASSUME DeviceInv(dev), seen \in Nat, LatencyIsAccesses, Observe,
         NEW addr, NEW data, Fits(addr, data), NEW sel \in BOOLEAN,
         Read(addr, sel) \/ Write(addr, data, sel)
  PROVE  /\ DeviceInv(dev') /\ dev'.latency = dev.latency
         /\ seen' \in Nat /\ LatencyIsAccesses'
<1> DEFINE d == advance(dev)
<1>1. /\ DeviceInv(d) /\ d.latency = dev.latency
      /\ ~dev.busy => d = dev
      /\ dev.busy => \/ d.busy /\ d.remaining = dev.remaining - 1
                     \/ ~d.busy /\ d.valid /\ dev.remaining = 0
  BY AdvanceEffect
<1>2. /\ dev.remaining \in Nat /\ dev.latency \in Nat /\ dev.valid \in BOOLEAN
      /\ d.remaining \in Nat /\ d.busy \in BOOLEAN /\ d.valid \in BOOLEAN
      /\ d.valid => ~d.busy
      /\ dev.busy \in BOOLEAN
  BY <1>1 DEF DeviceInv, Device
<1>3. /\ dev.busy => seen + dev.remaining = dev.latency
      /\ dev.valid => seen = dev.latency
  BY DEF LatencyIsAccesses
<1>4. seen' = IF resp'.kind = "ack" /\ dev'.busy /\ ~d.busy THEN 0
              ELSE IF d.busy THEN seen + 1 ELSE seen
  BY DEF Observe
<1>5. addr \in [reg : Registers, i : Nat] BY DEF Fits
<1>6. CASE dev' = d
  <2>1. seen' = IF d.busy THEN seen + 1 ELSE seen BY <1>4, <1>6
  <2> QED BY <1>1, <1>2, <1>3, <1>6, <2>1 DEF LatencyIsAccesses
<1>7. CASE /\ Write(addr, data, sel)
           /\ write_refusal(d, addr, data, sel) = "none" /\ dev' = written(d, addr, data)
  <2>0. DeviceInv(d) /\ Admitted(d, addr, data) /\ dev' = written(d, addr, data)
    BY <1>1, <1>7, WriteAdmitted DEF DeviceInv
  <2>1. /\ DeviceInv(dev') /\ dev'.latency = d.latency
        /\ addr.reg \in Context => ~d.busy /\ ~dev'.busy /\ ~dev'.valid
        /\ addr.reg # "CTRL" => dev'.busy = d.busy
        /\ addr.reg \notin {"CTRL"} \cup Context =>
             dev'.valid = d.valid /\ dev'.remaining = d.remaining
        /\ addr.reg = "CTRL" =>
             /\ data.start /\ start_legal(d) =>
                  dev'.busy /\ ~dev'.valid /\ dev'.remaining = dev'.latency
             /\ ~(data.start /\ start_legal(d)) =>
                  dev'.busy = d.busy /\ dev'.valid = d.valid /\ dev'.remaining = d.remaining
    <3> HIDE DEF d
    <3>1. Changes(d, dev', addr, data) BY <2>0, WrittenEffect
    <3> QED BY <3>1 DEF Changes
  <2>2. addr.reg = "CTRL" /\ data.start => ~d.busy
    BY <2>0 DEF Admitted
  <2>3. resp'.kind = "ack" <=> ~(addr.reg = "CTRL" /\ data.start /\ ~start_legal(d))
    BY <1>7, WriteOutcome
  <2> HIDE DEF d
  <2>4. CASE addr.reg = "CTRL" /\ data.start /\ start_legal(d)
    BY <1>1, <1>2, <1>4, <2>1, <2>2, <2>3, <2>4 DEF LatencyIsAccesses
  <2>5. CASE addr.reg \in Context
    BY <1>1, <1>2, <1>3, <1>4, <2>1, <2>5 DEF LatencyIsAccesses
  <2>6. CASE addr.reg \notin Context /\ ~(addr.reg = "CTRL" /\ data.start /\ start_legal(d))
    <3>1. dev'.busy = d.busy /\ dev'.valid = d.valid /\ dev'.remaining = d.remaining
      BY <2>1, <2>6
    <3>2. seen' = IF d.busy THEN seen + 1 ELSE seen BY <1>2, <1>4, <3>1
    <3> QED BY <1>1, <1>2, <1>3, <2>1, <3>1, <3>2 DEF LatencyIsAccesses
  <2> QED BY <2>4, <2>5, <2>6
<1>8. dev' = d \/ /\ Write(addr, data, sel)
                  /\ write_refusal(d, addr, data, sel) = "none"
                  /\ dev' = written(d, addr, data)
  <2>1. CASE Read(addr, sel) BY <1>5, <2>1, ReadOutcome
  <2>2. CASE Write(addr, data, sel) BY <2>2, WriteOutcome
  <2> QED BY <2>1, <2>2
<1> QED BY <1>6, <1>7, <1>8

\* An acknowledged answer is of the matrix.
LEMMA AnswerKeeps ==
  ASSUME DeviceInv(dev), NEW addr, NEW data, Fits(addr, data), NEW sel \in BOOLEAN,
         Read(addr, sel) \/ Write(addr, data, sel)
  PROVE  AnswersAreTheMatrix'
<1>1. CASE Write(addr, data, sel)
  <2>1. resp'.addr = [reg |-> "CONST", i |-> 0]
    BY <1>1, WriteOutcome DEF At
  <2> QED BY <2>1 DEF AnswersAreTheMatrix
<1>2. CASE Read(addr, sel)
  <2> SUFFICES ASSUME resp'.kind = "ack" PROVE AnswersAreTheMatrix'
    BY DEF AnswersAreTheMatrix
  <2>1. addr \in [reg : Registers, i : Nat] BY DEF Fits
  <2>2. /\ dev' = advance(dev) /\ DeviceInv(dev') /\ dev' \in Device
        /\ read_refusal(dev', addr, sel) = "none" /\ ~read_raises(dev', addr)
        /\ resp'.addr = addr /\ resp'.data = read_value(dev', addr)
    BY <1>2, <2>1, ReadOutcome, AdvanceEffect DEF Answer, DeviceInv
  <2>3. /\ addr.reg \in {"WEIGHT", "OFFSET"} => addr.i < MAX_C
        /\ addr.reg \in Matrix => dev'.valid
    BY <2>1, <2>2, ReadAdmitted
  <2>4. CASE addr.reg = "CELL"
    <3>1. resp'.data = evaluate(dev', dev'.cell_row) BY <2>2, <2>4 DEF read_value
    <3>2. dev'.cell_row < dev'.c => dev'.cell_row \in Rows
      BY <2>2, <2>4, RegsAssumption DEF read_raises, Rows, Device
    <3>3. dev'.valid BY <2>3, <2>4 DEF Matrix
    <3>4. dev'.cell_col < dev'.n =>
            (evaluate(dev', dev'.cell_row) <=>
               /\ dev'.cell_row < dev'.c
               /\ RefBit(dev'.cell_row, dev'.cell_col, dev'.n, dev'.c, dev'.weights))
      <4>1. CASE dev'.cell_row < dev'.c BY <2>2, <3>2, <3>3, <4>1, ValidIsReference
      <4>2. CASE ~(dev'.cell_row < dev'.c) BY <4>2 DEF evaluate
      <4> QED BY <4>1, <4>2
    <3> QED BY <2>2, <2>4, <3>1, <3>4 DEF AnswersAreTheMatrix, Marked
  <2>5. CASE addr.reg = "COLUMN"
    <3>1. resp'.data = {r \in Rows : r \div WordLanes = addr.i /\ evaluate(dev', r)}
      BY <2>2, <2>5 DEF read_value, column_word
    <3>2. dev'.valid BY <2>3, <2>5 DEF Matrix
    <3>3. dev'.cell_col < dev'.n =>
            \A r \in Rows : evaluate(dev', r) <=>
               r < dev'.c /\ RefBit(r, dev'.cell_col, dev'.n, dev'.c, dev'.weights)
      BY <2>2, <3>2, ValidIsReference
    <3>4. dev'.cell_col < dev'.n =>
            resp'.data = {r \in Rows : /\ r \div WordLanes = addr.i
                                       /\ r < dev'.c
                                       /\ RefBit(r, dev'.cell_col, dev'.n, dev'.c, dev'.weights)}
      BY <3>1, <3>3
    <3> QED BY <2>2, <2>5, <3>4 DEF AnswersAreTheMatrix, Marked
  <2>6. CASE addr.reg = "OFFSET"
    <3>1. resp'.data = dev'.offsets[addr.i] BY <2>2, <2>6 DEF read_value
    <3>2. addr.i \in Rows BY <2>1, <2>3, <2>6, RegsAssumption DEF Rows
    <3>3. dev'.valid BY <2>3, <2>6 DEF Matrix
    <3>4. start_legal(dev') BY <2>2, <3>3 DEF DeviceInv, IsCurrent
    <3>5. dev'.offsets[addr.i] = IF addr.i < dev'.c
              THEN RefOffset(addr.i, dev'.n, dev'.c, dev'.weights) ELSE 0
      BY <2>2, <3>2, <3>3, ValidIsReference
    <3> QED BY <2>2, <2>6, <3>1, <3>4, <3>5 DEF AnswersAreTheMatrix
  <2>7. CASE addr.reg \notin {"CELL", "COLUMN", "OFFSET"}
    BY <2>2, <2>7 DEF AnswersAreTheMatrix
  <2> QED BY <2>4, <2>5, <2>6, <2>7
<1> QED BY <1>1, <1>2

-----------------------------------------------------------------------------
(* Lists of accesses.                                                      *)

(* The entries of a sequence put together from two.                        *)
LEMMA Concatenation ==
  ASSUME NEW S, NEW s \in Seq(S), NEW t \in Seq(S), NEW u, u = s \o t
  PROVE  /\ u \in Seq(S) /\ Len(u) = Len(s) + Len(t)
         /\ \A k \in 1 .. Len(s) : u[k] = s[k]
         /\ \A k \in 1 .. Len(t) : u[Len(s) + k] = t[k]
<1>1. Len(s) \in Nat /\ Len(t) \in Nat OBVIOUS
<1>2. u \in Seq(S) /\ Len(u) = Len(s) + Len(t) BY ConcatProperties
<1>3. \A k \in 1 .. Len(s) : u[k] = s[k] BY <1>1, ConcatProperties
<1>4. ASSUME NEW k \in 1 .. Len(t) PROVE u[Len(s) + k] = t[k]
  <2>1. /\ Len(s) + k \in 1 .. Len(s) + Len(t) /\ ~(Len(s) + k <= Len(s))
        /\ (Len(s) + k) - Len(s) = k
    BY <1>1
  <2>2. u[Len(s) + k] = t[(Len(s) + k) - Len(s)] BY <2>1, ConcatProperties
  <2> QED BY <2>1, <2>2
<1> QED BY <1>2, <1>3, <1>4

\* Blocks of one length, one after another: block b is entries b * L + 1 to
\* b * L + L of the whole.
Blocks(t, S, n, L, s) ==
  /\ t \in Seq(S) /\ Len(t) = n * L
  /\ \A b \in 0 .. n - 1, r \in 1 .. L : t[b * L + r] = s[b + 1][r]

(* The entry at a place of a sequence made of blocks of equal length.      *)
LEMMA FlattenBlocks ==
  ASSUME NEW S, NEW n \in Nat, NEW L \in Nat, NEW s \in [1 .. n -> Seq(S)],
         \A i \in 1 .. n : Len(s[i]) = L
  PROVE  Blocks(FlattenSeq(s), S, n, L, s)
<1> USE DEF Blocks
<1> DEFINE At2(k) == s[((k - 1) \div L) + 1][((k - 1) % L) + 1]
           Upto(i) == [k \in 1 .. i * L |-> At2(k)]
           g == [i \in 1 .. n |-> Upto(i)]
<1>1. /\ s \in Seq(Seq(S)) /\ Len(s) = n
      /\ \A i \in 1 .. n : s[i] \in [1 .. L -> S] /\ s[i] \in Seq(S)
  <2>1. \A i \in 1 .. n : s[i] \in Seq(S) OBVIOUS
  <2>2. \A i \in 1 .. n : s[i] \in [1 .. Len(s[i]) -> S] BY <2>1, LenProperties
  <2> QED BY <2>1, <2>2
<1>2. CASE n = 0
  <2>1. s = <<>> /\ Len(s) = 0 BY <1>1, <1>2
  <2>2. FlattenSeq(s) = s BY <2>1 DEF FlattenSeq
  <2>3. FlattenSeq(s) = <<>> BY <2>1, <2>2
  <2> QED BY <1>2, <2>3
<1>3. CASE n # 0
  <2>1. ASSUME NEW i \in 1 .. n, NEW r \in 1 .. L
        PROVE  /\ (i - 1) * L + r \in 1 .. i * L
               /\ At2((i - 1) * L + r) = s[i][r]
    <3> DEFINE a == (i - 1) * L + r - 1
               q == i - 1
               b == (i - 1) * L
    <3>1. b \in Nat /\ i * L = b + L OBVIOUS
    <3>2. L \in Nat \ {0} /\ q \in Int /\ r - 1 \in 0 .. L - 1 OBVIOUS
    <3>3. a \in Int /\ a = L * q + (r - 1) BY <3>1
    <3>4. a % L = r - 1 /\ a \div L = q
      <4> HIDE DEF a, q
      <4> QED BY <3>2, <3>3, ModUnique
    <3>5. (i - 1) * L + r \in 1 .. i * L BY <3>1
    <3>6. ((i - 1) * L + r) - 1 = a BY <3>1
    <3> QED BY <3>4, <3>5, <3>6
  <2>2. ASSUME NEW i \in 1 .. n, NEW k \in 1 .. i * L
        PROVE  \E e \in 1 .. i, r \in 1 .. L : k = (e - 1) * L + r
    <3> DEFINE q == (k - 1) \div L
               t == (k - 1) % L
    <3>1. L # 0 OBVIOUS
    <3>2. k - 1 \in Int /\ L \in Nat \ {0} BY <3>1
    <3>3. k - 1 = L * q + t /\ t \in 0 .. L - 1 /\ q \in Int
      <4> DEFINE x == k - 1
      <4>1. x \in Int BY <3>2
      <4> HIDE DEF x
      <4>2. x = L * (x \div L) + (x % L) /\ x % L \in 0 .. L - 1 /\ x \div L \in Int
        BY <3>2, <4>1, DivMod
      <4> QED BY <4>2 DEF x
    <3> HIDE DEF q, t
    <3>4. q \in 0 .. i - 1
      <4>1. L * q + t < i * L /\ L * q + t >= 0 BY <3>3
      <4>2. CASE q < 0
        <5>1. L * (q + 1) <= 0 BY <3>2, <3>3, <4>2
        <5> QED BY <3>3, <4>1, <5>1
      <4>3. CASE q >= i
        <5>1. L * (q - i) >= 0 BY <3>2, <3>3, <4>3
        <5> QED BY <3>3, <4>1, <5>1
      <4> QED BY <3>3, <4>2, <4>3
    <3>5. q + 1 \in 1 .. i /\ t + 1 \in 1 .. L /\ k = ((q + 1) - 1) * L + (t + 1)
      BY <3>3, <3>4
    <3> QED BY <3>5
  <2> HIDE DEF At2
  <2>3. \A i \in 1 .. n : Upto(i) \in Seq(S) /\ Len(Upto(i)) = i * L
    <3> SUFFICES ASSUME NEW i \in 1 .. n
                 PROVE  Upto(i) \in Seq(S) /\ Len(Upto(i)) = i * L
      OBVIOUS
    <3>1. ASSUME NEW k \in 1 .. i * L PROVE At2(k) \in S
      <4>1. PICK e \in 1 .. i, r \in 1 .. L : k = (e - 1) * L + r BY <2>2
      <4>2. e \in 1 .. n OBVIOUS
      <4>3. At2(k) = s[e][r] BY <2>1, <4>1, <4>2
      <4> QED BY <1>1, <4>2, <4>3
    <3>2. i * L \in Nat OBVIOUS
    <3>3. Upto(i) \in [1 .. i * L -> S] BY <3>1
    <3> QED BY <3>2, <3>3
  <2>4. ASSUME NEW i \in 1 .. n
        PROVE  g[i] = IF i = 1 THEN s[i] ELSE g[i - 1] \o s[i]
    <3>1. g[i] = Upto(i) OBVIOUS
    <3>2. CASE i = 1
      <4>1. \A r \in 1 .. L : Upto(i)[r] = s[i][r]
        <5> SUFFICES ASSUME NEW r \in 1 .. L PROVE Upto(i)[r] = s[i][r] OBVIOUS
        <5>1. (i - 1) * L + r = r BY <3>2
        <5> QED BY <2>1, <5>1
      <4>2. Len(Upto(i)) = L /\ Upto(i) \in Seq(S) BY <2>3, <3>2
      <4> HIDE DEF Upto
      <4>3. Upto(i) = s[i] BY <1>1, <4>1, <4>2, SeqEqual
      <4> QED BY <3>2, <4>3 DEF Upto
    <3>3. CASE i # 1
      <4>1. i - 1 \in 1 .. n BY <3>3
      <4>2. g[i - 1] = Upto(i - 1) BY <4>1
      <4> DEFINE u == Upto(i - 1)
                 v == u \o s[i]
                 b == (i - 1) * L
      <4>3. u \in Seq(S) /\ Len(u) = b BY <2>3, <4>1
      <4>4. b \in Nat /\ i * L = b + L BY <4>1
      <4>5. Upto(i) \in Seq(S) /\ Len(Upto(i)) = b + L BY <2>3, <4>4
      <4>6. \A k \in 1 .. b : u[k] = At2(k) OBVIOUS
      <4>7. \A k \in 1 .. b + L : Upto(i)[k] = At2(k) BY <4>4
      <4>8. \A r \in 1 .. L : At2(b + r) = s[i][r] BY <2>1
      <4> HIDE DEF u, b, Upto
      <4>9. v \in Seq(S) /\ Len(v) = b + L BY <1>1, <4>3, <4>4, ConcatProperties
      <4>10. ASSUME NEW k \in 1 .. b + L PROVE v[k] = At2(k)
        <5>1. CASE k <= b BY <1>1, <4>3, <4>4, <4>6, <5>1, ConcatProperties
        <5>2. CASE k > b
          <6> DEFINE r == k - b
          <6>1. r \in 1 .. L /\ k = b + r BY <4>4, <5>2
          <6>2. v[k] = s[i][k - b] BY <1>1, <4>3, <4>4, <5>2, ConcatProperties
          <6> QED BY <4>8, <6>1, <6>2
        <5>3. b \in Nat /\ k \in Int BY <4>4
        <5>4. k <= b \/ k > b BY <5>3
        <5> QED BY <5>1, <5>2, <5>4
      <4> HIDE DEF v
      <4>11. Upto(i) = v BY <4>5, <4>7, <4>9, <4>10, SeqEqual
      <4> QED BY <3>1, <3>3, <4>2, <4>11 DEF u, v
    <3> QED BY <3>2, <3>3
  <2>5. g = [i \in 1 .. n |-> IF i = 1 THEN s[i] ELSE g[i - 1] \o s[i]]
    <3>1. g = [i \in 1 .. n |-> g[i]] OBVIOUS
    <3> HIDE DEF g
    <3> QED BY <2>4, <3>1
  <2> DEFINE Eq(f) == f = [i \in 1 .. n |-> IF i = 1 THEN s[i] ELSE f[i - 1] \o s[i]]
             c == CHOOSE f : Eq(f)
  <2>6. Eq(c)
    <3>1. \E f : Eq(f)
      <4> HIDE DEF g
      <4> QED BY <2>5
    <3> HIDE DEF Eq
    <3> QED BY <3>1
  <2>7. FlattenSeq(s) = c[n]
    <3>1. Len(s) = n BY <1>1
    <3> QED BY <1>3, <3>1, Zenon DEF FlattenSeq
  <2>8. \A i \in 1 .. n : c[i] = g[i]
    <3> DEFINE Bad == {i \in 1 .. n : c[i] # g[i]}
    <3>1. \A i \in 1 .. n : c[i] = IF i = 1 THEN s[i] ELSE c[i - 1] \o s[i]
      <4> HIDE DEF c
      <4> QED BY <2>6
    <3> HIDE DEF c, g
    <3> SUFFICES ASSUME Bad # {} PROVE FALSE OBVIOUS
    <3>2. PICK i \in Bad : \A k \in Bad : i <= k
      <4>1. Bad \subseteq Nat OBVIOUS
      <4> HIDE DEF Bad
      <4> QED BY <4>1, LeastNatural
    <3>3. i # 1 BY <2>4, <3>1, <3>2
    <3>4. i - 1 \in 1 .. n BY <3>3
    <3>5. c[i - 1] = g[i - 1] BY <3>2, <3>4
    <3> QED BY <2>4, <3>1, <3>2, <3>5
  <2>9. FlattenSeq(s) = Upto(n)
    <3>1. n \in 1 .. n BY <1>3
    <3>2. g[n] = Upto(n) BY <3>1
    <3> HIDE DEF g, c
    <3> QED BY <2>7, <2>8, <3>1, <3>2
  <2>10. n \in 1 .. n BY <1>3
  <2>11. ASSUME NEW b \in 0 .. n - 1, NEW r \in 1 .. L
         PROVE  Upto(n)[b * L + r] = s[b + 1][r]
    <3>1. b + 1 \in 1 .. n /\ ((b + 1) - 1) * L + r = b * L + r OBVIOUS
    <3>2. b * L + r \in 1 .. (b + 1) * L /\ At2(b * L + r) = s[b + 1][r]
      BY <2>1, <3>1
    <3>3. b * L + r \in 1 .. n * L
      <4> DEFINE m == n - (b + 1)
                 x == (b + 1) * L
                 y == m * L
      <4>1. m \in Nat /\ y \in Nat /\ x \in Nat /\ n * L = x + y OBVIOUS
      <4>2. b * L + r \in 1 .. x BY <3>2
      <4> HIDE DEF m, x, y
      <4> QED BY <4>1, <4>2
    <3> QED BY <3>2, <3>3
  <2> HIDE DEF Upto
  <2> QED BY <2>3, <2>9, <2>10, <2>11
<1> QED BY <1>2, <1>3

Addresses == [reg : Registers, i : Nat]

\* The accesses that a job is made of.
Moves ==
  {m \in [op : {"read", "write", "poll"}, addr : Addresses,
          data : Nat \cup {Command(TRUE, FALSE)}] :
     m.op = "write" => Fits(m.addr, m.data)}

(* Addresses are of a register and an index.                               *)
LEMMA AddressType ==
  /\ \A reg \in Registers, i \in Nat : Lane(reg, i) \in Addresses
  /\ \A reg \in Registers : At(reg) \in Addresses
  /\ \A reg, i : Lane(reg, i).reg = reg /\ Lane(reg, i).i = i
  /\ \A reg : At(reg).reg = reg /\ At(reg).i = 0
BY DEF Lane, At, Addresses

(* The accesses of the clients are accesses.                               *)
LEMMA MoveType ==
  /\ \A reg \in Registers, i \in Nat : R(Lane(reg, i)) \in Moves
  /\ \A reg \in Registers \ {"CTRL", "STATUS"}, i \in Nat, x \in Nat :
       W(Lane(reg, i), x) \in Moves
  /\ \A reg \in Registers : R(At(reg)) \in Moves
  /\ \A reg \in Registers \ {"CTRL", "STATUS"}, x \in Nat : W(At(reg), x) \in Moves
  /\ W(At("CTRL"), Command(TRUE, FALSE)) \in Moves
  /\ Poll \in Moves
<1>1. \A a \in Addresses : R(a) \in Moves BY DEF Moves, R
<1>2. \A a \in Addresses, x \in Nat :
        a.reg \notin {"CTRL", "STATUS"} => W(a, x) \in Moves
  BY DEF Moves, W, Fits, Addresses
<1>3. W(At("CTRL"), Command(TRUE, FALSE)) \in Moves
  <2>1. /\ At("CTRL") \in Addresses /\ At("CTRL").reg = "CTRL"
        /\ Command(TRUE, FALSE) \in [start : BOOLEAN, irq_en : BOOLEAN]
    BY AddressType DEF Registers, Command
  <2>2. Fits(At("CTRL"), Command(TRUE, FALSE)) BY <2>1 DEF Fits, Addresses
  <2> QED BY <2>1, <2>2 DEF Moves, W
<1>4. Poll \in Moves
  <2>1. At("STATUS") \in Addresses BY AddressType DEF Registers
  <2> QED BY <2>1 DEF Moves, Poll
<1> QED BY <1>1, <1>2, <1>3, <1>4, AddressType

IsProgram(P, w, N, C) ==
  /\ P \in Seq(Moves) /\ Len(P) = C + 6
  /\ P[1] = R(At("CONST")) /\ P[2] = R(At("CONST"))
  /\ P[3] = W(At("N"), N) /\ P[4] = W(At("C"), C)
  /\ \A i \in 0 .. C - 1 : P[5 + i] = W(Lane("WEIGHT", i), w[i + 1])
  /\ P[C + 5] = W(At("CTRL"), Command(TRUE, FALSE))
  /\ P[C + 6] = Poll

(* The accesses of program: the identity looked at, N, C, every weight,    *)
(* START, a poll.                                                          *)
LEMMA ProgramIs ==
  ASSUME NEW N \in Nat, NEW w, NEW C \in Nat, w \in [1 .. C -> Nat],
         NEW P, P = program(w, N)
  PROVE  IsProgram(P, w, N, C)
<1> DEFINE a == <<R(At("CONST")), R(At("CONST")), W(At("N"), N), W(At("C"), C)>>
           b == [k \in 1 .. C |-> W(Lane("WEIGHT", k - 1), w[(k - 1) + 1])]
           z == <<W(At("CTRL"), Command(TRUE, FALSE)), Poll>>
<1>1. w \in Seq(Nat) /\ Len(w) = C OBVIOUS
<1>2. P = (a \o b) \o z BY <1>1 DEF program, Each
<1>3. a \in Seq(Moves) /\ Len(a) = 4
  <2>1. /\ R(At("CONST")) \in Moves /\ W(At("N"), N) \in Moves /\ W(At("C"), C) \in Moves
    BY MoveType DEF Registers
  <2> QED BY <2>1
<1>4. b \in Seq(Moves) /\ Len(b) = C
  <2>1. ASSUME NEW k \in 1 .. C
        PROVE  W(Lane("WEIGHT", k - 1), w[(k - 1) + 1]) \in Moves
    <3>1. k - 1 \in Nat /\ w[(k - 1) + 1] \in Nat OBVIOUS
    <3> QED BY <3>1, MoveType DEF Registers
  <2>2. b \in [1 .. C -> Moves] BY <2>1
  <2> QED BY <2>2
<1>5. z \in Seq(Moves) /\ Len(z) = 2
  <2> DEFINE x == W(At("CTRL"), Command(TRUE, FALSE))
  <2>1. x \in Moves /\ Poll \in Moves BY MoveType
  <2>2. z = <<x, Poll>> OBVIOUS
  <2> HIDE DEF x, z
  <2> QED BY <2>1, <2>2
<1>6. /\ a[1] = R(At("CONST")) /\ a[2] = R(At("CONST"))
      /\ a[3] = W(At("N"), N) /\ a[4] = W(At("C"), C)
      /\ z[1] = W(At("CTRL"), Command(TRUE, FALSE)) /\ z[2] = Poll
  OBVIOUS
<1>7. \A i \in 0 .. C - 1 : b[i + 1] = W(Lane("WEIGHT", i), w[i + 1])
  <2> SUFFICES ASSUME NEW i \in 0 .. C - 1
               PROVE  b[i + 1] = W(Lane("WEIGHT", i), w[i + 1])
    OBVIOUS
  <2>1. i + 1 \in 1 .. C /\ (i + 1) - 1 = i OBVIOUS
  <2> QED BY <2>1
<1> HIDE DEF a, b, z
<1> DEFINE h == a \o b
<1>8. /\ h \in Seq(Moves) /\ Len(h) = C + 4
      /\ \A k \in 1 .. 4 : h[k] = a[k]
      /\ \A k \in 1 .. C : h[4 + k] = b[k]
  <2>1. /\ h \in Seq(Moves) /\ Len(h) = Len(a) + Len(b)
        /\ \A k \in 1 .. Len(a) : h[k] = a[k]
        /\ \A k \in 1 .. Len(b) : h[Len(a) + k] = b[k]
    <3>1. a \in Seq(Moves) /\ b \in Seq(Moves) /\ h = a \o b BY <1>3, <1>4 DEF h
    <3> QED BY <3>1, Concatenation
  <2>2. Len(a) = 4 /\ Len(b) = C BY <1>3, <1>4
  <2>3. Len(a) + Len(b) = C + 4 BY <2>2
  <2> QED BY <2>1, <2>2, <2>3
<1>9. /\ \A k \in 1 .. 4 : h[k] = a[k]
      /\ \A i \in 0 .. C - 1 : h[5 + i] = b[i + 1]
  <2>1. \A k \in 1 .. 4 : h[k] = a[k] BY <1>8
  <2>2. ASSUME NEW i \in 0 .. C - 1 PROVE h[5 + i] = b[i + 1]
    <3>1. i + 1 \in 1 .. C /\ 5 + i = 4 + (i + 1) OBVIOUS
    <3>2. h[4 + (i + 1)] = b[i + 1] BY <1>8, <3>1
    <3> QED BY <3>1, <3>2
  <2> QED BY <2>1, <2>2
<1> HIDE DEF h
<1>10. P = h \o z BY <1>2 DEF h
<1>11. /\ P \in Seq(Moves) /\ Len(P) = C + 6
       /\ \A k \in 1 .. C + 4 : P[k] = h[k]
       /\ \A k \in 1 .. 2 : P[(C + 4) + k] = z[k]
  <2>1. h \in Seq(Moves) /\ Len(h) = C + 4 BY <1>8
  <2>2. /\ P \in Seq(Moves) /\ Len(P) = Len(h) + Len(z)
        /\ \A k \in 1 .. Len(h) : P[k] = h[k]
        /\ \A k \in 1 .. Len(z) : P[Len(h) + k] = z[k]
    <3>1. h \in Seq(Moves) /\ z \in Seq(Moves) /\ P = h \o z BY <1>5, <1>10, <2>1
    <3> QED BY <3>1, Concatenation
  <2>3. Len(h) = C + 4 /\ Len(z) = 2 /\ (C + 4) + 2 = C + 6 BY <1>5, <2>1
  <2> QED BY <2>1, <2>2, <2>3
<1>13. P[C + 5] = z[1] /\ P[C + 6] = z[2]
  <2>2. (C + 4) + 1 = C + 5 /\ (C + 4) + 2 = C + 6 OBVIOUS
  <2> QED BY <1>11, <2>2
<1>14. P[1] = a[1] /\ P[2] = a[2] /\ P[3] = a[3] /\ P[4] = a[4]
  BY <1>9, <1>11
<1>15. \A i \in 0 .. C - 1 : P[5 + i] = b[i + 1]
  <2> SUFFICES ASSUME NEW i \in 0 .. C - 1 PROVE P[5 + i] = b[i + 1] OBVIOUS
  <2>1. 5 + i \in 1 .. C + 4 OBVIOUS
  <2> QED BY <1>9, <1>11, <2>1
<1> QED BY <1>6, <1>7, <1>11, <1>13, <1>14, <1>15 DEF IsProgram

IsColumn(P, j, C) ==
  /\ words_of(C) \in Nat
  /\ P \in Seq(Moves) /\ Len(P) = 1 + words_of(C)
  /\ P[1] = W(At("CELL_COL"), j)
  /\ \A k \in 0 .. words_of(C) - 1 : P[k + 2] = R(Lane("COLUMN", k))

\* read_column: the query, and then each word of the column.
LEMMA ColumnIs ==
  ASSUME NEW j \in Nat, NEW C \in Nat, NEW P, P = read_column(j, C)
  PROVE  IsColumn(P, j, C)
<1> DEFINE n == words_of(C)
           a == <<W(At("CELL_COL"), j)>>
           b == [k \in 1 .. n |-> R(Lane("COLUMN", k - 1))]
<1>1. n \in Nat
  <2> DEFINE x == C + WordLanes - 1
  <2>1. x \in Nat /\ WordLanes \in Nat \ {0} BY RegsAssumption
  <2> HIDE DEF x
  <2>2. x = WordLanes * (x \div WordLanes) + (x % WordLanes)
        /\ x % WordLanes \in 0 .. WordLanes - 1 /\ x \div WordLanes \in Int
    BY <2>1, DivMod
  <2>3. x \div WordLanes >= 0
    <3> DEFINE q == x \div WordLanes
               r == x % WordLanes
    <3>1. x = WordLanes * q + r /\ r \in 0 .. WordLanes - 1 /\ q \in Int BY <2>2
    <3> HIDE DEF q, r
    <3>2. ASSUME q < 0 PROVE FALSE
      <4>1. WordLanes * (q + 1) <= 0 BY <2>1, <3>1, <3>2
      <4>2. WordLanes * q + WordLanes <= 0 BY <2>1, <3>1, <4>1
      <4> QED BY <2>1, <3>1, <4>2
    <3>3. q >= 0 BY <3>1, <3>2
    <3> QED BY <3>3 DEF q
  <2> QED BY <2>2, <2>3 DEF x, words_of
<1>2. P = a \o b BY DEF read_column, Each
<1> HIDE DEF n
<1>3. a \in Seq(Moves) /\ Len(a) = 1 /\ a[1] = W(At("CELL_COL"), j)
  <2>1. W(At("CELL_COL"), j) \in Moves BY MoveType DEF Registers
  <2> QED BY <2>1
<1>4. b \in Seq(Moves) /\ Len(b) = n /\ \A k \in 0 .. n - 1 : b[k + 1] = R(Lane("COLUMN", k))
  <2>1. ASSUME NEW k \in 1 .. n PROVE R(Lane("COLUMN", k - 1)) \in Moves
    <3>1. k - 1 \in Nat BY <1>1
    <3> QED BY <3>1, MoveType DEF Registers
  <2>2. b \in [1 .. n -> Moves] BY <2>1
  <2>3. ASSUME NEW k \in 0 .. n - 1 PROVE b[k + 1] = R(Lane("COLUMN", k))
    <3>1. k + 1 \in 1 .. n /\ (k + 1) - 1 = k BY <1>1
    <3> QED BY <3>1
  <2> QED BY <1>1, <2>2, <2>3
<1> HIDE DEF a, b
<1>5. /\ P \in Seq(Moves) /\ Len(P) = 1 + n /\ P[1] = a[1]
      /\ \A k \in 1 .. n : P[1 + k] = b[k]
  <2>1. /\ P \in Seq(Moves) /\ Len(P) = Len(a) + Len(b)
        /\ \A k \in 1 .. Len(a) : P[k] = a[k]
        /\ \A k \in 1 .. Len(b) : P[Len(a) + k] = b[k]
    <3>1. a \in Seq(Moves) /\ b \in Seq(Moves) /\ P = a \o b BY <1>2, <1>3, <1>4
    <3> QED BY <3>1, Concatenation
  <2>2. Len(a) = 1 /\ Len(b) = n BY <1>3, <1>4
  <2> QED BY <1>1, <2>1, <2>2
<1>6. ASSUME NEW k \in 0 .. n - 1 PROVE P[k + 2] = b[k + 1]
  <2>1. k + 1 \in 1 .. n /\ 1 + (k + 1) = k + 2 BY <1>1
  <2>2. P[1 + (k + 1)] = b[k + 1] BY <1>5, <2>1
  <2> QED BY <2>1, <2>2
<1> QED BY <1>1, <1>3, <1>4, <1>5, <1>6 DEF n, IsColumn

IsColumns(P, N, n, L) ==
  /\ P \in Seq(Moves) /\ Len(P) = N * L
  /\ \A j \in 0 .. N - 1 :
       /\ P[j * L + 1] = W(At("CELL_COL"), j)
       /\ \A k \in 0 .. n - 1 : P[j * L + (k + 2)] = R(Lane("COLUMN", k))

(* The accesses of read_matrix by columns: a column selected, then its     *)
(* words.                                                                  *)
LEMMA ColumnsAre ==
  ASSUME NEW N \in Nat, NEW C \in Nat, NEW P, P = read_matrix(N, C, FALSE),
         NEW L, L = 1 + words_of(C)
  PROVE  IsColumns(P, N, words_of(C), L)
<1>2. ASSUME NEW j \in Nat
      PROVE  /\ words_of(C) \in Nat
             /\ read_column(j, C) \in Seq(Moves)
             /\ Len(read_column(j, C)) = 1 + words_of(C)
             /\ read_column(j, C)[1] = W(At("CELL_COL"), j)
             /\ \A k \in 0 .. words_of(C) - 1 :
                  read_column(j, C)[k + 2] = R(Lane("COLUMN", k))
  <2>1. \A p : p = read_column(j, C) => IsColumn(p, j, C) BY ColumnIs
  <2> QED BY <2>1 DEF IsColumn
<1> DEFINE s == [k \in 1 .. N |-> read_column(k - 1, C)]
           n == words_of(C)
<1>1. P = FlattenSeq(s) BY DEF read_matrix, Joined, Each
<1>3. n \in Nat
  <2>1. 0 \in Nat OBVIOUS
  <2> QED BY <1>2, <2>1
<1> HIDE DEF n
<1>4. L = 1 + n /\ L \in Nat /\ L # 0 BY <1>3 DEF n
<1>5. \A j \in 0 .. N - 1 : s[j + 1] = read_column(j, C)
  <2> SUFFICES ASSUME NEW j \in 0 .. N - 1 PROVE s[j + 1] = read_column(j, C) OBVIOUS
  <2>1. j + 1 \in 1 .. N /\ (j + 1) - 1 = j OBVIOUS
  <2> QED BY <2>1
<1>6. s \in [1 .. N -> Seq(Moves)] /\ \A i \in 1 .. N : Len(s[i]) = L
  <2>1. ASSUME NEW i \in 1 .. N PROVE s[i] \in Seq(Moves) /\ Len(s[i]) = L
    <3>1. i - 1 \in Nat OBVIOUS
    <3>2. read_column(i - 1, C) \in Seq(Moves) /\ Len(read_column(i - 1, C)) = L
      BY <1>2, <1>4, <3>1
    <3> QED BY <3>2
  <2>2. DOMAIN s = 1 .. N /\ s = [i \in 1 .. N |-> s[i]] OBVIOUS
  <2> HIDE DEF s
  <2> QED BY <2>1, <2>2
<1> HIDE DEF s
<1>7. /\ P \in Seq(Moves) /\ Len(P) = N * L
      /\ \A b \in 0 .. N - 1, r \in 1 .. L : P[b * L + r] = s[b + 1][r]
  <2>1. L \in Nat /\ s \in [1 .. N -> Seq(Moves)] BY <1>4, <1>6
  <2>2. \A i \in 1 .. N : Len(s[i]) = L BY <1>6
  <2>3. Blocks(FlattenSeq(s), Moves, N, L, s) BY <2>1, <2>2, FlattenBlocks
  <2> QED BY <1>1, <2>3 DEF Blocks
<1>8. ASSUME NEW j \in 0 .. N - 1
      PROVE  /\ P[j * L + 1] = W(At("CELL_COL"), j)
             /\ \A k \in 0 .. n - 1 : P[j * L + (k + 2)] = R(Lane("COLUMN", k))
  <2>1. j \in Nat /\ 1 \in 1 .. L BY <1>4
  <2>2. P[j * L + 1] = read_column(j, C)[1] BY <1>5, <1>7, <2>1
  <2>3. ASSUME NEW k \in 0 .. n - 1 PROVE P[j * L + (k + 2)] = R(Lane("COLUMN", k))
    <3>1. k + 2 \in 1 .. L BY <1>3, <1>4
    <3>2. P[j * L + (k + 2)] = read_column(j, C)[k + 2] BY <1>5, <1>7, <3>1
    <3>3. k \in 0 .. words_of(C) - 1 BY DEF n
    <3>4. read_column(j, C)[k + 2] = R(Lane("COLUMN", k)) BY <1>2, <2>1, <3>3
    <3> QED BY <3>2, <3>4
  <2> QED BY <1>2, <2>1, <2>2, <2>3
<1> QED BY <1>3, <1>4, <1>7, <1>8 DEF n, IsColumns

CellsOfRow(i, N) ==
  <<W(At("CELL_ROW"), i)>>
    \o FlattenSeq([k \in 1 .. N |-> <<W(At("CELL_COL"), k - 1), R(At("CELL"))>>])

IsRowOfCells(P, i, N) ==
  /\ P \in Seq(Moves) /\ Len(P) = 1 + N * 2
  /\ P[1] = W(At("CELL_ROW"), i)
  /\ \A j \in 0 .. N - 1 : /\ P[2 * j + 2] = W(At("CELL_COL"), j)
                           /\ P[2 * j + 3] = R(At("CELL"))

(* The accesses of one row by cells: a column selected, then the cell.     *)
LEMMA CellsOfRowAre ==
  ASSUME NEW i \in Nat, NEW N \in Nat, NEW P, P = CellsOfRow(i, N)
  PROVE  IsRowOfCells(P, i, N)
<1> DEFINE x(j) == W(At("CELL_COL"), j)
           y == R(At("CELL"))
           s == [k \in 1 .. N |-> <<x(k - 1), y>>]
           a == <<W(At("CELL_ROW"), i)>>
           b == FlattenSeq(s)
<1>1. P = a \o b BY DEF CellsOfRow
<1>2. W(At("CELL_ROW"), i) \in Moves /\ y \in Moves /\ \A j \in Nat : x(j) \in Moves
  BY MoveType DEF Registers
<1>3. a \in Seq(Moves) /\ Len(a) = 1 /\ a[1] = W(At("CELL_ROW"), i) BY <1>2
<1> HIDE DEF x, y, a
<1>4. s \in [1 .. N -> Seq(Moves)] /\ \A k \in 1 .. N : Len(s[k]) = 2
  <2>1. ASSUME NEW k \in 1 .. N PROVE <<x(k - 1), y>> \in Seq(Moves)
    <3>1. x(k - 1) \in Moves BY <1>2
    <3> QED BY <1>2, <3>1
  <2> QED BY <2>1
<1>5. \A j \in 0 .. N - 1 : s[j + 1][1] = x(j) /\ s[j + 1][2] = y
  <2> SUFFICES ASSUME NEW j \in 0 .. N - 1 PROVE s[j + 1][1] = x(j) /\ s[j + 1][2] = y
    OBVIOUS
  <2>1. j + 1 \in 1 .. N /\ (j + 1) - 1 = j OBVIOUS
  <2>2. s[j + 1] = <<x(j), y>> BY <2>1
  <2> QED BY <2>2
<1> HIDE DEF s
<1>6. /\ b \in Seq(Moves) /\ Len(b) = N * 2
      /\ \A e \in 0 .. N - 1, r \in 1 .. 2 : b[e * 2 + r] = s[e + 1][r]
  <2>1. 2 \in Nat /\ s \in [1 .. N -> Seq(Moves)] BY <1>4
  <2>2. \A k \in 1 .. N : Len(s[k]) = 2 BY <1>4
  <2>3. Blocks(b, Moves, N, 2, s) BY <2>1, <2>2, FlattenBlocks
  <2> HIDE DEF b
  <2> QED BY <2>3 DEF Blocks
<1> HIDE DEF b
<1>7. /\ P \in Seq(Moves) /\ Len(P) = Len(a) + Len(b)
      /\ \A k \in 1 .. Len(a) : P[k] = a[k]
      /\ \A k \in 1 .. Len(b) : P[Len(a) + k] = b[k]
  <2>1. a \in Seq(Moves) /\ b \in Seq(Moves) /\ P = a \o b BY <1>1, <1>3, <1>6
  <2> QED BY <2>1, Concatenation
<1>8. Len(a) = 1 /\ Len(b) = N * 2 /\ a[1] = W(At("CELL_ROW"), i) BY <1>3, <1>6
<1>9. ASSUME NEW j \in 0 .. N - 1
      PROVE  P[2 * j + 2] = x(j) /\ P[2 * j + 3] = y
  <2>1. /\ j * 2 + 1 \in 1 .. N * 2 /\ j * 2 + 2 \in 1 .. N * 2
        /\ 1 + (j * 2 + 1) = 2 * j + 2 /\ 1 + (j * 2 + 2) = 2 * j + 3
    OBVIOUS
  <2>2. b[j * 2 + 1] = x(j) /\ b[j * 2 + 2] = y
    <3>1. 1 \in 1 .. 2 /\ 2 \in 1 .. 2 OBVIOUS
    <3>2. b[j * 2 + 1] = s[j + 1][1] /\ b[j * 2 + 2] = s[j + 1][2] BY <1>6, <3>1
    <3> QED BY <1>5, <3>2
  <2>3. P[1 + (j * 2 + 1)] = b[j * 2 + 1] /\ P[1 + (j * 2 + 2)] = b[j * 2 + 2]
    BY <1>7, <1>8, <2>1
  <2> QED BY <2>1, <2>2, <2>3
<1>10. \A j \in 0 .. N - 1 :
         P[2 * j + 2] = W(At("CELL_COL"), j) /\ P[2 * j + 3] = R(At("CELL"))
  BY <1>9 DEF x, y
<1>11. P \in Seq(Moves) /\ Len(P) = 1 + N * 2 BY <1>7, <1>8
<1>12. P[1] = W(At("CELL_ROW"), i)
  <2>1. 1 \in 1 .. Len(a) /\ P[1] = a[1] BY <1>7, <1>8
  <2> QED BY <1>8, <2>1
<1> QED BY <1>10, <1>11, <1>12 DEF IsRowOfCells

IsCells(P, N, C, L) ==
  /\ P \in Seq(Moves) /\ Len(P) = C * L
  /\ \A i \in 0 .. C - 1 :
       /\ P[i * L + 1] = W(At("CELL_ROW"), i)
       /\ \A j \in 0 .. N - 1 : /\ P[i * L + (2 * j + 2)] = W(At("CELL_COL"), j)
                                /\ P[i * L + (2 * j + 3)] = R(At("CELL"))

(* The accesses of read_matrix by cells: a row selected, then its cells.   *)
LEMMA CellsAre ==
  ASSUME NEW N \in Nat, NEW C \in Nat, NEW P, P = read_matrix(N, C, TRUE),
         NEW L, L = 1 + N * 2
  PROVE  IsCells(P, N, C, L)
<1> DEFINE cells(i) == CellsOfRow(i, N)
           s == [k \in 1 .. C |-> cells(k - 1)]
<1>1. P = FlattenSeq(s) BY DEF read_matrix, Joined, Each, CellsOfRow
<1>2. ASSUME NEW i \in Nat
      PROVE  /\ cells(i) \in Seq(Moves) /\ Len(cells(i)) = 1 + N * 2
             /\ cells(i)[1] = W(At("CELL_ROW"), i)
             /\ \A j \in 0 .. N - 1 : /\ cells(i)[2 * j + 2] = W(At("CELL_COL"), j)
                                      /\ cells(i)[2 * j + 3] = R(At("CELL"))
  <2> DEFINE e == cells(i)
  <2>1. e = CellsOfRow(i, N) OBVIOUS
  <2> HIDE DEF e
  <2>2. IsRowOfCells(e, i, N) BY <2>1, CellsOfRowAre
  <2> QED BY <2>2 DEF e, IsRowOfCells
<1> HIDE DEF cells
<1>3. L \in Nat /\ L # 0 OBVIOUS
<1>4. \A i \in 0 .. C - 1 : s[i + 1] = cells(i)
  <2> SUFFICES ASSUME NEW i \in 0 .. C - 1 PROVE s[i + 1] = cells(i) OBVIOUS
  <2>1. i + 1 \in 1 .. C /\ (i + 1) - 1 = i OBVIOUS
  <2> QED BY <2>1
<1>5. s \in [1 .. C -> Seq(Moves)] /\ \A i \in 1 .. C : Len(s[i]) = L
  <2>1. ASSUME NEW i \in 1 .. C PROVE s[i] \in Seq(Moves) /\ Len(s[i]) = L
    <3>1. i - 1 \in Nat OBVIOUS
    <3>2. cells(i - 1) \in Seq(Moves) /\ Len(cells(i - 1)) = L BY <1>2, <3>1
    <3> QED BY <3>2
  <2>2. DOMAIN s = 1 .. C /\ s = [i \in 1 .. C |-> s[i]] OBVIOUS
  <2> HIDE DEF s
  <2> QED BY <2>1, <2>2
<1> HIDE DEF s
<1>6. /\ P \in Seq(Moves) /\ Len(P) = C * L
      /\ \A b \in 0 .. C - 1, r \in 1 .. L : P[b * L + r] = s[b + 1][r]
  <2>1. L \in Nat /\ s \in [1 .. C -> Seq(Moves)] BY <1>3, <1>5
  <2>2. \A i \in 1 .. C : Len(s[i]) = L BY <1>5
  <2>3. Blocks(FlattenSeq(s), Moves, C, L, s) BY <2>1, <2>2, FlattenBlocks
  <2> QED BY <1>1, <2>3 DEF Blocks
<1>7. ASSUME NEW i \in 0 .. C - 1, NEW j \in 0 .. N - 1
      PROVE  /\ P[i * L + (2 * j + 2)] = W(At("CELL_COL"), j)
             /\ P[i * L + (2 * j + 3)] = R(At("CELL"))
  <2>1. 2 * j + 2 \in 1 .. L /\ 2 * j + 3 \in 1 .. L OBVIOUS
  <2>2. /\ P[i * L + (2 * j + 2)] = s[i + 1][2 * j + 2]
        /\ P[i * L + (2 * j + 3)] = s[i + 1][2 * j + 3]
    BY <1>6, <2>1
  <2>3. s[i + 1] = cells(i) /\ i \in Nat BY <1>4
  <2> QED BY <1>2, <2>2, <2>3
<1>8. ASSUME NEW i \in 0 .. C - 1 PROVE P[i * L + 1] = W(At("CELL_ROW"), i)
  <2>1. 1 \in 1 .. L BY <1>3
  <2>2. P[i * L + 1] = s[i + 1][1] BY <1>6, <2>1
  <2>3. s[i + 1] = cells(i) /\ i \in Nat BY <1>4
  <2> QED BY <1>2, <2>2, <2>3
<1> QED BY <1>6, <1>7, <1>8 DEF IsCells

-----------------------------------------------------------------------------
(* The peripheral under any accesses, and under a client's.                *)

(* Every address can be written.                                           *)
LEMMA SomeData ==
  ASSUME NEW addr \in Addresses
  PROVE  \E data : Fits(addr, data)
<1>1. CASE addr.reg = "CTRL"
  <2>1. Fits(addr, [start |-> TRUE, irq_en |-> TRUE]) BY <1>1 DEF Fits, Addresses
  <2> QED BY <2>1
<1>2. CASE addr.reg = "STATUS"
  <2>1. Fits(addr, [irq |-> TRUE]) BY <1>2 DEF Fits, Addresses
  <2> QED BY <2>1
<1>3. CASE addr.reg \notin {"CTRL", "STATUS"}
  <2>1. Fits(addr, 0) BY <1>3 DEF Fits, Addresses
  <2> QED BY <2>1
<1> QED BY <1>1, <1>2, <1>3

(* One access, refused or not, keeps the promise of the device and its     *)
(* latency.                                                                *)
LEMMA AccessStep ==
  ASSUME AccessInv, Observe, NEW addr, NEW sel \in BOOLEAN,
         \/ addr \in Addresses /\ Read(addr, sel)
         \/ \E data : Fits(addr, data) /\ Write(addr, data, sel)
  PROVE  AccessInv' /\ dev'.latency = dev.latency
<1>1. PICK data : Fits(addr, data) /\ (Read(addr, sel) \/ Write(addr, data, sel))
  BY SomeData
<1>2. DeviceInv(dev) /\ seen \in Nat /\ LatencyIsAccesses BY DEF AccessInv
<1>3. /\ DeviceInv(dev') /\ dev'.latency = dev.latency
      /\ seen' \in Nat /\ LatencyIsAccesses'
  BY <1>1, <1>2, AccessKeeps
<1>4. AnswersAreTheMatrix' BY <1>1, <1>2, AnswerKeeps
<1> QED BY <1>3, <1>4 DEF AccessInv

(* A device after reset keeps its invariant, with nothing running and      *)
(* nothing valid.                                                          *)
LEMMA ResetIsDevice ==
  ASSUME NEW latency \in Nat
  PROVE  /\ DeviceInv(reset_state(latency))
         /\ ~reset_state(latency).busy /\ ~reset_state(latency).valid
         /\ reset_state(latency).latency = latency
<1>1. Zeros \in Window BY ValRangeAssumption DEF Zeros, Window, Val
<1>2. 0 \in Val /\ 0 \in 0 .. IdxRange - 1 BY ValRangeAssumption, RegsAssumption DEF Val
<1> DEFINE d == reset_state(latency)
<1>3. /\ d \in Device /\ d.busy = FALSE /\ d.valid = FALSE
      /\ d.remaining = 0 /\ d.latency = latency
  <2> HIDE DEF Zeros
  <2> QED BY <1>1, <1>2 DEF reset_state, Device
<1> HIDE DEF d
<1>4. DeviceInv(d) BY <1>3 DEF DeviceInv
<1> QED BY <1>3, <1>4 DEF d

(* A reset keeps the promise of the device.                                *)
LEMMA ResetKeeps ==
  ASSUME AccessInv, ResetAccess
  PROVE  AccessInv' /\ dev'.latency = dev.latency
<1>1. dev.latency \in Nat BY DEF AccessInv, DeviceInv, Device
<1>2. dev' = reset_state(dev.latency) /\ resp' = NoAccess /\ seen' = 0
  BY DEF ResetAccess
<1>3. DeviceInv(dev') /\ ~dev'.busy /\ ~dev'.valid /\ dev'.latency = dev.latency
  BY <1>1, <1>2, ResetIsDevice
<1>4. resp'.addr.reg = "CONST" BY <1>2 DEF NoAccess, Outcome, At
<1>5. AnswersAreTheMatrix' BY <1>4 DEF AnswersAreTheMatrix
<1> QED BY <1>2, <1>3, <1>5 DEF AccessInv, LatencyIsAccesses

\* Whatever anybody does on the bus.
LEMMA AnyAccessKeeps ==
  ASSUME AccessInv, AnyAccess
  PROVE  AccessInv' /\ dev'.latency = dev.latency
<1>1. Targets \subseteq Addresses
  <2>1. MAX_C \in Nat /\ column_words \in Int BY RegsAssumption DEF column_words
  <2>2. ASSUME NEW addr \in Targets PROVE addr \in Addresses
    <3>1. CASE \E reg \in {"CONST", "CTRL", "STATUS", "N", "C", "CELL_ROW",
                           "CELL_COL", "CELL", "HOLE", "ODD"} : addr = At(reg)
      BY <3>1, AddressType DEF Registers
    <3>2. CASE \E reg \in {"WEIGHT", "OFFSET"}, i \in 0 .. MAX_C : addr = Lane(reg, i)
      BY <2>1, <3>2, AddressType DEF Registers
    <3>3. CASE \E k \in 0 .. column_words : addr = Lane("COLUMN", k)
      BY <2>1, <3>3, AddressType DEF Registers
    <3> QED BY <3>1, <3>2, <3>3 DEF Targets
  <2> QED BY <2>2
<1>2. ASSUME NEW addr \in Addresses, NEW data \in DataOf(addr) PROVE Fits(addr, data)
  <2>1. Values \subseteq Nat /\ Counts \subseteq Nat /\ Queries \subseteq Nat
    BY AccessesAssumption
  <2>2. addr.reg \in Registers BY DEF Addresses
  <2>3. CASE addr.reg = "CTRL" BY <2>3 DEF DataOf, Fits, Command, Addresses
  <2>4. CASE addr.reg = "STATUS" BY <2>4 DEF DataOf, Fits, Addresses
  <2>5. CASE addr.reg \notin {"CTRL", "STATUS"}
    <3>1. data \in Values \cup Counts \cup Queries \cup {0} BY <2>5 DEF DataOf
    <3>2. data \in Nat BY <2>1, <3>1
    <3> QED BY <2>5, <3>2 DEF Fits, Addresses
  <2> QED BY <2>3, <2>4, <2>5
<1>3. CASE ReadAccess
  <2>1. PICK addr \in Targets, sel \in BOOLEAN : Read(addr, sel) /\ Observe
    BY <1>3 DEF ReadAccess
  <2>2. addr \in Addresses BY <1>1
  <2> QED BY <2>1, <2>2, AccessStep
<1>4. CASE WriteAccess
  <2>1. PICK addr \in Targets, sel \in BOOLEAN :
          \E data \in DataOf(addr) : Write(addr, data, sel) /\ Observe
    BY <1>4 DEF WriteAccess
  <2>2. PICK data \in DataOf(addr) : Write(addr, data, sel) /\ Observe BY <2>1
  <2>3. Fits(addr, data) BY <1>1, <1>2
  <2> QED BY <2>2, <2>3, AccessStep
<1>5. CASE ResetAccess BY <1>5, ResetKeeps
<1> QED BY <1>3, <1>4, <1>5 DEF AnyAccess

\* What a job is.
LEMMA JobType ==
  ASSUME NEW j \in AllJobs, Len(j.weights) <= MAX_C
  PROVE  /\ j.N \in Nat \ {0} /\ j.N \in Val /\ j.how \in Hows
         /\ Len(j.weights) \in Nat /\ j.weights \in [1 .. Len(j.weights) -> 0 .. j.N]
         /\ j.weights \in [1 .. Len(j.weights) -> Nat]
         /\ Len(j.weights) \in 0 .. IdxRange - 1
         /\ j # Idle
<1>1. PICK p \in Jobs, h \in Hows : j = [N |-> p[1], weights |-> p[2], how |-> h]
  BY DEF AllJobs
<1>2. p[1] \in Val \ {0} /\ p[2] \in Seq(0 .. p[1]) /\ MAX_C < IdxRange
  BY ClientAssumption
<1>3. j.N = p[1] /\ j.weights = p[2] /\ j.how = h BY <1>1
<1>4. j.N \in Nat \ {0} /\ j.N \in Val BY <1>2, <1>3, ValRangeAssumption DEF Val
<1>5. j.weights \in Seq(0 .. j.N) BY <1>2, <1>3
<1>6. Len(j.weights) \in Nat /\ j.weights \in [1 .. Len(j.weights) -> 0 .. j.N]
  BY <1>5, LenProperties
<1>7. j.weights \in [1 .. Len(j.weights) -> Nat] BY <1>4, <1>6
<1>8. Len(j.weights) \in 0 .. IdxRange - 1 BY <1>2, <1>6, RegsAssumption
<1>9. j # Idle BY <1>4 DEF Idle
<1> QED BY <1>3, <1>4, <1>6, <1>7, <1>8, <1>9

\* First the program, then the reading.
IsAccesses(P, Q, j, C) ==
  /\ P \in Seq(Moves) /\ Q \in Seq(Moves) /\ Len(P) = (C + 6) + Len(Q)
  /\ P[1] = R(At("CONST")) /\ P[2] = R(At("CONST"))
  /\ P[3] = W(At("N"), j.N) /\ P[4] = W(At("C"), C)
  /\ \A i \in 0 .. C - 1 : P[5 + i] = W(Lane("WEIGHT", i), j.weights[i + 1])
  /\ P[C + 5] = W(At("CTRL"), Command(TRUE, FALSE))
  /\ P[C + 6] = Poll
  /\ \A k \in 1 .. Len(Q) : P[(C + 6) + k] = Q[k]

(* The accesses of a job: those of program, then those of its reading.     *)
LEMMA JobAccesses ==
  ASSUME NEW j \in AllJobs, Len(j.weights) <= MAX_C,
         NEW C, C = Len(j.weights), NEW P, P = accesses(j), NEW Q, Q = reading(j)
  PROVE  IsAccesses(P, Q, j, C)
<1>1. /\ C \in Nat /\ j.N \in Nat /\ j.how \in Hows /\ j.weights \in [1 .. C -> Nat]
  BY JobType
<1>2. Q \in Seq(Moves)
  <2>1. CASE j.how = "offsets"
    <3>1. Q = [k \in 1 .. C |-> R(Lane("OFFSET", k - 1))]
      BY <2>1 DEF reading, read_offsets, Each
    <3>2. ASSUME NEW k \in 1 .. C PROVE R(Lane("OFFSET", k - 1)) \in Moves
      <4>1. k - 1 \in Nat BY <1>1
      <4> QED BY <4>1, MoveType DEF Registers
    <3> QED BY <1>1, <3>1, <3>2
  <2>2. CASE j.how = "cells"
    <3>1. Q = read_matrix(j.N, C, TRUE) BY <2>2 DEF reading
    <3>2. IsCells(Q, j.N, C, 1 + j.N * 2) BY <1>1, <3>1, CellsAre
    <3> QED BY <3>2 DEF IsCells
  <2>3. CASE j.how = "columns"
    <3>1. Q = read_matrix(j.N, C, FALSE) BY <2>3 DEF reading
    <3>2. IsColumns(Q, j.N, words_of(C), 1 + words_of(C)) BY <1>1, <3>1, ColumnsAre
    <3> QED BY <3>2 DEF IsColumns
  <2> QED BY <1>1, <2>1, <2>2, <2>3 DEF Hows
<1> DEFINE p == program(j.weights, j.N)
<1>3. /\ p \in Seq(Moves) /\ Len(p) = C + 6
      /\ p[1] = R(At("CONST")) /\ p[2] = R(At("CONST"))
      /\ p[3] = W(At("N"), j.N) /\ p[4] = W(At("C"), C)
      /\ \A i \in 0 .. C - 1 : p[5 + i] = W(Lane("WEIGHT", i), j.weights[i + 1])
      /\ p[C + 5] = W(At("CTRL"), Command(TRUE, FALSE))
      /\ p[C + 6] = Poll
  <2> DEFINE w == j.weights
             n == j.N
  <2>1. n \in Nat /\ C \in Nat /\ w \in [1 .. C -> Nat] /\ p = program(w, n) BY <1>1
  <2> HIDE DEF p, w, n
  <2>2. IsProgram(p, w, n, C) BY <2>1, ProgramIs
  <2> QED BY <2>2 DEF IsProgram, w, n
<1>4. P = p \o Q BY DEF accesses
<1> HIDE DEF p
<1>5. /\ P \in Seq(Moves) /\ Len(P) = Len(p) + Len(Q)
      /\ \A k \in 1 .. Len(p) : P[k] = p[k]
      /\ \A k \in 1 .. Len(Q) : P[Len(p) + k] = Q[k]
  <2>1. p \in Seq(Moves) /\ Q \in Seq(Moves) BY <1>2, <1>3
  <2> QED BY <1>4, <2>1, Concatenation
<1>6. Len(p) = C + 6 BY <1>3
<1>7. \A k \in 1 .. C + 6 : P[k] = p[k] BY <1>5, <1>6
<1>8. /\ P[1] = p[1] /\ P[2] = p[2] /\ P[3] = p[3] /\ P[4] = p[4]
      /\ P[C + 5] = p[C + 5] /\ P[C + 6] = p[C + 6]
  BY <1>1, <1>7
<1>9. ASSUME NEW i \in 0 .. C - 1
      PROVE  P[5 + i] = W(Lane("WEIGHT", i), j.weights[i + 1])
  <2>1. 5 + i \in 1 .. C + 6 BY <1>1
  <2> QED BY <1>3, <1>7, <2>1
<1> QED BY <1>2, <1>3, <1>5, <1>6, <1>8, <1>9 DEF IsAccesses

\* Every access of a plan is one that the peripheral understands.
ContractInv == AccessInv /\ plan \in Seq(Moves)

(* The promise of the device holds at first.                               *)
LEMMA ContractInit ==
  ClientInit => ContractInv
<1> SUFFICES ASSUME ClientInit PROVE ContractInv OBVIOUS
<1>1. PICK l \in Latencies : dev = reset_state(l) BY DEF ClientInit, DeviceInit
<1>2. l \in Nat BY RegsAssumption
<1>3. DeviceInv(dev) /\ ~dev.busy /\ ~dev.valid BY <1>1, <1>2, ResetIsDevice
<1>4. resp = NoAccess /\ seen = 0 /\ plan = <<>> BY DEF ClientInit, DeviceInit
<1>5. resp.addr.reg = "CONST" BY <1>4 DEF NoAccess, Outcome, At
<1>6. AnswersAreTheMatrix BY <1>5 DEF AnswersAreTheMatrix
<1> QED BY <1>3, <1>4, <1>6 DEF ContractInv, AccessInv, LatencyIsAccesses

(* A step of a client is an access.                                        *)
LEMMA StepAccess ==
  ASSUME ContractInv, Step
  PROVE  AccessInv' /\ dev'.latency = dev.latency
<1>1. plan # <<>> /\ plan \in Seq(Moves) /\ Observe BY DEF Step, ContractInv
<1> DEFINE a == Head(plan)
<1>2. a \in Moves BY <1>1, HeadTailProperties
<1>3. IF a.op = "write" THEN Write(a.addr, a.data, TRUE) ELSE Read(a.addr, TRUE)
  BY DEF Step
<1> HIDE DEF a
<1>4. a.addr \in Addresses /\ (a.op = "write" => Fits(a.addr, a.data))
  BY <1>2 DEF Moves
<1>5. TRUE \in BOOLEAN OBVIOUS
<1>6. \/ a.addr \in Addresses /\ Read(a.addr, TRUE)
      \/ \E data : Fits(a.addr, data) /\ Write(a.addr, data, TRUE)
  BY <1>3, <1>4
<1> QED BY <1>1, <1>5, <1>6, AccessStep DEF ContractInv

(* Whatever clients and others do keeps the promise of the device.         *)
LEMMA ContractNext ==
  ContractInv /\ [ClientNext]_sessionVars => ContractInv'
<1> SUFFICES ASSUME ContractInv, [ClientNext]_sessionVars PROVE ContractInv'
  OBVIOUS
<1>1. CASE Begin
  <2>1. PICK j \in AllJobs : Len(j.weights) <= MAX_C /\ job' = j /\ plan' = accesses(j)
    BY <1>1 DEF Begin
  <2>2. plan' \in Seq(Moves) BY <2>1, JobAccesses DEF IsAccesses
  <2>3. resp' = NoAccess /\ dev' = dev /\ seen' = seen BY <1>1 DEF Begin
  <2>4. resp'.addr.reg = "CONST" BY <2>3 DEF NoAccess, Outcome, At
  <2>5. AnswersAreTheMatrix' BY <2>4 DEF AnswersAreTheMatrix
  <2> QED BY <2>2, <2>3, <2>5 DEF ContractInv, AccessInv, LatencyIsAccesses
<1>2. CASE Step
  <2>1. plan # <<>> /\ plan \in Seq(Moves) BY <1>2 DEF Step, ContractInv
  <2>2. plan' \in {<<>>, plan, Tail(plan)} BY <1>2 DEF Step
  <2>3. Tail(plan) \in Seq(Moves) BY <2>1, HeadTailProperties
  <2>4. <<>> \in Seq(Moves) OBVIOUS
  <2>5. plan' \in Seq(Moves) BY <2>1, <2>2, <2>3, <2>4
  <2> QED BY <1>2, <2>5, StepAccess DEF ContractInv
<1>3. CASE Others
  <2>1. AnyAccess /\ plan' = plan BY <1>3 DEF Others
  <2> QED BY <2>1, AnyAccessKeeps DEF ContractInv
<1>4. CASE UNCHANGED sessionVars
  BY <1>4 DEF sessionVars, deviceVars, clientVars, ContractInv, AccessInv,
              LatencyIsAccesses, AnswersAreTheMatrix, Marked
<1> QED BY <1>1, <1>2, <1>3, <1>4 DEF ClientNext

\* Whatever is done on the bus, by a client in the middle of its job or by
\* anybody between two jobs: VALID is of the context of now, a transform takes
\* latency accesses, and what a read is answered with is the matrix.
THEOREM ClientContract == ClientSpec => []DeviceContract
<1>1. ContractInv => DeviceContract
  <2> SUFFICES ASSUME ContractInv PROVE DeviceContract OBVIOUS
  <2>1. DeviceInv(dev) /\ seen \in Nat /\ LatencyIsAccesses /\ AnswersAreTheMatrix
    BY DEF ContractInv, AccessInv
  <2>2. dev \in Device /\ dev.remaining <= dev.latency BY <2>1 DEF DeviceInv
  <2>3. RegsTypeOK BY <2>1, <2>2 DEF RegsTypeOK, DeviceTypeOK, Device
  <2>4. ReadableMatrixIsCurrent BY <2>1 DEF DeviceInv, ReadableMatrixIsCurrent
  <2> QED BY <2>1, <2>3, <2>4 DEF DeviceContract
<1> QED BY <1>1, ContractInit, ContractNext, PTL DEF ClientSpec

-----------------------------------------------------------------------------
(* A client's job.                                                         *)

\* The reference looks at no weight beyond the rows.
LEMMA PrefixSumAgree ==
  ASSUME NEW w, NEW v, NEW c \in Nat, \A i \in 0 .. c - 1 : w[i] = v[i]
  PROVE  \A k \in 0 .. c : PrefixSum(c, w)[k] = PrefixSum(c, v)[k]
<1> DEFINE P == PrefixSum(c, w)
           Q == PrefixSum(c, v)
           Bad == {k \in 0 .. c : P[k] # Q[k]}
<1>1. /\ P[0] = 0 /\ \A k \in 1 .. c : P[k] = P[k - 1] + w[k - 1]
      /\ Q[0] = 0 /\ \A k \in 1 .. c : Q[k] = Q[k - 1] + v[k - 1]
  BY PrefixSumEquation
<1> HIDE DEF P, Q
<1> SUFFICES ASSUME Bad # {} PROVE FALSE BY DEF P, Q
<1>2. Bad \subseteq Nat OBVIOUS
<1>3. PICK k \in Bad : \A x \in Bad : k <= x
  <2> HIDE DEF Bad
  <2> QED BY <1>2, LeastNatural
<1>4. k # 0 BY <1>1
<1>5. k \in 1 .. c /\ k - 1 \in 0 .. c /\ k - 1 \in 0 .. c - 1 BY <1>4
<1>6. k - 1 \notin Bad BY <1>3, <1>5
<1>7. P[k - 1] = Q[k - 1] BY <1>5, <1>6
<1> QED BY <1>1, <1>5, <1>7

(* Offsets and bits depend on the weights of the rows alone.               *)
LEMMA ReferenceAgree ==
  ASSUME NEW w, NEW v, NEW n, NEW c \in Nat, \A i \in 0 .. c - 1 : w[i] = v[i]
  PROVE  \A i \in 0 .. c - 1 :
           /\ RefOffset(i, n, c, w) = RefOffset(i, n, c, v)
           /\ \A x : RefBit(i, x, n, c, w) <=> RefBit(i, x, n, c, v)
<1> SUFFICES ASSUME NEW i \in 0 .. c - 1
             PROVE  /\ RefOffset(i, n, c, w) = RefOffset(i, n, c, v)
                    /\ \A x : RefBit(i, x, n, c, w) <=> RefBit(i, x, n, c, v)
  OBVIOUS
<1>1. i \in 0 .. c /\ i + 1 \in 0 .. c OBVIOUS
<1>2. /\ PrefixSum(c, w)[i] = PrefixSum(c, v)[i]
      /\ PrefixSum(c, w)[i + 1] = PrefixSum(c, v)[i + 1]
  BY <1>1, PrefixSumAgree
<1> QED BY <1>2 DEF RefOffset, RefBit

\* The peripheral holds the context of a job.
Programmed(d, j) ==
  /\ d.n = j.N /\ d.c = Len(j.weights)
  /\ \A i \in 0 .. Len(j.weights) - 1 : d.weights[i] = j.weights[i + 1]

(* A device that holds a job's N and weights admits START.                 *)
LEMMA ProgrammedIsLegal ==
  ASSUME NEW j \in AllJobs, Len(j.weights) <= MAX_C, NEW d \in Device, Programmed(d, j)
  PROVE  start_legal(d)
<1>1. /\ j.N \in Nat \ {0} /\ Len(j.weights) \in Nat
      /\ j.weights \in [1 .. Len(j.weights) -> 0 .. j.N]
  BY JobType
<1>2. used_rows(d) = Len(j.weights)
  BY <1>1, RegsAssumption DEF used_rows, Programmed
<1>3. ASSUME NEW i \in 0 .. Len(j.weights) - 1 PROVE d.weights[i] <= d.n
  <2>1. i + 1 \in 1 .. Len(j.weights) BY <1>1
  <2>2. j.weights[i + 1] \in 0 .. j.N BY <1>1, <2>1
  <2> QED BY <1>1, <2>2 DEF Programmed
<1> QED BY <1>1, <1>2, <1>3 DEF start_legal, Legal, Programmed

\* What the reads are answered with once the matrix is valid.
LEMMA ProgrammedAnswers ==
  ASSUME NEW j \in AllJobs, Len(j.weights) <= MAX_C, NEW d, DeviceInv(d), d.valid,
         Programmed(d, j), NEW C, C = Len(j.weights)
  PROVE  /\ C \in Nat /\ 0 .. C - 1 \subseteq Rows
         /\ \A i \in 0 .. C - 1 : d.offsets[i] = RefOffset(i, j.N, C, RowWeights(j))
         /\ \A row \in Rows : evaluate(d, row) => row \in 0 .. C - 1
         /\ d.cell_col < j.N =>
              \A i \in 0 .. C - 1 : evaluate(d, i) <=> Bit(j, i, d.cell_col)
<1>1. C \in Nat /\ d \in Device /\ MAX_C \in Nat
  BY JobType, RegsAssumption DEF DeviceInv
<1>2. 0 .. C - 1 \subseteq Rows BY <1>1 DEF Rows
<1>3. d.n = j.N /\ d.c = C /\ \A i \in 0 .. C - 1 : d.weights[i] = RowWeights(j)[i]
  BY DEF Programmed, RowWeights
<1>4. \A row \in Rows :
        /\ d.offsets[row] = IF row < d.c THEN RefOffset(row, d.n, d.c, d.weights) ELSE 0
        /\ evaluate(d, row) => row < d.c
        /\ row < d.c /\ d.cell_col < d.n =>
             (evaluate(d, row) <=> RefBit(row, d.cell_col, d.n, d.c, d.weights))
  BY ValidIsReference
<1> DEFINE v == RowWeights(j)
           n == j.N
<1> HIDE DEF v, n
<1>5. \A i \in 0 .. C - 1 :
        /\ RefOffset(i, n, C, d.weights) = RefOffset(i, n, C, v)
        /\ \A x : RefBit(i, x, n, C, d.weights) <=> RefBit(i, x, n, C, v)
  <2> DEFINE w == d.weights
  <2>1. \A i \in 0 .. C - 1 : w[i] = v[i] BY <1>3 DEF v
  <2> HIDE DEF w
  <2>2. \A i \in 0 .. C - 1 :
          /\ RefOffset(i, n, C, w) = RefOffset(i, n, C, v)
          /\ \A x : RefBit(i, x, n, C, w) <=> RefBit(i, x, n, C, v)
    BY <1>1, <2>1, ReferenceAgree
  <2> QED BY <2>2 DEF w
<1>6. ASSUME NEW i \in 0 .. C - 1 PROVE d.offsets[i] = RefOffset(i, j.N, C, RowWeights(j))
  <2>1. i \in Rows /\ i < d.c BY <1>1, <1>2, <1>3
  <2>2. d.offsets[i] = RefOffset(i, d.n, d.c, d.weights) BY <1>4, <2>1
  <2> QED BY <1>3, <1>5, <2>2 DEF v, n
<1>7. ASSUME d.cell_col < j.N, NEW i \in 0 .. C - 1
      PROVE  evaluate(d, i) <=> Bit(j, i, d.cell_col)
  <2>1. i \in Rows /\ i < d.c /\ d.cell_col < d.n BY <1>1, <1>2, <1>3, <1>7
  <2>2. evaluate(d, i) <=> RefBit(i, d.cell_col, d.n, d.c, d.weights) BY <1>4, <2>1
  <2>3. evaluate(d, i) <=> RefBit(i, d.cell_col, n, C, d.weights) BY <1>3, <2>2 DEF n
  <2> QED BY <1>5, <2>3 DEF v, n, Bit
<1>8. ASSUME NEW row \in Rows, evaluate(d, row) PROVE row \in 0 .. C - 1
  BY <1>1, <1>3, <1>4, <1>8 DEF Rows
<1> QED BY <1>1, <1>2, <1>6, <1>7, <1>8

\* The words of C rows are words of the window.
LEMMA WordsFit ==
  ASSUME NEW C \in Nat, C <= MAX_C
  PROVE  words_of(C) \in Nat /\ words_of(C) <= column_words
<1> DEFINE x == C + WordLanes - 1
           y == MAX_C + WordLanes - 1
           L == WordLanes
           q == x \div L
           p == y \div L
           r == x % L
           s == y % L
<1>1. x \in Int /\ y \in Int /\ x <= y /\ L \in Nat \ {0} BY RegsAssumption
<1>2. words_of(C) \in Nat
  <2>1. 0 \in Nat OBVIOUS
  <2>2. \A P : P = read_column(0, C) => IsColumn(P, 0, C) BY <2>1, ColumnIs
  <2> QED BY <2>2 DEF IsColumn
<1>3. words_of(C) = q /\ column_words = p BY DEF words_of, column_words
<1> HIDE DEF x, y, L
<1>4. x = L * q + r /\ r \in 0 .. L - 1 /\ q \in Int BY <1>1, DivMod
<1>5. y = L * p + s /\ s \in 0 .. L - 1 /\ p \in Int BY <1>1, DivMod
<1> HIDE DEF q, p, r, s
<1>6. q <= p
  <2> SUFFICES ASSUME q >= p + 1 PROVE FALSE BY <1>4, <1>5
  <2>1. L * (q - (p + 1)) >= 0 BY <1>1, <1>4, <1>5
  <2>2. L * q >= L * p + L BY <1>1, <1>4, <1>5, <2>1
  <2> QED BY <1>1, <1>4, <1>5, <2>2
<1> QED BY <1>2, <1>3, <1>6

\* What a job that reads in each of the ways is to have read.
LEMMA ExpectedOffsets ==
  ASSUME NEW j \in AllJobs, Len(j.weights) <= MAX_C, j.how = "offsets",
         NEW C, C = Len(j.weights), NEW E, E = Expected(j)
  PROVE  /\ DOMAIN E = 1 .. C /\ E = [k \in DOMAIN E |-> E[k]]
         /\ \A k \in 0 .. C - 1 : E[k + 1] = RefOffset(k, j.N, C, RowWeights(j))
<1>1. C \in Nat BY JobType
<1>2. E = [k \in 1 .. C |-> RefOffset(k - 1, j.N, C, RowWeights(j))]
  BY DEF Expected, Each
<1>3. ASSUME NEW k \in 0 .. C - 1 PROVE E[k + 1] = RefOffset(k, j.N, C, RowWeights(j))
  <2>1. k + 1 \in 1 .. C /\ (k + 1) - 1 = k BY <1>1
  <2> QED BY <1>2, <2>1
<1> QED BY <1>2, <1>3

(* The answers expected by cells, row after row.                           *)
LEMMA ExpectedCells ==
  ASSUME NEW j \in AllJobs, Len(j.weights) <= MAX_C, j.how = "cells",
         NEW C, C = Len(j.weights), NEW E, E = Expected(j), NEW N, N = j.N
  PROVE  /\ DOMAIN E = 1 .. C * N /\ E = [k \in DOMAIN E |-> E[k]]
         /\ \A i \in 0 .. C - 1, x \in 0 .. N - 1 : E[i * N + (x + 1)] = Bit(j, i, x)
<1> DEFINE row(i) == [x \in 1 .. N |-> Bit(j, i, x - 1)]
           s == [k \in 1 .. C |-> row(k - 1)]
<1>1. C \in Nat /\ N \in Nat BY JobType
<1>2. E = FlattenSeq(s) BY DEF Expected, Joined, Each
<1>3. \A i, x : Bit(j, i, x) \in BOOLEAN BY DEF Bit, RefBit
<1>4. ASSUME NEW i PROVE row(i) \in Seq(BOOLEAN) /\ Len(row(i)) = N
  <2> DEFINE f == row(i)
  <2>1. f \in [1 .. N -> BOOLEAN] BY <1>3
  <2> HIDE DEF f
  <2>2. f \in Seq(BOOLEAN) /\ Len(f) = N BY <1>1, <2>1
  <2> QED BY <2>2 DEF f
<1>5. \A i, x : x \in 1 .. N => row(i)[x] = Bit(j, i, x - 1) OBVIOUS
<1> HIDE DEF row
<1>6. s \in [1 .. C -> Seq(BOOLEAN)] BY <1>4
<1>7. \A k \in 1 .. C : Len(s[k]) = N BY <1>4
<1>8. \A i \in 0 .. C - 1 : s[i + 1] = row(i)
  <2> SUFFICES ASSUME NEW i \in 0 .. C - 1 PROVE s[i + 1] = row(i) OBVIOUS
  <2>1. i + 1 \in 1 .. C /\ (i + 1) - 1 = i BY <1>1
  <2> QED BY <2>1
<1> HIDE DEF s
<1>9. Blocks(FlattenSeq(s), BOOLEAN, C, N, s) BY <1>1, <1>6, <1>7, FlattenBlocks
<1>10. /\ E \in Seq(BOOLEAN) /\ Len(E) = C * N
       /\ \A b \in 0 .. C - 1, r \in 1 .. N : E[b * N + r] = s[b + 1][r]
  BY <1>2, <1>9 DEF Blocks
<1>11. ASSUME NEW i \in 0 .. C - 1, NEW x \in 0 .. N - 1
       PROVE  E[i * N + (x + 1)] = Bit(j, i, x)
  <2>1. x + 1 \in 1 .. N /\ (x + 1) - 1 = x BY <1>1
  <2>2. E[i * N + (x + 1)] = row(i)[x + 1] BY <1>8, <1>10, <2>1
  <2>3. row(i)[x + 1] = Bit(j, i, x) BY <1>5, <2>1
  <2> QED BY <2>2, <2>3
<1>12. DOMAIN E = 1 .. C * N /\ E = [k \in DOMAIN E |-> E[k]] BY <1>10
<1> QED BY <1>11, <1>12

BusWord(j, k, x) == {i \in 0 .. Len(j.weights) - 1 : i \div WordLanes = k /\ Bit(j, i, x)}

(* The answers expected by columns, word after word.                       *)
LEMMA ExpectedColumns ==
  ASSUME NEW j \in AllJobs, Len(j.weights) <= MAX_C, j.how = "columns",
         NEW C, C = Len(j.weights), NEW E, E = Expected(j), NEW N, N = j.N,
         NEW n, n = words_of(C)
  PROVE  /\ DOMAIN E = 1 .. N * n /\ E = [k \in DOMAIN E |-> E[k]]
         /\ \A x \in 0 .. N - 1, k \in 0 .. n - 1 : E[x * n + (k + 1)] = BusWord(j, k, x)
<1> DEFINE row(x) == [k \in 1 .. n |-> BusWord(j, k - 1, x)]
           s == [y \in 1 .. N |-> row(y - 1)]
           S == SUBSET (0 .. C - 1)
<1>1. C \in Nat /\ N \in Nat /\ n \in Nat BY JobType, WordsFit
<1>2. E = FlattenSeq(s) BY DEF Expected, Joined, Each, BusWord
<1>3. \A k, x : BusWord(j, k, x) \in S BY DEF BusWord
<1> HIDE DEF S
<1>4. ASSUME NEW x PROVE row(x) \in Seq(S) /\ Len(row(x)) = n
  <2> DEFINE f == row(x)
  <2>1. f \in [1 .. n -> S] BY <1>3
  <2> HIDE DEF f
  <2>2. f \in Seq(S) /\ Len(f) = n BY <1>1, <2>1
  <2> QED BY <2>2 DEF f
<1>5. \A x, k : k \in 1 .. n => row(x)[k] = BusWord(j, k - 1, x) OBVIOUS
<1> HIDE DEF row
<1>6. s \in [1 .. N -> Seq(S)] BY <1>4
<1>7. \A y \in 1 .. N : Len(s[y]) = n BY <1>4
<1>8. \A x \in 0 .. N - 1 : s[x + 1] = row(x)
  <2> SUFFICES ASSUME NEW x \in 0 .. N - 1 PROVE s[x + 1] = row(x) OBVIOUS
  <2>1. x + 1 \in 1 .. N /\ (x + 1) - 1 = x BY <1>1
  <2> QED BY <2>1
<1> HIDE DEF s
<1>9. Blocks(FlattenSeq(s), S, N, n, s) BY <1>1, <1>6, <1>7, FlattenBlocks
<1>10. /\ E \in Seq(S) /\ Len(E) = N * n
       /\ \A b \in 0 .. N - 1, r \in 1 .. n : E[b * n + r] = s[b + 1][r]
  BY <1>2, <1>9 DEF Blocks
<1>11. ASSUME NEW x \in 0 .. N - 1, NEW k \in 0 .. n - 1
       PROVE  E[x * n + (k + 1)] = BusWord(j, k, x)
  <2>1. k + 1 \in 1 .. n /\ (k + 1) - 1 = k BY <1>1
  <2>2. E[x * n + (k + 1)] = row(x)[k + 1] BY <1>8, <1>10, <2>1
  <2>3. row(x)[k + 1] = BusWord(j, k, x) BY <1>5, <2>1
  <2> QED BY <2>2, <2>3
<1>12. DOMAIN E = 1 .. N * n /\ E = [k \in DOMAIN E |-> E[k]] BY <1>10
<1> QED BY <1>11, <1>12

(* The answers expected are a list.                                        *)
LEMMA ExpectedIsFunction ==
  ASSUME NEW j \in AllJobs, Len(j.weights) <= MAX_C, NEW E, E = Expected(j)
  PROVE  E = [k \in DOMAIN E |-> E[k]]
<1>1. j.how \in {"offsets", "cells", "columns"} BY JobType DEF Hows
<1>2. CASE j.how = "offsets" BY <1>2, ExpectedOffsets
<1>3. CASE j.how = "cells" BY <1>3, ExpectedCells
<1>4. CASE j.how = "columns" BY <1>4, ExpectedColumns
<1> QED BY <1>1, <1>2, <1>3, <1>4

(* Products of naturals are monotone, one factor at a time.                *)
LEMMA Product ==
  ASSUME NEW a \in Nat, NEW b \in Nat, NEW L \in Nat
  PROVE  /\ a * L \in Nat /\ b * L \in Nat /\ (a + 1) * L = a * L + L
         /\ a < b => a * L + L <= b * L
         /\ a >= b => a * L >= b * L
<1>1. a * L \in Nat /\ b * L \in Nat /\ (a + 1) * L = a * L + L OBVIOUS
<1>2. ASSUME a < b PROVE a * L + L <= b * L
  <2> DEFINE m == b - (a + 1)
             x == a * L
             y == m * L
  <2>1. m \in Nat /\ y \in Nat /\ x \in Nat /\ b * L = (x + L) + y BY <1>2
  <2> HIDE DEF m, x, y
  <2>2. x + L <= b * L BY <2>1
  <2> QED BY <2>2 DEF x
<1>3. ASSUME a >= b PROVE a * L >= b * L
  <2> DEFINE m == a - b
             x == b * L
             y == m * L
  <2>1. m \in Nat /\ y \in Nat /\ x \in Nat /\ a * L = x + y BY <1>3
  <2> HIDE DEF m, x, y
  <2>2. a * L >= x BY <2>1
  <2> QED BY <2>2 DEF x
<1> QED BY <1>1, <1>2, <1>3

\* The next access of a reading, and where the reading stands after it.
SetsColumn(j, access, place, answers, row) ==
  \E x \in 0 .. j.N - 1 :
    access = W(At("CELL_COL"), x) /\ Standing(j, place + 1, answers, row, x)
SetsRow(j, access, place, answers, col) ==
  \E i \in 0 .. Len(j.weights) - 1 :
    access = W(At("CELL_ROW"), i) /\ Standing(j, place + 1, answers, i, col)
Reads(j, access, place, answers, row, col) ==
  /\ answers \in Nat /\ answers + 1 \in DOMAIN Expected(j)
  /\ Standing(j, place + 1, answers + 1, row, col)
  /\ \/ \E i \in 0 .. Len(j.weights) - 1 :
          /\ access = R(Lane("OFFSET", i))
          /\ Expected(j)[answers + 1] = RefOffset(i, j.N, Len(j.weights), RowWeights(j))
     \/ \E k \in 0 .. words_of(Len(j.weights)) - 1 :
          /\ access = R(Lane("COLUMN", k)) /\ col \in 0 .. j.N - 1
          /\ Expected(j)[answers + 1] = BusWord(j, k, col)
     \/ /\ access = R(At("CELL")) /\ row \in 0 .. Len(j.weights) - 1 /\ col \in 0 .. j.N - 1
        /\ Expected(j)[answers + 1] = Bit(j, row, col)

(* The next access of a reading of offsets reads the offset expected next, *)
(* and the last answer is the last expected.                               *)
LEMMA NextOffsetRead ==
  ASSUME NEW j \in AllJobs, Len(j.weights) <= MAX_C, j.how = "offsets",
         NEW place \in Nat, NEW answers, NEW row, NEW col,
         Standing(j, place, answers, row, col), NEW Q, Q = reading(j)
  PROVE  /\ place < Len(Q) => Reads(j, Q[place + 1], place, answers, row, col)
         /\ place = Len(Q) => DOMAIN Expected(j) = 1 .. answers
<1> DEFINE C == Len(j.weights)
<1>1. C \in Nat BY JobType
<1>2. answers = place BY DEF Standing
<1>3. Q = [k \in 1 .. C |-> R(Lane("OFFSET", k - 1))]
  BY DEF reading, read_offsets, Each
<1>4. Len(Q) = C BY <1>1, <1>3
<1> HIDE DEF C
<1>5. DOMAIN Expected(j) = 1 .. C
      /\ \A k \in 0 .. C - 1 : Expected(j)[k + 1] = RefOffset(k, j.N, C, RowWeights(j))
  BY ExpectedOffsets DEF C
<1>6. ASSUME place < Len(Q) PROVE Reads(j, Q[place + 1], place, answers, row, col)
  <2>1. place \in 0 .. C - 1 /\ place + 1 \in 1 .. C /\ (place + 1) - 1 = place
    BY <1>1, <1>4, <1>6
  <2>2. Q[place + 1] = R(Lane("OFFSET", place)) BY <1>3, <2>1
  <2>3. Standing(j, place + 1, answers + 1, row, col) BY <1>2 DEF Standing
  <2>4. Expected(j)[answers + 1] = RefOffset(place, j.N, C, RowWeights(j))
    BY <1>2, <1>5, <2>1
  <2>5. answers \in Nat /\ answers + 1 \in DOMAIN Expected(j) BY <1>2, <1>5, <2>1
  <2> QED BY <2>1, <2>2, <2>3, <2>4, <2>5 DEF Reads, C
<1> QED BY <1>2, <1>4, <1>5, <1>6

(* The next access of a reading by columns selects the next column or      *)
(* reads the word expected next.                                           *)
LEMMA NextColumnRead ==
  ASSUME NEW j \in AllJobs, Len(j.weights) <= MAX_C, j.how = "columns",
         NEW place \in Nat, NEW answers, NEW row, NEW col,
         Standing(j, place, answers, row, col), NEW Q, Q = reading(j)
  PROVE  /\ place < Len(Q) =>
              \/ SetsColumn(j, Q[place + 1], place, answers, row)
              \/ Reads(j, Q[place + 1], place, answers, row, col)
         /\ place = Len(Q) => DOMAIN Expected(j) = 1 .. answers
<1> DEFINE C == Len(j.weights)
           N == j.N
           n == words_of(C)
           L == 1 + n
           E == Expected(j)
<1>1. C \in Nat /\ N \in Nat /\ n \in Nat /\ L \in Nat /\ L # 0 BY JobType, WordsFit
<1>2. \/ \E x \in 0 .. N : place = x * L /\ answers = x * n
      \/ \E x \in 0 .. N - 1, k \in 0 .. n - 1 :
           place = x * L + (k + 1) /\ answers = x * n + k /\ col = x
  BY DEF Standing
<1>3. \A p, q, c :
        \/ \E x \in 0 .. N : p = x * L /\ q = x * n
        \/ \E x \in 0 .. N - 1, k \in 0 .. n - 1 :
             p = x * L + (k + 1) /\ q = x * n + k /\ c = x
        => Standing(j, p, q, row, c)
  BY DEF Standing
<1>4. Q = read_matrix(N, C, FALSE) BY DEF reading
<1>5. L = 1 + words_of(C) /\ n = words_of(C) /\ E = Expected(j) OBVIOUS
<1> HIDE DEF N, L, E
<1>6. /\ Len(Q) = N * L
      /\ \A x \in 0 .. N - 1 :
           /\ Q[x * L + 1] = W(At("CELL_COL"), x)
           /\ \A k \in 0 .. n - 1 : Q[x * L + (k + 2)] = R(Lane("COLUMN", k))
  <2>1. IsColumns(Q, N, words_of(C), L) BY <1>1, <1>4, <1>5, ColumnsAre
  <2> QED BY <1>5, <2>1 DEF IsColumns
<1>7. /\ DOMAIN E = 1 .. N * n
      /\ \A x \in 0 .. N - 1, k \in 0 .. n - 1 : E[x * n + (k + 1)] = BusWord(j, k, x)
  BY <1>1, <1>5, ExpectedColumns DEF N
<1> HIDE DEF C, n
<1>8. L = 1 + n BY <1>5 DEF n
<1>9. CASE \E x \in 0 .. N : place = x * L /\ answers = x * n
  <2>1. PICK x \in 0 .. N : place = x * L /\ answers = x * n BY <1>9
  <2>2. x \in Nat OBVIOUS
  <2>3. ASSUME place < Len(Q) PROVE SetsColumn(j, Q[place + 1], place, answers, row)
    <3>1. x < N
      <4>1. x >= N => x * L >= N * L BY <1>1, <2>2, Product
      <4>2. x * L \in Nat /\ N * L \in Nat BY <1>1, <2>2, Product
      <4> QED BY <1>1, <1>6, <2>1, <2>2, <2>3, <4>1, <4>2
    <3>2. x \in 0 .. N - 1 BY <1>1, <3>1
    <3>3. Q[place + 1] = W(At("CELL_COL"), x) BY <1>6, <2>1, <3>2
    <3>4. Standing(j, place + 1, answers, row, x)
      <4>1. CASE n = 0
        <5>1. x * n = 0 /\ (x + 1) * n = 0 /\ L = 1 /\ x * L = x /\ (x + 1) * L = x + 1
          BY <1>1, <1>8, <2>2, <4>1
        <5>2. place + 1 = (x + 1) * L /\ answers = (x + 1) * n /\ x + 1 \in 0 .. N
          BY <1>1, <2>1, <3>1, <5>1
        <5> QED BY <1>3, <5>2
      <4>2. CASE n # 0
        <5>1. 0 \in 0 .. n - 1 BY <1>1, <4>2
        <5>2. x * n \in Nat /\ x * L \in Nat BY <1>1, <2>2, Product
        <5>3. place + 1 = x * L + (0 + 1) /\ answers = x * n + 0 BY <2>1, <5>2
        <5> QED BY <1>3, <3>2, <5>1, <5>3
      <4> QED BY <4>1, <4>2
    <3> QED BY <3>2, <3>3, <3>4 DEF SetsColumn, N
  <2>4. ASSUME place = Len(Q) PROVE DOMAIN E = 1 .. answers
    <3>1. x = N
      <4> SUFFICES ASSUME x < N PROVE FALSE BY <1>1
      <4>1. x * L + L <= N * L /\ x * L \in Nat /\ N * L \in Nat BY <1>1, <2>2, Product
      <4> QED BY <1>1, <1>6, <2>1, <2>4, <4>1
    <3> QED BY <1>7, <2>1, <3>1
  <2> QED BY <2>3, <2>4 DEF E
<1>10. CASE \E x \in 0 .. N - 1, k \in 0 .. n - 1 :
              place = x * L + (k + 1) /\ answers = x * n + k /\ col = x
  <2>1. PICK x \in 0 .. N - 1, k \in 0 .. n - 1 :
          place = x * L + (k + 1) /\ answers = x * n + k /\ col = x
    BY <1>10
  <2>2. x \in Nat /\ x < N /\ k \in Nat /\ k < n BY <1>1
  <2>3. /\ x * L \in Nat /\ N * L \in Nat /\ (x + 1) * L = x * L + L
        /\ x * L + L <= N * L
    BY <1>1, <2>2, Product
  <2>4. /\ x * n \in Nat /\ N * n \in Nat /\ (x + 1) * n = x * n + n
        /\ x * n + n <= N * n
    BY <1>1, <2>2, Product
  <2> DEFINE a == x * L
             b == x * n
  <2>5. /\ a \in Nat /\ b \in Nat /\ place = a + (k + 1) /\ answers = b + k
        /\ (x + 1) * L = a + L /\ (x + 1) * n = b + n
        /\ a + L <= N * L /\ b + n <= N * n
    BY <2>1, <2>3, <2>4
  <2>6. /\ Q[a + (k + 2)] = R(Lane("COLUMN", k)) /\ E[b + (k + 1)] = BusWord(j, k, x)
    BY <1>6, <1>7
  <2> HIDE DEF a, b
  <2>7. place < N * L /\ place + 1 = a + (k + 2) /\ answers + 1 = b + (k + 1)
        /\ answers \in Nat /\ answers + 1 \in 1 .. N * n
    <3>1. N * L \in Nat /\ N * n \in Nat BY <2>3, <2>4
    <3> DEFINE y == N * L
               z == N * n
    <3>2. a + L <= y /\ b + n <= z /\ y \in Nat /\ z \in Nat BY <2>5, <3>1
    <3> HIDE DEF y, z
    <3>3. place < y /\ answers + 1 \in 1 .. z BY <1>1, <1>8, <2>2, <2>5, <3>2
    <3> QED BY <2>2, <2>5, <3>3 DEF y, z
  <2>8. Standing(j, place + 1, answers + 1, row, col)
    <3>1. CASE k + 1 < n
      <4>1. k + 1 \in 0 .. n - 1 /\ place + 1 = a + ((k + 1) + 1) /\ answers + 1 = b + (k + 1)
        BY <1>1, <2>2, <2>7, <3>1
      <4> QED BY <1>3, <2>1, <4>1 DEF a, b
    <3>2. CASE ~(k + 1 < n)
      <4>1. k + 1 = n BY <1>1, <2>2, <3>2
      <4>2. place + 1 = a + L /\ answers + 1 = b + n BY <1>1, <1>8, <2>2, <2>5, <4>1
      <4>3. x + 1 \in 0 .. N BY <1>1, <2>2
      <4>4. place + 1 = (x + 1) * L /\ answers + 1 = (x + 1) * n BY <2>5, <4>2
      <4> QED BY <1>3, <4>3, <4>4
    <3> QED BY <3>1, <3>2
  <2>9. answers + 1 \in DOMAIN E BY <1>7, <2>7
  <2>10. Q[place + 1] = R(Lane("COLUMN", k)) /\ E[answers + 1] = BusWord(j, k, x)
    BY <2>6, <2>7
  <2>11. Reads(j, Q[place + 1], place, answers, row, col)
    BY <2>1, <2>7, <2>8, <2>9, <2>10 DEF Reads, E, N, n, C
  <2>12. place # Len(Q) BY <1>6, <2>3, <2>7
  <2> QED BY <2>11, <2>12
<1> QED BY <1>2, <1>9, <1>10 DEF E

(* The next access of a reading by cells selects a row or a column or      *)
(* reads the cell expected next.                                           *)
LEMMA NextCellRead ==
  ASSUME NEW j \in AllJobs, Len(j.weights) <= MAX_C, j.how = "cells",
         NEW place \in Nat, NEW answers, NEW row, NEW col,
         Standing(j, place, answers, row, col), NEW Q, Q = reading(j)
  PROVE  /\ place < Len(Q) =>
              \/ SetsRow(j, Q[place + 1], place, answers, col)
              \/ SetsColumn(j, Q[place + 1], place, answers, row)
              \/ Reads(j, Q[place + 1], place, answers, row, col)
         /\ place = Len(Q) => DOMAIN Expected(j) = 1 .. answers
<1> DEFINE C == Len(j.weights)
           N == j.N
           L == 1 + N * 2
           E == Expected(j)
<1>1. C \in Nat /\ N \in Nat /\ N # 0 /\ L \in Nat /\ L # 0 BY JobType
<1>2. \/ \E i \in 0 .. C : place = i * L /\ answers = i * N
      \/ \E i \in 0 .. C - 1, x \in 0 .. N - 1 :
           /\ answers = i * N + x /\ row = i
           /\ \/ place = i * L + (2 * x + 1)
              \/ place = i * L + (2 * x + 2) /\ col = x
  BY DEF Standing
<1>3. \A p, q, r, c :
        \/ \E i \in 0 .. C : p = i * L /\ q = i * N
        \/ \E i \in 0 .. C - 1, x \in 0 .. N - 1 :
             /\ q = i * N + x /\ r = i
             /\ \/ p = i * L + (2 * x + 1)
                \/ p = i * L + (2 * x + 2) /\ c = x
        => Standing(j, p, q, r, c)
  BY DEF Standing
<1>4. Q = read_matrix(N, C, TRUE) BY DEF reading
<1>5. L = 1 + N * 2 /\ E = Expected(j) OBVIOUS
<1> HIDE DEF L, E
<1>6. /\ Len(Q) = C * L
      /\ \A i \in 0 .. C - 1 :
           /\ Q[i * L + 1] = W(At("CELL_ROW"), i)
           /\ \A x \in 0 .. N - 1 : /\ Q[i * L + (2 * x + 2)] = W(At("CELL_COL"), x)
                                    /\ Q[i * L + (2 * x + 3)] = R(At("CELL"))
  <2> HIDE DEF N, C
  <2>1. IsCells(Q, N, C, L) BY <1>1, <1>4, <1>5, CellsAre
  <2> QED BY <2>1 DEF IsCells
<1>7. /\ DOMAIN E = 1 .. C * N
      /\ \A i \in 0 .. C - 1, x \in 0 .. N - 1 : E[i * N + (x + 1)] = Bit(j, i, x)
  <2>1. C = Len(j.weights) /\ N = j.N OBVIOUS
  <2> HIDE DEF C, N
  <2>2. DOMAIN E = 1 .. C * N BY <1>5, <2>1, ExpectedCells
  <2>3. \A i \in 0 .. C - 1, x \in 0 .. N - 1 : E[i * N + (x + 1)] = Bit(j, i, x)
    BY <1>5, <2>1, ExpectedCells
  <2> QED BY <2>2, <2>3
<1> HIDE DEF C, N
<1>8. CASE \E i \in 0 .. C : place = i * L /\ answers = i * N
  <2>1. PICK i \in 0 .. C : place = i * L /\ answers = i * N BY <1>8
  <2>2. i \in Nat OBVIOUS
  <2>3. ASSUME place < Len(Q) PROVE SetsRow(j, Q[place + 1], place, answers, col)
    <3>1. i < C
      <4>1. i >= C => i * L >= C * L BY <1>1, <2>2, Product
      <4>2. i * L \in Nat /\ C * L \in Nat BY <1>1, <2>2, Product
      <4> QED BY <1>1, <1>6, <2>1, <2>2, <2>3, <4>1, <4>2
    <3>2. i \in 0 .. C - 1 /\ 0 \in 0 .. N - 1 BY <1>1, <3>1
    <3>3. Q[place + 1] = W(At("CELL_ROW"), i) BY <1>6, <2>1, <3>2
    <3>4. place + 1 = i * L + (2 * 0 + 1) /\ answers = i * N + 0
      <4>1. i * N \in Nat /\ i * L \in Nat BY <1>1, <2>2, Product
      <4> QED BY <2>1, <4>1
    <3>5. Standing(j, place + 1, answers, i, col) BY <1>3, <3>2, <3>4
    <3> QED BY <3>2, <3>3, <3>5 DEF SetsRow, C
  <2>4. ASSUME place = Len(Q) PROVE DOMAIN E = 1 .. answers
    <3>1. i = C
      <4> SUFFICES ASSUME i < C PROVE FALSE BY <1>1
      <4>1. i * L + L <= C * L /\ i * L \in Nat /\ C * L \in Nat BY <1>1, <2>2, Product
      <4>2. i * L = C * L BY <1>6, <2>1, <2>4
      <4> DEFINE y == C * L
      <4>3. y + L <= y /\ y \in Nat BY <4>1, <4>2
      <4> HIDE DEF y
      <4> QED BY <1>1, <4>3
    <3> QED BY <1>7, <2>1, <3>1
  <2> QED BY <2>3, <2>4 DEF E
<1>9. CASE \E i \in 0 .. C - 1, x \in 0 .. N - 1 :
             /\ answers = i * N + x /\ row = i
             /\ \/ place = i * L + (2 * x + 1)
                \/ place = i * L + (2 * x + 2) /\ col = x
  <2>1. PICK i \in 0 .. C - 1, x \in 0 .. N - 1 :
          /\ answers = i * N + x /\ row = i
          /\ \/ place = i * L + (2 * x + 1)
             \/ place = i * L + (2 * x + 2) /\ col = x
    BY <1>9
  <2>2. i \in Nat /\ i < C /\ x \in Nat /\ x < N BY <1>1
  <2>3. /\ i * L \in Nat /\ C * L \in Nat /\ (i + 1) * L = i * L + L
        /\ i * L + L <= C * L
    BY <1>1, <2>2, Product
  <2>4. /\ i * N \in Nat /\ C * N \in Nat /\ (i + 1) * N = i * N + N
        /\ i * N + N <= C * N
    BY <1>1, <2>2, Product
  <2> DEFINE a == i * L
             b == i * N
             y == C * L
             z == C * N
  <2>5. /\ a \in Nat /\ b \in Nat /\ y \in Nat /\ z \in Nat /\ answers = b + x /\ row = i
        /\ (i + 1) * L = a + L /\ (i + 1) * N = b + N
        /\ a + L <= y /\ b + N <= z
        /\ \/ place = a + (2 * x + 1)
           \/ place = a + (2 * x + 2) /\ col = x
    BY <2>1, <2>3, <2>4
  <2>6. /\ Q[a + (2 * x + 2)] = W(At("CELL_COL"), x)
        /\ Q[a + (2 * x + 3)] = R(At("CELL"))
        /\ E[b + (x + 1)] = Bit(j, i, x) /\ Len(Q) = y /\ DOMAIN E = 1 .. z
    BY <1>6, <1>7
  <2>7. \A p, q, r, c :
          \/ \E e \in 0 .. C : p = e * L /\ q = e * N
          \/ /\ q = b + x /\ r = i
             /\ \/ p = a + (2 * x + 1)
                \/ p = a + (2 * x + 2) /\ c = x
          \/ \E t \in 0 .. N - 1 : q = b + t /\ r = i /\ p = a + (2 * t + 1)
          => Standing(j, p, q, r, c)
    BY <1>3, <2>1
  <2> HIDE DEF a, b, y, z
  <2>8. place < y /\ answers \in Nat /\ answers + 1 \in 1 .. z
    BY <1>1, <1>5, <2>2, <2>5
  <2>9. CASE place = a + (2 * x + 1)
    <3>1. place + 1 = a + (2 * x + 2) BY <2>2, <2>5, <2>9
    <3>2. Standing(j, place + 1, answers, row, x) BY <2>5, <2>7, <3>1
    <3>3. SetsColumn(j, Q[place + 1], place, answers, row)
      BY <2>1, <2>6, <3>1, <3>2 DEF SetsColumn, N
    <3> QED BY <2>6, <2>8, <3>3
  <2>10. CASE place = a + (2 * x + 2) /\ col = x
    <3>1. place + 1 = a + (2 * x + 3) /\ answers + 1 = b + (x + 1) BY <2>2, <2>5, <2>10
    <3>2. Standing(j, place + 1, answers + 1, row, col)
      <4>1. CASE x + 1 < N
        <5>1. x + 1 \in 0 .. N - 1 /\ place + 1 = a + (2 * (x + 1) + 1)
          BY <1>1, <2>2, <2>5, <2>10, <4>1
        <5> QED BY <2>5, <2>7, <3>1, <5>1
      <4>2. CASE ~(x + 1 < N)
        <5>1. x + 1 = N BY <1>1, <2>2, <4>2
        <5>2. place + 1 = a + L /\ answers + 1 = b + N
          BY <1>1, <1>5, <2>2, <2>5, <2>10, <5>1
        <5>3. i + 1 \in 0 .. C BY <1>1, <2>2
        <5>4. place + 1 = (i + 1) * L /\ answers + 1 = (i + 1) * N BY <2>5, <5>2
        <5> QED BY <2>7, <5>3, <5>4
      <4> QED BY <4>1, <4>2
    <3>3. Q[place + 1] = R(At("CELL")) /\ E[answers + 1] = Bit(j, row, col)
      BY <2>5, <2>6, <2>10, <3>1
    <3>4. row \in 0 .. C - 1 /\ col \in 0 .. N - 1 /\ answers + 1 \in DOMAIN E
      BY <2>1, <2>5, <2>6, <2>8, <2>10
    <3>5. Reads(j, Q[place + 1], place, answers, row, col)
      BY <2>8, <3>2, <3>3, <3>4 DEF Reads, E, N, C
    <3> QED BY <2>6, <2>8, <3>5
  <2> QED BY <2>5, <2>9, <2>10
<1> QED BY <1>2, <1>8, <1>9 DEF E

(* In all three ways the next access selects what is read next or reads    *)
(* it.                                                                     *)
LEMMA NextOfReading ==
  ASSUME NEW j \in AllJobs, Len(j.weights) <= MAX_C,
         NEW place \in Nat, NEW answers, NEW row, NEW col,
         Standing(j, place, answers, row, col), NEW Q, Q = reading(j)
  PROVE  /\ place < Len(Q) =>
              \/ SetsRow(j, Q[place + 1], place, answers, col)
              \/ SetsColumn(j, Q[place + 1], place, answers, row)
              \/ Reads(j, Q[place + 1], place, answers, row, col)
         /\ place = Len(Q) => DOMAIN Expected(j) = 1 .. answers
<1>1. j.how \in {"offsets", "cells", "columns"} BY JobType DEF Hows
<1>2. CASE j.how = "offsets" BY <1>2, NextOffsetRead
<1>3. CASE j.how = "cells" BY <1>3, NextCellRead
<1>4. CASE j.how = "columns" BY <1>4, NextColumnRead
<1> QED BY <1>1, <1>2, <1>3, <1>4

\* What there is to know of the access that a step makes.
LEMMA StepFacts ==
  ASSUME SessionInv, ContractInv, Step
  PROVE  /\ job # Idle /\ job \in AllJobs /\ Len(job.weights) <= MAX_C /\ job' = job
         /\ progress \in Nat /\ progress + 1 \in 1 .. Len(accesses(job))
         /\ Head(plan) = accesses(job)[progress + 1]
         /\ plan' = Tail(plan) =>
              /\ progress' = progress + 1
              /\ \A k \in 1 .. Len(plan') : plan'[k] = accesses(job')[progress' + k]
         /\ plan' = plan =>
              /\ progress' = progress
              /\ \A k \in 1 .. Len(plan') : plan'[k] = accesses(job')[progress' + k]
<1>1. plan # <<>> /\ plan \in Seq(Moves) /\ job' = job BY DEF Step, ContractInv
<1>2. job # Idle BY <1>1 DEF SessionInv
<1>3. /\ job \in AllJobs /\ Len(job.weights) <= MAX_C /\ progress \in Nat
      /\ \A k \in 1 .. Len(plan) : plan[k] = accesses(job)[progress + k]
  BY <1>2 DEF SessionInv, JobInv
<1> DEFINE P == accesses(job)
<1>4. P \in Seq(Moves) BY <1>3, JobAccesses DEF IsAccesses
<1>5. progress = Len(P) - Len(plan) /\ progress' = Len(P) - Len(plan')
  BY <1>1 DEF progress
<1>6. Head(plan) = plan[1] /\ Len(plan) \in Nat \ {0} /\ Len(P) \in Nat
      /\ Tail(plan) \in Seq(Moves) /\ Len(Tail(plan)) = Len(plan) - 1
      /\ \A k \in 1 .. Len(plan) - 1 : Tail(plan)[k] = plan[k + 1]
  BY <1>1, <1>4, HeadTailProperties
<1>7. accesses(job') = P BY <1>1
<1> DEFINE m == progress
<1>8. m \in Nat /\ m = Len(P) - Len(plan) BY <1>3, <1>5
<1>9. \A k \in 1 .. Len(plan) : plan[k] = P[m + k] BY <1>3
<1>10. m' = Len(P) - Len(plan') BY <1>5
<1> HIDE DEF m, P
<1>11. m + 1 \in 1 .. Len(P) BY <1>6, <1>8
<1>12. Head(plan) = P[m + 1] BY <1>6, <1>9
<1>13. ASSUME plan' = Tail(plan)
       PROVE  m' = m + 1 /\ \A k \in 1 .. Len(plan') : plan'[k] = P[m' + k]
  <2>1. m' = m + 1 BY <1>6, <1>8, <1>10, <1>13
  <2>2. ASSUME NEW k \in 1 .. Len(plan') PROVE plan'[k] = P[m' + k]
    <3>1. k \in 1 .. Len(plan) - 1 /\ k + 1 \in 1 .. Len(plan) BY <1>6, <1>13
    <3>2. plan'[k] = plan[k + 1] BY <1>6, <1>13, <3>1
    <3>3. plan[k + 1] = P[m + (k + 1)] BY <1>9, <3>1
    <3>4. m + (k + 1) = m' + k BY <1>8, <2>1, <3>1
    <3> QED BY <3>2, <3>3, <3>4
  <2> QED BY <2>1, <2>2
<1>14. ASSUME plan' = plan
       PROVE  m' = m /\ \A k \in 1 .. Len(plan') : plan'[k] = P[m' + k]
  <2>1. m' = m BY <1>8, <1>10, <1>14
  <2> QED BY <1>9, <1>14, <2>1
<1> QED BY <1>1, <1>2, <1>3, <1>7, <1>11, <1>12, <1>13, <1>14 DEF m, P

\* A write of a client, with nothing running.
LEMMA ClientWrites ==
  ASSUME DeviceInv(dev), ~dev.busy, polled \in Nat, Step, NEW addr, NEW data,
         Head(plan) = W(addr, data), Fits(addr, data), Admitted(dev, addr, data),
         ~(addr.reg = "CTRL" /\ data.start /\ ~start_legal(dev))
  PROVE  /\ Changes(dev, dev', addr, data) /\ resp'.kind = "ack"
         /\ plan' = Tail(plan) /\ got' = got /\ polled' = polled
<1>1. advance(dev) = dev BY DEF advance
<1> DEFINE a == Head(plan)
<1>2. a.op = "write" /\ a.addr = addr /\ a.data = data BY DEF W
<1>3. /\ IF a.op = "write" THEN Write(a.addr, a.data, TRUE) ELSE Read(a.addr, TRUE)
      /\ plan' = IF resp'.kind # "ack" THEN <<>>
                 ELSE IF a.op = "poll" /\ ~resp'.data.valid THEN plan ELSE Tail(plan)
      /\ got' = IF a.op = "read" /\ resp'.kind = "ack" /\ a.addr.reg \in Matrix
                THEN Append(got, resp'.data) ELSE got
      /\ polled' = polled + (IF a.op = "poll" THEN 1 ELSE 0)
      /\ plan # <<>>
  BY DEF Step
<1> HIDE DEF a
<1>4. Write(addr, data, TRUE) BY <1>2, <1>3
<1>5. TRUE \in BOOLEAN OBVIOUS
<1>6. dev \in Device BY DEF DeviceInv
<1>7. write_refusal(dev, addr, data, TRUE) = "none" BY <1>5, <1>6, WriteAdmitted
<1>8. /\ write_refusal(advance(dev), addr, data, TRUE) = "none" =>
             dev' = written(advance(dev), addr, data)
      /\ resp'.kind = "ack" <=>
             /\ write_refusal(advance(dev), addr, data, TRUE) = "none"
             /\ ~(addr.reg = "CTRL" /\ data.start /\ ~start_legal(advance(dev)))
  BY <1>4, <1>5, WriteOutcome
<1>9. dev' = written(dev, addr, data) /\ resp'.kind = "ack" BY <1>1, <1>7, <1>8
<1>10. Changes(dev, dev', addr, data) BY <1>9, WrittenEffect
<1>11. polled' = polled
  <2>1. polled' = polled + 0 BY <1>2, <1>3
  <2> QED BY <2>1
<1> QED BY <1>2, <1>3, <1>9, <1>10, <1>11

\* A read of a client, with nothing running.
LEMMA ClientReads ==
  ASSUME DeviceInv(dev), ~dev.busy, polled \in Nat, Step, NEW addr \in Addresses,
         Head(plan) = R(addr), addr.reg \notin {"HOLE", "ODD"},
         addr.reg \in {"WEIGHT", "OFFSET"} => addr.i < MAX_C,
         addr.reg = "COLUMN" => addr.i < column_words,
         addr.reg \in Matrix => dev.valid,
         ~read_raises(dev, addr)
  PROVE  /\ dev' = dev /\ resp'.kind = "ack"
         /\ plan' = Tail(plan) /\ polled' = polled
         /\ got' = IF addr.reg \in Matrix THEN Append(got, read_value(dev, addr)) ELSE got
<1>1. advance(dev) = dev BY DEF advance
<1> DEFINE a == Head(plan)
<1>2. a.op = "read" /\ a.addr = addr BY DEF R
<1>3. /\ IF a.op = "write" THEN Write(a.addr, a.data, TRUE) ELSE Read(a.addr, TRUE)
      /\ plan' = IF resp'.kind # "ack" THEN <<>>
                 ELSE IF a.op = "poll" /\ ~resp'.data.valid THEN plan ELSE Tail(plan)
      /\ got' = IF a.op = "read" /\ resp'.kind = "ack" /\ a.addr.reg \in Matrix
                THEN Append(got, resp'.data) ELSE got
      /\ polled' = polled + (IF a.op = "poll" THEN 1 ELSE 0)
  BY DEF Step
<1> HIDE DEF a
<1>4. Read(addr, TRUE) BY <1>2, <1>3
<1>5. TRUE \in BOOLEAN /\ addr \in [reg : Registers, i : Nat] /\ dev \in Device
  BY DEF Addresses, DeviceInv
<1>6. read_refusal(dev, addr, TRUE) = "none" BY <1>5, ReadAdmitted
<1>7. /\ dev' = advance(dev)
      /\ resp'.kind = "ack" <=>
           read_refusal(dev', addr, TRUE) = "none" /\ ~read_raises(dev', addr)
      /\ resp'.kind = "ack" => resp' = Answer(addr, read_value(dev', addr))
  BY <1>4, <1>5, ReadOutcome
<1>8. dev' = dev /\ resp'.kind = "ack" BY <1>1, <1>6, <1>7
<1>9. resp'.data = read_value(dev, addr) BY <1>7, <1>8 DEF Answer
<1>10. polled' = polled
  <2>1. polled' = polled + 0 BY <1>2, <1>3
  <2> QED BY <2>1
<1> QED BY <1>2, <1>3, <1>8, <1>9, <1>10

\* The poll: an access of the transform goes by, or it is done.
LEMMA ClientPolls ==
  ASSUME DeviceInv(dev), dev.busy, polled \in Nat, Step, Head(plan) = Poll
  PROVE  /\ resp'.kind = "ack" /\ got' = got /\ polled' = polled + 1
         /\ SameContext(dev', dev) /\ dev'.latency = dev.latency
         /\ \/ dev'.busy /\ ~dev'.valid /\ dev.remaining # 0
               /\ dev'.remaining = dev.remaining - 1 /\ plan' = plan
            \/ dev'.valid /\ dev.remaining = 0 /\ plan' = Tail(plan)
<1> DEFINE a == Head(plan)
           addr == At("STATUS")
<1>1. a.op = "poll" /\ a.addr = addr BY DEF Poll
<1>2. /\ IF a.op = "write" THEN Write(a.addr, a.data, TRUE) ELSE Read(a.addr, TRUE)
      /\ plan' = IF resp'.kind # "ack" THEN <<>>
                 ELSE IF a.op = "poll" /\ ~resp'.data.valid THEN plan ELSE Tail(plan)
      /\ got' = IF a.op = "read" /\ resp'.kind = "ack" /\ a.addr.reg \in Matrix
                THEN Append(got, resp'.data) ELSE got
      /\ polled' = polled + (IF a.op = "poll" THEN 1 ELSE 0)
  BY DEF Step
<1>3. addr \in [reg : Registers, i : Nat] /\ addr.reg = "STATUS" /\ TRUE \in BOOLEAN
  BY AddressType DEF Registers, Addresses
<1> HIDE DEF a, addr
<1>4. Read(addr, TRUE) BY <1>1, <1>2
<1>5. /\ dev' = advance(dev)
      /\ resp'.kind = "ack" <=>
           read_refusal(dev', addr, TRUE) = "none" /\ ~read_raises(dev', addr)
      /\ resp'.kind = "ack" => resp' = Answer(addr, read_value(dev', addr))
  BY <1>3, <1>4, ReadOutcome
<1>6. /\ DeviceInv(dev') /\ SameContext(dev', dev) /\ dev'.latency = dev.latency
      /\ \/ dev'.busy /\ dev.remaining # 0 /\ dev'.remaining = dev.remaining - 1
         \/ ~dev'.busy /\ dev'.valid /\ dev.remaining = 0
  BY <1>5, AdvanceEffect
<1>7. read_refusal(dev', addr, TRUE) = "none"
  <2>1. dev' \in Device BY <1>6 DEF DeviceInv
  <2> QED BY <1>3, <2>1, ReadAdmitted DEF Matrix
<1>8. ~read_raises(dev', addr) BY <1>3 DEF read_raises
<1>9. resp'.kind = "ack" BY <1>5, <1>7, <1>8
<1>10. resp'.data.valid = dev'.valid BY <1>3, <1>5, <1>9 DEF Answer, read_value
<1>11. dev'.busy => ~dev'.valid BY <1>6 DEF DeviceInv
<1>12. got' = got /\ polled' = polled + 1 BY <1>1, <1>2
<1>13. plan' = IF ~dev'.valid THEN plan ELSE Tail(plan) BY <1>1, <1>2, <1>9, <1>10
<1> QED BY <1>6, <1>9, <1>11, <1>12, <1>13

\* What a step of a job has to leave.
StepKeeps ==
  /\ polled' \in 0 .. dev'.latency + 1 /\ resp'.kind = "ack"
  /\ plan' = Tail(plan) \/ plan' = plan
  /\ ProgramInv' /\ ReadingInv'
  /\ got' \in Seq({Expected(job)[x] : x \in DOMAIN Expected(job)})
  /\ \A x \in 1 .. Len(got') : got'[x] = Expected(job)[x]

\* While the context is written, nothing runs and nothing has been read.
LEMMA ProgramSteps ==
  ASSUME SessionInv, ContractInv, Step, NEW C, C = Len(job.weights), progress < C + 5
  PROVE  StepKeeps
<1> DEFINE P == accesses(job)
           N == job.N
           w == job.weights
           Answers == {Expected(job)[x] : x \in DOMAIN Expected(job)}
           m == progress
<1>1. /\ job # Idle /\ job \in AllJobs /\ Len(job.weights) <= MAX_C /\ job' = job
      /\ m \in Nat /\ Head(plan) = P[m + 1]
      /\ plan' = Tail(plan) => m' = m + 1
  BY StepFacts
<1>2. /\ C \in Nat /\ N \in Val /\ N \in Nat /\ w \in [1 .. C -> 0 .. N]
      /\ w \in [1 .. C -> Nat] /\ C \in 0 .. IdxRange - 1 /\ MAX_C \in Nat
  BY <1>1, JobType, RegsAssumption
<1>3. /\ P[1] = R(At("CONST")) /\ P[2] = R(At("CONST"))
      /\ P[3] = W(At("N"), N) /\ P[4] = W(At("C"), C)
      /\ \A i \in 0 .. C - 1 : P[5 + i] = W(Lane("WEIGHT", i), w[i + 1])
      /\ P[C + 5] = W(At("CTRL"), Command(TRUE, FALSE))
  <2> DEFINE Q == reading(job)
  <2>1. P = accesses(job) /\ Q = reading(job) OBVIOUS
  <2> HIDE DEF P, Q
  <2>2. IsAccesses(P, Q, job, C) BY <1>1, <2>1, JobAccesses
  <2> QED BY <2>2 DEF IsAccesses
<1>4. DeviceInv(dev) /\ dev \in Device /\ dev.latency \in Nat
  BY DEF SessionInv, AccessInv, DeviceInv, Device
<1>5. /\ m >= 3 => dev.n = N
      /\ m >= 4 => dev.c = C
      /\ \A i \in 0 .. C - 1 : m >= 5 + i => dev.weights[i] = w[i + 1]
      /\ m < C + 5 => ~dev.busy /\ polled = 0
      /\ m < C + 6 => got = <<>>
  BY <1>1 DEF SessionInv, JobInv, ProgramInv
<1> HIDE DEF m, P
<1>6. m < C + 5 /\ ~dev.busy /\ polled = 0 /\ polled \in Nat /\ got = <<>>
  BY <1>1, <1>2, <1>5 DEF m
<1>7. ProgramInv' <=>
        /\ m' >= 3 => dev'.n = N
        /\ m' >= 4 => dev'.c = C
        /\ \A i \in 0 .. C - 1 : m' >= 5 + i => dev'.weights[i] = w[i + 1]
        /\ m' < C + 5 => ~dev'.busy /\ polled' = 0
        /\ m' = C + 5 => dev'.busy /\ ~dev'.valid /\ polled' + dev'.remaining = dev'.latency
        /\ m' >= C + 6 => dev'.valid
        /\ m' < C + 6 => got' = <<>>
  BY <1>1 DEF ProgramInv, m
<1>8. ReadingInv' <=>
        (m' >= C + 6 => Standing(job, m' - (C + 6), Len(got'), dev'.cell_row, dev'.cell_col))
  BY <1>1 DEF ReadingInv, m
<1> HIDE DEF N, w
<1>9. ASSUME plan' = Tail(plan), resp'.kind = "ack", got' = got, polled' = polled,
             dev'.latency = dev.latency, m' = m + 1 => ProgramInv'
      PROVE  StepKeeps
  <2>1. m' = m + 1 BY <1>1, <1>9
  <2>2. ~(m' >= C + 6) BY <1>1, <1>2, <1>6, <2>1
  <2>5. ReadingInv' BY <1>8, <2>2
  <2>3. got' = <<>> /\ got' \in Seq(Answers) /\ Len(got') = 0 BY <1>6, <1>9
  <2>4. polled' \in 0 .. dev'.latency + 1 BY <1>4, <1>6, <1>9
  <2> QED BY <1>9, <2>1, <2>3, <2>4, <2>5 DEF StepKeeps
<1>10. CASE m \in {0, 1}
  <2>1. Head(plan) = R(At("CONST")) BY <1>1, <1>3, <1>10
  <2> DEFINE addr == At("CONST")
  <2>2. addr \in Addresses /\ addr.reg = "CONST" BY AddressType DEF Registers
  <2> HIDE DEF addr
  <2>3. ~read_raises(dev, addr) BY <2>2 DEF read_raises
  <2>4. dev' = dev /\ resp'.kind = "ack" /\ plan' = Tail(plan) /\ polled' = polled /\ got' = got
    BY <1>4, <1>6, <2>1, <2>2, <2>3, ClientReads DEF Matrix, addr
  <2>5. m' = m + 1 => ProgramInv'
    BY <1>2, <1>5, <1>6, <1>7, <1>10, <2>4
  <2> QED BY <1>9, <2>4, <2>5
<1>11. ASSUME NEW addr \in Addresses, NEW data \in Nat, Head(plan) = W(addr, data),
              addr.reg \in Context, addr.reg = "WEIGHT" => addr.i < MAX_C
       PROVE  /\ Changes(dev, dev', addr, data) /\ resp'.kind = "ack"
              /\ plan' = Tail(plan) /\ got' = got /\ polled' = polled
              /\ dev'.latency = dev.latency /\ ~dev'.busy
  <2>1. addr.reg \in {"N", "C", "WEIGHT"} BY <1>11 DEF Context
  <2>2. Fits(addr, data) BY <2>1 DEF Fits, Addresses
  <2>3. Admitted(dev, addr, data) BY <1>6, <1>11, <2>1 DEF Admitted
  <2>4. addr.reg # "CTRL" BY <2>1
  <2>5. /\ Changes(dev, dev', addr, data) /\ resp'.kind = "ack"
        /\ plan' = Tail(plan) /\ got' = got /\ polled' = polled
    BY <1>4, <1>6, <1>11, <2>2, <2>3, <2>4, ClientWrites
  <2> QED BY <1>11, <2>5 DEF Changes
<1>12. CASE m = 2
  <2> DEFINE addr == At("N")
  <2>1. Head(plan) = W(addr, N) BY <1>1, <1>3, <1>12
  <2>2. addr \in Addresses /\ addr.reg = "N" BY AddressType DEF Registers
  <2> HIDE DEF addr
  <2>3. /\ Changes(dev, dev', addr, N) /\ resp'.kind = "ack"
        /\ plan' = Tail(plan) /\ got' = got /\ polled' = polled
        /\ dev'.latency = dev.latency /\ ~dev'.busy
    BY <1>2, <1>11, <2>1, <2>2 DEF Context
  <2>4. dev'.n = N
    <3>1. dev'.n = field(N, ValRange) BY <2>2, <2>3 DEF Changes
    <3> QED BY <1>2, <3>1, FieldType
  <2>5. m' = m + 1 => ProgramInv' BY <1>2, <1>6, <1>7, <1>12, <2>3, <2>4
  <2> QED BY <1>9, <2>3, <2>5
<1>13. CASE m = 3
  <2> DEFINE addr == At("C")
  <2>1. Head(plan) = W(addr, C) BY <1>1, <1>3, <1>13
  <2>2. addr \in Addresses /\ addr.reg = "C" BY AddressType DEF Registers
  <2> HIDE DEF addr
  <2>3. /\ Changes(dev, dev', addr, C) /\ resp'.kind = "ack"
        /\ plan' = Tail(plan) /\ got' = got /\ polled' = polled
        /\ dev'.latency = dev.latency /\ ~dev'.busy
    BY <1>2, <1>11, <2>1, <2>2 DEF Context
  <2>4. dev'.c = C /\ dev'.n = dev.n
    <3>1. dev'.c = field(C, IdxRange) /\ dev'.n = dev.n BY <2>2, <2>3 DEF Changes
    <3> QED BY <1>2, <3>1, FieldType
  <2>5. m' = m + 1 => ProgramInv' BY <1>2, <1>5, <1>6, <1>7, <1>13, <2>3, <2>4
  <2> QED BY <1>9, <2>3, <2>5
<1>14. CASE m >= 4 /\ m < C + 4
  <2> DEFINE k == m - 4
             addr == Lane("WEIGHT", k)
             data == w[k + 1]
  <2>1. k \in 0 .. C - 1 /\ m = k + 4 /\ m + 1 = 5 + k /\ k \in Nat BY <1>1, <1>2, <1>14
  <2> HIDE DEF k
  <2>2. Head(plan) = W(addr, data) BY <1>1, <1>3, <2>1
  <2>3. k + 1 \in 1 .. C /\ data \in 0 .. N /\ data \in Val
    <3>1. k + 1 \in 1 .. C BY <1>2, <2>1
    <3>2. data \in 0 .. N BY <1>2, <3>1
    <3> QED BY <1>2, <3>1, <3>2, ValRangeAssumption DEF Val
  <2>4. addr \in Addresses /\ addr.reg = "WEIGHT" /\ addr.i = k
    BY <2>1, AddressType DEF Registers
  <2>5. k < MAX_C /\ data \in Nat BY <1>1, <1>2, <2>1, <2>3
  <2> HIDE DEF addr, data
  <2>6. /\ Changes(dev, dev', addr, data) /\ resp'.kind = "ack"
        /\ plan' = Tail(plan) /\ got' = got /\ polled' = polled
        /\ dev'.latency = dev.latency /\ ~dev'.busy
    BY <1>11, <2>2, <2>4, <2>5 DEF Context
  <2>7. /\ dev'.n = dev.n /\ dev'.c = dev.c /\ k \in Rows
        /\ dev'.weights = [dev.weights EXCEPT ![k] = data]
    <3>1. field(data, ValRange) = data BY <2>3, <2>5, FieldType
    <3> QED BY <2>4, <2>6, <3>1 DEF Changes
  <2>8. dev.weights \in Window BY <1>4 DEF Device
  <2>9. ASSUME NEW i \in 0 .. C - 1, m + 1 >= 5 + i PROVE dev'.weights[i] = w[i + 1]
    <3>1. CASE i = k BY <2>7, <2>8, <3>1 DEF Window, data
    <3>2. CASE i # k
      <4>1. m >= 5 + i /\ i \in Rows BY <1>1, <1>2, <2>1, <2>9, <3>2 DEF Rows
      <4>2. dev.weights[i] = w[i + 1] BY <1>5, <4>1
      <4>3. dev'.weights[i] = dev.weights[i] BY <2>7, <2>8, <3>2, <4>1 DEF Window
      <4> QED BY <4>2, <4>3
    <3> QED BY <3>1, <3>2
  <2>10. ASSUME m' = m + 1 PROVE ProgramInv'
    <3>1. m' < C + 5 /\ m' >= 5 /\ m' \in Nat BY <1>1, <1>2, <1>14, <2>10
    <3>6. m >= 3 /\ m >= 4 BY <1>1, <1>14
    <3>2. dev'.n = N /\ dev'.c = C BY <1>5, <2>7, <3>6
    <3>3. \A i \in 0 .. C - 1 : m' >= 5 + i => dev'.weights[i] = w[i + 1]
      BY <2>9, <2>10
    <3>4. ~dev'.busy /\ polled' = 0 /\ got' = <<>> BY <1>6, <2>6
    <3>5. m' # C + 5 /\ ~(m' >= C + 6) BY <1>2, <3>1
    <3> QED BY <1>7, <3>2, <3>3, <3>4, <3>5
  <2> QED BY <1>9, <2>6, <2>10
<1>15. CASE m = C + 4
  <2> DEFINE addr == At("CTRL")
             data == Command(TRUE, FALSE)
  <2>1. Head(plan) = W(addr, data)
    <3>1. m + 1 = C + 5 BY <1>2, <1>15
    <3> QED BY <1>1, <1>3, <3>1
  <2>2. /\ addr \in Addresses /\ addr.reg = "CTRL"
        /\ data.start = TRUE /\ data \in [start : BOOLEAN, irq_en : BOOLEAN]
    BY AddressType DEF Registers, Command
  <2>3. Programmed(dev, job)
    <3>1. ASSUME NEW i \in 0 .. C - 1 PROVE dev.weights[i] = w[i + 1]
      <4>1. m >= 5 + i BY <1>2, <1>15
      <4> QED BY <1>5, <4>1
    <3>2. m >= 3 /\ m >= 4 BY <1>2, <1>15
    <3>3. dev.n = N /\ dev.c = C BY <1>5, <3>2
    <3> QED BY <3>1, <3>3 DEF Programmed, N, w
  <2>4. start_legal(dev) BY <1>1, <1>4, <2>3, ProgrammedIsLegal
  <2> HIDE DEF addr, data
  <2>5. Fits(addr, data) BY <2>2 DEF Fits, Addresses
  <2>6. Admitted(dev, addr, data) BY <1>6, <2>2 DEF Admitted, Context
  <2>7. /\ Changes(dev, dev', addr, data) /\ resp'.kind = "ack"
        /\ plan' = Tail(plan) /\ got' = got /\ polled' = polled
    BY <1>4, <1>6, <2>1, <2>2, <2>4, <2>5, <2>6, ClientWrites
  <2>8. /\ SameContext(dev', dev) /\ dev'.latency = dev.latency
        /\ dev'.busy /\ ~dev'.valid /\ dev'.remaining = dev'.latency
    BY <2>2, <2>4, <2>7 DEF Changes, Context
  <2>9. m' = m + 1 => ProgramInv'
    <3>1. dev'.n = N /\ dev'.c = C /\ \A i \in 0 .. C - 1 : dev'.weights[i] = w[i + 1]
      BY <2>3, <2>8 DEF Programmed, SameContext, N, w
    <3>2. polled' + dev'.remaining = dev'.latency BY <1>4, <1>6, <2>7, <2>8
    <3>3. ASSUME m' = m + 1 PROVE m' = C + 5 /\ ~(m' < C + 5) /\ ~(m' >= C + 6)
      BY <1>2, <1>15, <3>3
    <3>4. got' = <<>> BY <1>6, <2>7
    <3> QED BY <1>7, <2>8, <3>1, <3>2, <3>3, <3>4
  <2> QED BY <1>9, <2>7, <2>8, <2>9
<1>16. m \in {0, 1} \/ m = 2 \/ m = 3 \/ (m >= 4 /\ m < C + 4) \/ m = C + 4
  BY <1>1, <1>2, <1>6
<1> QED BY <1>10, <1>12, <1>13, <1>14, <1>15, <1>16

(* A reading begins at its first access, with no answers.                  *)
LEMMA StandingStart ==
  ASSUME NEW j \in AllJobs, Len(j.weights) <= MAX_C, NEW row, NEW col
  PROVE  Standing(j, 0, 0, row, col)
<1> DEFINE C == Len(j.weights)
           n == words_of(C)
           N == j.N
<1>1. C \in Nat /\ n \in Nat /\ N \in Nat BY JobType, WordsFit
<1> HIDE DEF C, n, N
<1>2. /\ 0 \in 0 .. N /\ 0 \in 0 .. C
      /\ 0 = 0 * (1 + n) /\ 0 = 0 * n /\ 0 = 0 * (1 + N * 2) /\ 0 = 0 * N
  BY <1>1
<1> QED BY <1>2 DEF Standing, C, n, N

\* While the transform runs, every poll sees one of its accesses go by; the one
\* that finds it done is the last.
LEMMA PollSteps ==
  ASSUME SessionInv, ContractInv, Step, NEW C, C = Len(job.weights), progress = C + 5
  PROVE  StepKeeps
<1> DEFINE P == accesses(job)
           N == job.N
           w == job.weights
           Answers == {Expected(job)[x] : x \in DOMAIN Expected(job)}
           m == progress
<1>1. /\ job # Idle /\ job \in AllJobs /\ Len(job.weights) <= MAX_C /\ job' = job
      /\ m \in Nat /\ Head(plan) = P[m + 1]
      /\ plan' = Tail(plan) => m' = m + 1
      /\ plan' = plan => m' = m
  BY StepFacts
<1>2. C \in Nat BY <1>1, JobType
<1>3. P[C + 6] = Poll
  <2> DEFINE Q == reading(job)
  <2>1. P = accesses(job) /\ Q = reading(job) OBVIOUS
  <2> HIDE DEF P, Q
  <2>2. IsAccesses(P, Q, job, C) BY <1>1, <2>1, JobAccesses
  <2> QED BY <2>2 DEF IsAccesses
<1>4. DeviceInv(dev) /\ dev.latency \in Nat /\ dev.remaining \in Nat /\ polled \in Nat
  BY DEF SessionInv, AccessInv, DeviceInv, Device
<1>5. /\ m >= 3 => dev.n = N
      /\ m >= 4 => dev.c = C
      /\ \A i \in 0 .. C - 1 : m >= 5 + i => dev.weights[i] = w[i + 1]
      /\ m = C + 5 => dev.busy /\ ~dev.valid /\ polled + dev.remaining = dev.latency
      /\ m < C + 6 => got = <<>>
  BY <1>1 DEF SessionInv, JobInv, ProgramInv
<1> HIDE DEF m, P
<1>6. m = C + 5 /\ m >= 3 /\ m >= 4 /\ m < C + 6 /\ m + 1 = C + 6 BY <1>2 DEF m
<1>7. dev.busy /\ polled + dev.remaining = dev.latency /\ got = <<>> BY <1>5, <1>6
<1>8. ProgramInv' <=>
        /\ m' >= 3 => dev'.n = N
        /\ m' >= 4 => dev'.c = C
        /\ \A i \in 0 .. C - 1 : m' >= 5 + i => dev'.weights[i] = w[i + 1]
        /\ m' < C + 5 => ~dev'.busy /\ polled' = 0
        /\ m' = C + 5 => dev'.busy /\ ~dev'.valid /\ polled' + dev'.remaining = dev'.latency
        /\ m' >= C + 6 => dev'.valid
        /\ m' < C + 6 => got' = <<>>
  BY <1>1 DEF ProgramInv, m
<1>9. ReadingInv' <=>
        (m' >= C + 6 => Standing(job, m' - (C + 6), Len(got'), dev'.cell_row, dev'.cell_col))
  BY <1>1 DEF ReadingInv, m
<1> HIDE DEF N, w
<1>10. /\ resp'.kind = "ack" /\ got' = got /\ polled' = polled + 1
       /\ SameContext(dev', dev) /\ dev'.latency = dev.latency
       /\ \/ dev'.busy /\ ~dev'.valid /\ dev.remaining # 0
             /\ dev'.remaining = dev.remaining - 1 /\ plan' = plan
          \/ dev'.valid /\ dev.remaining = 0 /\ plan' = Tail(plan)
  <2>1. Head(plan) = Poll BY <1>1, <1>3, <1>6
  <2> QED BY <1>4, <1>7, <2>1, ClientPolls
<1>11. dev'.n = N /\ dev'.c = C /\ \A i \in 0 .. C - 1 : dev'.weights[i] = w[i + 1]
  <2>1. dev.n = N /\ dev.c = C BY <1>5, <1>6
  <2>2. ASSUME NEW i \in 0 .. C - 1 PROVE dev.weights[i] = w[i + 1]
    <3>1. m >= 5 + i BY <1>2, <1>6
    <3> QED BY <1>5, <3>1
  <2> QED BY <1>10, <2>1, <2>2 DEF SameContext
<1>12. got' = <<>> /\ got' \in Seq(Answers) /\ Len(got') = 0 BY <1>7, <1>10
<1>13. polled' \in 0 .. dev'.latency + 1 BY <1>4, <1>7, <1>10
<1>14. CASE plan' = plan /\ dev'.busy /\ ~dev'.valid /\ dev.remaining # 0
            /\ dev'.remaining = dev.remaining - 1
  <2>1. m' = C + 5 /\ ~(m' < C + 5) /\ ~(m' >= C + 6) BY <1>1, <1>2, <1>6, <1>14
  <2>2. polled' + dev'.remaining = dev'.latency BY <1>4, <1>7, <1>10, <1>14
  <2>3. ProgramInv' BY <1>8, <1>11, <1>12, <1>14, <2>1, <2>2
  <2>4. ReadingInv' BY <1>9, <2>1
  <2> QED BY <1>10, <1>12, <1>13, <1>14, <2>3, <2>4 DEF StepKeeps
<1>15. CASE dev'.valid /\ plan' = Tail(plan)
  <2>1. /\ m' = C + 6 /\ ~(m' < C + 5) /\ ~(m' = C + 5) /\ ~(m' < C + 6)
        /\ m' - (C + 6) = 0
    BY <1>1, <1>2, <1>6, <1>15
  <2>2. ProgramInv' BY <1>8, <1>11, <1>15, <2>1
  <2>3. Standing(job, 0, 0, dev'.cell_row, dev'.cell_col) BY <1>1, StandingStart
  <2>4. ReadingInv' BY <1>9, <1>12, <2>1, <2>3
  <2> QED BY <1>10, <1>12, <1>13, <1>15, <2>2, <2>4 DEF StepKeeps
<1> QED BY <1>10, <1>14, <1>15

\* A matrix that is read where the reading stands answers what is expected.
LEMMA ReadAnswers ==
  ASSUME NEW j \in AllJobs, Len(j.weights) <= MAX_C, DeviceInv(dev), dev.valid,
         Programmed(dev, j), NEW access, NEW place, NEW answers,
         Reads(j, access, place, answers, dev.cell_row, dev.cell_col)
  PROVE  \E addr \in Addresses :
           /\ access = R(addr) /\ addr.reg \in Matrix
           /\ addr.reg \in {"WEIGHT", "OFFSET"} => addr.i < MAX_C
           /\ addr.reg = "COLUMN" => addr.i < column_words
           /\ ~read_raises(dev, addr)
           /\ read_value(dev, addr) = Expected(j)[answers + 1]
<1> DEFINE C == Len(j.weights)
           v == Expected(j)[answers + 1]
           row == dev.cell_row
           col == dev.cell_col
<1>1. /\ C \in Nat /\ 0 .. C - 1 \subseteq Rows
      /\ \A i \in 0 .. C - 1 : dev.offsets[i] = RefOffset(i, j.N, C, RowWeights(j))
      /\ \A r \in Rows : evaluate(dev, r) => r \in 0 .. C - 1
      /\ col < j.N => \A i \in 0 .. C - 1 : evaluate(dev, i) <=> Bit(j, i, col)
  BY ProgrammedAnswers
<1>2. words_of(C) \in Nat /\ words_of(C) <= column_words /\ column_words \in Int
      /\ MAX_C \in Nat /\ j.N \in Nat
  <2>1. MAX_C \in Nat /\ WordLanes \in Nat \ {0} BY RegsAssumption
  <2>2. j.N \in Nat BY JobType
  <2>3. column_words \in Int BY <2>1 DEF column_words
  <2> DEFINE c == C
  <2>4. c \in Nat /\ c <= MAX_C BY <1>1
  <2> HIDE DEF c
  <2>5. words_of(c) \in Nat /\ words_of(c) <= column_words BY <2>4, WordsFit
  <2> QED BY <2>1, <2>2, <2>3, <2>5 DEF c
<1>3. \/ \E i \in 0 .. C - 1 : /\ access = R(Lane("OFFSET", i))
                               /\ v = RefOffset(i, j.N, C, RowWeights(j))
      \/ \E k \in 0 .. words_of(C) - 1 :
           /\ access = R(Lane("COLUMN", k)) /\ col \in 0 .. j.N - 1
           /\ v = BusWord(j, k, col)
      \/ /\ access = R(At("CELL")) /\ row \in 0 .. C - 1 /\ col \in 0 .. j.N - 1
         /\ v = Bit(j, row, col)
  BY DEF Reads
<1>4. \A addr : addr.reg # "CELL" => ~read_raises(dev, addr) BY DEF read_raises
<1>5. BusWord(j, 0, 0) = BusWord(j, 0, 0) /\ C = Len(j.weights) OBVIOUS
<1> HIDE DEF v, C, row, col
<1>6. ASSUME NEW i \in 0 .. C - 1, access = R(Lane("OFFSET", i)),
             v = RefOffset(i, j.N, C, RowWeights(j))
      PROVE  \E addr \in Addresses :
               /\ access = R(addr) /\ addr.reg \in Matrix
               /\ addr.reg \in {"WEIGHT", "OFFSET"} => addr.i < MAX_C
               /\ addr.reg = "COLUMN" => addr.i < column_words
               /\ ~read_raises(dev, addr) /\ read_value(dev, addr) = v
  <2> DEFINE addr == Lane("OFFSET", i)
  <2>1. i \in Nat /\ i < MAX_C BY <1>1, <1>2 DEF Rows
  <2>2. addr \in Addresses /\ addr.reg = "OFFSET" /\ addr.i = i
    BY <2>1, AddressType DEF Registers
  <2> HIDE DEF addr
  <2>3. read_value(dev, addr) = dev.offsets[i] BY <2>2 DEF read_value
  <2>4. read_value(dev, addr) = v BY <1>1, <1>6, <2>3
  <2>5. access = R(addr) BY <1>6 DEF addr
  <2>6. ~read_raises(dev, addr) /\ addr.reg \in Matrix BY <1>4, <2>2 DEF Matrix
  <2> QED BY <2>1, <2>2, <2>4, <2>5, <2>6
<1>7. ASSUME NEW k \in 0 .. words_of(C) - 1, access = R(Lane("COLUMN", k)),
             col \in 0 .. j.N - 1, v = BusWord(j, k, col)
      PROVE  \E addr \in Addresses :
               /\ access = R(addr) /\ addr.reg \in Matrix
               /\ addr.reg \in {"WEIGHT", "OFFSET"} => addr.i < MAX_C
               /\ addr.reg = "COLUMN" => addr.i < column_words
               /\ ~read_raises(dev, addr) /\ read_value(dev, addr) = v
  <2> DEFINE addr == Lane("COLUMN", k)
  <2>1. k \in Nat /\ k < column_words BY <1>2
  <2>2. addr \in Addresses /\ addr.reg = "COLUMN" /\ addr.i = k
    BY <2>1, AddressType DEF Registers
  <2> HIDE DEF addr
  <2>3. read_value(dev, addr) = column_word(dev, k) BY <2>2 DEF read_value
  <2>4. \A i \in 0 .. C - 1 : evaluate(dev, i) <=> Bit(j, i, col)
    <3>1. col < j.N BY <1>2, <1>7
    <3> QED BY <1>1, <3>1
  <2>5. column_word(dev, k) = BusWord(j, k, col)
    <3>1. column_word(dev, k) = {r \in Rows : r \div WordLanes = k /\ evaluate(dev, r)}
      BY DEF column_word
    <3>2. BusWord(j, k, col) = {i \in 0 .. C - 1 : i \div WordLanes = k /\ Bit(j, i, col)}
      BY DEF BusWord, C
    <3>3. ASSUME NEW r PROVE r \in column_word(dev, k) <=> r \in BusWord(j, k, col)
      <4>1. r \in column_word(dev, k) <=>
              r \in Rows /\ r \div WordLanes = k /\ evaluate(dev, r)
        BY <3>1
      <4>2. r \in BusWord(j, k, col) <=>
              r \in 0 .. C - 1 /\ r \div WordLanes = k /\ Bit(j, r, col)
        BY <3>2
      <4>3. r \in Rows /\ evaluate(dev, r) => r \in 0 .. C - 1 BY <1>1
      <4>4. r \in 0 .. C - 1 => r \in Rows /\ (evaluate(dev, r) <=> Bit(j, r, col))
        BY <1>1, <2>4
      <4> QED BY <4>1, <4>2, <4>3, <4>4
    <3> QED BY <3>1, <3>2, <3>3
  <2>6. access = R(addr) BY <1>7 DEF addr
  <2>7. ~read_raises(dev, addr) /\ addr.reg \in Matrix BY <1>4, <2>2 DEF Matrix
  <2>8. read_value(dev, addr) = v BY <1>7, <2>3, <2>5
  <2> QED BY <2>1, <2>2, <2>6, <2>7, <2>8
<1>8. ASSUME access = R(At("CELL")), row \in 0 .. C - 1, col \in 0 .. j.N - 1,
             v = Bit(j, row, col)
      PROVE  \E addr \in Addresses :
               /\ access = R(addr) /\ addr.reg \in Matrix
               /\ addr.reg \in {"WEIGHT", "OFFSET"} => addr.i < MAX_C
               /\ addr.reg = "COLUMN" => addr.i < column_words
               /\ ~read_raises(dev, addr) /\ read_value(dev, addr) = v
  <2> DEFINE addr == At("CELL")
  <2>1. addr \in Addresses /\ addr.reg = "CELL" BY AddressType DEF Registers
  <2> HIDE DEF addr
  <2>2. read_value(dev, addr) = evaluate(dev, row) BY <2>1 DEF read_value, row
  <2>3. row \in Rows /\ row < MAX_C BY <1>1, <1>2, <1>8 DEF Rows
  <2>4. ~read_raises(dev, addr) BY <1>2, <2>3 DEF read_raises, row, Rows
  <2>5. col < j.N BY <1>2, <1>8
  <2>6. evaluate(dev, row) <=> Bit(j, row, col) BY <1>1, <1>8, <2>5
  <2>7. evaluate(dev, row) = Bit(j, row, col)
    <3>1. evaluate(dev, row) \in BOOLEAN BY DEF evaluate
    <3>2. Bit(j, row, col) \in BOOLEAN BY DEF Bit, RefBit
    <3> QED BY <2>6, <3>1, <3>2
  <2>8. access = R(addr) BY <1>8 DEF addr
  <2>9. addr.reg \in Matrix BY <2>1 DEF Matrix
  <2> QED BY <1>8, <2>1, <2>2, <2>4, <2>7, <2>8, <2>9
<1> QED BY <1>3, <1>6, <1>7, <1>8 DEF v

\* While the matrix is read, it stays what it is.
LEMMA ReadingSteps ==
  ASSUME SessionInv, ContractInv, Step, NEW C, C = Len(job.weights), progress >= C + 6
  PROVE  StepKeeps
<1> DEFINE P == accesses(job)
           Q == reading(job)
           N == job.N
           w == job.weights
           E == Expected(job)
           Answers == {E[x] : x \in DOMAIN E}
           m == progress
           place == m - (C + 6)
           answers == Len(got)
           row == dev.cell_row
           col == dev.cell_col
<1>1. /\ job # Idle /\ job \in AllJobs /\ Len(job.weights) <= MAX_C /\ job' = job
      /\ m \in Nat /\ m + 1 \in 1 .. Len(P) /\ Head(plan) = P[m + 1]
      /\ plan' = Tail(plan) => m' = m + 1
  BY StepFacts
<1>2. C \in Nat /\ N \in Nat /\ N \in Val /\ C \in 0 .. IdxRange - 1 BY <1>1, JobType
<1>3. /\ Q \in Seq(Moves) /\ Len(P) = (C + 6) + Len(Q)
      /\ \A k \in 1 .. Len(Q) : P[(C + 6) + k] = Q[k]
  <2>1. P = accesses(job) /\ Q = reading(job) OBVIOUS
  <2> HIDE DEF P, Q
  <2>2. IsAccesses(P, Q, job, C) BY <1>1, <2>1, JobAccesses
  <2> QED BY <2>2 DEF IsAccesses
<1>4. /\ DeviceInv(dev) /\ dev \in Device /\ dev.latency \in Nat
      /\ polled \in 0 .. dev.latency + 1
  BY DEF SessionInv, AccessInv, DeviceInv, Device
<1>5. /\ m >= 3 => dev.n = N
      /\ m >= 4 => dev.c = C
      /\ \A i \in 0 .. C - 1 : m >= 5 + i => dev.weights[i] = w[i + 1]
      /\ m >= C + 6 => dev.valid
      /\ m >= C + 6 => Standing(job, place, answers, row, col)
      /\ got \in Seq(Answers)
      /\ \A x \in 1 .. Len(got) : got[x] = E[x]
  BY <1>1 DEF SessionInv, JobInv, ProgramInv, ReadingInv
<1>6. ProgramInv' <=>
        /\ m' >= 3 => dev'.n = N
        /\ m' >= 4 => dev'.c = C
        /\ \A i \in 0 .. C - 1 : m' >= 5 + i => dev'.weights[i] = w[i + 1]
        /\ m' < C + 5 => ~dev'.busy /\ polled' = 0
        /\ m' = C + 5 => dev'.busy /\ ~dev'.valid /\ polled' + dev'.remaining = dev'.latency
        /\ m' >= C + 6 => dev'.valid
        /\ m' < C + 6 => got' = <<>>
  BY <1>1 DEF ProgramInv, m
<1>7. ReadingInv' <=>
        (m' >= C + 6 => Standing(job, m' - (C + 6), Len(got'), dev'.cell_row, dev'.cell_col))
  BY <1>1 DEF ReadingInv, m
<1>8. m >= C + 6 OBVIOUS
<1>9. place = m - (C + 6) OBVIOUS
<1> HIDE DEF m, P, Q, place
<1>10. place \in Nat /\ place < Len(Q) /\ Head(plan) = Q[place + 1]
  <2>1. Len(Q) \in Nat BY <1>3
  <2>6. m \in Nat /\ C \in Nat BY <1>1, <1>2
  <2> DEFINE c == C + 6
  <2>7. c \in Nat /\ m >= c /\ place = m - c BY <1>8, <1>9, <2>6
  <2>8. m + 1 <= c + Len(Q)
    <3>1. m + 1 <= Len(P) /\ Len(P) = c + Len(Q) BY <1>1, <1>3, <2>6
    <3> QED BY <3>1
  <2> HIDE DEF c
  <2>2. place \in Nat BY <2>6, <2>7
  <2>3. c \in Nat /\ m = c + place BY <2>6, <2>7
  <2> HIDE DEF c
  <2>4. place + 1 \in 1 .. Len(Q) /\ m + 1 = c + (place + 1) BY <2>1, <2>2, <2>3, <2>8
  <2>5. P[m + 1] = Q[place + 1] BY <1>3, <2>4 DEF c
  <2> QED BY <1>1, <2>1, <2>2, <2>4, <2>5
<1>11. dev.valid /\ ~dev.busy /\ Standing(job, place, answers, row, col)
  BY <1>4, <1>5, <1>8 DEF DeviceInv
<1>12. dev.n = N /\ dev.c = C /\ \A i \in 0 .. C - 1 : dev.weights[i] = w[i + 1]
  <2>1. m >= 3 /\ m >= 4 BY <1>1, <1>2, <1>8
  <2>2. ASSUME NEW i \in 0 .. C - 1 PROVE dev.weights[i] = w[i + 1]
    <3>1. m >= 5 + i BY <1>1, <1>2, <1>8
    <3> QED BY <1>5, <3>1
  <2> QED BY <1>5, <2>1, <2>2
<1>13. Programmed(dev, job) BY <1>12 DEF Programmed
<1>14. polled \in Nat /\ answers \in Nat BY <1>4, <1>5
<1> HIDE DEF N, w, E, answers, row, col
<1>15. ASSUME resp'.kind = "ack", plan' = Tail(plan), polled' = polled,
              dev'.latency = dev.latency, SameContext(dev', dev), dev'.valid,
              Standing(job, place + 1, Len(got'), dev'.cell_row, dev'.cell_col),
              got' \in Seq(Answers), \A x \in 1 .. Len(got') : got'[x] = E[x]
       PROVE  StepKeeps
  <2>1. m' = m + 1 BY <1>1, <1>15
  <2>2. m' - (C + 6) = place + 1 BY <1>1, <1>2, <1>9, <2>1
  <2>3. ReadingInv' BY <1>7, <1>15, <2>2
  <2>4. dev'.n = N /\ dev'.c = C /\ \A i \in 0 .. C - 1 : dev'.weights[i] = w[i + 1]
    BY <1>12, <1>15 DEF SameContext
  <2>5. ~(m' < C + 5) /\ ~(m' = C + 5) /\ ~(m' < C + 6) BY <1>1, <1>2, <1>8, <2>1
  <2>6. ProgramInv' BY <1>6, <1>15, <2>4, <2>5
  <2>7. polled' \in 0 .. dev'.latency + 1 BY <1>4, <1>15
  <2> QED BY <1>15, <2>3, <2>6, <2>7 DEF StepKeeps, E
<1>16. ASSUME NEW addr \in Addresses, NEW data \in Nat, Head(plan) = W(addr, data),
              addr.reg \in {"CELL_ROW", "CELL_COL"}
       PROVE  /\ Changes(dev, dev', addr, data) /\ resp'.kind = "ack"
              /\ plan' = Tail(plan) /\ got' = got /\ polled' = polled
              /\ dev'.latency = dev.latency /\ SameContext(dev', dev) /\ dev'.valid
  <2>1. Fits(addr, data) BY <1>16 DEF Fits, Addresses
  <2>2. Admitted(dev, addr, data) BY <1>11, <1>16 DEF Admitted
  <2>3. addr.reg # "CTRL" /\ addr.reg \notin Context BY <1>16 DEF Context
  <2>4. /\ Changes(dev, dev', addr, data) /\ resp'.kind = "ack"
        /\ plan' = Tail(plan) /\ got' = got /\ polled' = polled
    BY <1>4, <1>11, <1>14, <1>16, <2>1, <2>2, <2>3, ClientWrites
  <2> QED BY <1>11, <1>16, <2>3, <2>4 DEF Changes
<1>17. CASE SetsRow(job, Q[place + 1], place, answers, col)
  <2>1. PICK i \in 0 .. C - 1 :
          Q[place + 1] = W(At("CELL_ROW"), i) /\ Standing(job, place + 1, answers, i, col)
    BY <1>17 DEF SetsRow
  <2> DEFINE addr == At("CELL_ROW")
  <2>2. Head(plan) = W(addr, i) BY <1>10, <2>1
  <2>3. addr \in Addresses /\ addr.reg = "CELL_ROW" BY AddressType DEF Registers
  <2>4. i \in Nat /\ i \in 0 .. IdxRange - 1 BY <1>2, RegsAssumption
  <2> HIDE DEF addr
  <2>5. /\ Changes(dev, dev', addr, i) /\ resp'.kind = "ack"
        /\ plan' = Tail(plan) /\ got' = got /\ polled' = polled
        /\ dev'.latency = dev.latency /\ SameContext(dev', dev) /\ dev'.valid
    BY <1>16, <2>2, <2>3, <2>4
  <2>6. dev'.cell_row = i /\ dev'.cell_col = col
    <3>1. dev'.cell_row = field(i, IdxRange) /\ dev'.cell_col = dev.cell_col
      BY <2>3, <2>5 DEF Changes
    <3> QED BY <2>4, <3>1, FieldType DEF col
  <2>7. Standing(job, place + 1, Len(got'), dev'.cell_row, dev'.cell_col)
    BY <2>1, <2>5, <2>6 DEF answers
  <2> QED BY <1>5, <1>15, <2>5, <2>7
<1>18. CASE SetsColumn(job, Q[place + 1], place, answers, row)
  <2>1. PICK x \in 0 .. N - 1 :
          Q[place + 1] = W(At("CELL_COL"), x) /\ Standing(job, place + 1, answers, row, x)
    BY <1>18 DEF SetsColumn, N
  <2> DEFINE addr == At("CELL_COL")
  <2>2. Head(plan) = W(addr, x) BY <1>10, <2>1
  <2>3. addr \in Addresses /\ addr.reg = "CELL_COL" BY AddressType DEF Registers
  <2>4. x \in Nat /\ x \in Val BY <1>2, ValRangeAssumption DEF Val
  <2> HIDE DEF addr
  <2>5. /\ Changes(dev, dev', addr, x) /\ resp'.kind = "ack"
        /\ plan' = Tail(plan) /\ got' = got /\ polled' = polled
        /\ dev'.latency = dev.latency /\ SameContext(dev', dev) /\ dev'.valid
    BY <1>16, <2>2, <2>3, <2>4
  <2>6. dev'.cell_row = row /\ dev'.cell_col = x
    <3>1. dev'.cell_col = field(x, ValRange) /\ dev'.cell_row = dev.cell_row
      BY <2>3, <2>5 DEF Changes
    <3> QED BY <2>4, <3>1, FieldType DEF row
  <2>7. Standing(job, place + 1, Len(got'), dev'.cell_row, dev'.cell_col)
    BY <2>1, <2>5, <2>6 DEF answers
  <2> QED BY <1>5, <1>15, <2>5, <2>7
<1>19. CASE Reads(job, Q[place + 1], place, answers, row, col)
  <2> DEFINE access == Q[place + 1]
             v == E[answers + 1]
  <2>1. Reads(job, access, place, answers, dev.cell_row, dev.cell_col)
    BY <1>19 DEF row, col
  <2>2. /\ answers + 1 \in DOMAIN E
        /\ Standing(job, place + 1, answers + 1, row, col)
    BY <1>19 DEF Reads, E
  <2>3. Head(plan) = access BY <1>10
  <2>4. v = Expected(job)[answers + 1] BY DEF E
  <2>5. v \in Answers BY <2>2
  <2> HIDE DEF access, v
  <2>6. PICK addr \in Addresses :
          /\ access = R(addr) /\ addr.reg \in Matrix
          /\ addr.reg \in {"WEIGHT", "OFFSET"} => addr.i < MAX_C
          /\ addr.reg = "COLUMN" => addr.i < column_words
          /\ ~read_raises(dev, addr)
          /\ read_value(dev, addr) = Expected(job)[answers + 1]
    BY <1>1, <1>4, <1>11, <1>13, <2>1, ReadAnswers
  <2>7. addr.reg \notin {"HOLE", "ODD"} BY <2>6 DEF Matrix
  <2>8. /\ dev' = dev /\ resp'.kind = "ack"
        /\ plan' = Tail(plan) /\ polled' = polled
        /\ got' = IF addr.reg \in Matrix THEN Append(got, read_value(dev, addr)) ELSE got
    BY <1>4, <1>11, <1>14, <2>3, <2>6, <2>7, ClientReads
  <2>9. got' = Append(got, v) BY <2>4, <2>6, <2>8
  <2> HIDE DEF Answers
  <2>10. /\ got' \in Seq(Answers) /\ Len(got') = answers + 1
         /\ \A x \in 1 .. Len(got') : got'[x] = E[x]
    <3>1. got \in Seq(Answers) BY <1>5 DEF Answers
    <3>2. /\ got' \in Seq(Answers) /\ Len(got') = Len(got) + 1
          /\ \A x \in 1 .. Len(got) : got'[x] = got[x]
          /\ got'[Len(got) + 1] = v
      BY <2>5, <2>9, <3>1, AppendProperties
    <3>3. ASSUME NEW x \in 1 .. Len(got') PROVE got'[x] = E[x]
      <4>1. x \in 1 .. Len(got) \/ x = Len(got) + 1 BY <1>14, <3>2 DEF answers
      <4>2. v = E[Len(got) + 1] BY DEF v, answers
      <4> QED BY <1>5, <3>2, <4>1, <4>2
    <3> QED BY <3>2, <3>3 DEF answers
  <2>11. SameContext(dev', dev) BY <2>8 DEF SameContext
  <2>12. Standing(job, place + 1, Len(got'), dev'.cell_row, dev'.cell_col)
    BY <2>2, <2>8, <2>10 DEF row, col
  <2>13. dev'.latency = dev.latency /\ dev'.valid BY <1>11, <2>8
  <2> QED BY <1>15, <2>8, <2>10, <2>11, <2>12, <2>13 DEF Answers
<1>20. \/ SetsRow(job, Q[place + 1], place, answers, col)
       \/ SetsColumn(job, Q[place + 1], place, answers, row)
       \/ Reads(job, Q[place + 1], place, answers, row, col)
  <2>1. Q = reading(job) BY DEF Q
  <2> QED BY <1>1, <1>10, <1>11, <2>1, NextOfReading
<1> QED BY <1>17, <1>18, <1>19, <1>20

-----------------------------------------------------------------------------
(* No job is under way at first.                                           *)
LEMMA SessionInit ==
  ClientInit => SessionInv
<1> SUFFICES ASSUME ClientInit PROVE SessionInv OBVIOUS
<1>1. AccessInv BY ContractInit DEF ContractInv
<1>2. dev.latency \in Nat BY <1>1 DEF AccessInv, DeviceInv, Device
<1>3. job = Idle /\ plan = <<>> /\ polled = 0 BY DEF ClientInit
<1> QED BY <1>1, <1>2, <1>3 DEF SessionInv, JobInv

(* A job may begin over whatever was done before.                          *)
LEMMA SessionBegin ==
  ASSUME SessionInv, ContractInv, Begin
  PROVE  SessionInv'
<1>1. PICK j \in AllJobs : Len(j.weights) <= MAX_C /\ job' = j /\ plan' = accesses(j)
  BY DEF Begin
<1>2. /\ ~dev.busy /\ dev' = dev /\ seen' = seen /\ got' = <<>> /\ polled' = 0
      /\ resp' = NoAccess
  BY DEF Begin
<1> DEFINE P == accesses(j)
           Q == reading(j)
           C == Len(j.weights)
           E == Expected(j)
<1>3. P \in Seq(Moves)
  <2>1. P = accesses(j) /\ Q = reading(j) /\ C = Len(j.weights) OBVIOUS
  <2> HIDE DEF P, Q, C
  <2>2. IsAccesses(P, Q, j, C) BY <1>1, <2>1, JobAccesses
  <2> QED BY <2>2 DEF IsAccesses
<1>4. C \in Nat /\ j # Idle BY <1>1, JobType
<1>5. progress' = 0 /\ accesses(job') = P
  <2>1. Len(P) \in Nat BY <1>3
  <2>2. progress' = Len(P) - Len(P) BY <1>1 DEF progress
  <2> QED BY <1>1, <2>1, <2>2
<1>6. resp'.kind = "ack" BY <1>2 DEF NoAccess, Outcome
<1>7. AccessInv'
  <2>1. resp'.addr.reg = "CONST" BY <1>2 DEF NoAccess, Outcome, At
  <2>2. AnswersAreTheMatrix' BY <2>1 DEF AnswersAreTheMatrix
  <2> QED BY <1>2, <2>2 DEF SessionInv, AccessInv, LatencyIsAccesses
<1>8. dev'.latency \in Nat BY <1>7 DEF AccessInv, DeviceInv, Device
<1> HIDE DEF P, E
<1>9. ProgramInv'
  <2> DEFINE m == progress
  <2>1. m' = 0 /\ job' = j BY <1>1, <1>5
  <2>2. ProgramInv' <=>
        /\ m' >= 3 => dev'.n = j.N
        /\ m' >= 4 => dev'.c = C
        /\ \A i \in 0 .. C - 1 : m' >= 5 + i => dev'.weights[i] = j.weights[i + 1]
        /\ m' < C + 5 => ~dev'.busy /\ polled' = 0
        /\ m' = C + 5 => dev'.busy /\ ~dev'.valid /\ polled' + dev'.remaining = dev'.latency
        /\ m' >= C + 6 => dev'.valid
        /\ m' < C + 6 => got' = <<>>
    BY <2>1 DEF ProgramInv
  <2> HIDE DEF m, C
  <2>3. /\ ~(m' >= 3) /\ ~(m' >= 4) /\ ~(m' = C + 5) /\ ~(m' >= C + 6)
        /\ \A i \in 0 .. C - 1 : ~(m' >= 5 + i)
    BY <1>4, <2>1
  <2> QED BY <1>2, <2>2, <2>3
<1>10. ReadingInv'
  <2>1. ~(progress' >= Len(job'.weights) + 6) BY <1>1, <1>4, <1>5
  <2> QED BY <2>1 DEF ReadingInv
<1>11. /\ got' \in Seq({Expected(job')[x] : x \in DOMAIN Expected(job')})
       /\ \A x \in 1 .. Len(got') : got'[x] = Expected(job')[x]
  BY <1>2
<1>12. \A k \in 1 .. Len(plan') : plan'[k] = accesses(job')[progress' + k]
  <2>1. plan' = P BY <1>1 DEF P
  <2>2. \A k \in 1 .. Len(P) : progress' + k = k BY <1>5
  <2> QED BY <1>5, <2>1, <2>2
<1>13. progress' \in Nat BY <1>5
<1>14. JobInv' BY <1>1, <1>6, <1>9, <1>10, <1>11, <1>12, <1>13 DEF JobInv
<1> QED BY <1>1, <1>2, <1>4, <1>7, <1>8, <1>14 DEF SessionInv

(* An access of the job keeps it on its way, and its answers right.        *)
LEMMA SessionStep ==
  ASSUME SessionInv, ContractInv, Step
  PROVE  SessionInv'
<1> DEFINE C == Len(job.weights)
           m == progress
<1>1. /\ job # Idle /\ job \in AllJobs /\ Len(job.weights) <= MAX_C /\ job' = job
      /\ m \in Nat
      /\ plan' = Tail(plan) =>
           /\ m' = m + 1
           /\ \A k \in 1 .. Len(plan') : plan'[k] = accesses(job')[m' + k]
      /\ plan' = plan =>
           /\ m' = m
           /\ \A k \in 1 .. Len(plan') : plan'[k] = accesses(job')[m' + k]
  BY StepFacts
<1>2. C \in Nat BY <1>1, JobType
<1>3. C = Len(job.weights) /\ m = progress OBVIOUS
<1> HIDE DEF C, m
<1>4. StepKeeps
  <2>1. CASE m < C + 5 BY <1>3, <2>1, ProgramSteps
  <2>2. CASE m = C + 5 BY <1>3, <2>2, PollSteps
  <2>3. CASE m >= C + 6 BY <1>3, <2>3, ReadingSteps
  <2> QED BY <1>1, <1>2, <2>1, <2>2, <2>3
<1>5. AccessInv' BY StepAccess
<1>6. m' \in Nat /\ \A k \in 1 .. Len(plan') : plan'[k] = accesses(job')[m' + k]
  BY <1>1, <1>4 DEF StepKeeps
<1>7. JobInv' BY <1>1, <1>4, <1>6 DEF JobInv, StepKeeps, m
<1> QED BY <1>1, <1>4, <1>5, <1>7 DEF SessionInv, StepKeeps

(* Accesses of anybody else between two jobs keep SessionInv too.          *)
LEMMA SessionNext ==
  SessionInv /\ ContractInv /\ [ClientNext]_sessionVars => SessionInv'
<1> SUFFICES ASSUME SessionInv, ContractInv, [ClientNext]_sessionVars PROVE SessionInv'
  OBVIOUS
<1>1. CASE Begin BY <1>1, SessionBegin
<1>2. CASE Step BY <1>2, SessionStep
<1>3. CASE Others
  <2>1. /\ AnyAccess /\ plan = <<>> /\ plan' = plan /\ job' = Idle /\ polled' = 0
    BY <1>3 DEF Others
  <2>2. AccessInv' BY <2>1, AnyAccessKeeps DEF ContractInv
  <2>3. dev'.latency \in Nat BY <2>2 DEF AccessInv, DeviceInv, Device
  <2> QED BY <2>1, <2>2, <2>3 DEF SessionInv, JobInv
<1>4. CASE UNCHANGED sessionVars
  <2>1. /\ dev' = dev /\ resp' = resp /\ seen' = seen /\ job' = job /\ plan' = plan
        /\ got' = got /\ polled' = polled
    BY <1>4 DEF sessionVars, deviceVars, clientVars
  <2>2. AccessInv'
    BY <2>1 DEF SessionInv, AccessInv, LatencyIsAccesses, AnswersAreTheMatrix, Marked
  <2>3. progress' = progress BY <2>1 DEF progress
  <2>4. ProgramInv' <=> ProgramInv BY <2>1, <2>3 DEF ProgramInv
  <2>5. ReadingInv' <=> ReadingInv BY <2>1, <2>3 DEF ReadingInv
  <2>6. JobInv' BY <2>1, <2>3, <2>4, <2>5 DEF SessionInv, JobInv
  <2> QED BY <2>1, <2>2, <2>6 DEF SessionInv
<1> QED BY <1>1, <1>2, <1>3, <1>4 DEF ClientNext

\* At the end of the reading every answer has been read, and each is right.
LEMMA SessionAnswers ==
  SessionInv /\ ContractInv => ClientReadsItsMatrix
<1> SUFFICES ASSUME SessionInv, ContractInv, job # Idle, plan = <<>>
             PROVE  got = Expected(job)
  BY DEF ClientReadsItsMatrix
<1> DEFINE P == accesses(job)
           Q == reading(job)
           C == Len(job.weights)
           E == Expected(job)
           m == progress
           answers == Len(got)
<1>1. /\ job \in AllJobs /\ Len(job.weights) <= MAX_C
      /\ got \in Seq({E[x] : x \in DOMAIN E}) /\ \A x \in 1 .. Len(got) : got[x] = E[x]
      /\ ReadingInv
  BY DEF SessionInv, JobInv
<1>2. C \in Nat BY <1>1, JobType
<1>3. Q \in Seq(Moves) /\ Len(P) = (C + 6) + Len(Q)
  <2>1. P = accesses(job) /\ Q = reading(job) /\ C = Len(job.weights) OBVIOUS
  <2> HIDE DEF P, Q, C
  <2>2. IsAccesses(P, Q, job, C) BY <1>1, <2>1, JobAccesses
  <2> QED BY <2>2 DEF IsAccesses
<1>4. m = Len(P) - Len(plan) /\ Len(plan) = 0 BY DEF progress
<1>5. m >= C + 6 => Standing(job, m - (C + 6), answers, dev.cell_row, dev.cell_col)
  BY <1>1 DEF ReadingInv
<1>6. Q = reading(job) OBVIOUS
<1> HIDE DEF P, Q, C, m
<1>7. Len(Q) \in Nat BY <1>3
<1>8. m >= C + 6 /\ m - (C + 6) = Len(Q)
  <2> DEFINE c == C + 6
             q == Len(Q)
  <2>1. c \in Nat /\ q \in Nat BY <1>2, <1>7
  <2>2. m = (c + q) - 0 BY <1>3, <1>4
  <2> HIDE DEF c, q
  <2>3. m >= c /\ m - c = q BY <2>1, <2>2
  <2> QED BY <2>3 DEF c, q
<1>9. Standing(job, Len(Q), answers, dev.cell_row, dev.cell_col) BY <1>5, <1>8
<1> DEFINE place == Len(Q)
<1>10. place \in Nat /\ place = Len(Q) BY <1>7
<1>11. Standing(job, place, answers, dev.cell_row, dev.cell_col) BY <1>9
<1> HIDE DEF place, answers
<1>12. DOMAIN E = 1 .. answers BY <1>1, <1>6, <1>10, <1>11, NextOfReading
<1>13. E = [x \in DOMAIN E |-> E[x]] BY <1>1, ExpectedIsFunction
<1> HIDE DEF E
<1>14. got = [x \in 1 .. answers |-> got[x]] BY <1>1 DEF answers
<1>15. \A x \in 1 .. answers : got[x] = E[x] BY <1>1 DEF answers
<1>16. E = [x \in 1 .. answers |-> E[x]] BY <1>12, <1>13
<1>17. got = E BY <1>14, <1>15, <1>16
<1> QED BY <1>17 DEF E

\* A client is served, whatever was left in the peripheral: no access of its job
\* is refused or raises, it polls no more than once for each access that the
\* transform takes and once more, and what it reads is the matrix of its job.
THEOREM ClientIsServed == ClientSpec => []ClientSucceeds
<1>1. SessionInv /\ ContractInv => ClientSucceeds
  <2> SUFFICES ASSUME SessionInv, ContractInv PROVE ClientSucceeds OBVIOUS
  <2>1. NeverRefused BY DEF NeverRefused, SessionInv, JobInv
  <2>2. PollsAreBounded
    <3>1. dev.latency \in Nat /\ polled \in 0 .. dev.latency + 1
      BY DEF SessionInv, AccessInv, DeviceInv, Device
    <3> QED BY <3>1 DEF PollsAreBounded
  <2>3. ClientReadsItsMatrix BY SessionAnswers
  <2> QED BY <2>1, <2>2, <2>3 DEF ClientSucceeds
<1> QED BY <1>1, SessionInit, SessionNext, ContractInit, ContractNext, PTL DEF ClientSpec

-----------------------------------------------------------------------------
(* The C driver and its interrupt handler.  First the calls as lists.      *)

IsLoad(P, w, n, c) ==
  /\ P \in Seq(Operations) /\ Len(P) = c + 5
  /\ P[1] = Op("write", At("C"), c) /\ P[2] = Op("write", At("N"), n)
  /\ \A i \in 0 .. c - 1 : P[3 + i] = Op("write", Lane("WEIGHT", i), w[i + 1])
  /\ P[c + 3] = Op("read_ctrl", At("CTRL"), 0)
  /\ P[c + 4] = Op("write_ctrl", At("CTRL"), 0)
  /\ P[c + 5] = Op("poll", At("STATUS"), 0)

(* The accesses of bcmc_load: C, N, every weight, those of bcmc_start, a   *)
(* poll.                                                                   *)
LEMMA LoadIs ==
  ASSUME NEW n \in Nat, NEW w, NEW c \in Nat, w \in [1 .. c -> Nat],
         NEW P, P = bcmc_load(w, n, c)
  PROVE  IsLoad(P, w, n, c)
<1> DEFINE a1 == <<Op("write", At("C"), c)>>
           a2 == <<Op("write", At("N"), n)>>
           a == a1 \o a2
           b == [k \in 1 .. c |-> Op("write", Lane("WEIGHT", k - 1), w[(k - 1) + 1])]
           z1 == <<Op("read_ctrl", At("CTRL"), 0), Op("write_ctrl", At("CTRL"), 0)>>
           z2 == <<Op("poll", At("STATUS"), 0)>>
<1>1. P = ((a \o b) \o z1) \o z2 BY DEF bcmc_load, write_reg, bcmc_start, Each
<1>2. /\ Op("write", At("C"), c) \in Operations /\ Op("write", At("N"), n) \in Operations
      /\ Op("read_ctrl", At("CTRL"), 0) \in Operations
      /\ Op("write_ctrl", At("CTRL"), 0) \in Operations
      /\ Op("poll", At("STATUS"), 0) \in Operations
  BY DEF Operations, Op, At
<1>3. /\ a \in Seq(Operations) /\ Len(a) = 2
      /\ a[1] = Op("write", At("C"), c) /\ a[2] = Op("write", At("N"), n)
  <2> DEFINE x == Op("write", At("C"), c)
             y == Op("write", At("N"), n)
  <2>1. x \in Operations /\ y \in Operations /\ a1 = <<x>> /\ a2 = <<y>> BY <1>2
  <2> HIDE DEF x, y, a1, a2
  <2>2. a1 \in Seq(Operations) /\ a2 \in Seq(Operations) /\ Len(a1) = 1 /\ Len(a2) = 1
        /\ a1[1] = x /\ a2[1] = y
    BY <2>1
  <2>3. /\ a \in Seq(Operations) /\ Len(a) = Len(a1) + Len(a2)
        /\ \A k \in 1 .. Len(a1) : a[k] = a1[k]
        /\ \A k \in 1 .. Len(a2) : a[Len(a1) + k] = a2[k]
    <3>1. a1 \in Seq(Operations) /\ a2 \in Seq(Operations) /\ a = a1 \o a2 BY <2>2
    <3> HIDE DEF a
    <3> QED BY <3>1, Concatenation
  <2> HIDE DEF a
  <2>4. a[1] = x /\ a[1 + 1] = y BY <2>2, <2>3
  <2> QED BY <2>2, <2>3, <2>4 DEF x, y
<1>4. b \in Seq(Operations) /\ Len(b) = c
  <2>1. ASSUME NEW k \in 1 .. c
        PROVE  Op("write", Lane("WEIGHT", k - 1), w[(k - 1) + 1]) \in Operations
    <3>1. k - 1 \in Nat /\ w[(k - 1) + 1] \in Nat OBVIOUS
    <3> QED BY <3>1 DEF Operations, Op, Lane
  <2>2. b \in [1 .. c -> Operations] BY <2>1
  <2> QED BY <2>2
<1>5. \A i \in 0 .. c - 1 : b[i + 1] = Op("write", Lane("WEIGHT", i), w[i + 1])
  <2> SUFFICES ASSUME NEW i \in 0 .. c - 1
               PROVE  b[i + 1] = Op("write", Lane("WEIGHT", i), w[i + 1])
    OBVIOUS
  <2>1. i + 1 \in 1 .. c /\ (i + 1) - 1 = i OBVIOUS
  <2> QED BY <2>1
<1>6. /\ z1 \in Seq(Operations) /\ Len(z1) = 2
      /\ z1[1] = Op("read_ctrl", At("CTRL"), 0) /\ z1[2] = Op("write_ctrl", At("CTRL"), 0)
  <2> DEFINE x == Op("read_ctrl", At("CTRL"), 0)
             y == Op("write_ctrl", At("CTRL"), 0)
  <2>1. x \in Operations /\ y \in Operations /\ z1 = <<x, y>> BY <1>2
  <2> HIDE DEF x, y, z1
  <2>2. z1 \in Seq(Operations) /\ Len(z1) = 2 /\ z1[1] = x /\ z1[2] = y BY <2>1
  <2> QED BY <2>2 DEF x, y
<1>7. z2 \in Seq(Operations) /\ Len(z2) = 1 /\ z2[1] = Op("poll", At("STATUS"), 0)
  <2> DEFINE x == Op("poll", At("STATUS"), 0)
  <2>1. x \in Operations /\ z2 = <<x>> BY <1>2
  <2> HIDE DEF x, z2
  <2>2. z2 \in Seq(Operations) /\ Len(z2) = 1 /\ z2[1] = x BY <2>1
  <2> QED BY <2>2 DEF x
<1> DEFINE g == a \o b
           h == g \o z1
<1>8. P = h \o z2 BY <1>1
<1> HIDE DEF a, b, z1, z2
<1>9. /\ g \in Seq(Operations) /\ Len(g) = c + 2
      /\ g[1] = a[1] /\ g[2] = a[2] /\ \A k \in 1 .. c : g[2 + k] = b[k]
  <2>1. /\ g \in Seq(Operations) /\ Len(g) = Len(a) + Len(b)
        /\ \A k \in 1 .. Len(a) : g[k] = a[k]
        /\ \A k \in 1 .. Len(b) : g[Len(a) + k] = b[k]
    <3>1. a \in Seq(Operations) /\ b \in Seq(Operations) /\ g = a \o b BY <1>3, <1>4
    <3> HIDE DEF g
    <3> QED BY <3>1, Concatenation
  <2> HIDE DEF g
  <2>2. Len(a) = 2 /\ Len(b) = c BY <1>3, <1>4
  <2> QED BY <2>1, <2>2
<1> HIDE DEF g
<1>10. /\ h \in Seq(Operations) /\ Len(h) = c + 4
       /\ \A k \in 1 .. c + 2 : h[k] = g[k]
       /\ h[(c + 2) + 1] = z1[1] /\ h[(c + 2) + 2] = z1[2]
  <2>1. /\ h \in Seq(Operations) /\ Len(h) = Len(g) + Len(z1)
        /\ \A k \in 1 .. Len(g) : h[k] = g[k]
        /\ \A k \in 1 .. Len(z1) : h[Len(g) + k] = z1[k]
    <3>1. g \in Seq(Operations) /\ z1 \in Seq(Operations) /\ h = g \o z1 BY <1>6, <1>9
    <3> HIDE DEF h
    <3> QED BY <3>1, Concatenation
  <2> HIDE DEF h
  <2>2. Len(g) = c + 2 /\ Len(z1) = 2 /\ (c + 2) + 2 = c + 4 BY <1>6, <1>9
  <2> QED BY <2>1, <2>2
<1> HIDE DEF h
<1>11. /\ P \in Seq(Operations) /\ Len(P) = c + 5
       /\ \A k \in 1 .. c + 4 : P[k] = h[k]
       /\ P[(c + 4) + 1] = z2[1]
  <2>1. /\ P \in Seq(Operations) /\ Len(P) = Len(h) + Len(z2)
        /\ \A k \in 1 .. Len(h) : P[k] = h[k]
        /\ \A k \in 1 .. Len(z2) : P[Len(h) + k] = z2[k]
    <3>1. h \in Seq(Operations) /\ z2 \in Seq(Operations) /\ P = h \o z2
      BY <1>7, <1>8, <1>10
    <3> QED BY <3>1, Concatenation
  <2>2. Len(h) = c + 4 /\ Len(z2) = 1 /\ (c + 4) + 1 = c + 5 BY <1>7, <1>10
  <2> QED BY <2>1, <2>2
<1>12. ASSUME NEW k \in 1 .. c + 2 PROVE P[k] = g[k]
  <2>1. k \in 1 .. c + 4 BY <1>2
  <2>2. h[k] = g[k] BY <1>10
  <2> QED BY <1>11, <2>1, <2>2
<1>13. P[1] = a[1] /\ P[2] = a[2]
  <2>1. 1 \in 1 .. c + 2 /\ 2 \in 1 .. c + 2 OBVIOUS
  <2> QED BY <1>9, <1>12, <2>1
<1>14. ASSUME NEW i \in 0 .. c - 1
       PROVE  P[3 + i] = Op("write", Lane("WEIGHT", i), w[i + 1])
  <2>1. i + 1 \in 1 .. c /\ 2 + (i + 1) = 3 + i /\ 3 + i \in 1 .. c + 2 OBVIOUS
  <2>2. g[2 + (i + 1)] = b[i + 1] BY <1>9, <2>1
  <2> QED BY <1>5, <1>12, <2>1, <2>2
<1>15. P[c + 3] = z1[1] /\ P[c + 4] = z1[2] /\ P[c + 5] = z2[1]
  <2>1. /\ c + 3 \in 1 .. c + 4 /\ c + 4 \in 1 .. c + 4
        /\ (c + 2) + 1 = c + 3 /\ (c + 2) + 2 = c + 4 /\ (c + 4) + 1 = c + 5
    OBVIOUS
  <2> QED BY <1>10, <1>11, <2>1
<1> QED BY <1>3, <1>6, <1>7, <1>11, <1>13, <1>14, <1>15 DEF IsLoad

IsColumnRead(P, col) ==
  /\ P \in Seq(Operations) /\ Len(P) = 1 + column_words
  /\ P[1] = Op("write", At("CELL_COL"), col)
  /\ \A k \in 1 .. column_words : P[1 + k] = Op("read_word", Lane("COLUMN", k - 1), 0)

(* The COLUMN window has a number of words.                                *)
LEMMA WindowWords == column_words \in Nat
<1> DEFINE c == MAX_C
<1>1. c \in Nat /\ c <= MAX_C BY RegsAssumption
<1> HIDE DEF c
<1>2. words_of(c) \in Nat BY <1>1, WordsFit
<1> QED BY <1>2 DEF c, words_of, column_words

(* The accesses of bcmc_read_column: the column selected, then its words.  *)
LEMMA ColumnReadIs ==
  ASSUME NEW col \in Nat, NEW P, P = bcmc_read_column(col)
  PROVE  IsColumnRead(P, col)
<1> DEFINE n == column_words
           a == <<Op("write", At("CELL_COL"), col)>>
           b == [k \in 1 .. n |-> Op("read_word", Lane("COLUMN", k - 1), 0)]
<1>1. n \in Nat BY WindowWords
<1>2. P = a \o b BY DEF bcmc_read_column, write_reg, Each
<1>3. n = column_words OBVIOUS
<1> HIDE DEF n
<1>4. a \in Seq(Operations) /\ Len(a) = 1 /\ a[1] = Op("write", At("CELL_COL"), col)
  <2> DEFINE x == Op("write", At("CELL_COL"), col)
  <2>1. x \in Operations BY DEF Operations, Op, At
  <2>2. a = <<x>> OBVIOUS
  <2> HIDE DEF x, a
  <2>3. a \in Seq(Operations) /\ Len(a) = 1 /\ a[1] = x BY <2>1, <2>2
  <2> QED BY <2>3 DEF x
<1>5. b \in Seq(Operations) /\ Len(b) = n
  <2>1. ASSUME NEW k \in 1 .. n
        PROVE  Op("read_word", Lane("COLUMN", k - 1), 0) \in Operations
    <3>1. k - 1 \in Nat BY <1>1
    <3> QED BY <3>1 DEF Operations, Op, Lane
  <2>2. b \in [1 .. n -> Operations] BY <2>1
  <2> HIDE DEF b
  <2> QED BY <1>1, <2>2
<1>6. \A k \in 1 .. n : b[k] = Op("read_word", Lane("COLUMN", k - 1), 0) OBVIOUS
<1> HIDE DEF a, b
<1>7. /\ P \in Seq(Operations) /\ Len(P) = Len(a) + Len(b)
      /\ \A k \in 1 .. Len(a) : P[k] = a[k]
      /\ \A k \in 1 .. Len(b) : P[Len(a) + k] = b[k]
  <2>1. a \in Seq(Operations) /\ b \in Seq(Operations) /\ P = a \o b BY <1>2, <1>4, <1>5
  <2> QED BY <2>1, Concatenation
<1>8. Len(P) = 1 + n /\ P[1] = a[1] /\ \A k \in 1 .. n : P[1 + k] = b[k]
  BY <1>1, <1>4, <1>5, <1>7
<1> QED BY <1>3, <1>4, <1>6, <1>7, <1>8 DEF IsColumnRead

(* The accesses of bcmc_start: CTRL read, and written with START.          *)
LEMMA StartIs ==
  /\ bcmc_start \in Seq(Operations) /\ Len(bcmc_start) = 2
  /\ bcmc_start[1] = Op("read_ctrl", At("CTRL"), 0)
  /\ bcmc_start[2] = Op("write_ctrl", At("CTRL"), 0)
<1> DEFINE x == Op("read_ctrl", At("CTRL"), 0)
           y == Op("write_ctrl", At("CTRL"), 0)
           z == bcmc_start
<1>1. x \in Operations /\ y \in Operations BY DEF Operations, Op, At
<1>2. z = <<x, y>> BY DEF bcmc_start
<1> HIDE DEF x, y, z
<1>3. z \in Seq(Operations) /\ Len(z) = 2 /\ z[1] = x /\ z[2] = y BY <1>1, <1>2
<1> QED BY <1>3 DEF x, y, z

(* The accesses of bcmc_probe: the three words of the identity.            *)
LEMMA ProbeIs ==
  /\ bcmc_probe \in Seq(Operations) /\ Len(bcmc_probe) = 3
  /\ \A k \in 1 .. 3 : bcmc_probe[k] = Op("read_id", At("CONST"), 0)
<1> DEFINE x == Op("read_id", At("CONST"), 0)
           z == bcmc_probe
<1>1. x \in Operations BY DEF Operations, Op, At
<1>2. z = [k \in 1 .. 3 |-> x] BY DEF bcmc_probe
<1> HIDE DEF x, z
<1>3. z \in [1 .. 3 -> Operations] BY <1>1, <1>2
<1>4. z \in Seq(Operations) /\ Len(z) = 3 /\ \A k \in 1 .. 3 : z[k] = x BY <1>2, <1>3
<1> QED BY <1>4 DEF x, z

-----------------------------------------------------------------------------
(* One access of the driver or of its handler, at whatever moment.         *)

\* A write: time passes, and it is refused or it is made.
Writes(d, addr, data) ==
  /\ DeviceInv(dev')
  /\ ~Admitted(d, addr, data) => dev' = d /\ resp'.kind # "ack"
  /\ Admitted(d, addr, data) => Changes(d, dev', addr, data)
  /\ resp'.kind = "ack" <=>
       /\ Admitted(d, addr, data)
       /\ ~(addr.reg = "CTRL" /\ data.start /\ ~start_legal(d))

(* What a write of the driver does to the device.                          *)
LEMMA DriverWrites ==
  ASSUME DeviceInv(dev), NEW addr, NEW data, Fits(addr, data), Write(addr, data, TRUE),
         NEW d, d = advance(dev)
  PROVE  Writes(d, addr, data)
<1>1. DeviceInv(d) /\ d \in Device BY AdvanceEffect DEF DeviceInv
<1>2. TRUE \in BOOLEAN OBVIOUS
<1>3. write_refusal(d, addr, data, TRUE) = "none" <=> Admitted(d, addr, data)
  BY <1>1, <1>2, WriteAdmitted
<1>4. /\ write_refusal(d, addr, data, TRUE) # "none" => dev' = d /\ resp'.kind # "ack"
      /\ write_refusal(d, addr, data, TRUE) = "none" => dev' = written(d, addr, data)
      /\ resp'.kind = "ack" <=>
           /\ write_refusal(d, addr, data, TRUE) = "none"
           /\ ~(addr.reg = "CTRL" /\ data.start /\ ~start_legal(d))
  BY <1>2, WriteOutcome
<1>5. Admitted(d, addr, data) => Changes(d, dev', addr, data)
  BY <1>1, <1>3, <1>4, WrittenEffect
<1>6. DeviceInv(dev') BY <1>1, <1>3, <1>4, <1>5 DEF Changes
<1> QED BY <1>3, <1>4, <1>5, <1>6 DEF Writes

\* What the accesses that are no command and touch no context leave alone.
Undisturbed(d, e) ==
  /\ DeviceInv(e) /\ SameContext(e, d) /\ e.latency = d.latency
  /\ ~d.busy => ~e.busy
  /\ d.valid => e.valid
  /\ d.busy => e.valid \/ (e.busy /\ e.remaining <= d.remaining)

(* Time alone disturbs nothing but the transform that runs.                *)
LEMMA AdvanceUndisturbed ==
  ASSUME NEW d, DeviceInv(d), NEW e, e = advance(d)
  PROVE  /\ Undisturbed(d, e)
         /\ e.irq_en = d.irq_en /\ e.cell_row = d.cell_row /\ e.cell_col = d.cell_col
<1>1. /\ DeviceInv(e) /\ SameContext(e, d)
      /\ e.latency = d.latency /\ e.cell_row = d.cell_row /\ e.cell_col = d.cell_col
      /\ e.irq_en = d.irq_en
      /\ ~d.busy => e = d
      /\ d.busy => \/ e.busy /\ d.remaining # 0 /\ e.remaining = d.remaining - 1
                   \/ ~e.busy /\ e.valid /\ d.remaining = 0
      /\ d.valid => e.valid
  BY AdvanceEffect
<1>2. d.remaining \in Nat BY DEF DeviceInv, Device
<1>3. d.busy => e.valid \/ (e.busy /\ e.remaining <= d.remaining) BY <1>1, <1>2
<1> QED BY <1>1, <1>3 DEF Undisturbed

(* Two undisturbed stretches are one.                                      *)
LEMMA UndisturbedChain ==
  ASSUME NEW d, NEW e, NEW f, Undisturbed(d, e), Undisturbed(e, f), DeviceInv(d)
  PROVE  Undisturbed(d, f)
<1>1. /\ d.remaining \in Nat /\ e.remaining \in Nat /\ f.remaining \in Nat
  BY DEF Undisturbed, DeviceInv, Device
<1>2. d.busy => f.valid \/ (f.busy /\ f.remaining <= d.remaining) BY <1>1 DEF Undisturbed
<1> QED BY <1>2 DEF Undisturbed, SameContext

\* A write to a register outside the context that starts nothing.
LEMMA QuietWrite ==
  ASSUME DeviceInv(dev), NEW addr, NEW data, Fits(addr, data), Write(addr, data, TRUE),
         addr.reg \in {"CTRL", "STATUS", "CELL_ROW", "CELL_COL"},
         addr.reg = "CTRL" => ~data.start
  PROVE  /\ Undisturbed(dev, dev') /\ resp'.kind = "ack"
         /\ addr.reg = "CTRL" => dev'.irq_en = data.irq_en
         /\ addr.reg # "CTRL" => dev'.irq_en = dev.irq_en
         /\ addr.reg # "CELL_COL" => dev'.cell_col = dev.cell_col
         /\ addr.reg = "CELL_COL" => dev'.cell_col = field(data, ValRange)
<1> DEFINE d == advance(dev)
<1>1. /\ Undisturbed(dev, d) /\ DeviceInv(d)
      /\ d.irq_en = dev.irq_en /\ d.cell_row = dev.cell_row /\ d.cell_col = dev.cell_col
  BY AdvanceUndisturbed DEF Undisturbed
<1>2. addr.reg \notin Context BY DEF Context
<1>3. Admitted(d, addr, data) BY <1>2 DEF Admitted
<1>4. d = advance(dev) OBVIOUS
<1> HIDE DEF d
<1>5. Changes(d, dev', addr, data) /\ resp'.kind = "ack" BY <1>3, <1>4, DriverWrites DEF Writes
<1>6. Undisturbed(d, dev')
  <2>1. d.remaining \in Nat BY <1>1 DEF DeviceInv, Device
  <2>2. /\ DeviceInv(dev') /\ dev'.latency = d.latency /\ SameContext(dev', d)
        /\ dev'.busy = d.busy /\ dev'.valid = d.valid /\ dev'.remaining = d.remaining
    BY <1>2, <1>5 DEF Changes
  <2> QED BY <2>1, <2>2 DEF Undisturbed
<1>7. Undisturbed(dev, dev') BY <1>1, <1>6, UndisturbedChain
<1> QED BY <1>1, <1>5, <1>7 DEF Changes

\* What the handler does on the bus.
LEMMA HandlerEffect ==
  ASSUME DeviceInv(dev), NEW a \in Acknowledgements \cup CellQuery, Access(a, FALSE)
  PROVE  /\ Undisturbed(dev, dev')
         /\ a.kind = "write" /\ a.addr.reg = "CTRL" =>
              a.data.irq_en \in BOOLEAN /\ dev'.irq_en = a.data.irq_en
         /\ ~(a.kind = "write" /\ a.addr.reg = "CTRL") => dev'.irq_en = dev.irq_en
         /\ a \in Acknowledgements => dev'.cell_col = dev.cell_col
<1>8. /\ \A kind, addr, data : Op(kind, addr, data).kind = kind
      /\ \A kind, addr, data : Op(kind, addr, data).addr = addr
      /\ \A reg : At(reg).reg = reg
  BY DEF Op, At
<1>9. ASSUME NEW x \in Acknowledgements
      PROVE  x.kind = "write" /\ x.addr.reg \in {"CTRL", "STATUS"}
  <2>1. \/ \E b \in BOOLEAN : x = Op("write", At("CTRL"), Command(FALSE, b))
        \/ x = Op("write", At("STATUS"), [irq |-> TRUE])
    BY DEF Acknowledgements
  <2>2. ASSUME NEW b \in BOOLEAN, x = Op("write", At("CTRL"), Command(FALSE, b))
        PROVE  x.kind = "write" /\ x.addr.reg = "CTRL"
    BY <2>2 DEF Op, At
  <2>3. ASSUME x = Op("write", At("STATUS"), [irq |-> TRUE])
        PROVE  x.kind = "write" /\ x.addr.reg = "STATUS"
    BY <2>3 DEF Op, At
  <2> QED BY <2>1, <2>2, <2>3
<1>1. CASE a.kind = "read"
  <2>1. a.addr = At("CELL") /\ a \notin Acknowledgements
    <3>1. a \notin Acknowledgements BY <1>1, <1>9
    <3>2. a \in CellQuery BY <3>1
    <3>3. a = Op("read", At("CELL"), 0)
      <4>1. Op("write", At("CELL_ROW"), 0).kind # a.kind BY <1>1, <1>8
      <4>2. Op("write", At("CELL_COL"), 0).kind # a.kind BY <1>1, <1>8
      <4> QED BY <3>2, <4>1, <4>2 DEF CellQuery
    <3> QED BY <1>8, <3>1, <3>3
  <2>2. Read(a.addr, TRUE) BY <1>1 DEF Access
  <2>3. a.addr \in [reg : Registers, i : Nat] BY <2>1, AddressType DEF Registers, Addresses
  <2>4. TRUE \in BOOLEAN OBVIOUS
  <2>5. dev' = advance(dev) BY <2>2, <2>3, <2>4, ReadOutcome
  <2>6. Undisturbed(dev, dev') /\ dev'.irq_en = dev.irq_en BY <2>5, AdvanceUndisturbed
  <2> QED BY <1>1, <2>1, <2>6
<1>2. ASSUME a.kind = "write", NEW addr, NEW data, addr = a.addr, data = a.data,
             Fits(addr, data), addr.reg \in {"CTRL", "STATUS", "CELL_ROW", "CELL_COL"},
             addr.reg = "CTRL" => ~data.start
      PROVE  /\ Undisturbed(dev, dev') /\ resp'.kind = "ack"
             /\ addr.reg = "CTRL" => dev'.irq_en = data.irq_en
             /\ addr.reg # "CTRL" => dev'.irq_en = dev.irq_en
             /\ addr.reg # "CELL_COL" => dev'.cell_col = dev.cell_col
  <2>1. Write(addr, data, TRUE) BY <1>2 DEF Access
  <2> QED BY <1>2, <2>1, QuietWrite
<1>3. ASSUME NEW b \in BOOLEAN, a = Op("write", At("CTRL"), Command(FALSE, b))
      PROVE  /\ Undisturbed(dev, dev') /\ a.kind = "write" /\ a.addr.reg = "CTRL"
             /\ a.data.irq_en \in BOOLEAN /\ dev'.irq_en = a.data.irq_en
             /\ dev'.cell_col = dev.cell_col
  <2> DEFINE addr == a.addr
             data == a.data
  <2>1. /\ a.kind = "write" /\ addr = At("CTRL") /\ addr.reg = "CTRL"
        /\ data = [start |-> FALSE, irq_en |-> b]
    BY <1>3 DEF Op, Command, At
  <2>2. addr \in [reg : Registers, i : Nat] BY <2>1, AddressType DEF Registers, Addresses
  <2>3. Fits(addr, data) /\ ~data.start /\ data.irq_en = b BY <2>1, <2>2 DEF Fits
  <2>4. addr = a.addr /\ data = a.data OBVIOUS
  <2> HIDE DEF addr, data
  <2>5. Undisturbed(dev, dev') /\ dev'.irq_en = data.irq_en /\ dev'.cell_col = dev.cell_col
    BY <1>2, <2>1, <2>3, <2>4
  <2> QED BY <2>1, <2>3, <2>4, <2>5
<1>4. ASSUME a = Op("write", At("STATUS"), [irq |-> TRUE])
      PROVE  /\ Undisturbed(dev, dev') /\ a.addr.reg # "CTRL"
             /\ dev'.irq_en = dev.irq_en /\ dev'.cell_col = dev.cell_col
  <2> DEFINE addr == a.addr
             data == a.data
  <2>1. /\ a.kind = "write" /\ addr = At("STATUS") /\ addr.reg = "STATUS"
        /\ data = [irq |-> TRUE]
    BY <1>4 DEF Op, At
  <2>2. addr \in [reg : Registers, i : Nat] BY <2>1, AddressType DEF Registers, Addresses
  <2>3. Fits(addr, data) BY <2>1, <2>2 DEF Fits
  <2>4. addr = a.addr /\ data = a.data OBVIOUS
  <2> HIDE DEF addr, data
  <2>5. Undisturbed(dev, dev') /\ dev'.irq_en = dev.irq_en /\ dev'.cell_col = dev.cell_col
    BY <1>2, <2>1, <2>3, <2>4
  <2> QED BY <2>1, <2>4, <2>5
<1>5. ASSUME NEW reg \in {"CELL_ROW", "CELL_COL"}, a = Op("write", At(reg), 0)
      PROVE  /\ Undisturbed(dev, dev') /\ a.addr.reg # "CTRL"
             /\ dev'.irq_en = dev.irq_en /\ a \notin Acknowledgements
  <2> DEFINE addr == a.addr
             data == a.data
  <2>1. a.kind = "write" /\ addr = At(reg) /\ addr.reg = reg /\ data = 0
    BY <1>5 DEF Op, At
  <2>2. addr \in [reg : Registers, i : Nat] BY <2>1, AddressType DEF Registers, Addresses
  <2>3. Fits(addr, data) BY <2>1, <2>2 DEF Fits
  <2>4. addr = a.addr /\ data = a.data OBVIOUS
  <2>5. a \notin Acknowledgements BY <1>9, <2>1
  <2> HIDE DEF addr, data
  <2>6. Undisturbed(dev, dev') /\ dev'.irq_en = dev.irq_en BY <1>2, <2>1, <2>3, <2>4
  <2> QED BY <2>1, <2>4, <2>5, <2>6
<1>6. \/ \E b \in BOOLEAN : a = Op("write", At("CTRL"), Command(FALSE, b))
      \/ a = Op("write", At("STATUS"), [irq |-> TRUE])
      \/ \E reg \in {"CELL_ROW", "CELL_COL"} : a = Op("write", At(reg), 0)
      \/ a = Op("read", At("CELL"), 0)
  BY DEF Acknowledgements, CellQuery
<1>7. a = Op("read", At("CELL"), 0) => a.kind = "read" BY DEF Op
<1> QED BY <1>1, <1>3, <1>4, <1>5, <1>6, <1>7

\* The arguments of a load.
LEMMA LoadArguments ==
  ASSUME CallInv, Loading
  PROVE  /\ call.n \in Val /\ call.n # 0 /\ call.n \in Nat /\ call.c \in Nat
         /\ call.weights \in [1 .. call.c -> 0 .. call.n]
         /\ call.weights \in [1 .. call.c -> Nat]
<1> DEFINE l == <<call.weights, call.n, call.c>>
<1>1. l \in Loads BY DEF CallInv
<1>2. l[1] = call.weights /\ l[2] = call.n /\ l[3] = call.c OBVIOUS
<1> HIDE DEF l
<1>3. l[2] \in Val \ {0} /\ l[3] \in Nat /\ l[1] \in [1 .. l[3] -> 0 .. l[2]]
  BY <1>1, DriverAssumption
<1>4. call.n \in Nat BY <1>2, <1>3, ValRangeAssumption DEF Val
<1> QED BY <1>2, <1>3, <1>4

\* Before a context is started it is read what the driver keeps of CTRL.
LEMMA ProgramOrder ==
  ASSUME CallInv, NEW P, P = Program
  PROVE  /\ P \in Seq(Operations)
         /\ \A k \in 1 .. Len(P) :
              P[k].kind = "write_ctrl" => k > 1 /\ P[k - 1].kind = "read_ctrl"
<1>1. CASE call.fn = "load"
  <2> DEFINE w == call.weights
             n == call.n
             c == call.c
  <2>1. n \in Nat /\ c \in Nat /\ w \in [1 .. c -> Nat]
    BY <1>1, LoadArguments DEF Loading
  <2>2. P = bcmc_load(w, n, c) BY <1>1 DEF Program
  <2> HIDE DEF w, n, c
  <2>3. IsLoad(P, w, n, c) BY <2>1, <2>2, LoadIs
  <2>4. /\ P \in Seq(Operations) /\ Len(P) = c + 5
        /\ P[1] = Op("write", At("C"), c) /\ P[2] = Op("write", At("N"), n)
        /\ \A i \in 0 .. c - 1 : P[3 + i] = Op("write", Lane("WEIGHT", i), w[i + 1])
        /\ P[c + 3] = Op("read_ctrl", At("CTRL"), 0)
        /\ P[c + 5] = Op("poll", At("STATUS"), 0)
    BY <2>3 DEF IsLoad
  <2>5. \A kind, addr, data : Op(kind, addr, data).kind = kind BY DEF Op
  <2>6. ASSUME NEW k \in 1 .. Len(P), P[k].kind = "write_ctrl" PROVE k = c + 4
    <3>1. k # 1 /\ k # 2 /\ k # c + 3 /\ k # c + 5 BY <2>4, <2>5, <2>6
    <3>2. ASSUME k \in 3 .. c + 2 PROVE FALSE
      <4>1. k - 3 \in 0 .. c - 1 /\ 3 + (k - 3) = k BY <2>1, <3>2
      <4>2. P[k].kind = "write" BY <2>4, <2>5, <4>1
      <4> QED BY <2>6, <4>2
    <3> QED BY <2>1, <2>4, <3>1, <3>2
  <2>7. c + 4 > 1 /\ (c + 4) - 1 = c + 3 /\ P[c + 3].kind = "read_ctrl"
    BY <2>1, <2>4, <2>5
  <2> QED BY <2>4, <2>6, <2>7
<1>2. CASE call.fn = "start"
  <2>1. P = bcmc_start BY <1>2 DEF Program
  <2>2. /\ P \in Seq(Operations) /\ Len(P) = 2
        /\ P[1] = Op("read_ctrl", At("CTRL"), 0)
    BY <2>1, StartIs
  <2>3. P[1].kind = "read_ctrl" BY <2>2 DEF Op
  <2>4. \A k \in 1 .. 2 : P[k].kind = "write_ctrl" => k > 1 /\ k - 1 = 1 BY <2>3
  <2> QED BY <2>2, <2>3, <2>4
<1>3. CASE call.fn = "probe"
  <2>1. P = bcmc_probe BY <1>3 DEF Program
  <2>2. /\ P \in Seq(Operations) /\ Len(P) = 3
        /\ \A k \in 1 .. 3 : P[k] = Op("read_id", At("CONST"), 0)
    BY <2>1, ProbeIs
  <2>3. \A k \in 1 .. Len(P) : P[k].kind = "read_id" BY <2>2 DEF Op
  <2> QED BY <2>2, <2>3
<1>4. CASE call.fn = "read_column"
  <2> DEFINE col == call.col
  <2>1. P = bcmc_read_column(col) BY <1>4 DEF Program
  <2>2. col \in Nat BY <1>4 DEF CallInv
  <2> HIDE DEF col
  <2>3. IsColumnRead(P, col) BY <2>1, <2>2, ColumnReadIs
  <2>4. /\ P \in Seq(Operations) /\ Len(P) = 1 + column_words
        /\ P[1] = Op("write", At("CELL_COL"), col)
        /\ \A k \in 1 .. column_words : P[1 + k] = Op("read_word", Lane("COLUMN", k - 1), 0)
    BY <2>3 DEF IsColumnRead
  <2>5. ASSUME NEW k \in 1 .. Len(P) PROVE P[k].kind # "write_ctrl"
    <3>1. CASE k = 1 BY <2>4, <3>1 DEF Op
    <3>2. CASE k # 1
      <4>1. k - 1 \in 1 .. column_words /\ 1 + (k - 1) = k BY <2>4, <3>2, WindowWords
      <4>2. P[k] = Op("read_word", Lane("COLUMN", (k - 1) - 1), 0) BY <2>4, <4>1
      <4> QED BY <4>2 DEF Op
    <3> QED BY <3>1, <3>2
  <2> QED BY <2>4, <2>5
<1>5. CASE call.fn = "none"
  <2>1. P = <<>> BY <1>5 DEF Program
  <2> QED BY <2>1
<1> QED BY <1>1, <1>2, <1>3, <1>4, <1>5 DEF CallInv

\* The program of a call and how far it is depend on the call alone.
LEMMA SameCall ==
  ASSUME call' = call
  PROVE  Program' = Program /\ (Loading' <=> Loading) /\ (todo' = todo => made' = made)
<1>1. Program' = Program BY DEF Program
<1> QED BY <1>1 DEF Loading, made

(* An access of the interrupt handler keeps DriverInv.                     *)
LEMMA HandlerKeeps ==
  ASSUME DriverInv, HandlerStep
  PROVE  DriverInv'
<1> DEFINE a == Head(handler)
           enables == a.kind = "write" /\ a.addr.reg = "CTRL"
<1>1. /\ handler # <<>> /\ Access(a, FALSE) /\ handler' = Tail(handler)
      /\ wanted' = IF enables THEN a.data.irq_en ELSE wanted
      /\ raced' = IF ~enables THEN raced
                  ELSE todo # <<>> /\ Head(todo).kind = "write_ctrl"
      /\ call' = call /\ todo' = todo /\ ctrl' = ctrl /\ polls' = polls /\ words' = words
      /\ ret' = ret /\ moved' = moved /\ before' = before
  BY DEF HandlerStep, locals
<1>2. /\ DeviceInv(dev) /\ handler \in Seq(Acknowledgements \cup CellQuery)
      /\ ~moved => handler \in Seq(Acknowledgements)
  BY DEF DriverInv, CallInv, HandlerInv
<1>3. a \in Acknowledgements \cup CellQuery /\ (~moved => a \in Acknowledgements)
  <2>1. a \in Acknowledgements \cup CellQuery BY <1>1, <1>2, HeadTailProperties
  <2>2. ASSUME ~moved PROVE a \in Acknowledgements
    <3>1. handler \in Seq(Acknowledgements) /\ handler # <<>> BY <1>1, <1>2, <2>2
    <3> QED BY <3>1, HeadTailProperties
  <2> QED BY <2>1, <2>2
<1> HIDE DEF a
<1>4. /\ Undisturbed(dev, dev')
      /\ enables => a.data.irq_en \in BOOLEAN /\ dev'.irq_en = a.data.irq_en
      /\ ~enables => dev'.irq_en = dev.irq_en
      /\ a \in Acknowledgements => dev'.cell_col = dev.cell_col
  BY <1>1, <1>2, <1>3, HandlerEffect
<1> HIDE DEF enables
<1>5. /\ DeviceInv(dev') /\ SameContext(dev', dev) /\ dev'.latency = dev.latency
      /\ dev'.n = dev.n /\ dev'.c = dev.c /\ dev'.weights = dev.weights
      /\ ~dev.busy => ~dev'.busy
      /\ dev.valid => dev'.valid
      /\ dev.busy => dev'.valid \/ (dev'.busy /\ dev'.remaining <= dev.remaining)
      /\ dev.remaining \in Nat /\ dev'.remaining \in Nat /\ dev.latency \in Nat
  BY <1>2, <1>4 DEF Undisturbed, SameContext, DeviceInv, Device
<1>6. Program' = Program /\ (Loading' <=> Loading) /\ made' = made BY <1>1, SameCall
<1>7. CallInv' BY <1>1, <1>5, <1>6 DEF DriverInv, CallInv
<1>8. LoadInv'
  <2> SUFFICES ASSUME Loading PROVE LoadInv' BY <1>6 DEF LoadInv
  <2> DEFINE m == made
  <2>1. /\ ret = "none" =>
             /\ m = 0 => SameContext(dev, before)
             /\ m >= 1 => dev.c = call.c
             /\ m >= 2 => dev.n = call.n
             /\ \A i \in 0 .. call.c - 1 : m >= 3 + i => dev.weights[i] = call.weights[i + 1]
             /\ m \in 1 .. call.c + 3 => ~dev.busy /\ polls = 0
             /\ m = 0 => polls = 0
             /\ m = call.c + 4 =>
                  /\ polls \in Nat
                  /\ dev.valid \/ (dev.busy /\ polls + dev.remaining <= dev.latency)
        /\ ret \notin {"none", "OK"} => SameContext(dev, before)
    BY DEF DriverInv, LoadInv
  <2>2. LoadInv' <=>
        /\ ret = "none" =>
             /\ m = 0 => SameContext(dev', before)
             /\ m >= 1 => dev'.c = call.c
             /\ m >= 2 => dev'.n = call.n
             /\ \A i \in 0 .. call.c - 1 : m >= 3 + i => dev'.weights[i] = call.weights[i + 1]
             /\ m \in 1 .. call.c + 3 => ~dev'.busy /\ polls = 0
             /\ m = 0 => polls = 0
             /\ m = call.c + 4 =>
                  /\ polls \in Nat
                  /\ dev'.valid \/ (dev'.busy /\ polls + dev'.remaining <= dev'.latency)
        /\ ret \notin {"none", "OK"} => SameContext(dev', before)
    BY <1>1, <1>6 DEF LoadInv
  <2> HIDE DEF m
  <2>3. SameContext(dev, before) => SameContext(dev', before) BY <1>5 DEF SameContext
  <2>4. polls \in Nat /\ dev.busy /\ polls + dev.remaining <= dev.latency =>
          dev'.valid \/ (dev'.busy /\ polls + dev'.remaining <= dev'.latency)
    BY <1>5
  <2> QED BY <1>5, <2>1, <2>2, <2>3, <2>4
<1>9. IrqInv'
  <2>1. /\ dev.irq_en # wanted => raced
        /\ ret = "none" /\ todo[1].kind = "write_ctrl" =>
             ctrl \in BOOLEAN /\ (ctrl = dev.irq_en \/ raced)
        /\ wanted \in BOOLEAN /\ raced \in BOOLEAN
    BY DEF DriverInv, IrqInv
  <2>2. ret = "none" => todo # <<>> /\ Head(todo) = todo[1]
    <3>1. ret = "none" => todo \in Seq(Operations) /\ Len(todo) \in 1 .. Len(Program)
      BY DEF DriverInv, CallInv
    <3> QED BY <3>1, HeadTailProperties
  <2>3. CASE enables
    <3>1. dev'.irq_en = wanted' /\ wanted' \in BOOLEAN BY <1>1, <1>4, <2>3
    <3>2. raced' = (todo # <<>> /\ Head(todo).kind = "write_ctrl") BY <1>1, <2>3
    <3>3. ret = "none" /\ todo[1].kind = "write_ctrl" => raced' BY <2>2, <3>2
    <3>4. raced' \in BOOLEAN BY <3>2
    <3> QED BY <1>1, <2>1, <3>1, <3>3, <3>4 DEF IrqInv
  <2>4. CASE ~enables
    <3>1. dev'.irq_en = dev.irq_en /\ wanted' = wanted /\ raced' = raced BY <1>1, <1>4, <2>4
    <3> QED BY <1>1, <2>1, <3>1 DEF IrqInv
  <2> QED BY <2>3, <2>4
<1>10. ColumnInv'
  <2>1. \A k, col : ColumnWord(k, col)' = ColumnWord(k, col) BY <1>5 DEF ColumnWord
  <2>2. ~moved => dev'.cell_col = dev.cell_col BY <1>3, <1>4
  <2>3. ColumnInv BY DEF DriverInv
  <2> QED BY <1>1, <1>6, <2>1, <2>2, <2>3 DEF ColumnInv
<1>11. HandlerInv'
  <2>1. Tail(handler) \in Seq(Acknowledgements \cup CellQuery)
    BY <1>1, <1>2, HeadTailProperties
  <2>2. ~moved => Tail(handler) \in Seq(Acknowledgements)
    BY <1>1, <1>2, HeadTailProperties
  <2> QED BY <1>1, <2>1, <2>2 DEF DriverInv, HandlerInv
<1> QED BY <1>7, <1>8, <1>9, <1>10, <1>11 DEF DriverInv

(* The beginning of a handler, between any two accesses of main, does too. *)
LEMMA InterruptKeeps ==
  ASSUME DriverInv, Interrupt
  PROVE  DriverInv'
<1>1. /\ dev' = dev /\ wanted' = wanted /\ raced' = raced
      /\ call' = call /\ todo' = todo /\ ctrl' = ctrl /\ polls' = polls /\ words' = words
      /\ ret' = ret /\ before' = before
  BY DEF Interrupt, locals
<1>2. Program' = Program /\ (Loading' <=> Loading) /\ made' = made BY <1>1, SameCall
<1>3. CallInv' BY <1>1, <1>2 DEF DriverInv, CallInv
<1>4. LoadInv' BY <1>1, <1>2 DEF DriverInv, LoadInv
<1>5. IrqInv' BY <1>1, <1>2 DEF DriverInv, IrqInv
<1>6. /\ moved' \in BOOLEAN /\ (~moved' => ~moved)
      /\ handler' \in Seq(Acknowledgements \cup CellQuery)
      /\ ~moved' => handler' \in Seq(Acknowledgements)
  <2>1. ASSUME NEW b \in BOOLEAN, handler' = bcmc_irq_enable(b), moved' = moved
        PROVE  /\ moved' \in BOOLEAN /\ handler' \in Seq(Acknowledgements)
               /\ handler' \in Seq(Acknowledgements \cup CellQuery)
    <3> DEFINE x == Op("write", At("CTRL"), Command(FALSE, b))
    <3>1. x \in Acknowledgements BY DEF Acknowledgements
    <3>2. handler' = <<x>> BY <2>1 DEF bcmc_irq_enable, write_reg
    <3> HIDE DEF x
    <3> QED BY <2>1, <3>1, <3>2 DEF DriverInv, HandlerInv
  <2>2. ASSUME handler' = bcmc_irq_clear, moved' = moved
        PROVE  /\ moved' \in BOOLEAN /\ handler' \in Seq(Acknowledgements)
               /\ handler' \in Seq(Acknowledgements \cup CellQuery)
    <3> DEFINE x == Op("write", At("STATUS"), [irq |-> TRUE])
    <3>1. x \in Acknowledgements BY DEF Acknowledgements
    <3>2. handler' = <<x>> BY <2>2 DEF bcmc_irq_clear, write_reg
    <3> HIDE DEF x
    <3> QED BY <2>2, <3>1, <3>2 DEF DriverInv, HandlerInv
  <2>3. ASSUME handler' = bcmc_read_cell(0, 0), moved' = TRUE
        PROVE  handler' \in Seq(Acknowledgements \cup CellQuery)
    <3> DEFINE x == Op("write", At("CELL_ROW"), 0)
               y == Op("write", At("CELL_COL"), 0)
               z == Op("read", At("CELL"), 0)
               S == Acknowledgements \cup CellQuery
    <3>1. x \in S /\ y \in S /\ z \in S BY DEF CellQuery
    <3>2. handler' = (<<x>> \o <<y>>) \o <<z>> BY <2>3 DEF bcmc_read_cell, write_reg
    <3> HIDE DEF x, y, z, S
    <3>3. <<x>> \in Seq(S) /\ <<y>> \in Seq(S) /\ <<z>> \in Seq(S) BY <3>1
    <3>4. <<x>> \o <<y>> \in Seq(S) BY <3>3, ConcatProperties
    <3>5. handler' \in Seq(S) BY <3>2, <3>3, <3>4, ConcatProperties
    <3> QED BY <3>5 DEF S
  <2>4. moved \in BOOLEAN BY DEF DriverInv, HandlerInv
  <2>5. \/ \E b \in BOOLEAN : handler' = bcmc_irq_enable(b) /\ moved' = moved
        \/ handler' = bcmc_irq_clear /\ moved' = moved
        \/ handler' = bcmc_read_cell(0, 0) /\ moved' = TRUE
    BY DEF Interrupt
  <2> QED BY <2>1, <2>2, <2>3, <2>4, <2>5
<1>7. ColumnInv'
  <2>1. \A k, col : ColumnWord(k, col)' = ColumnWord(k, col) BY <1>1 DEF ColumnWord
  <2>2. ColumnInv BY DEF DriverInv
  <2> QED BY <1>1, <1>2, <1>6, <2>1, <2>2 DEF ColumnInv
<1>8. HandlerInv' BY <1>6 DEF HandlerInv
<1> QED BY <1>3, <1>4, <1>5, <1>7, <1>8 DEF DriverInv

\* A call that is entered, or that returns at once.
LEMMA Entered ==
  ASSUME DriverInv, NEW what, NEW list, NEW status, Enter(what, list, status),
         status \in {"none", "EINVAL", "ERANGE"},
         status = "none" =>
           /\ list = Program' /\ list \in Seq(Operations) /\ Len(list) >= 1
           /\ list[1].kind # "write_ctrl",
         what.fn \in {"probe", "load", "start", "read_column"},
         what.fn = "load" =>
           /\ <<what.weights, what.n, what.c>> \in Loads
           /\ status = "none" => what.c <= MAX_C,
         what.fn = "read_column" => what.col \in 0 .. dev.n - 1
  PROVE  DriverInv'
<1>1. /\ handler = <<>> /\ call' = what /\ ret' = status
      /\ todo' = IF status = "none" THEN list ELSE <<>>
      /\ polls' = 0 /\ words' = <<>> /\ moved' = FALSE /\ before' = dev
      /\ dev' = dev /\ ctrl' = ctrl /\ handler' = handler /\ wanted' = wanted
      /\ raced' = raced
  BY DEF Enter
<1>2. todo' \in Seq(Operations) /\ (status # "none" => todo' = <<>>) BY <1>1
<1>3. ASSUME status = "none"
      PROVE  /\ made' = 0 /\ Len(todo') \in 1 .. Len(Program')
             /\ \A k \in 1 .. Len(todo') : todo'[k] = Program'[made' + k]
  <2>1. todo' = list /\ Program' = list /\ Len(list) \in Nat /\ Len(list) >= 1
    BY <1>1, <1>3
  <2>2. made' = Len(list) - Len(list) BY <2>1 DEF made
  <2>3. made' = 0 BY <2>1, <2>2
  <2> QED BY <2>1, <2>3
<1>4. CallInv'
  <2>1. CallInv BY DEF DriverInv
  <2>2. /\ call'.fn \in {"none", "probe", "load", "start", "read_column"}
        /\ Loading' => <<call'.weights, call'.n, call'.c>> \in Loads
        /\ Loading' /\ ret' = "none" => call'.c <= MAX_C
        /\ call'.fn = "read_column" => call'.col \in 0 .. dev'.n - 1
    BY <1>1 DEF Loading
  <2>3. ret' \in {"none", "OK", "EINVAL", "ERANGE", "EREFUSED"} BY <1>1
  <2> QED BY <1>1, <1>2, <1>3, <2>1, <2>2, <2>3 DEF CallInv
<1>5. LoadInv'
  <2> SUFFICES ASSUME Loading' PROVE LoadInv' BY DEF LoadInv
  <2>1. SameContext(dev', before') BY <1>1 DEF SameContext
  <2>2. call'.c \in Nat
    <3> DEFINE l == <<what.weights, what.n, what.c>>
    <3>1. l \in Loads BY <1>1 DEF Loading
    <3>2. l[3] = what.c OBVIOUS
    <3> HIDE DEF l
    <3> QED BY <1>1, <3>1, <3>2, DriverAssumption
  <2>3. CASE status = "none"
    <3>1. made' = 0 BY <1>3, <2>3
    <3> DEFINE m == made
    <3>2. LoadInv' <=>
            /\ ret' = "none" =>
                 /\ m' = 0 => SameContext(dev', before')
                 /\ m' >= 1 => dev'.c = call'.c
                 /\ m' >= 2 => dev'.n = call'.n
                 /\ \A i \in 0 .. call'.c - 1 :
                      m' >= 3 + i => dev'.weights[i] = call'.weights[i + 1]
                 /\ m' \in 1 .. call'.c + 3 => ~dev'.busy /\ polls' = 0
                 /\ m' = 0 => polls' = 0
                 /\ m' = call'.c + 4 =>
                      /\ polls' \in Nat
                      /\ dev'.valid \/ (dev'.busy /\ polls' + dev'.remaining <= dev'.latency)
            /\ ret' \notin {"none", "OK"} => SameContext(dev', before')
      BY DEF LoadInv
    <3>3. m' = 0 BY <3>1
    <3> HIDE DEF m
    <3>4. /\ ~(m' >= 1) /\ ~(m' >= 2) /\ m' \notin 1 .. call'.c + 3
          /\ m' # call'.c + 4 /\ \A i \in 0 .. call'.c - 1 : ~(m' >= 3 + i)
      BY <2>2, <3>3
    <3> QED BY <1>1, <2>1, <3>2, <3>4
  <2>4. CASE status # "none" BY <1>1, <2>1, <2>4 DEF LoadInv
  <2> QED BY <2>3, <2>4
<1>6. IrqInv'
  <2>1. ret' = "none" => todo'[1].kind # "write_ctrl" BY <1>1
  <2>2. IrqInv BY DEF DriverInv
  <2> QED BY <1>1, <2>1, <2>2 DEF IrqInv
<1>7. ColumnInv'
  <2>1. words' \in Seq(SUBSET Rows) /\ DOMAIN words' = {} BY <1>1
  <2>2. ret' = "none" => made' = 0 /\ ~(made' >= 1) BY <1>1, <1>3
  <2> QED BY <1>1, <2>1, <2>2 DEF ColumnInv
<1>8. HandlerInv'
  <2>1. handler' = <<>> /\ moved' \in BOOLEAN BY <1>1
  <2>2. \A S : <<>> \in Seq(S) OBVIOUS
  <2>3. /\ handler' \in Seq(Acknowledgements \cup CellQuery)
        /\ handler' \in Seq(Acknowledgements)
    BY <2>1, <2>2
  <2> QED BY <2>1, <2>3 DEF HandlerInv
<1> QED BY <1>4, <1>5, <1>6, <1>7, <1>8 DEF DriverInv

(* A call that main begins keeps DriverInv.                                *)
LEMMA CallsKeep ==
  ASSUME DriverInv, CallProbe \/ CallLoad \/ CallStart \/ CallReadColumn
  PROVE  DriverInv'
<1>1. CASE CallProbe
  <2> DEFINE what == [fn |-> "probe"]
  <2>1. Enter(what, bcmc_probe, "none") BY <1>1 DEF CallProbe
  <2>2. what.fn = "probe" OBVIOUS
  <2> HIDE DEF what
  <2>3. call' = what BY <2>1 DEF Enter
  <2>4. Program' = bcmc_probe BY <2>2, <2>3 DEF Program
  <2>5. /\ bcmc_probe \in Seq(Operations) /\ Len(bcmc_probe) >= 1
        /\ bcmc_probe[1].kind # "write_ctrl"
    BY ProbeIs DEF Op
  <2> QED BY <2>1, <2>2, <2>4, <2>5, Entered
<1>2. CASE CallLoad
  <2>1. PICK l \in Loads :
          Enter([fn |-> "load", weights |-> l[1], n |-> l[2], c |-> l[3]],
                IF l[3] > MAX_C THEN <<>> ELSE bcmc_load(l[1], l[2], l[3]),
                IF ~probed THEN "EINVAL"
                ELSE IF l[3] > MAX_C THEN "ERANGE" ELSE "none")
    BY <1>2 DEF CallLoad
  <2> DEFINE what == [fn |-> "load", weights |-> l[1], n |-> l[2], c |-> l[3]]
             list == IF l[3] > MAX_C THEN <<>> ELSE bcmc_load(l[1], l[2], l[3])
             status == IF ~probed THEN "EINVAL"
                       ELSE IF l[3] > MAX_C THEN "ERANGE" ELSE "none"
             w == l[1]
             n == l[2]
             c == l[3]
  <2>2. Enter(what, list, status) BY <2>1
  <2>3. /\ l = <<w, n, c>> /\ n \in Val \ {0} /\ c \in Nat /\ w \in [1 .. c -> 0 .. n]
        /\ MAX_C \in Nat
    BY DriverAssumption, RegsAssumption
  <2>4. n \in Nat /\ w \in [1 .. c -> Nat] BY <2>3, ValRangeAssumption DEF Val
  <2>5. what.fn = "load" /\ what.weights = w /\ what.n = n /\ what.c = c OBVIOUS
  <2>6. <<what.weights, what.n, what.c>> \in Loads BY <2>3, <2>5
  <2>7. status \in {"none", "EINVAL", "ERANGE"} OBVIOUS
  <2>8. status = "none" => c <= MAX_C /\ list = bcmc_load(w, n, c) BY <2>3
  <2> HIDE DEF what, list, status, w, n, c
  <2>9. call' = what BY <2>2 DEF Enter
  <2>10. Program' = bcmc_load(w, n, c) BY <2>5, <2>9 DEF Program
  <2>11. ASSUME status = "none"
         PROVE  /\ list = Program' /\ list \in Seq(Operations) /\ Len(list) >= 1
                /\ list[1].kind # "write_ctrl"
    <3>1. list = bcmc_load(w, n, c) BY <2>8, <2>11
    <3>2. IsLoad(list, w, n, c) BY <2>3, <2>4, <3>1, LoadIs
    <3>3. list \in Seq(Operations) /\ Len(list) = c + 5 /\ list[1] = Op("write", At("C"), c)
      BY <3>2 DEF IsLoad
    <3>4. list[1].kind = "write" BY <3>3 DEF Op
    <3> QED BY <2>3, <2>10, <3>1, <3>3, <3>4
  <2>12. status = "none" => what.c <= MAX_C BY <2>5, <2>8
  <2> QED BY <2>2, <2>5, <2>6, <2>7, <2>11, <2>12, Entered
<1>3. CASE CallStart
  <2> DEFINE what == [fn |-> "start"]
  <2>1. Enter(what, bcmc_start, "none") BY <1>3 DEF CallStart
  <2>2. what.fn = "start" OBVIOUS
  <2> HIDE DEF what
  <2>3. call' = what BY <2>1 DEF Enter
  <2>4. Program' = bcmc_start BY <2>2, <2>3 DEF Program
  <2>5. /\ bcmc_start \in Seq(Operations) /\ Len(bcmc_start) >= 1
        /\ bcmc_start[1].kind # "write_ctrl"
    BY StartIs DEF Op
  <2> QED BY <2>1, <2>2, <2>4, <2>5, Entered
<1>4. CASE CallReadColumn
  <2>1. PICK col \in 0 .. dev.n - 1 :
          Enter([fn |-> "read_column", col |-> col], bcmc_read_column(col),
                IF probed THEN "none" ELSE "EINVAL")
    BY <1>4 DEF CallReadColumn
  <2> DEFINE what == [fn |-> "read_column", col |-> col]
             list == bcmc_read_column(col)
             status == IF probed THEN "none" ELSE "EINVAL"
  <2>2. Enter(what, list, status) BY <2>1
  <2>3. what.fn = "read_column" /\ what.col = col /\ col \in Nat OBVIOUS
  <2>4. status \in {"none", "EINVAL", "ERANGE"} /\ list = bcmc_read_column(col) OBVIOUS
  <2> HIDE DEF what, list, status
  <2>5. call' = what BY <2>2 DEF Enter
  <2>6. Program' = list BY <2>3, <2>4, <2>5 DEF Program
  <2>7. IsColumnRead(list, col) BY <2>3, <2>4, ColumnReadIs
  <2>8. /\ list \in Seq(Operations) /\ Len(list) >= 1 /\ list[1].kind # "write_ctrl"
    <3>1. list \in Seq(Operations) /\ Len(list) = 1 + column_words
          /\ list[1] = Op("write", At("CELL_COL"), col)
      BY <2>7 DEF IsColumnRead
    <3>2. list[1].kind = "write" BY <3>1 DEF Op
    <3> QED BY <3>1, <3>2, WindowWords
  <2> QED BY <2>2, <2>3, <2>4, <2>6, <2>8, Entered
<1> QED BY <1>1, <1>2, <1>3, <1>4

-----------------------------------------------------------------------------
(* The next access of the main program.                                    *)

\* The accesses still to be made are the rest of the call.
TheRest ==
  /\ todo \in Seq(Operations)
  /\ IF ret = "none"
     THEN /\ Len(todo) \in 1 .. Len(Program)
          /\ \A k \in 1 .. Len(todo) : todo[k] = Program[made + k]
     ELSE todo = <<>>

(* An access of main is the one its call makes next; what is left is the   *)
(* rest.                                                                   *)
LEMMA MainFacts ==
  ASSUME CallInv, MainStep
  PROVE  /\ ret = "none" /\ call' = call /\ Program' = Program
         /\ Program \in Seq(Operations)
         /\ made \in Nat /\ made + 1 \in 1 .. Len(Program)
         /\ Head(todo) = Program[made + 1] /\ Head(todo) \in Operations
         /\ todo # <<>> /\ todo[1] = Head(todo)
         /\ GoOn =>
              /\ TheRest' /\ made' = made + 1
              /\ ret' = IF made + 1 = Len(Program) THEN "OK" ELSE "none"
              /\ ret' = "none" => todo'[1] = Program[made + 2]
         /\ todo' = <<>> /\ ret' # "none" => TheRest'
         /\ todo' = todo /\ ret' = ret => TheRest' /\ made' = made
<1> DEFINE P == Program
           m == made
           n == Len(todo)
<1>1. /\ ret = "none" /\ call' = call BY DEF MainStep
<1>2. /\ todo \in Seq(Operations) /\ n \in 1 .. Len(P)
      /\ \A k \in 1 .. n : todo[k] = P[m + k]
  BY <1>1 DEF CallInv
<1>3. P' = P /\ P \in Seq(Operations) /\ Len(P) \in Nat
  <2>1. P' = P BY <1>1, SameCall
  <2> DEFINE Q == P
  <2>2. Q = Program OBVIOUS
  <2> HIDE DEF Q
  <2>3. Q \in Seq(Operations) BY <2>2, ProgramOrder
  <2> QED BY <2>1, <2>2, <2>3
<1>4. m = Len(P) - n /\ m' = Len(P) - n' BY <1>3 DEF made
<1> HIDE DEF P, m
<1>5. m \in Nat /\ m + 1 \in 1 .. Len(P) BY <1>2, <1>3, <1>4
<1>6. todo # <<>> /\ Head(todo) = todo[1] /\ todo[1] = P[m + 1]
  BY <1>2, HeadTailProperties
<1>7. Head(todo) \in Operations BY <1>2, <1>6, HeadTailProperties
<1>8. /\ Tail(todo) \in Seq(Operations) /\ Len(Tail(todo)) = n - 1
      /\ \A k \in 1 .. n - 1 : Tail(todo)[k] = todo[k + 1]
  BY <1>2, <1>6, HeadTailProperties
<1>9. TheRest' <=>
        /\ todo' \in Seq(Operations)
        /\ IF ret' = "none"
           THEN n' \in 1 .. Len(P) /\ \A k \in 1 .. n' : todo'[k] = P[m' + k]
           ELSE todo' = <<>>
  BY <1>3 DEF TheRest, P, m
<1>10. ASSUME GoOn
       PROVE  /\ TheRest' /\ m' = m + 1
              /\ ret' = IF m + 1 = Len(P) THEN "OK" ELSE "none"
              /\ ret' = "none" => todo'[1] = P[m + 2]
  <2>1. todo' = Tail(todo) /\ ret' = IF n = 1 THEN "OK" ELSE "none" BY <1>10 DEF GoOn
  <2>2. n' = n - 1 /\ m' = m + 1 BY <1>2, <1>3, <1>4, <1>8, <2>1
  <2>3. n = 1 <=> m + 1 = Len(P)
    <3> DEFINE x == n
               y == Len(P)
    <3>1. x \in 1 .. y /\ y \in Nat /\ m = y - x BY <1>2, <1>3, <1>4
    <3> HIDE DEF x, y
    <3>2. x = 1 <=> m + 1 = y BY <3>1
    <3> QED BY <3>2 DEF x, y
  <2>4. ASSUME NEW k \in 1 .. n - 1 PROVE todo'[k] = P[m' + k]
    <3>1. k + 1 \in 1 .. n /\ m + (k + 1) = m' + k BY <1>2, <1>5, <2>2, <2>4
    <3> QED BY <1>2, <1>8, <2>1, <2>4, <3>1
  <2>5. CASE n = 1
    <3>1. todo' = <<>> BY <1>8, <2>1, <2>2, <2>5, EmptySeq
    <3>2. TheRest' BY <1>8, <1>9, <2>1, <2>5, <3>1
    <3> QED BY <2>1, <2>2, <2>3, <2>5, <3>2
  <2>6. CASE n # 1
    <3>1. n - 1 \in 1 .. Len(P)
      <4> DEFINE x == n
                 y == Len(P)
      <4>1. x \in 1 .. y /\ y \in Nat /\ x # 1 BY <1>2, <1>3, <2>6
      <4> HIDE DEF x, y
      <4>2. x - 1 \in 1 .. y BY <4>1
      <4> QED BY <4>2 DEF x, y
    <3>2. TheRest' BY <1>8, <1>9, <2>1, <2>2, <2>4, <2>6, <3>1
    <3>3. todo'[1] = P[m' + 1] /\ m' + 1 = m + 2 BY <1>2, <1>5, <2>2, <2>4, <2>6
    <3> QED BY <2>1, <2>2, <2>3, <2>6, <3>2, <3>3
  <2> QED BY <2>5, <2>6
<1>11. todo' = <<>> /\ ret' # "none" => TheRest' BY <1>9
<1>12. ASSUME todo' = todo, ret' = ret PROVE TheRest' /\ m' = m
  <2>1. m' = m BY <1>4, <1>12
  <2> QED BY <1>1, <1>2, <1>9, <1>12, <2>1
<1> QED BY <1>1, <1>3, <1>5, <1>6, <1>7, <1>10, <1>11, <1>12 DEF P, m

\* What the program does with the answer: it goes on, it polls again, or it
\* returns with an error.
GoesOn ==
  /\ resp'.kind = "ack" /\ GoOn /\ polls' = polls
  /\ words' = IF Head(todo).kind = "read_word" THEN Append(words, resp'.data) ELSE words
PollsAgain ==
  /\ resp'.kind = "ack" /\ Head(todo).kind = "poll" /\ ~resp'.data.valid
  /\ polls' = polls + 1 /\ words' = words
  /\ IF polls' >= poll_bound(call.c) THEN Return("ENOTREADY")
     ELSE ret' = ret /\ todo' = todo
GivesUp ==
  /\ resp'.kind # "ack" /\ Return("EREFUSED") /\ polls' = polls /\ words' = words

(* After an access main goes on, polls again or gives up, by the answer it *)
(* got.                                                                    *)
LEMMA MainOutcome ==
  ASSUME MainStep, NEW a, a = Head(todo)
  PROVE  /\ Access(a, ctrl)
         /\ ctrl' = IF a.kind = "read_ctrl" THEN resp'.data.irq_en ELSE ctrl
         /\ GoesOn \/ PollsAgain \/ GivesUp
         /\ resp'.kind = "ack" /\ (a.kind = "poll" => resp'.data.valid) => GoesOn
         /\ resp'.kind = "ack" /\ a.kind = "poll" /\ ~resp'.data.valid => PollsAgain
         /\ handler = <<>> /\ handler' = handler /\ wanted' = wanted /\ raced' = raced
         /\ moved' = moved /\ before' = before
<1>1. /\ Access(a, kept_irq_en)
      /\ ctrl' = IF a.kind = "read_ctrl" THEN resp'.data.irq_en ELSE ctrl
      /\ IF resp'.kind = "ack" THEN OnAnswer(a) ELSE OnRefusal(a)
      /\ handler = <<>> /\ handler' = handler /\ UNCHANGED histories
  BY DEF MainStep
<1>2. CASE resp'.kind # "ack" BY <1>1, <1>2 DEF OnRefusal, GivesUp, histories, kept_irq_en
<1>3. CASE resp'.kind = "ack" /\ a.kind = "poll" /\ ~resp'.data.valid
  <2>1. PollsAgain BY <1>1, <1>3 DEF OnAnswer, PollsAgain
  <2> QED BY <1>1, <1>3, <2>1 DEF histories, kept_irq_en
<1>4. CASE resp'.kind = "ack" /\ ~(a.kind = "poll" /\ ~resp'.data.valid)
  <2>1. GoesOn BY <1>1, <1>4 DEF OnAnswer, GoesOn
  <2> QED BY <1>1, <1>4, <2>1 DEF histories, kept_irq_en
<1> QED BY <1>2, <1>3, <1>4

\* An access that reads lets time pass and does nothing else.
LEMMA MainReads ==
  ASSUME DeviceInv(dev), NEW a \in Operations, a.kind \notin {"write", "write_ctrl"},
         Access(a, ctrl)
  PROVE  /\ dev' = advance(dev) /\ Undisturbed(dev, dev')
         /\ dev'.irq_en = dev.irq_en /\ dev'.cell_col = dev.cell_col
         /\ a.addr \in Addresses
         /\ resp'.kind = "ack" <=>
              read_refusal(dev', a.addr, TRUE) = "none" /\ ~read_raises(dev', a.addr)
         /\ resp'.kind = "ack" => resp'.data = read_value(dev', a.addr)
<1>1. a.addr \in Addresses BY DEF Operations, Addresses, Registers
<1>2. Read(a.addr, TRUE) BY DEF Access
<1>3. TRUE \in BOOLEAN OBVIOUS
<1>4. /\ dev' = advance(dev)
      /\ resp'.kind = "ack" <=>
           read_refusal(dev', a.addr, TRUE) = "none" /\ ~read_raises(dev', a.addr)
      /\ resp'.kind = "ack" => resp' = Answer(a.addr, read_value(dev', a.addr))
  BY <1>1, <1>2, <1>3, ReadOutcome DEF Addresses
<1>5. /\ Undisturbed(dev, dev')
      /\ dev'.irq_en = dev.irq_en /\ dev'.cell_col = dev.cell_col
  BY <1>4, AdvanceUndisturbed
<1>6. resp'.kind = "ack" => resp'.data = read_value(dev', a.addr)
  <2>1. \A addr, data : Answer(addr, data).data = data BY DEF Answer
  <2> QED BY <1>4, <2>1
<1> QED BY <1>1, <1>4, <1>5, <1>6

\* The datum of a write of the driver.
Datum(a, command) == IF a.kind = "write_ctrl" THEN Command(TRUE, command) ELSE a.data

(* A write of main has the datum its call computed.                        *)
LEMMA MainWrites ==
  ASSUME DeviceInv(dev), NEW a \in Operations, a.kind \in {"write", "write_ctrl"},
         Access(a, ctrl), a.kind = "write_ctrl" => ctrl \in BOOLEAN,
         NEW d, d = advance(dev), NEW data, data = Datum(a, ctrl)
  PROVE  Writes(d, a.addr, data)
<1>1. a.addr \in [reg : Registers, i : Nat] BY DEF Operations, Registers
<1> DEFINE addr == a.addr
<1>4. ASSUME Fits(addr, data), Write(addr, data, TRUE)
      PROVE  Writes(d, addr, data)
  <2> HIDE DEF addr
  <2> QED BY <1>4, DriverWrites
<1>2. CASE a.kind = "write"
  <2>1. data = a.data /\ data \in Nat /\ a.addr.reg \in {"N", "C", "CELL_COL", "WEIGHT"}
    BY <1>2 DEF Datum, Operations
  <2>2. Fits(a.addr, data) BY <1>1, <2>1 DEF Fits
  <2>3. Write(a.addr, data, TRUE) BY <1>2, <2>1 DEF Access
  <2> QED BY <1>4, <2>2, <2>3
<1>3. CASE a.kind = "write_ctrl"
  <2>1. data = [start |-> TRUE, irq_en |-> ctrl] /\ ctrl \in BOOLEAN
    BY <1>3 DEF Datum, Command
  <2>2. a.addr.reg = "CTRL" BY <1>3 DEF Operations
  <2>3. Fits(a.addr, data) BY <1>1, <2>1, <2>2 DEF Fits
  <2>4. Write(a.addr, data, TRUE) BY <1>3 DEF Access, Datum
  <2> QED BY <1>4, <2>3, <2>4
<1> QED BY <1>2, <1>3

\* CTRL is only written with what was read of it.
LEMMA MainIrq ==
  ASSUME DriverInv, MainStep
  PROVE  IrqInv'
<1> DEFINE a == Head(todo)
           d == advance(dev)
           data == Datum(a, ctrl)
           m == made
           P == Program
<1>1. /\ ret = "none" /\ P \in Seq(Operations)
      /\ m \in Nat /\ m + 1 \in 1 .. Len(P) /\ a = P[m + 1] /\ a \in Operations
      /\ todo[1] = a
      /\ GoOn => ret' = IF m + 1 = Len(P) THEN "OK" ELSE "none"
      /\ GoOn /\ ret' = "none" => todo'[1] = P[m + 2]
  BY MainFacts DEF DriverInv
<1>2. \A k \in 1 .. Len(P) : P[k].kind = "write_ctrl" => k > 1 /\ P[k - 1].kind = "read_ctrl"
  <2> DEFINE Q == P
  <2>1. Q = Program OBVIOUS
  <2> HIDE DEF Q
  <2>2. \A k \in 1 .. Len(Q) : Q[k].kind = "write_ctrl" => k > 1 /\ Q[k - 1].kind = "read_ctrl"
    BY <2>1, ProgramOrder DEF DriverInv
  <2> QED BY <2>2 DEF Q
<1>3. /\ dev.irq_en # wanted => raced
      /\ a.kind = "write_ctrl" => ctrl \in BOOLEAN /\ (ctrl = dev.irq_en \/ raced)
      /\ wanted \in BOOLEAN /\ raced \in BOOLEAN
  BY <1>1 DEF DriverInv, IrqInv
<1>4. DeviceInv(dev) BY DEF DriverInv, CallInv
<1>5. d.irq_en = dev.irq_en BY <1>4, AdvanceUndisturbed
<1>6. /\ Access(a, ctrl)
      /\ ctrl' = IF a.kind = "read_ctrl" THEN resp'.data.irq_en ELSE ctrl
      /\ GoesOn \/ PollsAgain \/ GivesUp
      /\ wanted' = wanted /\ raced' = raced
  BY MainOutcome
<1>7. d = advance(dev) /\ data = Datum(a, ctrl) /\ a = Head(todo) OBVIOUS
<1> HIDE DEF a, d, data, m, P
<1>8. CASE a.kind \in {"write", "write_ctrl"}
  <2>1. Writes(d, a.addr, data) BY <1>1, <1>3, <1>4, <1>6, <1>7, <1>8, MainWrites
  <2> DEFINE addr == a.addr
  <2>2. Writes(d, addr, data) BY <2>1
  <2>3. /\ a.kind = "write" => addr.reg # "CTRL"
        /\ a.kind = "write_ctrl" => addr.reg = "CTRL" /\ data.irq_en = ctrl
    BY <1>1, <1>7 DEF Operations, Datum, Command
  <2> HIDE DEF addr
  <2>4. dev'.irq_en = dev.irq_en \/ (a.kind = "write_ctrl" /\ dev'.irq_en = ctrl)
    BY <1>5, <1>8, <2>2, <2>3 DEF Writes, Changes
  <2>5. dev'.irq_en # wanted' => raced' BY <1>3, <1>6, <2>4
  <2>6. ~(ret' = "none" /\ todo'[1].kind = "write_ctrl")
    <3>1. ASSUME GoesOn, ret' = "none", todo'[1].kind = "write_ctrl" PROVE FALSE
      <4>1. m + 2 \in 1 .. Len(P) /\ P[m + 2].kind = "write_ctrl"
        BY <1>1, <3>1 DEF GoesOn
      <4>2. P[(m + 2) - 1].kind = "read_ctrl" BY <1>2, <4>1
      <4>3. (m + 2) - 1 = m + 1 BY <1>1
      <4> QED BY <1>1, <1>8, <4>2, <4>3
    <3>2. ~PollsAgain BY <1>7, <1>8 DEF PollsAgain
    <3>3. GivesUp => ret' # "none" BY DEF GivesUp, Return
    <3> QED BY <1>6, <3>1, <3>2, <3>3
  <2> QED BY <1>3, <1>6, <2>5, <2>6 DEF IrqInv
<1>9. CASE a.kind \notin {"write", "write_ctrl"}
  <2>1. /\ Undisturbed(dev, dev') /\ dev'.irq_en = dev.irq_en
        /\ resp'.kind = "ack" => resp'.data = read_value(dev', a.addr)
    BY <1>1, <1>4, <1>6, <1>9, MainReads
  <2>2. ASSUME ret' = "none", todo'[1].kind = "write_ctrl"
        PROVE  ctrl' \in BOOLEAN /\ ctrl' = dev'.irq_en
    <3>1. ~PollsAgain
      <4> SUFFICES ASSUME PollsAgain PROVE FALSE OBVIOUS
      <4>1. a.kind = "poll" BY <1>7 DEF PollsAgain
      <4>2. CASE polls' >= poll_bound(call.c)
        BY <2>2, <4>2 DEF PollsAgain, Return
      <4>3. CASE ~(polls' >= poll_bound(call.c))
        BY <1>1, <2>2, <4>1, <4>3 DEF PollsAgain
      <4> QED BY <4>2, <4>3
    <3>2. GoesOn BY <1>6, <2>2, <3>1 DEF GivesUp, Return
    <3>3. m + 2 \in 1 .. Len(P) /\ P[m + 2].kind = "write_ctrl"
      BY <1>1, <2>2, <3>2 DEF GoesOn
    <3>4. P[(m + 2) - 1].kind = "read_ctrl" BY <1>2, <3>3
    <3>5. (m + 2) - 1 = m + 1 BY <1>1
    <3>6. a.kind = "read_ctrl" BY <1>1, <3>4, <3>5
    <3>7. a.addr.reg = "CTRL" BY <1>1, <3>6 DEF Operations
    <3>8. resp'.data = [irq_en |-> dev'.irq_en] BY <2>1, <3>2, <3>7 DEF GoesOn, read_value
    <3>9. dev'.irq_en \in BOOLEAN BY <2>1 DEF Undisturbed, DeviceInv, Device
    <3> QED BY <1>6, <3>6, <3>8, <3>9
  <2> QED BY <1>3, <1>6, <2>1, <2>2 DEF IrqInv
<1> QED BY <1>8, <1>9

\* What is left to show of a step, which depends on the call.
MainKeeps ==
  /\ DeviceInv(dev') /\ dev'.latency = dev.latency /\ dev'.c <= MAX_C
  /\ ret' # "ENOTREADY" /\ call' = call
  /\ call.fn = "read_column" => dev'.n = dev.n
  /\ LoadInv' /\ ColumnInv'

(* A step of main that keeps the parts of its own call keeps DriverInv.    *)
LEMMA MainCommon ==
  ASSUME DriverInv, MainStep, MainKeeps
  PROVE  DriverInv'
<1>1. /\ call' = call /\ Program' = Program
      /\ GoOn => TheRest' /\ ret' \in {"OK", "none"}
      /\ todo' = <<>> /\ ret' # "none" => TheRest'
      /\ todo' = todo /\ ret' = ret => TheRest'
      /\ ret = "none"
  <2>1. CallInv BY DEF DriverInv
  <2>2. GoOn => ret' = "OK" \/ ret' = "none" BY DEF GoOn
  <2> QED BY <2>1, <2>2, MainFacts
<1>2. /\ GoesOn \/ PollsAgain \/ GivesUp
      /\ handler' = handler /\ moved' = moved
  BY MainOutcome
<1>3. TheRest' /\ ret' \in {"none", "OK", "EINVAL", "ERANGE", "EREFUSED"}
  <2>1. CASE GoesOn BY <1>1, <2>1 DEF GoesOn
  <2>2. CASE GivesUp
    <3>1. ret' = "EREFUSED" /\ todo' = <<>> BY <2>2 DEF GivesUp, Return
    <3> QED BY <1>1, <3>1
  <2>3. CASE PollsAgain
    <3>1. ret' = ret /\ todo' = todo BY <2>3 DEF PollsAgain, Return, MainKeeps
    <3> QED BY <1>1, <3>1
  <2> QED BY <1>2, <2>1, <2>2, <2>3
<1>4. CallInv'
  <2>1. /\ call.fn \in {"none", "probe", "load", "start", "read_column"}
        /\ Loading => <<call.weights, call.n, call.c>> \in Loads
        /\ Loading => call.c <= MAX_C
        /\ call.fn = "read_column" => call.col \in 0 .. dev.n - 1
        /\ dev.latency \in Latencies
    BY <1>1 DEF DriverInv, CallInv
  <2>2. Loading' <=> Loading BY <1>1, SameCall
  <2> QED BY <1>1, <1>3, <2>1, <2>2 DEF CallInv, TheRest, MainKeeps
<1>5. HandlerInv' BY <1>2 DEF DriverInv, HandlerInv
<1>6. IrqInv' BY MainIrq
<1> QED BY <1>4, <1>5, <1>6 DEF DriverInv, MainKeeps

\* A call that neither writes the context nor polls.
LEMMA MainOther ==
  ASSUME DriverInv, MainStep, call.fn \notin {"load", "read_column"}
  PROVE  MainKeeps
<1> DEFINE a == Head(todo)
           d == advance(dev)
           data == Datum(a, ctrl)
           m == made
           P == Program
<1>1. /\ ret = "none" /\ call' = call
      /\ m \in Nat /\ m + 1 \in 1 .. Len(P) /\ a = P[m + 1] /\ a \in Operations
      /\ todo[1] = a
  BY MainFacts DEF DriverInv
<1>2. call.fn \in {"none", "probe", "start"} BY DEF DriverInv, CallInv
<1>3. a.kind \in {"read_id", "read_ctrl", "write_ctrl"}
  <2>1. CASE call.fn = "none"
    <3>1. P = <<>> BY <2>1 DEF Program
    <3> QED BY <1>1, <3>1
  <2>2. CASE call.fn = "probe"
    <3>1. P = bcmc_probe BY <2>2 DEF Program
    <3>2. m + 1 \in 1 .. 3 BY <1>1, <3>1, ProbeIs
    <3>3. a = Op("read_id", At("CONST"), 0) BY <1>1, <3>1, <3>2, ProbeIs
    <3> QED BY <3>3 DEF Op
  <2>3. CASE call.fn = "start"
    <3>1. P = bcmc_start BY <2>3 DEF Program
    <3>2. m + 1 = 1 \/ m + 1 = 2 BY <1>1, <3>1, StartIs
    <3>3. a = Op("read_ctrl", At("CTRL"), 0) \/ a = Op("write_ctrl", At("CTRL"), 0)
      BY <1>1, <3>1, <3>2, StartIs
    <3>4. a.kind = "read_ctrl" \/ a.kind = "write_ctrl" BY <3>3 DEF Op
    <3> QED BY <3>4
  <2> QED BY <1>2, <2>1, <2>2, <2>3
<1>4. /\ DeviceInv(dev) /\ dev.c <= MAX_C
      /\ a.kind = "write_ctrl" => ctrl \in BOOLEAN
  BY <1>1 DEF DriverInv, CallInv, IrqInv
<1>5. Access(a, ctrl) /\ (GoesOn \/ PollsAgain \/ GivesUp) BY MainOutcome
<1>6. d = advance(dev) /\ data = Datum(a, ctrl) /\ a = Head(todo) OBVIOUS
<1>7. DeviceInv(d) /\ SameContext(d, dev) /\ d.latency = dev.latency
  BY <1>4, AdvanceUndisturbed DEF Undisturbed
<1> HIDE DEF a, d, data, m, P
<1>8. DeviceInv(dev') /\ dev'.latency = dev.latency /\ dev'.c = dev.c
  <2>1. CASE a.kind = "write_ctrl"
    <3> DEFINE addr == a.addr
    <3>1. Writes(d, addr, data) BY <1>1, <1>4, <1>5, <1>6, <2>1, MainWrites
    <3>2. addr.reg = "CTRL" BY <1>1, <2>1 DEF Operations
    <3> HIDE DEF addr
    <3>3. addr.reg \notin Context BY <3>2 DEF Context
    <3> QED BY <1>7, <3>1, <3>3 DEF Writes, Changes, SameContext
  <2>2. CASE a.kind # "write_ctrl"
    <3>1. a.kind \notin {"write", "write_ctrl"} BY <1>3, <2>2
    <3>2. Undisturbed(dev, dev') BY <1>1, <1>4, <1>5, <3>1, MainReads
    <3> QED BY <3>2 DEF Undisturbed, SameContext
  <2> QED BY <2>1, <2>2
<1>9. ret' # "ENOTREADY"
  <2>1. ~PollsAgain BY <1>3, <1>6 DEF PollsAgain
  <2>2. GoesOn => ret' # "ENOTREADY" BY DEF GoesOn, GoOn
  <2>3. GivesUp => ret' # "ENOTREADY" BY DEF GivesUp, Return
  <2> QED BY <1>5, <2>1, <2>2, <2>3
<1>10. LoadInv' /\ ColumnInv' BY <1>1, <1>2 DEF LoadInv, ColumnInv, Loading
<1> QED BY <1>1, <1>2, <1>4, <1>8, <1>9, <1>10 DEF MainKeeps

\* The word that a read is answered with is a word of the column, by its
\* definition.
WordOf(d, k, col) ==
  {i \in Rows : /\ i \div WordLanes = k - 1 /\ i < d.c
                /\ RefBit(i, col, d.n, d.c, d.weights)}

(* A word read over VALID is a word of the column selected.                *)
LEMMA WordIsColumn ==
  ASSUME NEW d, DeviceInv(d), d.valid, NEW k \in Nat, d.cell_col < d.n
  PROVE  column_word(d, k) = WordOf(d, k + 1, d.cell_col)
<1>1. (k + 1) - 1 = k OBVIOUS
<1>2. \A i \in Rows :
        evaluate(d, i) <=> i < d.c /\ RefBit(i, d.cell_col, d.n, d.c, d.weights)
  BY ValidIsReference
<1> QED BY <1>1, <1>2 DEF column_word, WordOf

(* A step of bcmc_read_column keeps the words read those of the column     *)
(* asked for.                                                              *)
LEMMA MainColumn ==
  ASSUME DriverInv, MainStep, call.fn = "read_column"
  PROVE  MainKeeps
<1> DEFINE a == Head(todo)
           d == advance(dev)
           data == Datum(a, ctrl)
           m == made
           P == Program
           col == call.col
<1>1. /\ ret = "none" /\ call' = call
      /\ m \in Nat /\ m + 1 \in 1 .. Len(P) /\ a = P[m + 1] /\ a \in Operations
      /\ GoOn => m' = m + 1
  BY MainFacts DEF DriverInv
<1>2. /\ DeviceInv(dev) /\ dev.c <= MAX_C /\ col \in 0 .. dev.n - 1 /\ dev.n \in Val
  BY DEF DriverInv, CallInv, DeviceInv, Device
<1>3. col \in Nat /\ col \in Val /\ col < dev.n
  BY <1>2, ValRangeAssumption DEF Val
<1>4. /\ Access(a, ctrl) /\ (GoesOn \/ PollsAgain \/ GivesUp)
      /\ resp'.kind = "ack" /\ (a.kind = "poll" => resp'.data.valid) => GoesOn
      /\ moved' = moved
  BY MainOutcome
<1>5. ~moved =>
        /\ words \in Seq(SUBSET Rows)
        /\ \A k \in DOMAIN words : words[k] = WordOf(dev, k, col)
        /\ m = 0 => words = <<>>
        /\ m >= 1 => dev.cell_col = col /\ Len(words) = m - 1
  BY <1>1 DEF DriverInv, ColumnInv, ColumnWord, WordOf
<1>6. /\ Len(P) = 1 + column_words
      /\ P[1] = Op("write", At("CELL_COL"), col)
      /\ \A k \in 1 .. column_words : P[1 + k] = Op("read_word", Lane("COLUMN", k - 1), 0)
  <2> DEFINE Q == P
             x == col
  <2>1. Q = bcmc_read_column(x) /\ x \in Nat BY <1>3 DEF Program
  <2> HIDE DEF Q, x
  <2>2. IsColumnRead(Q, x) BY <2>1, ColumnReadIs
  <2> QED BY <2>2 DEF IsColumnRead, Q, x
<1>7. d = advance(dev) /\ data = Datum(a, ctrl) /\ a = Head(todo) OBVIOUS
<1>8. DeviceInv(d) /\ SameContext(d, dev) /\ d.latency = dev.latency
  BY <1>2, AdvanceUndisturbed DEF Undisturbed
<1>9. ~Loading' /\ LoadInv' BY <1>1 DEF Loading, LoadInv
<1>10. ColumnInv' <=>
         (ret' \in {"none", "OK"} /\ ~moved' =>
            /\ words' \in Seq(SUBSET Rows)
            /\ \A k \in DOMAIN words' : words'[k] = WordOf(dev', k, col)
            /\ ret' = "none" =>
                 /\ m' = 0 => words' = <<>>
                 /\ m' >= 1 => dev'.cell_col = col /\ Len(words') = m' - 1)
  BY <1>1 DEF ColumnInv, ColumnWord, WordOf
<1> HIDE DEF a, d, data, m, P, col
<1>11. GoesOn => ret' # "ENOTREADY" /\ m' = m + 1 BY <1>1 DEF GoesOn, GoOn
<1>12. GivesUp => ret' = "EREFUSED" BY DEF GivesUp, Return
<1>13. CASE m = 0
  <2>1. a = Op("write", At("CELL_COL"), col) BY <1>1, <1>6, <1>13
  <2> DEFINE addr == a.addr
  <2>2. /\ a.kind = "write" /\ addr.reg = "CELL_COL" /\ data = col
    <3>1. a.kind = "write" /\ a.addr = At("CELL_COL") /\ a.data = col BY <2>1 DEF Op
    <3>2. data = a.data BY <1>7, <3>1 DEF Datum
    <3>3. addr.reg = "CELL_COL" BY <3>1 DEF At
    <3> QED BY <3>1, <3>2, <3>3
  <2>3. Writes(d, addr, data) BY <1>1, <1>2, <1>4, <1>7, <2>2, MainWrites
  <2> HIDE DEF addr
  <2>4. Admitted(d, addr, data) BY <2>2 DEF Admitted, Context
  <2>5. /\ DeviceInv(dev') /\ SameContext(dev', d) /\ dev'.latency = d.latency
        /\ resp'.kind = "ack" /\ dev'.cell_col = field(col, ValRange)
    BY <2>2, <2>3, <2>4 DEF Writes, Changes, Context
  <2>6. dev'.cell_col = col BY <1>3, <2>5, FieldType
  <2>7. GoesOn BY <1>4, <2>2, <2>5
  <2>8. words' = words BY <1>7, <2>2, <2>7 DEF GoesOn
  <2>9. m' = 1 /\ ret' # "ENOTREADY" BY <1>11, <1>13, <2>7
  <2>10. ASSUME ~moved
         PROVE  /\ words' \in Seq(SUBSET Rows) /\ DOMAIN words' = {} /\ Len(words') = 0
    <3>1. words' = <<>> BY <1>5, <1>13, <2>8, <2>10
    <3> QED BY <3>1
  <2>11. ColumnInv' BY <1>4, <1>10, <2>6, <2>9, <2>10
  <2> QED BY <1>1, <1>2, <1>8, <1>9, <2>5, <2>9, <2>11 DEF MainKeeps, SameContext
<1>14. CASE m >= 1
  <2> DEFINE addr == a.addr
             k == m - 1
  <2>1. k \in Nat /\ m = k + 1 BY <1>1, <1>14
  <2>2. a = Op("read_word", Lane("COLUMN", k), 0)
    <3>1. m \in 1 .. column_words /\ 1 + m = m + 1
      <4>1. column_words \in Nat BY WindowWords
      <4> QED BY <1>1, <1>6, <1>14, <4>1
    <3> QED BY <1>1, <1>6, <3>1
  <2>3. a.kind = "read_word" /\ addr.reg = "COLUMN" /\ addr.i = k
    BY <2>2 DEF Op, Lane
  <2> HIDE DEF addr, k
  <2>4. /\ dev' = advance(dev) /\ Undisturbed(dev, dev') /\ dev'.cell_col = dev.cell_col
        /\ a.addr \in Addresses
        /\ resp'.kind = "ack" <=>
             read_refusal(dev', a.addr, TRUE) = "none" /\ ~read_raises(dev', a.addr)
        /\ resp'.kind = "ack" => resp'.data = read_value(dev', a.addr)
    BY <1>1, <1>2, <1>4, <2>3, MainReads
  <2>5. DeviceInv(dev') /\ dev'.n = dev.n /\ dev'.c = dev.c /\ dev'.weights = dev.weights
        /\ dev'.latency = dev.latency
    BY <2>4 DEF Undisturbed, SameContext
  <2>6. ~PollsAgain BY <1>7, <2>3 DEF PollsAgain
  <2>7. ret' # "ENOTREADY" BY <1>4, <1>11, <1>12, <2>6
  <2>8. ASSUME ret' \in {"none", "OK"}, ~moved'
        PROVE  /\ words' \in Seq(SUBSET Rows)
               /\ \A x \in DOMAIN words' : words'[x] = WordOf(dev', x, col)
               /\ dev'.cell_col = col /\ Len(words') = m' - 1 /\ m' \in Nat /\ m' # 0
    <3>1. GoesOn /\ resp'.kind = "ack" BY <1>4, <1>12, <2>6, <2>8 DEF GoesOn
    <3>2. m' = m + 1 BY <1>11, <3>1
    <3>3. /\ words \in Seq(SUBSET Rows) /\ Len(words) = k /\ dev.cell_col = col
          /\ \A x \in DOMAIN words : words[x] = WordOf(dev, x, col)
      BY <1>4, <1>5, <1>14, <2>8 DEF k
    <3> DEFINE v == resp'.data
    <3>4. v = column_word(dev', k) BY <2>3, <2>4, <3>1 DEF read_value, addr
    <3>5. dev'.valid
      <4>1. dev' \in Device BY <2>5 DEF DeviceInv
      <4>2. TRUE \in BOOLEAN /\ addr \in [reg : Registers, i : Nat]
        BY <2>4 DEF addr, Addresses
      <4>3. read_refusal(dev', addr, TRUE) = "none" BY <2>4, <3>1 DEF addr
      <4> QED BY <2>3, <4>1, <4>2, <4>3, ReadAdmitted DEF Matrix
    <3>6. dev'.cell_col = col /\ dev'.cell_col < dev'.n BY <1>3, <2>4, <2>5, <3>3
    <3>7. column_word(dev', k) = WordOf(dev', k + 1, dev'.cell_col)
      BY <2>1, <2>5, <3>5, <3>6, WordIsColumn
    <3>8. v = WordOf(dev', k + 1, col) BY <3>4, <3>6, <3>7
    <3>9. \A x : WordOf(dev', x, col) = WordOf(dev, x, col) BY <2>5 DEF WordOf
    <3>10. v \in SUBSET Rows BY <3>8 DEF WordOf
    <3>11. words' = Append(words, v) BY <1>7, <2>3, <3>1 DEF GoesOn
    <3> HIDE DEF v
    <3>12. /\ words' \in Seq(SUBSET Rows) /\ Len(words') = k + 1
           /\ \A x \in 1 .. k : words'[x] = words[x]
           /\ words'[k + 1] = v
      BY <3>3, <3>10, <3>11, AppendProperties
    <3>13. DOMAIN words = 1 .. k /\ DOMAIN words' = 1 .. k + 1 BY <3>3, <3>12
    <3>14. ASSUME NEW x \in 1 .. k + 1 PROVE words'[x] = WordOf(dev', x, col)
      <4>1. x \in 1 .. k \/ x = k + 1 BY <2>1
      <4> QED BY <3>3, <3>8, <3>9, <3>12, <3>13, <4>1
    <3>15. Len(words') = m' - 1 /\ m' \in Nat /\ m' # 0 BY <2>1, <3>2, <3>12
    <3> QED BY <3>6, <3>12, <3>13, <3>14, <3>15
  <2>9. ColumnInv' BY <1>10, <2>8
  <2> QED BY <1>1, <1>2, <1>9, <2>5, <2>7, <2>9 DEF MainKeeps
<1> QED BY <1>1, <1>13, <1>14

\* A load, access by access.
LEMMA MainLoad ==
  ASSUME DriverInv, MainStep, Loading
  PROVE  MainKeeps /\ (ret' = "OK" => dev'.valid /\ Requested(dev'))
<1> DEFINE a == Head(todo)
           d == advance(dev)
           data == Datum(a, ctrl)
           m == made
           P == Program
           w == call.weights
           n == call.n
           c == call.c
<1>1. /\ ret = "none" /\ call' = call
      /\ m \in Nat /\ m + 1 \in 1 .. Len(P) /\ a = P[m + 1] /\ a \in Operations
      /\ todo[1] = a
      /\ GoOn => /\ m' = m + 1
                 /\ ret' = IF m + 1 = Len(P) THEN "OK" ELSE "none"
      /\ todo' = todo /\ ret' = ret => m' = m
  BY MainFacts DEF DriverInv
<1>2. /\ n \in Val /\ n # 0 /\ n \in Nat /\ c \in Nat
      /\ w \in [1 .. c -> 0 .. n] /\ w \in [1 .. c -> Nat]
      /\ c <= MAX_C /\ c \in 0 .. IdxRange - 1 /\ MAX_C \in Nat
  <2> DEFINE x == c
  <2>1. n \in Val /\ n # 0 /\ n \in Nat /\ x \in Nat
        /\ w \in [1 .. x -> 0 .. n] /\ w \in [1 .. x -> Nat]
    BY LoadArguments DEF DriverInv
  <2>2. x <= MAX_C BY <1>1 DEF DriverInv, CallInv
  <2>3. MAX_C < IdxRange /\ MAX_C \in Nat /\ IdxRange \in Nat
    BY DriverAssumption, RegsAssumption
  <2> HIDE DEF x
  <2>4. x \in 0 .. IdxRange - 1 BY <2>1, <2>2, <2>3
  <2> QED BY <2>1, <2>2, <2>3, <2>4 DEF x
<1>3. /\ Len(P) = c + 5
      /\ P[1] = Op("write", At("C"), c) /\ P[2] = Op("write", At("N"), n)
      /\ \A i \in 0 .. c - 1 : P[3 + i] = Op("write", Lane("WEIGHT", i), w[i + 1])
      /\ P[c + 3] = Op("read_ctrl", At("CTRL"), 0)
      /\ P[c + 4] = Op("write_ctrl", At("CTRL"), 0)
      /\ P[c + 5] = Op("poll", At("STATUS"), 0)
  <2>1. P = bcmc_load(w, n, c) BY DEF Program, Loading
  <2> HIDE DEF P, w, n, c
  <2>2. IsLoad(P, w, n, c) BY <1>2, <2>1, LoadIs
  <2> QED BY <2>2 DEF IsLoad
<1>4. /\ DeviceInv(dev) /\ dev \in Device /\ dev.c <= MAX_C
      /\ dev.latency \in Nat /\ dev.latency \in Latencies /\ dev.remaining \in Nat
      /\ dev.weights \in Window
      /\ a.kind = "write_ctrl" => ctrl \in BOOLEAN
  BY <1>1 DEF DriverInv, CallInv, IrqInv, DeviceInv, Device
<1>5. /\ Access(a, ctrl) /\ (GoesOn \/ PollsAgain \/ GivesUp)
      /\ resp'.kind = "ack" /\ (a.kind = "poll" => resp'.data.valid) => GoesOn
      /\ resp'.kind = "ack" /\ a.kind = "poll" /\ ~resp'.data.valid => PollsAgain
      /\ before' = before
  BY MainOutcome
<1>6. /\ m = 0 => SameContext(dev, before)
      /\ m >= 1 => dev.c = c
      /\ m >= 2 => dev.n = n
      /\ \A i \in 0 .. c - 1 : m >= 3 + i => dev.weights[i] = w[i + 1]
      /\ m \in 1 .. c + 3 => ~dev.busy /\ polls = 0
      /\ m = 0 => polls = 0
      /\ m = c + 4 => /\ polls \in Nat
                      /\ dev.valid \/ (dev.busy /\ polls + dev.remaining <= dev.latency)
  BY <1>1 DEF DriverInv, LoadInv
<1>7. LoadInv' <=>
        /\ ret' = "none" =>
             /\ m' = 0 => SameContext(dev', before')
             /\ m' >= 1 => dev'.c = c
             /\ m' >= 2 => dev'.n = n
             /\ \A i \in 0 .. c - 1 : m' >= 3 + i => dev'.weights[i] = w[i + 1]
             /\ m' \in 1 .. c + 3 => ~dev'.busy /\ polls' = 0
             /\ m' = 0 => polls' = 0
             /\ m' = c + 4 =>
                  /\ polls' \in Nat
                  /\ dev'.valid \/ (dev'.busy /\ polls' + dev'.remaining <= dev'.latency)
        /\ ret' \notin {"none", "OK"} => SameContext(dev', before')
  BY <1>1 DEF LoadInv, Loading
<1>8. ColumnInv' /\ call.fn # "read_column" BY <1>1 DEF ColumnInv, Loading
<1>9. d = advance(dev) /\ data = Datum(a, ctrl) /\ a = Head(todo) OBVIOUS
<1>10. DeviceInv(d) /\ SameContext(d, dev) /\ d.latency = dev.latency
  BY <1>4, AdvanceUndisturbed DEF Undisturbed
<1>11. \A x : Requested(x) <=>
         x.n = n /\ x.c = c /\ \A i \in 0 .. c - 1 : x.weights[i] = w[i + 1]
  BY DEF Requested
<1> HIDE DEF a, d, data, m, P, w, n, c
<1>12. m <= c + 4 BY <1>1, <1>2, <1>3
<1>13. ASSUME GoesOn, m < c + 4, polls = 0, DeviceInv(dev'), dev'.latency = dev.latency,
              dev'.c = c, m >= 1 => dev'.n = n,
              \A i \in 0 .. c - 1 : m + 1 >= 3 + i => dev'.weights[i] = w[i + 1],
              m < c + 3 => ~dev'.busy,
              m = c + 3 => dev'.busy /\ dev'.remaining <= dev'.latency
       PROVE  MainKeeps /\ (ret' = "OK" => dev'.valid /\ Requested(dev'))
  <2>1. m' = m + 1 /\ ret' = "none" /\ polls' = 0
    <3>1. m + 1 # Len(P) BY <1>1, <1>2, <1>3, <1>13
    <3> QED BY <1>1, <1>13, <3>1 DEF GoesOn
  <2>2. dev'.remaining \in Nat BY <1>13 DEF DeviceInv, Device
  <2>3. LoadInv'
    <3>1. m' # 0 /\ (m' >= 2 => m >= 1) /\ (m' \in 1 .. c + 3 => m < c + 3)
          /\ (m' = c + 4 => m = c + 3)
      BY <1>1, <1>2, <2>1
    <3>2. m' = c + 4 => polls' \in Nat /\ dev'.busy /\ polls' + dev'.remaining <= dev'.latency
      BY <1>13, <2>1, <2>2, <3>1
    <3> QED BY <1>7, <1>13, <2>1, <3>1, <3>2
  <2> QED BY <1>1, <1>2, <1>8, <1>13, <2>1, <2>3 DEF MainKeeps
<1>14. CASE m = 0
  <2>1. a = Op("write", At("C"), c) BY <1>1, <1>3, <1>14
  <2> DEFINE addr == a.addr
  <2>2. a.kind = "write" /\ addr.reg = "C" /\ data = c
    <3>1. a.kind = "write" /\ a.addr = At("C") /\ a.data = c BY <2>1 DEF Op
    <3>2. data = a.data BY <1>9, <3>1 DEF Datum
    <3>3. addr.reg = "C" BY <3>1 DEF At
    <3> QED BY <3>1, <3>2, <3>3
  <2>3. Writes(d, addr, data) BY <1>1, <1>4, <1>5, <1>9, <2>2, MainWrites
  <2> HIDE DEF addr
  <2>4. CASE Admitted(d, addr, data)
    <3>1. /\ Changes(d, dev', addr, data) /\ resp'.kind = "ack"
      BY <2>2, <2>3, <2>4 DEF Writes
    <3>2. DeviceInv(dev') /\ dev'.latency = d.latency /\ ~dev'.busy
          /\ dev'.c = field(c, IdxRange)
      BY <2>2, <3>1 DEF Changes, Context
    <3>3. dev'.c = c BY <1>2, <3>2, FieldType
    <3>4. GoesOn BY <1>5, <2>2, <3>1
    <3>5. m < c + 4 /\ ~(m >= 1) /\ m # c + 3 /\ \A i \in 0 .. c - 1 : ~(m + 1 >= 3 + i)
      BY <1>2, <1>14
    <3> QED BY <1>6, <1>10, <1>13, <1>14, <3>2, <3>3, <3>4, <3>5
  <2>5. CASE ~Admitted(d, addr, data)
    <3>1. dev' = d /\ resp'.kind # "ack" BY <2>3, <2>5 DEF Writes
    <3>2. GivesUp BY <1>5, <3>1 DEF GoesOn, PollsAgain
    <3>3. ret' = "EREFUSED" BY <3>2 DEF GivesUp, Return
    <3>4. SameContext(dev', before') BY <1>5, <1>6, <1>10, <1>14, <3>1 DEF SameContext
    <3>5. LoadInv' BY <1>7, <3>3, <3>4
    <3> QED BY <1>1, <1>4, <1>8, <1>10, <3>1, <3>3, <3>5 DEF MainKeeps, SameContext
  <2> QED BY <2>4, <2>5
<1>15. ASSUME m >= 1, m < c + 4
       PROVE  ~dev.busy /\ polls = 0 /\ d = dev
  <2>1. m \in 1 .. c + 3 BY <1>1, <1>2, <1>15
  <2> QED BY <1>6, <1>9, <2>1 DEF advance
<1>16. ASSUME m >= 1, m < c + 4, NEW addr, NEW x, addr = a.addr, x = a.data, x \in Nat,
              a.kind = "write", addr.reg \in {"N", "WEIGHT"},
              addr.reg = "WEIGHT" => addr.i < MAX_C
       PROVE  /\ Changes(dev, dev', addr, x) /\ GoesOn
              /\ DeviceInv(dev') /\ dev'.latency = dev.latency /\ ~dev'.busy
  <2>1. data = x BY <1>9, <1>16 DEF Datum
  <2>2. Writes(d, a.addr, data) BY <1>1, <1>4, <1>5, <1>9, <1>16, MainWrites
  <2>3. Writes(dev, addr, x) BY <1>15, <1>16, <2>1, <2>2
  <2>4. Admitted(dev, addr, x) BY <1>15, <1>16 DEF Admitted
  <2>5. Changes(dev, dev', addr, x) /\ resp'.kind = "ack"
    BY <1>16, <2>3, <2>4 DEF Writes
  <2>6. GoesOn BY <1>5, <1>16, <2>5
  <2> QED BY <1>16, <2>5, <2>6 DEF Changes, Context
<1>17. CASE m = 1
  <2>1. a = Op("write", At("N"), n) BY <1>1, <1>3, <1>17
  <2> DEFINE addr == a.addr
  <2>2. a.kind = "write" /\ addr.reg = "N" /\ a.data = n
    <3>1. a.kind = "write" /\ a.addr = At("N") /\ a.data = n BY <2>1 DEF Op
    <3>2. addr.reg = "N" BY <3>1 DEF At
    <3> QED BY <3>1, <3>2
  <2>3. m >= 1 /\ m < c + 4 BY <1>2, <1>17
  <2>4. addr = a.addr OBVIOUS
  <2> HIDE DEF addr
  <2>5. /\ Changes(dev, dev', addr, n) /\ GoesOn
        /\ DeviceInv(dev') /\ dev'.latency = dev.latency /\ ~dev'.busy
    BY <1>2, <1>16, <2>2, <2>3, <2>4
  <2>6. dev'.n = n /\ dev'.c = dev.c
    <3>1. dev'.n = field(n, ValRange) /\ dev'.c = dev.c BY <2>2, <2>5 DEF Changes
    <3> QED BY <1>2, <3>1, FieldType
  <2>7. m # c + 3 /\ \A i \in 0 .. c - 1 : ~(m + 1 >= 3 + i) BY <1>2, <1>17
  <2> QED BY <1>6, <1>13, <1>15, <2>3, <2>5, <2>6, <2>7
<1>18. CASE m >= 2 /\ m < c + 2
  <2> DEFINE k == m - 2
             addr == a.addr
             x == w[k + 1]
  <2>1. /\ k \in 0 .. c - 1 /\ m + 1 = 3 + k /\ k \in Nat /\ k + 1 \in 1 .. c
        /\ k < MAX_C /\ m >= 1 /\ m < c + 4 /\ m < c + 3
    BY <1>1, <1>2, <1>18
  <2> HIDE DEF k
  <2>2. a = Op("write", Lane("WEIGHT", k), x) BY <1>1, <1>3, <2>1
  <2>3. x \in Nat /\ x \in Val
    <3>1. x \in 0 .. n BY <1>2, <2>1
    <3> QED BY <1>2, <3>1, ValRangeAssumption DEF Val
  <2>4. addr = a.addr /\ x = w[k + 1] OBVIOUS
  <2> HIDE DEF x
  <2>5. a.kind = "write" /\ addr.reg = "WEIGHT" /\ addr.i = k /\ a.data = x
    <3>1. a.kind = "write" /\ a.addr = Lane("WEIGHT", k) /\ a.data = x BY <2>2 DEF Op
    <3>2. addr.reg = "WEIGHT" /\ addr.i = k BY <3>1 DEF Lane
    <3> QED BY <3>1, <3>2
  <2> HIDE DEF addr
  <2>6. /\ Changes(dev, dev', addr, x) /\ GoesOn
        /\ DeviceInv(dev') /\ dev'.latency = dev.latency /\ ~dev'.busy
    BY <1>16, <2>1, <2>3, <2>4, <2>5
  <2>7. /\ dev'.n = dev.n /\ dev'.c = dev.c /\ k \in Rows
        /\ dev'.weights = [dev.weights EXCEPT ![k] = x]
    <3>1. field(x, ValRange) = x BY <2>3, FieldType
    <3> QED BY <2>5, <2>6, <3>1 DEF Changes
  <2>8. ASSUME NEW i \in 0 .. c - 1, m + 1 >= 3 + i PROVE dev'.weights[i] = w[i + 1]
    <3>1. CASE i = k BY <1>4, <2>4, <2>7, <3>1 DEF Window
    <3>2. CASE i # k
      <4>1. m >= 3 + i /\ i \in Rows BY <1>1, <1>2, <2>1, <2>8, <3>2 DEF Rows
      <4>2. dev.weights[i] = w[i + 1] BY <1>6, <4>1
      <4>3. dev'.weights[i] = dev.weights[i] BY <1>4, <2>7, <3>2, <4>1 DEF Window
      <4> QED BY <4>2, <4>3
    <3> QED BY <3>1, <3>2
  <2>9. dev'.n = n /\ dev'.c = c BY <1>6, <1>18, <2>1, <2>7
  <2>10. m # c + 3 BY <1>1, <1>2, <2>1
  <2> QED BY <1>13, <1>15, <2>1, <2>6, <2>8, <2>9, <2>10
<1>19. ASSUME m >= c + 2
       PROVE  dev.c = c /\ dev.n = n /\ \A i \in 0 .. c - 1 : dev.weights[i] = w[i + 1]
  <2>1. m >= 1 /\ m >= 2 /\ \A i \in 0 .. c - 1 : m >= 3 + i BY <1>1, <1>2, <1>19
  <2> QED BY <1>6, <2>1
<1>20. CASE m = c + 2
  <2>1. m >= 1 /\ m < c + 4 /\ m < c + 3 /\ m # c + 3 /\ m >= c + 2 /\ m + 1 = c + 3
    BY <1>2, <1>20
  <2>2. a = Op("read_ctrl", At("CTRL"), 0) BY <1>1, <1>3, <2>1
  <2> DEFINE addr == a.addr
  <2>3. a.kind = "read_ctrl" /\ addr.reg = "CTRL"
    <3>1. a.kind = "read_ctrl" /\ a.addr = At("CTRL") BY <2>2 DEF Op
    <3>2. addr.reg = "CTRL" BY <3>1 DEF At
    <3> QED BY <3>1, <3>2
  <2>4. /\ dev' = advance(dev) /\ addr \in Addresses
        /\ resp'.kind = "ack" <=>
             read_refusal(dev', addr, TRUE) = "none" /\ ~read_raises(dev', addr)
    BY <1>1, <1>4, <1>5, <2>3, MainReads
  <2> HIDE DEF addr
  <2>5. dev' = dev BY <1>9, <1>15, <2>1, <2>4
  <2>6. read_refusal(dev', addr, TRUE) = "none"
    <3>1. TRUE \in BOOLEAN /\ dev' \in Device /\ addr \in [reg : Registers, i : Nat]
      BY <1>4, <2>4, <2>5 DEF Addresses
    <3> QED BY <2>3, <3>1, ReadAdmitted DEF Matrix
  <2>7. GoesOn
    <3>1. ~read_raises(dev', addr) BY <2>3 DEF read_raises
    <3> QED BY <1>5, <2>3, <2>4, <2>6, <3>1
  <2> QED BY <1>4, <1>13, <1>15, <1>19, <2>1, <2>5, <2>7
<1>21. CASE m = c + 3
  <2>1. m >= 1 /\ m < c + 4 /\ ~(m < c + 3) /\ m >= c + 2 /\ m + 1 = c + 4
    BY <1>2, <1>21
  <2>2. a = Op("write_ctrl", At("CTRL"), 0) BY <1>1, <1>3, <2>1
  <2> DEFINE addr == a.addr
  <2>3. a.kind = "write_ctrl" /\ addr.reg = "CTRL" /\ data.start
    <3>1. a.kind = "write_ctrl" /\ a.addr = At("CTRL") BY <2>2 DEF Op
    <3>2. addr.reg = "CTRL" BY <3>1 DEF At
    <3>3. data.start = TRUE BY <1>9, <3>1 DEF Datum, Command
    <3> QED BY <3>1, <3>2, <3>3
  <2>4. Writes(d, addr, data) BY <1>1, <1>4, <1>5, <1>9, <2>3, MainWrites
  <2> HIDE DEF addr
  <2>5. /\ dev.n = n /\ dev.c = c /\ \A i \in 0 .. c - 1 : dev.weights[i] = w[i + 1]
        /\ ~dev.busy /\ polls = 0 /\ d = dev
    BY <1>15, <1>19, <2>1
  <2>6. start_legal(dev)
    <3>1. used_rows(dev) = c BY <1>2, <2>5 DEF used_rows
    <3>2. ASSUME NEW i \in 0 .. c - 1 PROVE dev.weights[i] <= dev.n
      <4>1. i + 1 \in 1 .. c BY <1>2
      <4>2. w[i + 1] \in 0 .. n BY <1>2, <4>1
      <4> QED BY <1>2, <2>5, <4>2
    <3>3. dev.n >= 1 BY <1>2, <2>5
    <3> QED BY <3>1, <3>2, <3>3 DEF start_legal, Legal
  <2>7. Admitted(dev, addr, data) BY <2>3, <2>5 DEF Admitted, Context
  <2>8. Changes(dev, dev', addr, data) /\ resp'.kind = "ack"
    BY <2>3, <2>4, <2>5, <2>6, <2>7 DEF Writes
  <2>9. /\ SameContext(dev', dev) /\ DeviceInv(dev') /\ dev'.latency = dev.latency
        /\ dev'.busy /\ dev'.remaining = dev'.latency
    BY <2>3, <2>6, <2>8 DEF Changes, Context
  <2>10. GoesOn BY <1>5, <2>3, <2>8
  <2>11. dev'.remaining <= dev'.latency BY <1>4, <2>9
  <2>12. dev'.n = n /\ dev'.c = c /\ \A i \in 0 .. c - 1 : dev'.weights[i] = w[i + 1]
    BY <2>5, <2>9 DEF SameContext
  <2> QED BY <1>13, <2>1, <2>5, <2>9, <2>10, <2>11, <2>12
<1>22. CASE m = c + 4
  <2>1. m >= c + 2 /\ m + 1 = c + 5 BY <1>2, <1>22
  <2>2. a = Op("poll", At("STATUS"), 0) BY <1>1, <1>3, <2>1
  <2> DEFINE addr == a.addr
  <2>3. a.kind = "poll" /\ addr.reg = "STATUS"
    <3>1. a.kind = "poll" /\ a.addr = At("STATUS") BY <2>2 DEF Op
    <3>2. addr.reg = "STATUS" BY <3>1 DEF At
    <3> QED BY <3>1, <3>2
  <2>4. /\ dev' = advance(dev) /\ addr \in Addresses /\ Undisturbed(dev, dev')
        /\ resp'.kind = "ack" <=>
             read_refusal(dev', addr, TRUE) = "none" /\ ~read_raises(dev', addr)
        /\ resp'.kind = "ack" => resp'.data = read_value(dev', addr)
    BY <1>1, <1>4, <1>5, <2>3, MainReads
  <2> HIDE DEF addr
  <2>5. DeviceInv(dev') /\ SameContext(dev', dev) /\ dev'.latency = dev.latency
        /\ dev'.remaining \in Nat
    BY <2>4 DEF Undisturbed, DeviceInv, Device
  <2>6. resp'.kind = "ack"
    <3>1. TRUE \in BOOLEAN /\ dev' \in Device /\ addr \in [reg : Registers, i : Nat]
      BY <2>4, <2>5 DEF Addresses, DeviceInv
    <3>2. read_refusal(dev', addr, TRUE) = "none" BY <2>3, <3>1, ReadAdmitted DEF Matrix
    <3>3. ~read_raises(dev', addr) BY <2>3 DEF read_raises
    <3> QED BY <2>4, <3>2, <3>3
  <2>7. resp'.data.valid = dev'.valid BY <2>3, <2>4, <2>6 DEF read_value
  <2>8. dev'.n = n /\ dev'.c = c /\ \A i \in 0 .. c - 1 : dev'.weights[i] = w[i + 1]
    BY <1>19, <2>1, <2>5 DEF SameContext
  <2>9. CASE dev'.valid
    <3>1. GoesOn BY <1>5, <2>6, <2>7, <2>9
    <3>2. ret' = "OK"
      <4>1. m + 1 = Len(P) BY <1>3, <2>1
      <4> QED BY <1>1, <3>1, <4>1 DEF GoesOn
    <3>3. LoadInv' BY <1>7, <3>2
    <3>4. Requested(dev') BY <1>11, <2>8
    <3> QED BY <1>1, <1>2, <1>8, <2>5, <2>8, <2>9, <3>2, <3>3, <3>4 DEF MainKeeps
  <2>10. CASE ~dev'.valid
    <3>1. PollsAgain BY <1>5, <2>3, <2>6, <2>7, <2>10
    <3>2. ~dev.valid BY <2>4, <2>10 DEF Undisturbed
    <3>3. polls \in Nat /\ dev.busy /\ polls + dev.remaining <= dev.latency
      BY <1>6, <1>22, <3>2
    <3>4. dev'.busy /\ dev.remaining # 0 /\ dev'.remaining = dev.remaining - 1
      BY <1>4, <2>4, <2>10, <3>3, AdvanceEffect
    <3>5. polls' = polls + 1 BY <3>1 DEF PollsAgain
    <3>6. /\ polls' \in Nat /\ polls' + dev'.remaining <= dev'.latency /\ polls' <= c + 4
      <4>1. <<call.weights, n, c>> \in Loads BY DEF DriverInv, CallInv, n, c
      <4>2. <<call.weights, n, c>>[3] = c OBVIOUS
      <4>3. dev.latency <= c + 4 BY <1>4, <4>1, <4>2, DriverAssumption
      <4> QED BY <1>2, <1>4, <2>5, <3>3, <3>4, <3>5, <4>3
    <3>7. ~(polls' >= poll_bound(call.c))
      <4>1. POLL_MARGIN \in Nat BY DriverAssumption
      <4>2. poll_bound(call.c) = c + 4 + POLL_MARGIN BY DEF poll_bound, c
      <4>3. POLL_MARGIN # 0 BY DriverAssumption
      <4> QED BY <1>2, <3>6, <4>1, <4>2, <4>3
    <3>8. ret' = ret /\ todo' = todo BY <3>1, <3>7 DEF PollsAgain
    <3>9. m' = c + 4 /\ ret' = "none" BY <1>1, <1>22, <3>8
    <3>10. m' # 0 /\ m' \notin 1 .. c + 3 BY <1>2, <3>9
    <3>11. LoadInv' BY <1>7, <2>8, <3>4, <3>6, <3>9, <3>10
    <3> QED BY <1>1, <1>2, <1>8, <2>5, <2>8, <3>9, <3>11 DEF MainKeeps
  <2> QED BY <2>9, <2>10
<1>23. m = 0 \/ m = 1 \/ (m >= 2 /\ m < c + 2) \/ m = c + 2 \/ m = c + 3 \/ m = c + 4
  BY <1>1, <1>2, <1>12
<1> QED BY <1>14, <1>17, <1>18, <1>20, <1>21, <1>22, <1>23

(* No call and no handler is under way at first.                           *)
LEMMA DriverInit ==
  Init => DriverInv
<1> SUFFICES ASSUME Init PROVE DriverInv OBVIOUS
<1>1. PICK l \in Latencies : dev = reset_state(l) BY DEF Init
<1>2. /\ call = NoCall /\ todo = <<>> /\ words = <<>> /\ ret = "OK" /\ handler = <<>>
      /\ wanted = FALSE /\ raced = FALSE /\ moved = FALSE
  BY DEF Init
<1>3. l \in Nat BY <1>1, RegsAssumption
<1>4. DeviceInv(dev) BY <1>1, <1>3, ResetIsDevice
<1>5. dev.c = 0 /\ dev.latency = l /\ dev.irq_en = FALSE BY <1>1 DEF reset_state
<1>6. call.fn = "none" BY <1>2 DEF NoCall
<1>7. \A S : <<>> \in Seq(S) OBVIOUS
<1>8. CallInv
  <2>1. 0 <= MAX_C BY RegsAssumption
  <2> QED BY <1>2, <1>3, <1>4, <1>5, <1>6, <1>7, <2>1 DEF CallInv, Loading
<1>9. LoadInv /\ ColumnInv BY <1>6 DEF LoadInv, ColumnInv, Loading
<1>10. IrqInv BY <1>2, <1>5 DEF IrqInv
<1>11. HandlerInv BY <1>2, <1>7 DEF HandlerInv
<1> QED BY <1>8, <1>9, <1>10, <1>11 DEF DriverInv

(* Every step of main keeps DriverInv.                                     *)
LEMMA MainStepKeeps ==
  ASSUME DriverInv, MainStep
  PROVE  DriverInv'
<1>1. MainKeeps
  <2>1. CASE Loading BY <2>1, MainLoad
  <2>2. CASE call.fn = "read_column" BY <2>2, MainColumn
  <2>3. CASE call.fn \notin {"load", "read_column"} BY <2>3, MainOther
  <2> QED BY <2>1, <2>2, <2>3 DEF Loading
<1> QED BY <1>1, MainCommon

(* Every step keeps DriverInv.                                             *)
LEMMA DriverNext ==
  DriverInv /\ [Next]_vars => DriverInv'
<1> SUFFICES ASSUME DriverInv, [Next]_vars PROVE DriverInv' OBVIOUS
<1>1. CASE CallProbe \/ CallLoad \/ CallStart \/ CallReadColumn BY <1>1, CallsKeep
<1>2. CASE MainStep BY <1>2, MainStepKeeps
<1>3. CASE Interrupt BY <1>3, InterruptKeeps
<1>4. CASE HandlerStep BY <1>4, HandlerKeeps
<1>5. CASE UNCHANGED vars
  <2>1. /\ dev' = dev /\ wanted' = wanted /\ raced' = raced /\ moved' = moved
        /\ call' = call /\ todo' = todo /\ ctrl' = ctrl /\ polls' = polls
        /\ words' = words /\ ret' = ret /\ before' = before /\ handler' = handler
    BY <1>5 DEF vars, locals, histories
  <2>2. Program' = Program /\ (Loading' <=> Loading) /\ made' = made BY <2>1, SameCall
  <2>3. CallInv' BY <2>1, <2>2 DEF DriverInv, CallInv
  <2>4. LoadInv' BY <2>1, <2>2 DEF DriverInv, LoadInv
  <2>5. IrqInv' BY <2>1, <2>2 DEF DriverInv, IrqInv
  <2>6. ColumnInv'
    <3>1. \A k, col : ColumnWord(k, col)' = ColumnWord(k, col) BY <2>1 DEF ColumnWord
    <3> QED BY <2>1, <2>2, <3>1 DEF DriverInv, ColumnInv
  <2>7. HandlerInv' BY <2>1 DEF DriverInv, HandlerInv
  <2> QED BY <2>3, <2>4, <2>5, <2>6, <2>7 DEF DriverInv
<1> QED BY <1>1, <1>2, <1>3, <1>4, <1>5 DEF Next

\* A status of bcmc_load can be believed, whatever the handler does and wherever
\* it runs: a load that fails has changed nothing of the context, and the bound
\* of its polls is not reached by a transform that only takes its time.
THEOREM LoadStatusIsTrue == Spec => []LoadTellsTheTruth
<1>1. DriverInv => LoadTellsTheTruth
  <2> SUFFICES ASSUME DriverInv PROVE LoadTellsTheTruth OBVIOUS
  <2>1. FailedLoadChangesNothing BY DEF DriverInv, LoadInv, FailedLoadChangesNothing
  <2>2. LoadIsNeverLate BY DEF DriverInv, CallInv, LoadIsNeverLate
  <2> QED BY <2>1, <2>2 DEF LoadTellsTheTruth
<1> QED BY <1>1, DriverInit, DriverNext, PTL DEF Spec

\* What the handler does to main: an interrupt enable is lost only to a handler
\* that sets it between main's read of CTRL and its write, and a column is whole
\* unless the handler has asked a query of its own meanwhile.
THEOREM HandlerDoesNoHarm == Spec => []HandlerIsHarmless
<1>1. DriverInv => HandlerIsHarmless
  <2> SUFFICES ASSUME DriverInv PROVE HandlerIsHarmless OBVIOUS
  <2>1. StartKeepsIrqEnable BY DEF DriverInv, IrqInv, StartKeepsIrqEnable
  <2>2. ColumnIsWhole
    <3>1. ColumnInv BY DEF DriverInv
    <3> QED BY <3>1 DEF ColumnInv, ColumnWord, ColumnIsWhole
  <2> QED BY <2>1, <2>2 DEF HandlerIsHarmless
<1> QED BY <1>1, DriverInit, DriverNext, PTL DEF Spec

\* bcmc_load that returns OK leaves the matrix of the context it was given.
THEOREM LoadDoesWhatItSays == Spec => LoadedIsRequested
<1>1. ASSUME DriverInv, [Next]_vars
      PROVE  [ Loading /\ ret = "none" /\ ret' = "OK" =>
                 /\ dev'.valid /\ Requested(dev')
                 /\ IsCurrent(dev', dev'.offsets) ]_vars
  <2> SUFFICES ASSUME Loading, ret = "none", ret' = "OK"
               PROVE  dev'.valid /\ Requested(dev') /\ IsCurrent(dev', dev'.offsets)
    OBVIOUS
  <2>1. MainStep
    <3>1. ~(CallProbe \/ CallLoad \/ CallStart \/ CallReadColumn)
      BY DEF CallProbe, CallLoad, CallStart, CallReadColumn, Enter
    <3>2. ~Interrupt /\ ~HandlerStep /\ ~UNCHANGED vars
      BY DEF Interrupt, HandlerStep, vars, locals
    <3> QED BY <1>1, <3>1, <3>2 DEF Next
  <2>2. MainKeeps /\ dev'.valid /\ Requested(dev') BY <1>1, <2>1, MainLoad
  <2> QED BY <2>2 DEF MainKeeps, DeviceInv
<1> QED BY <1>1, DriverInit, DriverNext, PTL DEF Spec, LoadedIsRequested
=============================================================================
