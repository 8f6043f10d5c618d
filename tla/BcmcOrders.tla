----------------------------- MODULE BcmcOrders -----------------------------
(***************************************************************************)
(* The pure half of validation/traversal_sources.py, with permuted_order   *)
(* of observers.py and bank_fill_cycles of observer_hw.py: what a seed     *)
(* becomes.  A seed is the stream of words its generator yields.  The      *)
(* mixing of SplitMix32 is not modelled, only that its counter has a full  *)
(* period and its mixing is one-to-one, so that the stream is periodic and *)
(* every word comes again: a stream is one period, a sequence, and a       *)
(* position in it is the number of the next word.                          *)
(***************************************************************************)
EXTENDS Integers, Sequences

\* math.gcd.
gcd(a, b) ==
  IF a = 0 /\ b = 0 THEN 0
  ELSE CHOOSE d \in 1 .. a + b :
         /\ a % d = 0 /\ b % d = 0
         /\ \A e \in 1 .. a + b : a % e = 0 /\ b % e = 0 => e <= d

identity_sequence(N) == [t \in 0 .. N - 1 |-> t]

affine_sequence(a, b, N) == [t \in 0 .. N - 1 |-> (a * t + b) % N]

\* Section 4.2: one addition, one comparison, one conditional subtraction, the
\* sum kept to so many values.
affine_walk(a, b, N, width) ==
  LET r[t \in 0 .. N - 1] ==
        IF t = 0 THEN b % N
        ELSE LET inc == (r[t - 1] + a) % width
             IN  IF inc >= N THEN inc - N ELSE inc
  IN  r

\* In VAL_W bits it is the trap the specification warns of: a mutant that the
\* code keeps as one, ...
affine_incremental_narrow(a, b, N, VAL) == affine_walk(a, b, N, VAL)

\* ... for the sum has VAL_W + 1 bits.
affine_incremental(a, b, N, VAL) == affine_walk(a, b, N, 2 * VAL)

bank_read(bank, t) == bank[t]

-----------------------------------------------------------------------------
\* The loop that doubles a mask of ones, from x on, until it covers m: from 1,
\* the least 2^k - 1 that is at least m, k >= 1.
mask_from(first, m) ==
  LET M[x \in Nat] == IF x >= m THEN x ELSE M[2 * x + 1]
  IN  M[first]

mask(m) == mask_from(1, m)

masked(word, m) == word % (mask(m) + 1)

Word(stream, at) == stream[(at % Len(stream)) + 1]

\* How many words are rejected before one is in the range.
rejections(stream, at, m) ==
  CHOOSE k \in 0 .. Len(stream) - 1 :
    /\ masked(Word(stream, at + k), m) <= m
    /\ \A x \in 0 .. k - 1 : masked(Word(stream, at + x), m) > m

\* Mutant of uniform_with_stream: the generator is rewound after a rejection,
\* so that the rejected words are drawn again.
uniform_rewound(stream, at, m) ==
  IF m = 0 THEN [value |-> 0, at |-> at, taken |-> 0]
  ELSE LET k == rejections(stream, at, m)
       IN  [value |-> masked(Word(stream, at + k), m),
            at |-> (at + 1) % Len(stream), taken |-> 1]

\* A uniform draw from 0 .. m by rejection: the value, the position after the
\* words it consumed, the rejected ones included, and their number.  uniform(0)
\* consumes nothing.
uniform_with_stream(stream, at, m) ==
  IF m = 0 THEN [value |-> 0, at |-> at, taken |-> 0]
  ELSE LET k == rejections(stream, at, m)
       IN  [value |-> masked(Word(stream, at + k), m),
            at |-> (at + k + 1) % Len(stream), taken |-> k + 1]

\* The steps of a sequential subtraction Euclid.
euclid_steps(a, b) ==
  LET E[p \in Nat \X Nat] ==
        IF p[2] = 0 THEN 0
        ELSE 1 + E[IF p[1] < p[2] THEN <<p[2] - p[1], p[1]>>
                   ELSE <<p[1] - p[2], p[2]>>]
  IN  E[<<a, b>>]

\* Uniform draws until one is coprime to N, the others consumed too.
coprime_draw(stream, from, N) ==
  LET draw[at \in 0 .. Len(stream) - 1] ==
        LET u == uniform_with_stream(stream, at, N - 1)
        IN  IF gcd(u.value, N) = 1 THEN u
            ELSE [draw[u.at] EXCEPT !.taken = @ + u.taken]
  IN  draw[from]

\* Mutant of derive_ab: b is drawn before a.
derive_ab_swapped(stream, N) ==
  LET b == uniform_with_stream(stream, 0, N - 1)
      a == coprime_draw(stream, b.at, N)
  IN  [a |-> a.value, b |-> b.value, draws |-> a.taken + b.taken]

\* Section 4.3: a until it is coprime to N, then b, from one stream that is
\* never rewound.
derive_ab(stream, N) ==
  LET a == coprime_draw(stream, 0, N)
      b == uniform_with_stream(stream, a.at, N - 1)
  IN  [a |-> a.value, b |-> b.value, draws |-> a.taken + b.taken]

-----------------------------------------------------------------------------
Swapped(p, i, j) == [p EXCEPT ![i] = p[j], ![j] = p[i]]

\* A bank from the present position of a stream, by a downward Fisher-Yates
\* shuffle, and its cost: one word a clock, the rejected ones included.
bank_and_cost(stream, from, N) ==
  LET step[i \in 1 .. N] ==
        IF i = N
        THEN [bank |-> identity_sequence(N), at |-> from, cost |-> 0]
        ELSE LET u == uniform_with_stream(stream, step[i + 1].at, i)
             IN  [bank |-> Swapped(step[i + 1].bank, i, u.value),
                  at |-> u.at, cost |-> step[i + 1].cost + u.taken]
  IN  step[1]

shuffle_from(stream, from, N) == bank_and_cost(stream, from, N).bank

\* permuted_order of observers.py: the first bank of a seed.
permuted_order(stream, N) == shuffle_from(stream, 0, N)

\* bank_fill_cycles of observer_hw.py: the steps of a shuffle.
bank_fill_cycles(stream, N) == bank_and_cost(stream, 0, N).cost

\* Mutant of fill_clocks: the fill begins with its first step.
fill_clocks_unprepared(steps) == steps

\* The clocks from the start of a fill to its bank: one to clear the mask, and
\* the steps.
fill_clocks(steps) == 1 + steps

\* Mutant of ceiling: the last interval, if it is not full, is forgotten.
ceiling_down(x, y) == x \div y

\* The least number of intervals of y that covers x.
ceiling(x, y) == (x + y - 1) \div y

\* The passes that the steps of a fill take at a rate, and the rate required of a
\* pass to cover them.  Both leave the clock before the steps out.
bank_fill_passes(stream, N, clocks_per_visit) ==
  ceiling(bank_fill_cycles(stream, N), N * clocks_per_visit)

required_rate(stream, N) ==
  LET rate == ceiling(bank_fill_cycles(stream, N), N)
  IN  IF rate < 1 THEN 1 ELSE rate
=============================================================================
