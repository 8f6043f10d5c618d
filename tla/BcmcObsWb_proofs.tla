-------------------------- MODULE BcmcObsWb_proofs --------------------------
(***************************************************************************)
(* The register window over the engine and the affine source, for every    *)
(* row, seed, word and behaviour of the shuffled source: ObsWbInv is       *)
(* inductive.  The argument has parts that do not depend on each other:    *)
(* what a derivation draws is inside the row, and is what its seed         *)
(* defines; while a pass lives nothing that the window accepts loads its   *)
(* source, changes its selector or its row; and the accumulator of a       *)
(* source that is not loaded walks the closed form, because the engine     *)
(* asks for the step it presents or for the next one.  At the end, the     *)
(* same source and its golden model under the walks of their benches.      *)
(***************************************************************************)
EXTENDS BcmcObsWb, BcmcAffineWalk, BcmcArith_proofs, SequenceTheorems

\* The seam inside a row: the question is about the next step, or about step 0
\* while the last one is presented.
LEMMA NextSteps ==
  ASSUME NEW n \in Val, t_q \in Val, t_q < n
  PROVE  /\ last_now(n) <=> t_q = n - 1
         /\ t_next(n) = IF t_q + 1 < n THEN t_q + 1 ELSE 0
         /\ t_next(n) \in Val /\ t_next(n) < n
<1>1. last_now(n) <=> t_q = n - 1
  BY NoWrap DEF last_now, last
<1>2. t_next(n) = IF t_q + 1 < n THEN t_q + 1 ELSE 0
  BY <1>1, NoWrap DEF t_next, Val
<1> QED BY <1>1, <1>2, NoWrap, ValRangeAssumption DEF Val

-----------------------------------------------------------------------------
(* The closed form and the accumulator.                                    *)

(* The closed form begins with b.                                          *)
LEMMA AffineBegins ==
  ASSUME NEW n \in Nat \ {0}, NEW a \in 0 .. n - 1, NEW b \in 0 .. n - 1
  PROVE  affine_sequence(a, b, n)[0] = b
<1>1. b % n = b
  <2>1. b \in Int /\ b = n * 0 + b /\ 0 \in Int OBVIOUS
  <2> QED BY <2>1, ModUnique
<1>2. affine_sequence(a, b, n)[0] = (a * 0 + b) % n
  BY DEF affine_sequence
<1>3. a * 0 + b = b OBVIOUS
<1> QED BY <1>1, <1>2, <1>3

\* One addition, one comparison and one subtraction are one step of the order.
LEMMA AffineAdvances ==
  ASSUME NEW n \in Nat \ {0}, n < ValRange, NEW a \in 0 .. n - 1,
         NEW b \in 0 .. n - 1, NEW t \in Nat, t + 1 < n,
         NEW c, c = affine_sequence(a, b, n)[t]
  PROVE  affine_sequence(a, b, n)[t + 1] =
           IF c + a >= n THEN ((c + a) - n) % ValRange ELSE (c + a) % ValRange
<1> DEFINE x == a * t + b
<1>1. t \in 0 .. n - 1 /\ t + 1 \in 0 .. n - 1 OBVIOUS
<1>2. x \in Nat /\ a * (t + 1) + b = x + a OBVIOUS
<1>3. c = x % n /\ affine_sequence(a, b, n)[t + 1] = (a * (t + 1) + b) % n
  BY <1>1 DEF affine_sequence
<1> HIDE DEF x
<1>4. NextOffset(x % n, a, n) = (x + a) % n
  <2>1. a \in 0 .. n OBVIOUS
  <2> QED BY <1>2, <2>1, NextOffsetIsModular
<1>5. affine_sequence(a, b, n)[t + 1] = NextOffset(c, a, n)
  BY <1>2, <1>3, <1>4
<1>6. c \in 0 .. n - 1
  <2>1. x \in Int BY <1>2
  <2> QED BY <1>3, <2>1, DivMod
<1>7. c + a < n => (c + a) % ValRange = c + a
  <2> DEFINE sum == c + a
  <2>1. sum \in Nat BY <1>6
  <2> HIDE DEF sum
  <2>2. sum < n => sum % ValRange = sum BY <2>1, ValRangeAssumption
  <2> QED BY <2>2 DEF sum
<1> QED BY <1>5, <1>6, <1>7 DEF NextOffset

\* A source that is neither loaded nor in another row keeps its pair.
LEMMA PairIsKept ==
  ASSUME DeriveInv, ready_q, N # 0, N = n_copy, NEW load, ~load, SourcesEdge(load)
  PROVE  ready_q' /\ a_q' = a_q /\ b_q' = b_q
<1>1. ~restart(N, load \/ n_changed) BY DEF restart, n_changed, DeriveInv
<1>2. Derive(N) BY <1>1 DEF SourcesEdge, no_source, AffineEdge
<1>3. state_q = "IDLE" BY DEF DeriveInv
<1>4. Stay BY <1>2, <1>3 DEF Derive, Mask, DrawA, GcdStep, GcdDone, DrawB
<1> QED BY <1>4 DEF Stay

(* The source draws from words, and never from an empty stream.            *)
LEMMA StreamIsWords ==
  ASSUME DeriveInv
  PROVE  /\ Len(stream_q) \in Nat \ {0}
         /\ \A k \in 1 .. Len(stream_q) : stream_q[k] \in Nat
<1>1. CASE stream_q = <<0>> BY <1>1
<1>2. CASE stream_q \in Seeds
  <2>1. stream_q \in Seq(0 .. WordRange - 1) BY <1>2, ObsWbAssumption
  <2>2. DOMAIN stream_q = 1 .. Len(stream_q) /\ Len(stream_q) \in Nat BY <2>1
  <2>3. \A k \in 1 .. Len(stream_q) : stream_q[k] \in 0 .. WordRange - 1
    BY <2>1, ElementOfSeq
  <2>4. 0 \in {stream_q[k] : k \in DOMAIN stream_q} BY <1>2, ObsWbAssumption
  <2>5. Len(stream_q) # 0 BY <2>2, <2>4
  <2> QED BY <2>2, <2>3, <2>5, WordRangeAssumption
<1> QED BY <1>1, <1>2 DEF DeriveInv

\* What the generator yields is a word, so that what is taken is in the row.
LEMMA DrawIsInTheRow ==
  ASSUME DeriveInv, N \in Val, N # 0
  PROVE  /\ m(N) = N - 1
         /\ draw_ok(N) => draw \in 0 .. N - 1
<1>1. N - 1 \in Nat /\ N - 1 < WordRange /\ WordRange \in Nat
  BY ValRangeAssumption, WordRangeAssumption DEF Val
<1>2. m(N) = N - 1
  BY <1>1 DEF m
<1>3. Len(stream_q) \in Nat \ {0} /\ \A k \in 1 .. Len(stream_q) : stream_q[k] \in Nat
  BY StreamIsWords
<1>4. p_out \in Nat
  <2> DEFINE k == (at_q % Len(stream_q)) + 1
  <2>1. k \in 1 .. Len(stream_q) BY <1>3 DEF DeriveInv
  <2> HIDE DEF k
  <2>2. stream_q[k] \in Nat BY <1>3, <2>1
  <2> QED BY <2>2 DEF p_out, Word, k
<1>5. draw \in Nat
  BY <1>4 DEF draw, DeriveInv
<1> QED BY <1>1, <1>2, <1>5 DEF draw_ok

(* A clock of the sources, with or without a load, keeps the draws inside  *)
(* the row.                                                                *)
LEMMA DeriveKeeps ==
  ASSUME DeriveInv, N \in Val, NEW load, SourcesEdge(load),
         n_copy' = N, n_seen_q', seed_q' \in Seeds
  PROVE  DeriveInv'
<1>1. CASE N = 0
  BY <1>1 DEF SourcesEdge, no_source, ResetAffine, DeriveInv
<1>2. CASE N # 0 /\ restart(N, load \/ n_changed)
  BY <1>2 DEF SourcesEdge, no_source, AffineEdge, Restart, DeriveInv
<1>3. CASE N # 0 /\ ~restart(N, load \/ n_changed)
  <2>1. Derive(N) BY <1>3 DEF SourcesEdge, no_source, AffineEdge
  <2>2. n_q = N /\ n_q # 0 BY <1>3 DEF restart
  <2>3. /\ m(N) = N - 1
        /\ draw_ok(N) => draw \in 0 .. N - 1
    BY <1>3, DrawIsInTheRow
  <2>4. N \in Nat BY ValRangeAssumption DEF Val
  <2>5. Len(stream_q) \in Nat \ {0} BY StreamIsWords
  <2>6. (at_q + 1) % Len(stream_q) \in Nat BY <2>5 DEF DeriveInv
  <2>7. CASE Stay BY <2>2, <2>7 DEF Stay, DeriveInv
  <2>8. CASE Mask("MASK_A", "DRAW_A", N) BY <2>2, <2>8 DEF Mask, DeriveInv
  <2>9. CASE DrawA(N)
    BY <2>2, <2>3, <2>4, <2>6, <2>9 DEF DrawA, TakeA, ConsumeWord, DeriveInv
  <2>10. CASE GcdStep BY <2>2, <2>10 DEF GcdStep, DeriveInv
  <2>11. CASE GcdDone BY <2>2, <2>11 DEF GcdDone, DeriveInv
  <2>12. CASE Mask("MASK_B", "DRAW_B", N) BY <2>2, <2>12 DEF Mask, DeriveInv
  <2>13. CASE DrawB(N)
    BY <2>2, <2>3, <2>4, <2>6, <2>13 DEF DrawB, ConsumeWord, DeriveInv
  <2> QED BY <2>1, <2>7, <2>8, <2>9, <2>10, <2>11, <2>12, <2>13 DEF Derive
<1> QED BY <1>1, <1>2, <1>3

(* Reset does too.                                                         *)
LEMMA DeriveReset == Reset => DeriveInv'
<1> SUFFICES ASSUME Reset PROVE DeriveInv' OBVIOUS
<1>1. ZeroSeed \in Seeds BY ObsWbAssumption DEF ZeroSeed
<1>2. 0 \in Val BY ValRangeAssumption DEF Val
<1> QED BY <1>1, <1>2 DEF Reset, ResetAffine, DeriveInv

-----------------------------------------------------------------------------
(* The derivation of the pair, clock by clock.                             *)

(* A bit of the mask is a step of the loop that defines it.                *)
LEMMA MaskIsKept ==
  ASSUME NEW streams, DerivationInv(streams), NEW n \in Val \ {0}, n = n_q,
         m(n) = n - 1, NEW from, NEW to,
         <<from, to>> \in {<<"MASK_A", "DRAW_A">>, <<"MASK_B", "DRAW_B">>},
         Mask(from, to, n)
  PROVE  DerivationInv(streams)'
<1>1. n \in Nat /\ n - 1 \in Nat /\ n_q # 0
  BY ValRangeAssumption DEF Val
<1>2. /\ state_q = from
      /\ UNCHANGED <<a_q, b_q, eu_q, ev_q, n_q, stream_q, at_q>>
  BY DEF Mask
<1>3. mask_q \in Nat /\ mask_from(mask_q, n - 1) = mask(n - 1)
  BY <1>1, <1>2 DEF DerivationInv
<1>4. mask_from(mask_q, n - 1) = IF mask_q >= n - 1 THEN mask_q
                                 ELSE mask_from(2 * mask_q + 1, n - 1)
  BY <1>1, <1>3, MaskLoop
<1>5. CASE mask_ok(n)
  <2>1. state_q' = to /\ mask_q' = mask_q /\ mask_q = mask(n - 1)
    BY <1>3, <1>4, <1>5 DEF Mask, mask_ok
  <2> QED BY <1>1, <1>2, <1>3, <2>1 DEF DerivationInv
<1>6. CASE ~mask_ok(n)
  <2>1. state_q' = state_q /\ mask_q' = 2 * mask_q + 1
    BY <1>6 DEF Mask
  <2>2. mask_q' \in Nat /\ mask_from(mask_q', n - 1) = mask(n - 1)
    BY <1>3, <1>4, <1>6, <2>1 DEF mask_ok
  <2> QED BY <1>1, <1>2, <2>1, <2>2 DEF DerivationInv
<1> QED BY <1>5, <1>6

(* A word for the multiplier, taken or rejected, leaves the derivation on  *)
(* its way.                                                                *)
LEMMA DrawAKeeps ==
  ASSUME NEW streams, \A s \in streams : IsStream(s), DerivationInv(streams),
         NEW n \in Val \ {0}, n = n_q, m(n) = n - 1, DrawA(n)
  PROVE  DerivationInv(streams)'
<1> DEFINE s == stream_q
           c(x) == coprime_draw(s, x, n)
           Redrawn(x) == c(x).value = c(0).value /\ c(x).at = c(0).at
<1>1. n \in Nat \ {0} /\ n_q # 0
  BY ValRangeAssumption DEF Val
<1>2. /\ state_q = "DRAW_A" /\ UNCHANGED <<mask_q, b_q, n_q, stream_q>>
  BY DEF DrawA
<1>3. /\ s \in streams /\ at_q \in Positions(s) /\ mask_q = mask(n - 1)
      /\ mask_q \in Nat /\ Redrawn(at_q)
  BY <1>1, <1>2 DEF DerivationInv, Positions
<1>4. IsStream(s)
  BY <1>3
<1>5. ASSUME NEW v \in Nat, TakeA(v, n), at_q' \in Positions(s),
             IF gcd(v, n) = 1 THEN v = c(0).value /\ at_q' = c(0).at
             ELSE Redrawn(at_q')
      PROVE  DerivationInv(streams)'
  <2>1. /\ a_q' = v /\ eu_q' = v /\ ev_q' = n /\ state_q' = "G_STEP"
        /\ n_q' = n /\ stream_q' = s /\ mask_q' = mask_q
    BY <1>2, <1>5 DEF TakeA
  <2> QED BY <1>1, <1>3, <1>5, <2>1 DEF DerivationInv, Positions
<1>6. CASE n = 1
  <2>1. TakeA(0, n) /\ at_q' = at_q
    BY <1>6 DEF DrawA
  <2>2. c(at_q).value = 0 /\ c(at_q).at = at_q
    BY <1>3, <1>4, <1>6, CoprimeDrawOfOne
  <2>3. gcd(0, n) = 1
    BY <1>1, <1>6, OneIsCoprime
  <2> QED BY <1>3, <1>5, <2>1, <2>2, <2>3
<1>7. CASE n # 1
  <2> DEFINE w == masked(Word(s, at_q), n - 1)
             next == (at_q + 1) % Len(s)
  <2>1. draw = w /\ at_q' = next
    BY <1>1, <1>3, <1>7 DEF draw, p_out, masked, DrawA, ConsumeWord
  <2>2. /\ next \in Positions(s)
        /\ w <= n - 1 /\ gcd(w, n) = 1 => c(at_q).value = w /\ c(at_q).at = next
        /\ ~(w <= n - 1 /\ gcd(w, n) = 1) =>
             c(at_q).value = c(next).value /\ c(at_q).at = c(next).at
    <3>1. n \in Nat \ {0, 1}
      BY <1>1, <1>7
    <3> QED BY <1>3, <1>4, <3>1, CoprimeDrawByWords
  <2>3. w \in Nat
    <3>1. at_q \in Nat /\ n - 1 \in Nat
      BY <1>1, <1>3 DEF Positions
    <3> QED BY <1>4, <3>1, StreamHasWords, MaskedWord
  <2> HIDE DEF w, next, c
  <2>4. CASE w <= n - 1
    <3>1. TakeA(w, n)
      BY <1>1, <1>7, <2>1, <2>4 DEF DrawA, draw_ok
    <3>2. IF gcd(w, n) = 1 THEN w = c(0).value /\ at_q' = c(0).at
          ELSE Redrawn(at_q')
      BY <1>3, <2>1, <2>2, <2>4
    <3> QED BY <1>5, <2>1, <2>2, <2>3, <3>1, <3>2
  <2>5. CASE ~(w <= n - 1)
    <3>1. UNCHANGED <<state_q, a_q, eu_q, ev_q>>
      BY <1>1, <1>7, <2>1, <2>5 DEF DrawA, draw_ok
    <3>2. Redrawn(next)
      BY <1>3, <2>2, <2>5
    <3> QED BY <1>1, <1>2, <1>3, <2>1, <2>2, <3>1, <3>2 DEF DerivationInv, Positions, c
  <2> QED BY <2>4, <2>5
<1> QED BY <1>6, <1>7

(* So does a subtraction, and the verdict on the divisor it ends with: a   *)
(* multiplier that is not coprime is drawn again.                          *)
LEMMA EuclidKeeps ==
  ASSUME NEW streams, DerivationInv(streams), NEW n \in Val \ {0}, n = n_q,
         GcdStep \/ GcdDone
  PROVE  DerivationInv(streams)'
<1> DEFINE c(x) == coprime_draw(stream_q, x, n)
           Redrawn(x) == c(x).value = c(0).value /\ c(x).at = c(0).at
           Verdict == IF gcd(a_q, n) = 1 THEN a_q = c(0).value /\ at_q = c(0).at
                      ELSE Redrawn(at_q)
<1>1. n \in Nat \ {0} /\ n_q # 0
  BY ValRangeAssumption DEF Val
<1>2. /\ state_q \in {"G_STEP", "G_DONE"}
      /\ UNCHANGED <<a_q, b_q, n_q, stream_q, at_q>>
  BY DEF GcdStep, GcdDone
<1>3. /\ stream_q \in streams /\ at_q \in 0 .. Len(stream_q) - 1 /\ mask_q \in Nat
      /\ eu_q \in Nat /\ ev_q \in Nat /\ (eu_q # 0 \/ ev_q # 0)
      /\ state_q = "G_DONE" => ev_q = 0
      /\ gcd(eu_q, ev_q) = gcd(a_q, n)
      /\ Verdict
  BY <1>1, <1>2 DEF DerivationInv
<1>4. CASE GcdStep
  <2>1. mask_q' = mask_q /\ state_q' \in {"G_STEP", "G_DONE"}
    BY <1>4 DEF GcdStep
  <2>2. /\ eu_q' \in Nat /\ ev_q' \in Nat /\ (eu_q' # 0 \/ ev_q' # 0)
        /\ state_q' = "G_DONE" => ev_q' = 0
        /\ gcd(eu_q', ev_q') = gcd(eu_q, ev_q)
    <3>1. CASE ev_q = 0
      BY <1>3, <1>4, <3>1 DEF GcdStep
    <3>2. CASE ev_q # 0 /\ eu_q < ev_q
      <4>1. eu_q' = ev_q /\ ev_q' = eu_q /\ state_q' = "G_STEP"
        BY <1>3, <1>4, <3>2 DEF GcdStep
      <4>2. gcd(ev_q, eu_q) = gcd(eu_q, ev_q)
        BY <1>3, <3>2, EuclidKeepsTheGcd
      <4> QED BY <1>3, <3>2, <4>1, <4>2
    <3>3. CASE ev_q # 0 /\ eu_q >= ev_q
      <4>1. eu_q' = eu_q - ev_q /\ ev_q' = ev_q /\ state_q' = "G_STEP"
        BY <1>3, <1>4, <3>3 DEF GcdStep
      <4>2. gcd(eu_q - ev_q, ev_q) = gcd(eu_q, ev_q)
        BY <1>3, <3>3, EuclidKeepsTheGcd
      <4> QED BY <1>3, <3>3, <4>1, <4>2
    <3> QED BY <1>3, <3>1, <3>2, <3>3
  <2> QED BY <1>1, <1>2, <1>3, <2>1, <2>2 DEF DerivationInv
<1>5. CASE GcdDone
  <2>1. /\ state_q = "G_DONE" /\ mask_q' = 1 /\ UNCHANGED <<eu_q, ev_q>>
        /\ state_q' = IF eu_q = 1 THEN "MASK_B" ELSE "MASK_A"
    BY <1>5 DEF GcdDone
  <2>2. gcd(a_q, n) = eu_q
    BY <1>3, <2>1, GcdWithZero
  <2>3. mask_q' \in Nat /\ mask_from(mask_q', n - 1) = mask(n - 1)
    BY <2>1 DEF mask
  <2>4. CASE eu_q = 1
    BY <1>1, <1>2, <1>3, <2>1, <2>2, <2>3, <2>4 DEF DerivationInv
  <2>5. CASE eu_q # 1
    BY <1>1, <1>2, <1>3, <2>1, <2>2, <2>3, <2>5 DEF DerivationInv
  <2> QED BY <2>4, <2>5
<1> QED BY <1>4, <1>5

(* So does a word for b, with which the pair is complete.                  *)
LEMMA DrawBKeeps ==
  ASSUME NEW streams, \A s \in streams : IsStream(s), DerivationInv(streams),
         NEW n \in Val \ {0}, n = n_q, m(n) = n - 1, DrawB(n)
  PROVE  DerivationInv(streams)'
<1> DEFINE s == stream_q
           from == coprime_draw(s, 0, n).at
           u(x) == uniform_with_stream(s, x, n - 1).value
<1>1. n \in Nat \ {0} /\ n_q # 0
  BY ValRangeAssumption DEF Val
<1>2. /\ state_q = "DRAW_B" /\ UNCHANGED <<mask_q, a_q, eu_q, ev_q, n_q, stream_q>>
  BY DEF DrawB
<1>3. /\ s \in streams /\ at_q \in Positions(s) /\ mask_q = mask(n - 1)
      /\ mask_q \in Nat /\ a_q = coprime_draw(s, 0, n).value /\ u(at_q) = u(from)
  BY <1>1, <1>2 DEF DerivationInv, Positions
<1>4. IsStream(s)
  BY <1>3
<1>5. ASSUME at_q' \in Positions(s), b_q' = u(at_q), state_q' = "IDLE"
      PROVE  DerivationInv(streams)'
  BY <1>1, <1>2, <1>3, <1>5 DEF DerivationInv, Positions
<1>6. CASE n = 1
  <2>1. b_q' = 0 /\ at_q' = at_q /\ state_q' = "IDLE"
    BY <1>6 DEF DrawB
  <2>2. u(at_q) = 0
    BY <1>6 DEF uniform_with_stream
  <2> QED BY <1>3, <1>5, <2>1, <2>2
<1>7. CASE n # 1
  <2> DEFINE w == masked(Word(s, at_q), n - 1)
             next == (at_q + 1) % Len(s)
  <2>1. draw = w /\ at_q' = next /\ n - 1 \in Nat \ {0}
    BY <1>1, <1>3, <1>7 DEF draw, p_out, masked, DrawB, ConsumeWord
  <2>2. next \in Positions(s)
    <3>1. at_q + 1 \in Nat
      BY <1>3 DEF Positions
    <3> QED BY <1>4, <3>1, StreamHasWords
  <2>3. CASE w <= n - 1
    <3>1. b_q' = w /\ state_q' = "IDLE"
      BY <2>1, <2>3 DEF DrawB, draw_ok
    <3>2. u(at_q) = w
      BY <1>3, <1>4, <2>1, <2>3, WordIsTaken
    <3> QED BY <1>5, <2>1, <2>2, <3>1, <3>2
  <2>4. CASE ~(w <= n - 1)
    <3>1. UNCHANGED <<b_q, state_q>>
      BY <2>1, <2>4 DEF DrawB, draw_ok
    <3>2. u(at_q) = u(next)
      BY <1>3, <1>4, <2>1, <2>4, WordIsRejected
    <3> QED BY <1>1, <1>2, <1>3, <2>1, <2>2, <3>1, <3>2 DEF DerivationInv, Positions
  <2> QED BY <2>3, <2>4
<1> QED BY <1>6, <1>7

(* Every clock of the source keeps the derivation on its way.              *)
LEMMA DerivationStep ==
  ASSUME NEW streams, \A s \in streams : IsStream(s), DerivationInv(streams),
         NEW n \in Val \ {0}, NEW t, NEW loads, NEW s \in streams,
         AffineEdge(n, t, loads, s)
  PROVE  DerivationInv(streams)'
<1>1. n \in Nat \ {0} /\ m(n) = n - 1
  <2>1. n - 1 \in Nat /\ n - 1 < WordRange /\ WordRange \in Nat
    BY ValRangeAssumption, WordRangeAssumption DEF Val
  <2> QED BY <2>1, ValRangeAssumption DEF m, Val
<1>2. CASE restart(n, loads)
  <2>1. /\ n_q' = n /\ stream_q' = s /\ at_q' = 0 /\ mask_q' = 1 /\ state_q' = "MASK_A"
    BY <1>2 DEF AffineEdge, Restart
  <2>2. 0 \in Positions(s)
    BY StreamHasWords
  <2>3. mask_from(1, n - 1) = mask(n - 1)
    BY DEF mask
  <2> QED BY <2>1, <2>2, <2>3 DEF DerivationInv, Positions
<1>3. CASE ~restart(n, loads)
  <2>1. Derive(n) /\ n = n_q
    BY <1>3 DEF AffineEdge, restart
  <2>2. CASE Stay
    BY <2>2 DEF Stay, DerivationInv
  <2>3. CASE Mask("MASK_A", "DRAW_A", n)
    BY <1>1, <2>1, <2>3, MaskIsKept
  <2>4. CASE DrawA(n)
    BY <1>1, <2>1, <2>4, DrawAKeeps
  <2>5. CASE GcdStep \/ GcdDone
    BY <1>1, <2>1, <2>5, EuclidKeeps
  <2>6. CASE Mask("MASK_B", "DRAW_B", n)
    BY <1>1, <2>1, <2>6, MaskIsKept
  <2>7. CASE DrawB(n)
    BY <1>1, <2>1, <2>7, DrawBKeeps
  <2> QED BY <2>1, <2>2, <2>3, <2>4, <2>5, <2>6, <2>7 DEF Derive
<1> QED BY <1>2, <1>3

(* A derivation that is over has left the pair of its stream.              *)
LEMMA DerivedPair ==
  ASSUME NEW streams, DerivationInv(streams), n_q # 0, state_q = "IDLE"
  PROVE  /\ stream_q \in streams
         /\ a_q = derive_ab(stream_q, n_q).a /\ b_q = derive_ab(stream_q, n_q).b
<1>1. derive_ab(stream_q, n_q) =
        [a |-> coprime_draw(stream_q, 0, n_q).value,
         b |-> uniform_with_stream(stream_q, coprime_draw(stream_q, 0, n_q).at,
                                   n_q - 1).value,
         draws |-> derive_ab(stream_q, n_q).draws]
  BY DEF derive_ab
<1> QED BY <1>1 DEF DerivationInv

-----------------------------------------------------------------------------
(* What a clock does, whatever was on the bus.                             *)

\* The command that reaches the engine, the clears and the load of the sources,
\* with what the handshake and the gates allow of them.
Shape(cmd, clear, load, sh) ==
  /\ Edge(cmd, clear, load, sh) /\ Sideband /\ load \in BOOLEAN
  /\ cmd.start => /\ start_ok(sh) /\ response' = "ack"
                  /\ sel_q' = sel_q => ~load
  /\ cmd.step => response' = "ack"
  /\ Record(cmd, clear, sh)
  /\ running => ~load /\ sel_q' = sel_q
  /\ response # "none" => /\ ~cmd.start /\ ~cmd.step /\ ~cmd.reset
                          /\ ~clear.done
  /\ response' = "err" => /\ ~cmd.start /\ ~cmd.step /\ ~cmd.reset /\ ~load
                          /\ UNCHANGED <<oneshot_q, sel_q, seed_q>>
  /\ seed_q' \in Seeds /\ sel_q' \in Selectors

(* A clock of the window is one edge of engine and sources with a command, *)
(* a clear and a load, each from at most one write.                        *)
LEMMA ClockHasShape ==
  ASSUME running \in BOOLEAN, seed_q \in Seeds, sel_q \in Selectors, NEW sh, Clock(sh)
  PROVE  \E cmd, clear, load : Shape(cmd, clear, load, sh)
<1>0. /\ ~NoCommand.start /\ ~NoCommand.step /\ ~NoCommand.reset /\ ~NoClear.done
  BY DEF NoCommand, NoClear
<1>1. CASE QuietClock(sh) \/ RefusedAccess(sh) \/ ReadAccess(sh)
  <2>1. Shape(NoCommand, NoClear, FALSE, sh)
    BY <1>0, <1>1 DEF QuietClock, RefusedAccess, ReadAccess, Shape
  <2> QED BY <2>1
<1>2. CASE StatusWrite(sh)
  <2>1. PICK clear : Edge(NoCommand, clear, FALSE, sh) /\ Record(NoCommand, clear, sh)
    BY <1>2 DEF StatusWrite
  <2>2. Shape(NoCommand, clear, FALSE, sh)
    BY <1>0, <1>2, <2>1 DEF StatusWrite, accept, Shape
  <2> QED BY <2>2
<1>3. ASSUME NEW w \in CtrlWords, CtrlWrite(w, sh)
      PROVE  \E cmd, clear, load : Shape(cmd, clear, load, sh)
  <2>1. CASE ctrl_refused(w, sh)
    <3>1. Shape(NoCommand, NoClear, FALSE, sh)
      BY <1>0, <1>3, <2>1 DEF CtrlWrite, accept, Shape
    <3> QED BY <3>1
  <2>2. CASE ~ctrl_refused(w, sh)
    <3>1. /\ w.start => start_ok(sh)
          /\ running => ~sel_changed(w)
          /\ w.sel \in Selectors
      BY <2>2, ObsWbAssumption DEF ctrl_refused, AllCtrlWords
    <3>2. /\ Edge(w, NoClear, sel_changed(w), sh) /\ Sideband
          /\ response' = "ack" /\ sel_q' = w.sel /\ seed_q' = seed_q
          /\ Record(w, NoClear, sh)
          /\ response = "none"
      BY <1>3, <2>2 DEF CtrlWrite, accept
    <3>3. sel_changed(w) \in BOOLEAN /\ (~sel_changed(w) <=> w.sel = sel_q)
      BY DEF sel_changed
    <3>4. Shape(w, NoClear, sel_changed(w), sh)
      BY <3>1, <3>2, <3>3 DEF Shape
    <3> QED BY <3>4
  <2> QED BY <2>1, <2>2
<1>4. ASSUME NEW stream \in Seeds, SeedWrite(stream, sh)
      PROVE  \E cmd, clear, load : Shape(cmd, clear, load, sh)
  <2>1. Shape(NoCommand, NoClear, ~running, sh)
    BY <1>0, <1>4 DEF SeedWrite, accept, Shape
  <2> QED BY <2>1
<1> QED BY <1>1, <1>2, <1>3, <1>4 DEF Clock

-----------------------------------------------------------------------------
(* The pass.                                                               *)

\* The accumulator answers the step that the engine asks about, while the pair
\* of the pass is inside the row.
LEMMA SeamWalks ==
  ASSUME DeriveInv, ObsPassInv, running, valid, ~mixed, sel_q = "affine"
  PROVE  affine_pi(N, ts_t(N)) = affine_sequence(a_q, b_q, N)[ts_t(N)]
<1>1. /\ ready_q /\ ts_t_q \in {t_q, t_next(N)}
      /\ cur_q = affine_sequence(a_q, b_q, N)[ts_t_q]
      /\ N = n_copy /\ t_q < N /\ N \in Val /\ t_q \in Val
  BY DEF ObsPassInv
<1>2. a_q \in 0 .. N - 1 /\ b_q \in 0 .. N - 1
  BY <1>1 DEF DeriveInv
<1>3. N \in Nat \ {0} /\ N < ValRange /\ t_q \in Nat
  BY <1>1, ValRangeAssumption DEF Val
<1>4. t_next(N) = IF t_q + 1 < N THEN t_q + 1 ELSE 0
  BY <1>1, NextSteps
<1>5. ts_t(N) = t_next(N) BY DEF ts_t
<1>6. CASE t_next(N) = 0
  BY <1>2, <1>3, <1>5, <1>6, AffineBegins DEF affine_pi
<1>7. CASE t_next(N) # 0 /\ t_next(N) = ts_t_q
  BY <1>1, <1>5, <1>7 DEF affine_pi
<1>8. CASE t_next(N) # 0 /\ t_next(N) # ts_t_q
  <2>1. ts_t_q = t_q /\ t_next(N) = t_q + 1 /\ t_q + 1 < N
    BY <1>1, <1>4, <1>8
  <2>2. affine_sequence(a_q, b_q, N)[t_q + 1] = nxt(N)
    <3>1. cur_q = affine_sequence(a_q, b_q, N)[t_q] BY <1>1, <2>1
    <3>2. affine_sequence(a_q, b_q, N)[t_q + 1] =
            IF cur_q + a_q >= N THEN ((cur_q + a_q) - N) % ValRange
                                ELSE (cur_q + a_q) % ValRange
      BY <1>2, <1>3, <2>1, <3>1, AffineAdvances
    <3> QED BY <3>2 DEF nxt
  <2> QED BY <1>5, <1>8, <2>1, <2>2 DEF affine_pi
<1> QED BY <1>6, <1>7, <1>8

\* A clock of a live pass keeps the pass and its source.
LEMMA PassGoesOn ==
  ASSUME DeriveInv, ObsPassInv, running, valid, ~mixed, sel_q = "affine",
         NEW sh, NEW load, ~load, SourcesEdge(load)
  PROVE  /\ ready_q' /\ a_q' = a_q /\ b_q' = b_q
         /\ ts_t_q' = t_next(N)
         /\ cur_q' = affine_sequence(a_q, b_q, N)[t_next(N)]
<1>1. N # 0 /\ N = n_copy /\ ready_q
  BY ValRangeAssumption DEF ObsPassInv, Val
<1>2. ready_q' /\ a_q' = a_q /\ b_q' = b_q
  BY <1>1, PairIsKept
<1>3. cur_q' = affine_pi(N, ts_t(N)) /\ ts_t_q' = ts_t(N)
  BY <1>1 DEF SourcesEdge, no_source, AffineEdge
<1> QED BY <1>2, <1>3, SeamWalks DEF ts_t

\* At step 0 a ready source begins its order anew, whatever its accumulator held.
LEMMA SettledAtZero ==
  ASSUME DeriveInv, ready_q, N # 0, N = n_copy, ts_t(N) = 0, NEW load, ~load,
         SourcesEdge(load)
  PROVE  /\ ready_q' /\ a_q' = a_q /\ b_q' = b_q
         /\ affine_pi(N, ts_t(N)) = b_q /\ cur_q' = b_q /\ ts_t_q' = 0
<1>1. ready_q' /\ a_q' = a_q /\ b_q' = b_q
  BY PairIsKept
<1>2. affine_pi(N, ts_t(N)) = b_q
  BY DEF affine_pi
<1>3. cur_q' = affine_pi(N, ts_t(N)) /\ ts_t_q' = ts_t(N)
  BY DEF SourcesEdge, no_source, AffineEdge
<1> QED BY <1>1, <1>2, <1>3

(* Reset leaves no pass behind.                                            *)
LEMMA ObsPassReset == Reset => ObsPassInv'
<1> SUFFICES ASSUME Reset PROVE ObsPassInv' OBVIOUS
<1>1. 0 \in Val /\ Rows \subseteq Val BY ValRangeAssumption, ObsWbAssumption DEF Val
<1> QED BY <1>1 DEF Reset, ResetObserver, ObsPassInv, Selectors

(* A clock of any shape keeps the pass on the order of its source.         *)
LEMMA ObsPassKeeps ==
  ASSUME ObsWbInv, NEW sh \in ShuffledInputs, NEW cmd, NEW clear, NEW load,
         Shape(cmd, clear, load, sh)
  PROVE  ObsPassInv'
<1> DEFINE pi == seam_pi(sh)
<1>1. DeriveInv /\ ObsPassInv BY DEF ObsWbInv
<1>2. /\ SourcesEdge(load) /\ n_copy' = N
      /\ N' \in Val /\ valid' \in BOOLEAN /\ (valid' => N' = N)
      /\ sel_q' \in Selectors
      /\ IF cmd.reset THEN ResetObserver
         ELSE ObserverEdge(cmd.start, cmd.step, oneshot_q, N, valid, pi)
  BY ObsWbAssumption DEF Shape, Edge, Sideband
<1>3. /\ running \in BOOLEAN /\ visit_q \in BOOLEAN /\ valid \in BOOLEAN
      /\ t_q \in Val /\ N \in Val /\ 0 \in Val
      /\ visit_q => running
      /\ running /\ valid => N = n_copy /\ t_q < N
  BY <1>1, ValRangeAssumption DEF ObsPassInv, Val
<1> HIDE DEF pi
<1>4. CASE cmd.reset
  BY <1>2, <1>3, <1>4 DEF ResetObserver, ObsPassInv
<1>5. CASE ~cmd.reset /\ (AbortPass(valid) \/ NoPass(cmd.start, N, valid)
                          \/ EndPass(oneshot_q, N, valid))
  <2>1. running' = FALSE /\ visit_q' = FALSE /\ t_q' = t_q
    BY <1>3, <1>5 DEF AbortPass, NoPass, EndPass
  <2> QED BY <1>2, <1>3, <2>1 DEF ObsPassInv
<1>6. CASE ~cmd.reset /\ StartPass(cmd.start, N, valid, pi)
  <2>1. /\ cmd.start /\ running' = TRUE /\ visit_q' = TRUE /\ t_q' = 0 /\ col_q' = pi
        /\ N # 0 /\ ~running /\ valid
    BY <1>6 DEF StartPass
  <2>2. /\ start_ok(sh) /\ response' = "ack"
        /\ ~mixed' => sel_q' = sel_q /\ ~load
    BY <2>1 DEF Shape, Record
  <2>3. ts_t(N) = 0 BY <2>1 DEF ts_t
  <2>4. 0 < N /\ N \in Nat \ {0} BY <1>3, <2>1, ValRangeAssumption DEF Val
  <2>5. ASSUME ~mixed', sel_q' = "identity" PROVE col_q' = t_q'
    BY <2>1, <2>2, <2>3, <2>5 DEF seam_pi, pi
  <2>6. ASSUME valid', ~mixed', sel_q' = "affine"
        PROVE  /\ ready_q'
               /\ col_q' = affine_sequence(a_q', b_q', N')[t_q']
               /\ ts_t_q' = t_q'
               /\ cur_q' = affine_sequence(a_q', b_q', N')[ts_t_q']
    <3>1. sel_q = "affine" /\ ~load BY <2>2, <2>6
    <3>2. ready_q /\ ~n_changed_q
      BY <2>2, <3>1 DEF start_ok, seam_ready, selected_ready
    <3>3. N = n_copy /\ n_q = N
      BY <1>1, <3>2 DEF n_changed_q, n_changed, DeriveInv
    <3>4. ready_q' /\ a_q' = a_q /\ b_q' = b_q
      BY <1>1, <1>2, <2>1, <3>1, <3>2, <3>3, PairIsKept
    <3>5. a_q \in 0 .. N - 1 /\ b_q \in 0 .. N - 1
      BY <1>1, <2>1, <3>2, <3>3 DEF DeriveInv
    <3>6. cur_q' = affine_pi(N, 0) /\ ts_t_q' = 0
      BY <1>2, <2>1, <2>3 DEF SourcesEdge, no_source, AffineEdge
    <3>7. affine_pi(N, 0) = b_q BY DEF affine_pi
    <3>8. pi = b_q BY <2>3, <3>1, <3>7 DEF pi, seam_pi
    <3>9. affine_sequence(a_q, b_q, N)[0] = b_q
      BY <2>4, <3>5, AffineBegins
    <3> QED BY <1>2, <2>1, <2>6, <3>4, <3>6, <3>7, <3>8, <3>9
  <2> QED BY <1>2, <1>3, <2>1, <2>2, <2>4, <2>5, <2>6 DEF ObsPassInv
<1>7. CASE ~cmd.reset /\ (Advance(cmd.step, oneshot_q, N, valid, pi)
                          \/ HoldPass(cmd.step, oneshot_q, N, valid))
  <2>1. running /\ valid /\ running' = TRUE
    BY <1>3, <1>7 DEF Advance, HoldPass
  <2>2. /\ ~load /\ sel_q' = sel_q
        /\ ~mixed' => ~mixed \/ (cmd.step /\ served_afresh(sh))
    BY <2>1 DEF Shape, start_ok, Record
  <2>3. t_next(N) \in Val /\ t_next(N) < N
    BY <1>3, <2>1, NextSteps
  <2>4. ts_t(N) = t_next(N) BY <2>1 DEF ts_t
  <2>5. \/ t_q' = t_next(N) /\ col_q' = pi /\ response' = "ack"
        \/ t_q' = t_q /\ col_q' = col_q /\ visit_q' = FALSE /\ ~cmd.step
    BY <1>7 DEF Advance, HoldPass, Shape
  <2>6. visit_q' \in BOOLEAN BY <1>7 DEF Advance, HoldPass
  <2>7. t_q' \in Val /\ t_q' < N BY <1>3, <2>1, <2>3, <2>5
  <2>8. ASSUME ~mixed', sel_q' = "identity" PROVE col_q' = t_q'
    BY <1>1, <2>1, <2>2, <2>4, <2>5, <2>8 DEF seam_pi, pi, ObsPassInv
  <2>9. ASSUME valid', ~mixed', sel_q' = "affine"
        PROVE  /\ ready_q'
               /\ col_q' = affine_sequence(a_q', b_q', N')[t_q']
               /\ ts_t_q' \in {t_q', t_next(N)'}
               /\ cur_q' = affine_sequence(a_q', b_q', N')[ts_t_q']
    <3>1. sel_q = "affine" /\ N' = N BY <1>2, <2>2, <2>9
    <3>2. CASE ~mixed
      <4>1. /\ ready_q' /\ a_q' = a_q /\ b_q' = b_q
            /\ ts_t_q' = t_next(N)
            /\ cur_q' = affine_sequence(a_q, b_q, N)[t_next(N)]
        BY <1>1, <1>2, <2>1, <2>2, <3>1, <3>2, PassGoesOn
      <4>2. CASE t_q' = t_next(N) /\ col_q' = pi
        <5>1. pi = affine_sequence(a_q, b_q, N)[t_next(N)]
          BY <1>1, <2>1, <2>4, <3>1, <3>2, SeamWalks DEF seam_pi, pi
        <5> QED BY <3>1, <4>1, <4>2, <5>1
      <4>3. CASE t_q' = t_q /\ col_q' = col_q
        <5>1. col_q = affine_sequence(a_q, b_q, N)[t_q]
          BY <1>1, <2>1, <3>1, <3>2 DEF ObsPassInv
        <5>2. t_next(N)' = t_next(N)
          BY <3>1, <4>3 DEF t_next, last_now, last
        <5> QED BY <3>1, <4>1, <4>3, <5>1, <5>2
      <4> QED BY <2>5, <4>2, <4>3
    <3>3. CASE mixed
      <4>1. cmd.step /\ t_next(N) = 0 /\ ready_q
        BY <2>2, <2>4, <2>9, <3>1, <3>3 DEF served_afresh, selected_ready
      <4>2. t_q' = 0 /\ col_q' = pi BY <2>5, <4>1
      <4>3. N # 0 /\ N = n_copy /\ N \in Nat \ {0}
        BY <1>3, <2>1, ValRangeAssumption DEF Val
      <4>4. /\ ready_q' /\ a_q' = a_q /\ b_q' = b_q
            /\ cur_q' = b_q /\ ts_t_q' = 0 /\ pi = b_q
        BY <1>1, <1>2, <2>2, <2>4, <3>1, <4>1, <4>3, SettledAtZero DEF seam_pi, pi
      <4>5. affine_sequence(a_q, b_q, N)[0] = b_q
        BY <1>1, <4>1, <4>3, AffineBegins DEF DeriveInv, n_changed
      <4> QED BY <3>1, <4>2, <4>4, <4>5
    <3> QED BY <3>2, <3>3
  <2>10. visit_q' => response' = "ack" BY <2>5
  <2> QED BY <1>2, <1>3, <2>1, <2>6, <2>7, <2>8, <2>9, <2>10 DEF ObsPassInv
<1> QED BY <1>2, <1>4, <1>5, <1>6, <1>7 DEF ObserverEdge

-----------------------------------------------------------------------------
(* The invariant.                                                          *)

(* A seed is a stream in which 0 and 1 occur.                              *)
LEMMA SeedsAreStreams == \A s \in Seeds : IsStream(s)
<1> SUFFICES ASSUME NEW s \in Seeds PROVE IsStream(s)
  OBVIOUS
<1>1. s \in Seq(0 .. WordRange - 1) /\ {0, 1} \subseteq {s[k] : k \in DOMAIN s}
  BY ObsWbAssumption
<1>2. Seq(0 .. WordRange - 1) \subseteq Seq(Nat)
  BY WordRangeAssumption
<1> QED BY <1>1, <1>2 DEF IsStream

(* The window after reset keeps ObsWbInv.                                  *)
LEMMA ObsWbInit == Init => ObsWbInv
<1> SUFFICES ASSUME Init PROVE ObsWbInv OBVIOUS
<1>1. ZeroSeed \in Seeds BY ObsWbAssumption DEF ZeroSeed
<1>2. 0 \in Val /\ Rows \subseteq Val BY ValRangeAssumption, ObsWbAssumption DEF Val
<1>3. DeriveInv BY <1>1, <1>2 DEF Init, WindowInit, AffineInit, DeriveInv
<1>4. ObsPassInv BY <1>2 DEF Init, ObserverInit, WindowInit, ObsPassInv, Selectors
<1>5. DerivationInv(Seeds) BY DEF Init, AffineInit, DerivationInv
<1>6. AbortInv BY DEF Init, ObserverInit, WindowInit, AbortInv, AbortedIsReported
<1> QED BY <1>3, <1>4, <1>5, <1>6 DEF ObsWbInv

(* The bit of the window is the abort of the clock before, less what was   *)
(* acknowledged since.                                                     *)
LEMMA AbortedFollows ==
  ASSUME ObsWbInv, NEW cmd, NEW clear, NEW load, NEW sh, Shape(cmd, clear, load, sh)
  PROVE  AbortInv'
<1>1. AbortInv /\ running \in BOOLEAN /\ valid \in BOOLEAN
  BY DEF ObsWbInv, ObsPassInv
<1>2. /\ eng_aborted_q' = aborted_q
      /\ abort_latch' = (~cmd.reset /\ abort_after(clear.aborted))
      /\ IF cmd.reset THEN ResetObserver
         ELSE ObserverEdge(cmd.start, cmd.step, oneshot_q, N, valid, seam_pi(sh))
      /\ acked' = (cmd.reset \/ ((valid \/ ~running) /\ (acked \/ clear.aborted)))
  BY DEF Shape, Edge, Record
<1>3. CASE cmd.reset
  <2>1. aborted_q' = FALSE /\ running' = FALSE /\ ~abort_latch' /\ acked'
    BY <1>2, <1>3 DEF ResetObserver
  <2> QED BY <1>1, <1>2, <2>1 DEF AbortInv, AbortedIsReported
<1>4. CASE ~cmd.reset
  <2>1. \/ /\ running /\ ~valid /\ ~aborted_q /\ aborted_q' = TRUE /\ running' = FALSE
           /\ ~acked'
        \/ /\ valid \/ ~running
           /\ aborted_q' \in {aborted_q, FALSE} /\ (running' => ~aborted_q')
           /\ aborted_q' => aborted_q
    <3>1. CASE running /\ ~valid
      <4>1. AbortPass(valid)
        BY <1>2, <1>4, <3>1 DEF ObserverEdge, StartPass, NoPass, EndPass, Advance, HoldPass
      <4> QED BY <1>1, <1>2, <1>4, <3>1, <4>1 DEF AbortPass, AbortInv
    <3>2. CASE ~(running /\ ~valid)
      BY <1>1, <1>2, <1>4, <3>2 DEF ObserverEdge, AbortPass, StartPass, NoPass, EndPass,
         Advance, HoldPass, AbortInv
    <3> QED BY <3>1, <3>2
  <2>2. abort_latch' <=> aborted_q /\ ~clear.aborted /\ ~(acked /\ eng_aborted_q)
    <3>1. abort_latch <=> eng_aborted_q /\ ~acked
      BY <1>1 DEF AbortInv, AbortedIsReported
    <3>2. abort_latch' <=> abort_after(clear.aborted)
      BY <1>2, <1>4
    <3>3. aborted_q \in BOOLEAN /\ eng_aborted_q \in BOOLEAN
      BY <1>1 DEF AbortInv
    <3> QED BY <3>1, <3>2, <3>3 DEF abort_after
  <2>3. aborted_q /\ ~eng_aborted_q => ~acked
    BY <1>1 DEF AbortInv
  <2>4. acked' <=> (valid \/ ~running) /\ (acked \/ clear.aborted)
    BY <1>2, <1>4
  <2>5. AbortedIsReported'
    <3>1. abort_latch' <=> aborted_q /\ ~acked'
      BY <1>1, <2>1, <2>2, <2>3, <2>4 DEF AbortInv
    <3> QED BY <1>2, <3>1 DEF AbortedIsReported
  <2>6. aborted_q' \in BOOLEAN /\ eng_aborted_q' \in BOOLEAN
    BY <1>1, <1>2, <2>1 DEF AbortInv
  <2>7. (running' => ~aborted_q') /\ (aborted_q' /\ ~eng_aborted_q' => ~acked')
    BY <1>2, <2>1
  <2> QED BY <2>5, <2>6, <2>7 DEF AbortInv
<1> QED BY <1>3, <1>4

(* So does every clock after it.                                           *)
LEMMA ObsWbStep == ObsWbInv /\ Next => ObsWbInv'
<1> SUFFICES ASSUME ObsWbInv, Next PROVE ObsWbInv' OBVIOUS
<1>1. CASE Reset
  <2>1. AbortInv'
    BY <1>1 DEF Reset, ResetObserver, AbortInv, AbortedIsReported
  <2>2. DerivationInv(Seeds)'
    BY <1>1 DEF Reset, ResetAffine, DerivationInv
  <2> QED BY <1>1, <2>1, <2>2, DeriveReset, ObsPassReset DEF ObsWbInv
<1>2. ASSUME NEW sh \in ShuffledInputs, Clock(sh) PROVE ObsWbInv'
  <2>1. running \in BOOLEAN /\ seed_q \in Seeds /\ sel_q \in Selectors /\ N \in Val /\ DeriveInv
    BY DEF ObsWbInv, ObsPassInv, DeriveInv
  <2>2. PICK cmd, clear, load : Shape(cmd, clear, load, sh)
    BY <1>2, <2>1, ClockHasShape
  <2>3. DeriveInv'
    <3>1. SourcesEdge(load) /\ n_copy' = N /\ n_seen_q' /\ seed_q' \in Seeds
      BY <2>2 DEF Shape, Edge
    <3> QED BY <2>1, <3>1, DeriveKeeps
  <2>4. ObsPassInv' BY <2>2, ObsPassKeeps
  <2>5. AbortInv'
    BY <2>2, AbortedFollows
  <2>6. DerivationInv(Seeds)'
    <3>1. SourcesEdge(load)
      BY <2>2 DEF Shape, Edge
    <3>2. CASE N = 0
      BY <3>1, <3>2 DEF SourcesEdge, no_source, ResetAffine, DerivationInv
    <3>3. CASE N # 0
      <4>1. AffineEdge(N, ts_t(N), load \/ n_changed, seed_q)
        BY <3>1, <3>3 DEF SourcesEdge, no_source
      <4>2. DerivationInv(Seeds) BY DEF ObsWbInv
      <4> QED BY <2>1, <3>3, <4>1, <4>2, SeedsAreStreams, DerivationStep
    <3> QED BY <3>2, <3>3
  <2> QED BY <2>3, <2>4, <2>5, <2>6 DEF ObsWbInv
<1> QED BY <1>1, <1>2 DEF Next

(* So does a clock in which nothing moves.                                 *)
LEMMA ObsWbStutter == ObsWbInv /\ UNCHANGED vars => ObsWbInv'
<1> SUFFICES ASSUME ObsWbInv, UNCHANGED vars PROVE ObsWbInv' OBVIOUS
<1> USE DEF vars, observerVars, affineVars, deriveVars, seamVars, windowVars, historyVars
<1>1. DeriveInv' BY DEF ObsWbInv, DeriveInv
<1>2. ObsPassInv' BY DEF ObsWbInv, ObsPassInv, t_next, last_now, last
<1>3. DerivationInv(Seeds)' BY DEF ObsWbInv, DerivationInv
<1>4. AbortInv' BY DEF ObsWbInv, AbortInv, AbortedIsReported
<1> QED BY <1>1, <1>2, <1>3, <1>4 DEF ObsWbInv

(* The hardware window keeps ObsWbInv: draws inside the row, a pass on the *)
(* order of its source, ABORTED no later than one clock.                   *)
THEOREM WindowInvariant == Spec => []ObsWbInv
<1> QED BY ObsWbInit, ObsWbStep, ObsWbStutter, PTL DEF Spec

(* A pair that the window calls ready is the one its seed and the row of    *)
(* now define, whatever was written, loaded, rejected or reset before.     *)
THEOREM ReadyPairsAreOfTheRow == Spec => []ReadyPairIsOfTheRow
<1>1. ObsWbInv => ReadyPairIsOfTheRow
  <2> SUFFICES ASSUME ObsWbInv, ready_q, ~no_source, ~n_changed
               PROVE  <<a_q, b_q>> = LET d == derive_ab(stream_q, N) IN <<d.a, d.b>>
    BY DEF ReadyPairIsOfTheRow
  <2>1. n_q = N /\ n_q # 0 /\ state_q = "IDLE" /\ DerivationInv(Seeds)
    BY DEF ObsWbInv, DeriveInv, n_changed, no_source
  <2> QED BY <2>1, DerivedPair
<1> QED BY <1>1, WindowInvariant, PTL

\* A pass over the identity or the affine source presents its order, whatever is
\* written while it lives: from its START on, or if that came with another
\* selector, from the second visit on (identity) or from the first step 0 at
\* which the pair is there (affine).
THEOREM PassesFollowTheirSource == Spec => []PassFollowsItsSource
<1>1. ObsWbInv => PassFollowsItsSource
  <2> SUFFICES ASSUME ObsWbInv, visit_valid(valid), ~mixed
               PROVE  /\ sel_q = "identity" => col_q = t_q
                      /\ sel_q = "affine" => col_q = affine_sequence(a_q, b_q, N)[t_q]
    BY DEF PassFollowsItsSource
  <2>1. running /\ valid BY DEF visit_valid, ObsWbInv, ObsPassInv
  <2> QED BY <2>1 DEF ObsWbInv, ObsPassInv
<1> QED BY WindowInvariant, <1>1, PTL

\* ABORTED is up exactly while the abort of the last pass, as the window has it
\* one clock later, is acknowledged by no write, RESET or restart.
THEOREM AbortIsReported == Spec => []AbortedIsReported
<1>1. ObsWbInv => AbortedIsReported BY DEF ObsWbInv, AbortInv
<1> QED BY WindowInvariant, <1>1, PTL

(* A DONE that rises in the clock of an access is there after it.          *)
LEMMA DoneSurvives ==
  ASSUME ObsWbInv, Next PROVE DoneIsNeverSwallowed
<1> SUFFICES ASSUME pass_done(N, valid) PROVE done_q' \/ ~n_seen_q'
  BY DEF DoneIsNeverSwallowed
<1>1. response # "none"
  BY DEF pass_done, visit_valid, ObsWbInv, ObsPassInv
<1>2. CASE Reset BY <1>2 DEF Reset
<1>3. ASSUME NEW sh \in ShuffledInputs, Clock(sh) PROVE done_q'
  <2>1. running \in BOOLEAN /\ seed_q \in Seeds /\ sel_q \in Selectors
    BY DEF ObsWbInv, ObsPassInv, DeriveInv
  <2>2. PICK cmd, clear, load : Shape(cmd, clear, load, sh)
    BY <1>3, <2>1, ClockHasShape
  <2>3. ~cmd.reset /\ ~clear.done BY <1>1, <2>2 DEF Shape
  <2>4. done_q' = (~cmd.reset /\ (done_q \/ pass_done(N, valid)) /\ ~clear.done)
    BY <2>2 DEF Shape, Edge
  <2> QED BY <2>3, <2>4
<1> QED BY <1>2, <1>3 DEF Next

(* A refused access changes neither selector nor mode nor seed, starts no  *)
(* pass and leaves a ready source ready.                                   *)
LEMMA RefusalKeeps ==
  ASSUME ObsWbInv, Next PROVE RefusalIsSilent
<1> SUFFICES ASSUME response' = "err"
             PROVE  /\ UNCHANGED <<oneshot_q, sel_q, seed_q>>
                    /\ running' => running
                    /\ ready_q /\ ~no_source /\ ~n_changed => ready_q'
  BY DEF RefusalIsSilent
<1>1. ~Reset BY DEF Reset
<1>2. PICK sh \in ShuffledInputs : Clock(sh) BY <1>1 DEF Next
<1>3. running \in BOOLEAN /\ seed_q \in Seeds /\ sel_q \in Selectors /\ DeriveInv
  BY DEF ObsWbInv, ObsPassInv, DeriveInv
<1>4. PICK cmd, clear, load : Shape(cmd, clear, load, sh)
  BY <1>2, <1>3, ClockHasShape
<1>5. /\ ~cmd.start /\ ~cmd.reset /\ ~load
      /\ UNCHANGED <<oneshot_q, sel_q, seed_q>>
  BY <1>4 DEF Shape
<1>6. running' => running
  BY <1>4, <1>5 DEF Shape, Edge, ObserverEdge, AbortPass, StartPass, NoPass,
     EndPass, Advance, HoldPass
<1>7. ready_q /\ ~no_source /\ ~n_changed => ready_q'
  <2>1. SourcesEdge(load) BY <1>4 DEF Shape, Edge
  <2> QED BY <1>3, <1>5, <2>1, PairIsKept DEF no_source, n_changed
<1> QED BY <1>5, <1>6, <1>7

\* No access takes the end of a pass away, and a refused one changes nothing
\* that a pass or a source depends on.
THEOREM AccessesAreAlwaysSafe == Spec => AccessesAreSafe
<1>1. ObsWbInv /\ [Next]_vars => [DoneIsNeverSwallowed /\ RefusalIsSilent]_vars
  BY DoneSurvives, RefusalKeeps
<1> QED BY WindowInvariant, <1>1, PTL DEF Spec, AccessesAreSafe
-----------------------------------------------------------------------------
(* The walks of the benches: the affine source of the RTL beside its       *)
(* golden model.                                                           *)

(* The seeds of the benches are streams in which 0 and 1 occur.            *)
LEMMA BenchSeedsAreStreams == \A s \in BenchSeeds : IsStream(s)
<1> SUFFICES ASSUME NEW s \in BenchSeeds PROVE IsStream(s)
  OBVIOUS
<1>1. s \in Seq(0 .. WordRange - 1) /\ {0, 1} \subseteq {s[k] : k \in DOMAIN s}
  BY WalkAssumption
<1>2. Seq(0 .. WordRange - 1) \subseteq Seq(Nat)
  BY WordRangeAssumption
<1> QED BY <1>1, <1>2 DEF IsStream

(* The golden source's pair is of the row on the ports.                    *)
LEMMA GoldenPair ==
  ASSUME WalkInv
  PROVE  /\ N_i \in Val /\ N_i \in Nat \ {0} /\ N_i < ValRange
         /\ ab.a \in 0 .. N_i - 1 /\ ab.b \in 0 .. N_i - 1 /\ ab.b % N_i = ab.b
<1>1. N_i \in Val /\ N_i \in Nat \ {0} /\ N_i < ValRange
  BY WalkAssumption, ValRangeAssumption DEF WalkInv, Val
<1>2. ab.a \in 0 .. N_i - 1 /\ ab.b \in 0 .. N_i - 1
  <2>1. IsStream(seed_i)
    BY BenchSeedsAreStreams DEF WalkInv
  <2>2. /\ derive_ab(seed_i, N_i).a \in 0 .. N_i - 1
        /\ derive_ab(seed_i, N_i).b \in 0 .. N_i - 1
    BY <1>1, <2>1, PairIsOfTheRow
  <2> QED BY <2>2 DEF WalkInv, PairsInv
<1>3. ab.b % N_i = ab.b
  <2>1. ab.b \in Int /\ ab.b = N_i * 0 + ab.b
    BY <1>1, <1>2
  <2> QED BY <1>1, <1>2, <2>1, ModUnique
<1> QED BY <1>1, <1>2, <1>3

\* A pair that is presented is the golden one.
LEMMA PresentedPair ==
  ASSUME WalkInv, admitted
  PROVE  a_q = ab.a /\ b_q = ab.b
<1>1. n_q = N_i /\ n_q # 0 /\ ~load_i /\ state_q = "IDLE"
  BY DEF admitted, restart, WalkInv, PairsInv
<1>2. stream_q = seed_i /\ DerivationInv(BenchSeeds)
  BY <1>1 DEF WalkInv, PairsInv
<1>3. a_q = derive_ab(seed_i, N_i).a /\ b_q = derive_ab(seed_i, N_i).b
  BY <1>1, <1>2, DerivedPair
<1> QED BY <1>3 DEF WalkInv, PairsInv

(* The RTL's answer to the step on its port is the closed form at that     *)
(* step.                                                                   *)
LEMMA PresentedAnswer ==
  ASSUME WalkInv, admitted
  PROVE  ts_pi = affine_sequence(a_q, b_q, N_i)[ts_t_i]
<1>1. /\ N_i \in Nat \ {0} /\ N_i < ValRange /\ ts_t_i \in 0 .. N_i - 1
      /\ a_q \in 0 .. N_i - 1 /\ b_q \in 0 .. N_i - 1
  BY GoldenPair, PresentedPair DEF WalkInv
<1>2. CASE ts_t_i = 0
  BY <1>1, <1>2, AffineBegins DEF ts_pi, affine_pi
<1>3. CASE ts_t_i # 0 /\ ts_t_i = ts_t_q
  BY <1>3 DEF ts_pi, affine_pi, WalkInv, AccumulatorsInv
<1>4. CASE ts_t_i # 0 /\ ts_t_i # ts_t_q
  <2>1. /\ ts_t_q \in Nat /\ ts_t_i = ts_t_q + 1 /\ ts_t_q + 1 < N_i
        /\ cur_q = affine_sequence(a_q, b_q, N_i)[ts_t_q]
    BY <1>1, <1>4 DEF WalkInv, AccumulatorsInv
  <2>2. affine_sequence(a_q, b_q, N_i)[ts_t_q + 1] =
          IF cur_q + a_q >= N_i THEN ((cur_q + a_q) - N_i) % ValRange
          ELSE (cur_q + a_q) % ValRange
    BY <1>1, <2>1, AffineAdvances
  <2> QED BY <1>4, <2>1, <2>2 DEF ts_pi, affine_pi, nxt
<1> QED BY <1>2, <1>3, <1>4

(* To a step it has not been asked about yet the golden source answers the *)
(* same.                                                                   *)
LEMMA GoldenAnswer ==
  ASSUME WalkInv, settled, ts_t_i # t_last
  PROVE  affine_answer(N_i, ts_t_i) = ts_pi
<1>1. admitted /\ affine_ready
  BY DEF settled
<1>2. /\ N_i \in Nat \ {0} /\ N_i < ValRange /\ ts_t_i \in 0 .. N_i - 1
      /\ a_q \in 0 .. N_i - 1 /\ b_q \in 0 .. N_i - 1
      /\ a_q = ab.a /\ b_q = ab.b /\ ab.b % N_i = ab.b
  BY <1>1, GoldenPair, PresentedPair DEF WalkInv
<1>3. CASE ts_t_i = 0
  BY <1>2, <1>3 DEF affine_answer, ts_pi, affine_pi
<1>4. CASE ts_t_i # 0
  <2>1. /\ t_last = ts_t_q /\ r = cur_q /\ ts_t_q \in 0 .. N_i - 1
        /\ cur_q = affine_sequence(a_q, b_q, N_i)[ts_t_q]
    BY <1>1, <1>4 DEF WalkInv, AccumulatorsInv
  <2>2. cur_q \in 0 .. N_i - 1
    <3>1. cur_q = (a_q * ts_t_q + b_q) % N_i
      BY <2>1 DEF affine_sequence
    <3>2. a_q * ts_t_q + b_q \in Int
      BY <1>2, <2>1
    <3> QED BY <1>2, <3>1, <3>2, DivMod
  <2>3. ts_pi = nxt(N_i)
    BY <1>4, <2>1 DEF ts_pi, affine_pi
  <2> DEFINE inc == cur_q + a_q
  <2>4. inc \in Nat /\ inc - N_i < N_i /\ ValRange \in Nat \ {0}
    BY <1>2, <2>2, ValRangeAssumption
  <2>5. nxt(N_i) = IF inc >= N_i THEN (inc - N_i) % ValRange ELSE inc % ValRange
    BY DEF nxt
  <2>6. affine_answer(N_i, ts_t_i) = IF inc >= N_i THEN inc - N_i ELSE inc
    BY <1>2, <1>4, <2>1 DEF affine_answer
  <2> HIDE DEF inc
  <2>7. \A x \in 0 .. N_i - 1 : x % ValRange = x
    BY <1>2, <2>4
  <2> QED BY <1>2, <2>3, <2>4, <2>5, <2>6, <2>7
<1> QED BY <1>3, <1>4

\* Once it has followed the question, the golden accumulator is the answer.
LEMMA GoldenFollows ==
  ASSUME WalkInv, settled, Accumulate(N_i, ts_t_i)
  PROVE  r' = ts_pi
<1>1. CASE ts_t_i # t_last
  BY <1>1, GoldenAnswer DEF Accumulate
<1>2. CASE ts_t_i = t_last
  <2>1. r' = r /\ admitted /\ affine_ready
    BY <1>2 DEF Accumulate, settled
  <2>2. CASE ts_t_i = 0
    BY <1>2, <2>1, <2>2, PresentedPair DEF WalkInv, AccumulatorsInv, ts_pi, affine_pi
  <2>3. CASE ts_t_i # 0
    BY <1>2, <2>1, <2>3 DEF WalkInv, AccumulatorsInv, ts_pi, affine_pi
  <2> QED BY <2>2, <2>3
<1> QED BY <1>1, <1>2

\* A clock without reset leaves the source with the row and the seed on its ports.
LEMMA BenchEdgeDerives ==
  ASSUME WalkInv, BenchEdge
  PROVE  /\ DerivationInv(BenchSeeds)'
         /\ ready_q' => state_q' = "IDLE" /\ n_q' # 0
         /\ n_q' = N_i /\ stream_q' = seed_i
         /\ admitted => UNCHANGED <<a_q, b_q>>
         /\ cur_q' = ts_pi /\ ts_t_q' = ts_t_i
<1>1. N_i \in Val \ {0} /\ seed_i \in BenchSeeds /\ PairsInv
  BY WalkAssumption DEF WalkInv
<1>2. DerivationInv(BenchSeeds)'
  <2>1. AffineEdge(N_i, ts_t_i, load_i, seed_i) /\ DerivationInv(BenchSeeds)
    BY <1>1 DEF BenchEdge, PairsInv
  <2> QED BY <1>1, <2>1, BenchSeedsAreStreams, DerivationStep
<1>3. cur_q' = ts_pi /\ ts_t_q' = ts_t_i
  BY DEF BenchEdge, AffineEdge, ts_pi
<1>4. N_i # 0
  BY <1>1
<1>5. CASE restart(N_i, load_i)
  <2>1. ready_q' = FALSE /\ n_q' = N_i /\ stream_q' = seed_i
    BY <1>5 DEF BenchEdge, AffineEdge, Restart
  <2> QED BY <1>2, <1>3, <1>5, <2>1 DEF admitted
<1>6. CASE ~restart(N_i, load_i)
  <2>1. Derive(N_i) /\ n_q = N_i /\ ~load_i
    BY <1>6 DEF BenchEdge, AffineEdge, restart
  <2>2. UNCHANGED <<n_q, stream_q>>
    BY <2>1 DEF Derive, Stay, Mask, DrawA, GcdStep, GcdDone, DrawB
  <2>3. stream_q = seed_i
    BY <1>1, <2>1 DEF PairsInv
  <2>4. CASE Stay
    BY <1>2, <1>3, <1>4, <2>1, <2>2, <2>3, <2>4 DEF Stay
  <2>5. CASE ~Stay
    <3>1. state_q # "IDLE" /\ ready_q' = ready_q
      BY <2>1, <2>5 DEF Derive, Mask, DrawA, GcdStep, GcdDone, DrawB
    <3>2. ~ready_q
      BY <1>1, <3>1 DEF PairsInv
    <3> QED BY <1>2, <1>3, <2>1, <2>2, <2>3, <3>1, <3>2 DEF admitted
  <2> QED BY <2>4, <2>5
<1> QED BY <1>5, <1>6

(* Both sources after reset keep WalkInv.                                  *)
LEMMA WalkInvInit == WalkInit => WalkInv
<1> SUFFICES ASSUME WalkInit PROVE WalkInv
  OBVIOUS
<1>1. /\ n_q = 0 /\ ready_q = FALSE /\ ts_t_i = 0 /\ t_last = NoStep
      /\ load_i = FALSE /\ N_i \in BenchRows /\ seed_i \in BenchSeeds
  BY DEF WalkInit, AffineInit, AffineSourceInit
<1>2. N_i \in Nat \ {0}
  BY <1>1, WalkAssumption, ValRangeAssumption DEF Val
<1>3. PairsInv
  <2>1. LET d == derive_ab(seed_i, N_i) IN ab = [a |-> d.a, b |-> d.b]
    BY DEF WalkInit, AffineSourceInit
  <2> QED BY <1>1, <1>2, <2>1 DEF PairsInv, DerivationInv
<1>4. AccumulatorsInv
  BY <1>1 DEF AccumulatorsInv, NoStep
<1>5. 0 \in 0 .. N_i - 1
  BY <1>2
<1> QED BY <1>1, <1>2, <1>3, <1>4, <1>5 DEF WalkInv

(* A step of the walk, however long it is held, keeps WalkInv.             *)
LEMMA WalkKeeps ==
  ASSUME WalkInv, Walk
  PROVE  WalkInv'
<1>1. /\ settled /\ BenchEdge /\ load_i' = FALSE /\ N_i' = N_i /\ seed_i' = seed_i
      /\ ts_t_i' \in {ts_t_i, next_step(ts_t_i)}
  BY DEF Walk
<1>2. ab' = ab /\ Accumulate(N_i, ts_t_i) /\ t_last' = ts_t_i
  <2>1. countdown <= 1
    BY <1>1 DEF settled, affine_ready
  <2> QED BY <2>1 DEF Walk, TickAffine
<1>3. /\ admitted /\ UNCHANGED <<a_q, b_q>> /\ cur_q' = ts_pi /\ ts_t_q' = ts_t_i
      /\ r' = ts_pi
  BY <1>1, <1>2, BenchEdgeDerives, GoldenFollows DEF settled
<1>4. /\ N_i \in Nat \ {0} /\ ts_t_i \in 0 .. N_i - 1
      /\ ts_t_i' \in 0 .. N_i - 1
      /\ ts_t_i' # 0 => ts_t_i' \in {ts_t_i, ts_t_i + 1}
  BY <1>1, GoldenPair DEF WalkInv, next_step
<1>5. PairsInv'
  <2>1. LET d == derive_ab(seed_i, N_i) IN ab = [a |-> d.a, b |-> d.b]
    BY DEF WalkInv, PairsInv
  <2> QED BY <1>1, <1>2, <2>1, BenchEdgeDerives DEF PairsInv
<1>6. AccumulatorsInv'
  <2>1. ts_pi = affine_sequence(a_q, b_q, N_i)[ts_t_i]
    BY <1>3, PresentedAnswer
  <2>2. ts_t_i = 0 => ts_pi = ab.b
    BY <1>3, PresentedPair DEF ts_pi, affine_pi
  <2> QED BY <1>1, <1>2, <1>3, <1>4, <2>1, <2>2 DEF AccumulatorsInv
<1> QED BY <1>1, <1>4, <1>5, <1>6 DEF WalkInv

(* So does a walk that dies and begins again.                              *)
LEMMA DieKeeps ==
  ASSUME WalkInv, Die
  PROVE  WalkInv'
<1>1. /\ BenchEdge /\ load_i' = FALSE /\ N_i' = N_i /\ seed_i' = seed_i /\ ts_t_i' = 0
      /\ t_last' = NoStep /\ ab' = ab
  BY DEF Die
<1>2. N_i \in Nat \ {0}
  BY GoldenPair
<1>3. PairsInv'
  <2>1. LET d == derive_ab(seed_i, N_i) IN ab = [a |-> d.a, b |-> d.b]
    BY DEF WalkInv, PairsInv
  <2> QED BY <1>1, <2>1, BenchEdgeDerives DEF PairsInv
<1>4. AccumulatorsInv'
  BY <1>1 DEF AccumulatorsInv, NoStep
<1>5. 0 \in 0 .. N_i - 1
  BY <1>2
<1> QED BY <1>1, <1>2, <1>3, <1>4, <1>5 DEF WalkInv

(* So does waiting for a derivation.                                       *)
LEMMA WaitKeeps ==
  ASSUME WalkInv, Wait
  PROVE  WalkInv'
<1>1. /\ BenchEdge /\ load_i' = FALSE /\ N_i' = N_i /\ seed_i' = seed_i /\ ts_t_i' = 0
      /\ ab' = ab /\ TickAffine(N_i, 0)
  BY DEF Wait, TickAffine
<1>2. N_i \in Nat \ {0} /\ ab.b % N_i = ab.b
  BY GoldenPair
<1>3. PairsInv'
  <2>1. LET d == derive_ab(seed_i, N_i) IN ab = [a |-> d.a, b |-> d.b]
    BY DEF WalkInv, PairsInv
  <2> QED BY <1>1, <2>1, BenchEdgeDerives DEF PairsInv
<1>4. AccumulatorsInv'
  <2>1. t_last = 0 => r = ab.b
    BY DEF WalkInv, AccumulatorsInv
  <2>2. t_last' = 0 => r' = ab.b
    BY <1>1, <1>2, <2>1 DEF TickAffine, Accumulate, affine_answer
  <2> QED BY <1>1, <2>2 DEF AccumulatorsInv
<1>5. 0 \in 0 .. N_i - 1
  BY <1>2
<1> QED BY <1>1, <1>2, <1>3, <1>4, <1>5 DEF WalkInv

(* So does a change of the row or the seed, with a load or without.        *)
LEMMA ChangeKeeps ==
  ASSUME WalkInv, Change
  PROVE  WalkInv'
<1>1. /\ BenchEdge /\ N_i' \in BenchRows /\ seed_i' \in BenchSeeds /\ ts_t_i' = 0
      /\ load_i' \in BOOLEAN /\ (load_i' \/ seed_i' = seed_i)
      /\ LoadAffine(N_i', seed_i')
  BY DEF Change, WalkInv
<1>2. N_i' \in Nat \ {0}
  BY <1>1, WalkAssumption, ValRangeAssumption DEF Val
<1>3. /\ LET d == derive_ab(seed_i', N_i') IN ab' = [a |-> d.a, b |-> d.b]
      /\ t_last' = NoStep
  BY <1>1 DEF LoadAffine
<1>4. PairsInv'
  BY <1>1, <1>3, BenchEdgeDerives DEF PairsInv
<1>5. AccumulatorsInv'
  BY <1>1, <1>3 DEF AccumulatorsInv, NoStep
<1>6. 0 \in 0 .. N_i' - 1
  <2>1. \A n \in Nat \ {0} : 0 \in 0 .. n - 1
    OBVIOUS
  <2> QED BY <1>2, <2>1, Zenon
<1> QED BY <1>1, <1>2, <1>4, <1>5, <1>6 DEF WalkInv

(* So does a reset in mid-derivation.                                      *)
LEMMA ResetPulseKeeps ==
  ASSUME WalkInv, ResetPulse
  PROVE  WalkInv'
<1>1. /\ load_i' = FALSE /\ N_i' = N_i /\ seed_i' = seed_i /\ ts_t_i' = 0
      /\ LoadAffine(N_i, seed_i) /\ n_q' = 0 /\ ready_q' = FALSE
  BY DEF ResetPulse, ResetAffine
<1>2. N_i \in Nat \ {0}
  BY GoldenPair
<1>3. /\ LET d == derive_ab(seed_i, N_i) IN ab' = [a |-> d.a, b |-> d.b]
      /\ t_last' = NoStep
  BY <1>1 DEF LoadAffine
<1>4. PairsInv'
  BY <1>1, <1>2, <1>3 DEF PairsInv, DerivationInv
<1>5. AccumulatorsInv'
  BY <1>1, <1>3 DEF AccumulatorsInv, NoStep
<1>6. 0 \in 0 .. N_i - 1
  BY <1>2
<1> QED BY <1>1, <1>2, <1>4, <1>5, <1>6 DEF WalkInv

(* So does a clock in which nothing moves.                                 *)
LEMMA WalkStutter == WalkInv /\ UNCHANGED walkVars => WalkInv'
<1> SUFFICES ASSUME WalkInv, UNCHANGED walkVars PROVE WalkInv'
  OBVIOUS
<1> USE DEF walkVars, affineVars, deriveVars, seamVars, affineSource
<1>1. PairsInv'
  BY DEF WalkInv, PairsInv, DerivationInv
<1>2. AccumulatorsInv'
  BY DEF WalkInv, AccumulatorsInv, admitted, restart, affine_ready
<1> QED BY <1>1, <1>2 DEF WalkInv

(* The inductive invariant of the two sources under the walks of a bench.  *)
THEOREM WalkInvariant == WalkSpec => []WalkInv
<1>1. WalkInv /\ WalkNext => WalkInv'
  BY WalkKeeps, DieKeeps, WaitKeeps, ChangeKeeps, ResetPulseKeeps DEF WalkNext
<1> QED BY <1>1, WalkInvInit, WalkStutter, PTL DEF WalkSpec

(* However many clocks a step is held, wherever the last walk died and      *)
(* whenever the derivation was interrupted, the answers of the RTL and of  *)
(* the golden source are the closed form of the pair of the seed.          *)
THEOREM WalksAreAffine == WalkSpec => []WalkIsAffine
<1>1. WalkInv => WalkIsAffine
  <2> SUFFICES ASSUME WalkInv PROVE WalkIsAffine
    OBVIOUS
  <2>1. ReadyPairIsDerived
    <3> SUFFICES ASSUME admitted PROVE [a |-> a_q, b |-> b_q] = ab
      BY DEF ReadyPairIsDerived
    <3>1. a_q = ab.a /\ b_q = ab.b
      BY PresentedPair
    <3> QED BY <3>1 DEF WalkInv, PairsInv
  <2>2. AnswerIsTheClosedForm
    BY PresentedAnswer DEF AnswerIsTheClosedForm
  <2>3. GoldenAgrees
    BY GoldenAnswer DEF GoldenAgrees
  <2> QED BY <2>1, <2>2, <2>3 DEF WalkIsAffine
<1> QED BY <1>1, WalkInvariant, PTL
=============================================================================
