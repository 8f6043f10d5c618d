--------------------------- MODULE BcmcAffineSource ---------------------------
(***************************************************************************)
(* AffineSource of validation/traversal_sources.py: the golden model of    *)
(* the affine source.  It is loaded with a row length and a seed, is       *)
(* ticked once a clock with the step the engine asks about, and answers pi *)
(* for that step from the pair and one accumulator.                        *)
(***************************************************************************)
EXTENDS BcmcOrders

VARIABLES
  ab, countdown,  \* the derived pair, the clocks it still takes
  r, t_last       \* the accumulator, the step it was moved for

affineSource == <<ab, countdown, r, t_last>>

NoStep == -1

larger(x, y) == IF x > y THEN x ELSE y

AffineSourceInit(N, stream) ==
  LET d == derive_ab(stream, N)
  IN  /\ ab = [a |-> d.a, b |-> d.b]
      /\ countdown = larger(1, d.draws + euclid_steps(d.a, N))
      /\ r = d.b % N /\ t_last = NoStep

LoadAffine(N, stream) ==
  \E d \in {derive_ab(stream, N)} :
      /\ ab' = [a |-> d.a, b |-> d.b]
      /\ countdown' = larger(1, d.draws + euclid_steps(d.a, N))
      /\ r' = d.b % N /\ t_last' = NoStep

affine_ready == countdown = 0

\* pi: step 0 is loaded from b, any other is the last answer plus a.
affine_answer(N, ts_t) ==
  LET inc == r + ab.a
  IN  IF ts_t = 0 THEN ab.b % N ELSE IF inc >= N THEN inc - N ELSE inc

\* The accumulator moves when a new step is asked about, and only then.
Accumulate(N, ts_t) ==
  r' = IF ts_t # t_last THEN affine_answer(N, ts_t) ELSE r

\* Mutant of TickAffine: the accumulator moves in every clock.
TickAffineFreely(N, ts_t) ==
  /\ countdown' = larger(0, countdown - 1)
  /\ IF countdown <= 1
     THEN r' = affine_answer(N, ts_t) /\ t_last' = ts_t
     ELSE UNCHANGED <<r, t_last>>
  /\ UNCHANGED ab

\* One clock: the derivation passes, and then the accumulator follows the step.
TickAffine(N, ts_t) ==
  /\ countdown' = larger(0, countdown - 1)
  /\ IF countdown <= 1
     THEN Accumulate(N, ts_t) /\ t_last' = ts_t
     ELSE UNCHANGED <<r, t_last>>
  /\ UNCHANGED ab
=============================================================================
