--------------------------- MODULE BcmcAffineWalk ---------------------------
(***************************************************************************)
(* The affine source of the RTL and its golden model, driven side by side  *)
(* as gen_src_affine_vectors.py drives the one and walk_pass and           *)
(* incremental_survives_abort the other: reset, a wait for ready, a walk   *)
(* of steps that are held for any number of clocks, a walk that dies and   *)
(* another that begins, a change of N with or without a load, a reset in   *)
(* the middle of a derivation.  The scripts there are some of the          *)
(* behaviours here.                                                        *)
(***************************************************************************)
EXTENDS BcmcSrcAffine, BcmcAffineSource

CONSTANTS BenchRows, BenchSeeds   \* what the bench drives on N and seed

ASSUME WalkAssumption ==
  /\ BenchRows \subseteq Val \ {0}
  /\ BenchSeeds \subseteq Seq(0 .. WordRange - 1)
  /\ \A s \in BenchSeeds : {0, 1} \subseteq {s[k] : k \in DOMAIN s}

VARIABLES N_i, seed_i, load_i, ts_t_i  \* the ports, as driven in this clock

walkVars == <<affineVars, affineSource, N_i, seed_i, load_i, ts_t_i>>

WalkInit ==
  /\ N_i \in BenchRows /\ seed_i \in BenchSeeds /\ load_i = FALSE /\ ts_t_i = 0
  /\ AffineInit /\ AffineSourceInit(N_i, seed_i)

ts_pi == affine_pi(N_i, ts_t_i)

admitted == ready_q /\ ~restart(N_i, load_i)

settled == admitted /\ affine_ready

BenchEdge == AffineEdge(N_i, ts_t_i, load_i, seed_i)

\* A walk is engine-like: the step is held or moves on, round the end of the row.
next_step(t) == IF t + 1 < N_i THEN t + 1 ELSE 0

\* W: the walk goes on by a step or keeps it for a clock.
Walk ==
  /\ settled /\ BenchEdge /\ TickAffine(N_i, ts_t_i)
  /\ ts_t_i' \in {ts_t_i, next_step(ts_t_i)}
  /\ load_i' = FALSE /\ UNCHANGED <<N_i, seed_i>>

\* A walk that dies between two steps: the next one finds the accumulators as
\* they were left, the golden one with its memory of the step reset.
Die ==
  /\ settled /\ ts_t_i # 0 /\ BenchEdge /\ Accumulate(N_i, ts_t_i)
  /\ t_last' = NoStep /\ UNCHANGED <<ab, countdown>>
  /\ ts_t_i' = 0 /\ load_i' = FALSE /\ UNCHANGED <<N_i, seed_i>>

\* Step 0 is held until the sources are ready.
Wait ==
  /\ ~settled /\ BenchEdge /\ TickAffine(N_i, 0)
  /\ ts_t_i' = 0 /\ load_i' = FALSE /\ UNCHANGED <<N_i, seed_i>>

\* C: another row, or another seed with a load, when the source is ready.
Change ==
  /\ settled /\ BenchEdge
  /\ N_i' \in BenchRows
  /\ \/ load_i' = TRUE /\ seed_i' \in BenchSeeds
     \/ load_i' = FALSE /\ N_i' # N_i /\ seed_i' = seed_i
  /\ LoadAffine(N_i', seed_i') /\ ts_t_i' = 0

\* P: a reset, at any distance from the begin of a derivation.
ResetPulse ==
  /\ ResetAffine /\ LoadAffine(N_i, seed_i)
  /\ ts_t_i' = 0 /\ load_i' = FALSE /\ UNCHANGED <<N_i, seed_i>>

WalkNext == Walk \/ Die \/ Wait \/ Change \/ ResetPulse

WalkSpec == WalkInit /\ [][WalkNext]_walkVars

\* The sources are clocked: a bench that waits sees the next clock.
FairWalkSpec == WalkSpec /\ WF_walkVars(Wait)

-----------------------------------------------------------------------------
\* Section 4.3: a pair that is presented as ready is the one that the seed of its
\* load defines for the row of now, however the derivation was interrupted.
ReadyPairIsDerived ==
  admitted => [a |-> a_q, b |-> b_q] = ab

\* The corpus compares ts_pi with the closed form, while the hardware has an
\* accumulator that moves when the question moves.
AnswerIsTheClosedForm ==
  admitted => ts_pi = affine_sequence(a_q, b_q, N_i)[ts_t_i]

\* walk_pass: the golden accumulator has the same answer when it is asked about
\* a step for the first time.
GoldenAgrees ==
  settled /\ ts_t_i # t_last => affine_answer(N_i, ts_t_i) = ts_pi

\* However many clocks a step is held and wherever the last walk died, both
\* accumulators walk the pair that the seed of the last load defines.
WalkIsAffine ==
  /\ ReadyPairIsDerived
  /\ AnswerIsTheClosedForm
  /\ GoldenAgrees

\* Every derivation ends, whatever words it rejects and whatever pairs are not
\* coprime, unless it is reset for ever.
DerivationEnds == []<>settled \/ []<><<ResetPulse>>_walkVars
-----------------------------------------------------------------------------
(* The strengthening of WalkIsAffine that is inductive.                    *)

\* Both sources have, or will have, the pair of the seed on the port.
PairsInv ==
  /\ DerivationInv(BenchSeeds)
  /\ ready_q => state_q = "IDLE" /\ n_q # 0
  /\ ~load_i /\ n_q = N_i => stream_q = seed_i
  /\ LET d == derive_ab(seed_i, N_i) IN ab = [a |-> d.a, b |-> d.b]

\* On the way, both accumulators are at the step asked about last, which is the
\* one of now or the one before; and whoever was asked about step 0 has its answer.
AccumulatorsInv ==
  /\ t_last = 0 => r = ab.b
  /\ admitted /\ ts_t_i # 0 =>
       /\ ts_t_q \in 0 .. N_i - 1 /\ ts_t_i \in {ts_t_q, ts_t_q + 1}
       /\ cur_q = affine_sequence(a_q, b_q, N_i)[ts_t_q]
       /\ affine_ready => t_last = ts_t_q /\ r = cur_q

WalkInv ==
  /\ N_i \in BenchRows /\ seed_i \in BenchSeeds /\ load_i \in BOOLEAN
  /\ ts_t_i \in 0 .. N_i - 1
  /\ PairsInv
  /\ AccumulatorsInv
=============================================================================
