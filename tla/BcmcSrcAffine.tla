---------------------------- MODULE BcmcSrcAffine ----------------------------
(***************************************************************************)
(* rtl/bcmc_src_affine.v: the affine traversal source.  A machine derives  *)
(* (a, b) from the seed, one word of the generator, one subtraction of the *)
(* Euclid or one bit of a mask in a clock; the answer on the seam is an    *)
(* accumulator that follows ts_t one clock behind.  The counter pstate_q   *)
(* is the seed's stream and a position in it (see BcmcOrders).             *)
(***************************************************************************)
EXTENDS BcmcArith, BcmcOrders

CONSTANT WordRange               \* how many words the generator has, 2^32

ASSUME WordRangeAssumption == WordRange \in Nat /\ WordRange >= ValRange

VARIABLES
  state_q,        \* the phase of the derivation
  ready_q,
  mask_q,         \* the rejection mask of the draw in progress
  a_q, b_q,       \* the derived constants
  eu_q, ev_q,     \* the Euclid
  n_q,            \* N as of the last derivation
  cur_q, ts_t_q,  \* the answer and ts_t of the previous clock
  stream_q, at_q  \* the generator

seamVars == <<cur_q, ts_t_q>>
deriveVars == <<state_q, ready_q, mask_q, a_q, b_q, eu_q, ev_q, n_q,
                stream_q, at_q>>
affineVars == <<deriveVars, seamVars>>

AffineInit ==
  /\ state_q = "IDLE" /\ ready_q = FALSE /\ mask_q = 1
  /\ a_q = 0 /\ b_q = 0 /\ eu_q = 0 /\ ev_q = 0 /\ n_q = 0
  /\ cur_q = 0 /\ ts_t_q = 0 /\ stream_q = <<0>> /\ at_q = 0

m(N) == (N - 1) % WordRange

p_out == Word(stream_q, at_q)
draw == p_out % (mask_q + 1)
draw_ok(N) == draw <= m(N)
mask_ok(N) == mask_q >= m(N)
ConsumeWord == at_q' = (at_q + 1) % Len(stream_q)

nxt(N) ==
  LET inc == cur_q + a_q
  IN  IF inc >= N THEN (inc - N) % ValRange ELSE inc % ValRange

\* Mutant of affine_pi: the accumulator advances in every clock.
affine_pi_free_running(N, ts_t) == IF ts_t = 0 THEN b_q ELSE nxt(N)

\* The answer on the seam.
affine_pi(N, ts_t) ==
  IF ts_t = 0 THEN b_q ELSE IF ts_t # ts_t_q THEN nxt(N) ELSE cur_q

restart(N, load) == load \/ N # n_q

-----------------------------------------------------------------------------
Restart(N, seed) ==
  /\ ready_q' = FALSE /\ n_q' = N
  /\ stream_q' = seed /\ at_q' = 0
  /\ mask_q' = 1 /\ state_q' = "MASK_A"
  /\ UNCHANGED <<a_q, b_q, eu_q, ev_q>>

Stay ==
  /\ state_q = "IDLE" /\ ready_q' = TRUE
  /\ UNCHANGED <<state_q, mask_q, a_q, b_q, eu_q, ev_q, n_q, stream_q, at_q>>

\* MASK_A and MASK_B: one bit more until the mask covers the range.
Mask(from, to, N) ==
  /\ state_q = from
  /\ IF mask_ok(N) THEN state_q' = to /\ UNCHANGED mask_q
     ELSE mask_q' = 2 * mask_q + 1 /\ UNCHANGED state_q
  /\ UNCHANGED <<ready_q, a_q, b_q, eu_q, ev_q, n_q, stream_q, at_q>>

TakeA(value, N) ==
  a_q' = value /\ eu_q' = value /\ ev_q' = N /\ state_q' = "G_STEP"

\* A word is consumed, taken or not; uniform(0) is 0 and consumes nothing.
DrawA(N) ==
  /\ state_q = "DRAW_A"
  /\ IF m(N) = 0 THEN TakeA(0, N) /\ UNCHANGED at_q
     ELSE /\ ConsumeWord
          /\ IF draw_ok(N) THEN TakeA(draw, N)
             ELSE UNCHANGED <<state_q, a_q, eu_q, ev_q>>
  /\ UNCHANGED <<ready_q, mask_q, b_q, n_q, stream_q>>

\* One step of the subtraction Euclid, a swap being a step of its own.
GcdStep ==
  /\ state_q = "G_STEP"
  /\ \/ ev_q = 0 /\ state_q' = "G_DONE" /\ UNCHANGED <<eu_q, ev_q>>
     \/ /\ ev_q # 0 /\ eu_q < ev_q
        /\ eu_q' = ev_q /\ ev_q' = eu_q /\ UNCHANGED state_q
     \/ /\ ev_q # 0 /\ eu_q >= ev_q
        /\ eu_q' = eu_q - ev_q /\ UNCHANGED <<state_q, ev_q>>
  /\ UNCHANGED <<ready_q, mask_q, a_q, b_q, n_q, stream_q, at_q>>

\* Mutant of GcdDone: every a is taken for coprime.
GcdDoneUnchecked ==
  /\ state_q = "G_DONE" /\ mask_q' = 1 /\ state_q' = "MASK_B"
  /\ UNCHANGED <<ready_q, a_q, b_q, eu_q, ev_q, n_q, stream_q, at_q>>

\* Coprime: draw b next.  If not, draw a again, and nothing is rewound.
GcdDone ==
  /\ state_q = "G_DONE" /\ mask_q' = 1
  /\ state_q' = IF eu_q = 1 THEN "MASK_B" ELSE "MASK_A"
  /\ UNCHANGED <<ready_q, a_q, b_q, eu_q, ev_q, n_q, stream_q, at_q>>

\* Mutant of DrawB: a word out of the range is waited for, not drawn again.
DrawBStuck(N) ==
  /\ state_q = "DRAW_B"
  /\ IF m(N) = 0 THEN b_q' = 0 /\ state_q' = "IDLE" /\ UNCHANGED at_q
     ELSE IF draw_ok(N) THEN b_q' = draw /\ state_q' = "IDLE" /\ ConsumeWord
          ELSE UNCHANGED <<b_q, state_q, at_q>>
  /\ UNCHANGED <<ready_q, mask_q, a_q, eu_q, ev_q, n_q, stream_q>>

DrawB(N) ==
  /\ state_q = "DRAW_B"
  /\ IF m(N) = 0 THEN b_q' = 0 /\ state_q' = "IDLE" /\ UNCHANGED at_q
     ELSE /\ ConsumeWord
          /\ IF draw_ok(N) THEN b_q' = draw /\ state_q' = "IDLE"
             ELSE UNCHANGED <<b_q, state_q>>
  /\ UNCHANGED <<ready_q, mask_q, a_q, eu_q, ev_q, n_q, stream_q>>

Derive(N) ==
  \/ Stay
  \/ Mask("MASK_A", "DRAW_A", N) \/ DrawA(N)
  \/ GcdStep \/ GcdDone
  \/ Mask("MASK_B", "DRAW_B", N) \/ DrawB(N)

\* One rising edge without rst.  The seam is followed whatever the machine does.
AffineEdge(N, ts_t, load, seed) ==
  /\ cur_q' = affine_pi(N, ts_t) /\ ts_t_q' = ts_t
  /\ IF restart(N, load) THEN Restart(N, seed) ELSE Derive(N)

ResetAffine ==
  /\ state_q' = "IDLE" /\ ready_q' = FALSE /\ mask_q' = 1
  /\ a_q' = 0 /\ b_q' = 0 /\ eu_q' = 0 /\ ev_q' = 0 /\ n_q' = 0
  /\ cur_q' = 0 /\ ts_t_q' = 0 /\ stream_q' = <<0>> /\ at_q' = 0
-----------------------------------------------------------------------------
\* A derivation is on its way to the pair of its stream, which is one of those
\* that are loaded: the words it has consumed are the ones that the draw of a,
\* and then that of b, passes over, the Euclid keeps the divisors that decide
\* which of the two goes on, and a mask is on its way to that of the row.
DerivationInv(streams) ==
  n_q # 0 =>
    LET s == stream_q
        top == n_q - 1
        a == coprime_draw(s, 0, n_q)
        again == coprime_draw(s, at_q, n_q)
        redrawn == again.value = a.value /\ again.at = a.at
        drawn_b(at) == uniform_with_stream(s, at, top).value
    IN  /\ s \in streams /\ at_q \in 0 .. Len(s) - 1 /\ mask_q \in Nat
        /\ state_q \in {"MASK_A", "DRAW_A"} => redrawn
        /\ state_q \in {"G_STEP", "G_DONE"} =>
             /\ eu_q \in Nat /\ ev_q \in Nat /\ (eu_q # 0 \/ ev_q # 0)
             /\ state_q = "G_DONE" => ev_q = 0
             /\ gcd(eu_q, ev_q) = gcd(a_q, n_q)
             /\ IF gcd(a_q, n_q) = 1 THEN a_q = a.value /\ at_q = a.at ELSE redrawn
        /\ state_q \in {"MASK_B", "DRAW_B", "IDLE"} => a_q = a.value
        /\ state_q \in {"MASK_B", "DRAW_B"} => drawn_b(at_q) = drawn_b(a.at)
        /\ state_q = "IDLE" => b_q = drawn_b(a.at)
        /\ state_q \in {"MASK_A", "MASK_B"} => mask_from(mask_q, top) = mask(top)
        /\ state_q \in {"DRAW_A", "DRAW_B"} => mask_q = mask(top)
=============================================================================
