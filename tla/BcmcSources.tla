----------------------------- MODULE BcmcSources -----------------------------
(***************************************************************************)
(* The stateful half of validation/traversal_sources.py: the golden models *)
(* of the three traversal sources.  A source is loaded with a row length   *)
(* and a seed, is ticked once a clock with the step the engine will ask    *)
(* about, and answers pi for it.  None is written as its own value.        *)
(***************************************************************************)
EXTENDS BcmcAffineSource

CONSTANTS
  LEAD,           \* banks built before the first pass
  BANK_N_MAX      \* the longest row a bank holds

ASSUME SourcesAssumption == LEAD \in Nat \ {0} /\ BANK_N_MAX \in Nat \ {0}

NoSlot == 2
NoBank == <<>>

VARIABLES
  \* ShuffledSource: the two slots, the one that plays, the one being filled
  bank, playing, filling, fill, fill_remaining,
  rng,            \* the position in the seed's stream
  built,          \* banks completed since the load, counted up to LEAD
  startup_done, ts_t_q,
  underrun_flag,  \* the level presented
  underrun_next   \* the decision of the last boundary, not yet presented

shuffledSource == <<bank, playing, filling, fill, fill_remaining, rng, built,
                    startup_done, ts_t_q, underrun_flag, underrun_next>>
sourceVars == <<affineSource, shuffledSource>>

-----------------------------------------------------------------------------
(* ShuffledSource.                                                         *)

unservable(N) == N > BANK_N_MAX

\* Mutant of free_slot: the slot that plays is never free.
free_slot_excluding(slots, plays) ==
  IF slots[1 - plays] = NoBank THEN 1 - plays ELSE NoSlot

\* A slot that holds no bank.
free_slot(slots, plays) ==
  IF slots[0] = NoBank THEN 0 ELSE IF slots[1] = NoBank THEN 1 ELSE NoSlot

\* start_fill, as a record: the slot, the bank it will hold, and its cost of
\* one setup cycle and the steps of the shuffle.
start_fill(slot, stream, from, N) ==
  LET made == bank_and_cost(stream, from, N)
  IN  [filling |-> slot, fill |-> made.bank, rng |-> made.at,
       remaining |-> fill_clocks(made.cost)]

\* No slot, no fill.
fill_of(slot, stream, from, N) ==
  IF slot = NoSlot
  THEN [filling |-> NoSlot, fill |-> NoBank, rng |-> from, remaining |-> 0]
  ELSE start_fill(slot, stream, from, N)

PutFill(f) ==
  /\ filling' = f.filling /\ fill' = f.fill
  /\ rng' = f.rng /\ fill_remaining' = f.remaining

EmptySlots == [i \in 0 .. 1 |-> NoBank]

\* The load fills the first slot at once.
first_fill(N, stream) ==
  fill_of(IF unservable(N) THEN NoSlot ELSE free_slot(EmptySlots, 0), stream, 0, N)

ShuffledSourceInit(N, stream) ==
  /\ bank = EmptySlots /\ playing = 0
  /\ LET f == first_fill(N, stream)
     IN  filling = f.filling /\ fill = f.fill /\ rng = f.rng
         /\ fill_remaining = f.remaining
  /\ built = 0 /\ startup_done = FALSE /\ ts_t_q = 0
  /\ underrun_flag = FALSE /\ underrun_next = FALSE

LoadShuffledSource(N, stream) ==
  /\ bank' = EmptySlots /\ playing' = 0
  /\ \E f \in {first_fill(N, stream)} : PutFill(f)
  /\ built' = 0 /\ startup_done' = FALSE /\ ts_t_q' = 0
  /\ underrun_flag' = FALSE /\ underrun_next' = FALSE

shuffled_ready(N) == ~unservable(N) /\ startup_done

shuffled_answer(ts_t) ==
  IF bank[playing] = NoBank THEN 0 ELSE bank_read(bank[playing], ts_t)

\* A transition into step 0.
pass_boundary(ts_t) == ts_t = 0 /\ ts_t # ts_t_q

\* start_pass: what a boundary leaves, and what the fill is after it.  The
\* alternate bank is handed in and its slot's predecessor freed, or the bank
\* that plays repeats.
the_fill == [filling |-> filling, fill |-> fill, rng |-> rng,
             remaining |-> fill_remaining]

start_pass(stream, N) ==
  LET other == 1 - playing
      switch == bank[other] # NoBank
      slots == IF switch THEN [bank EXCEPT ![playing] = NoBank] ELSE bank
      plays == IF switch THEN other ELSE playing
  IN  [switch |-> switch, bank |-> slots, playing |-> plays,
       fill |-> IF switch /\ filling = NoSlot
                THEN fill_of(free_slot(slots, plays), stream, rng, N)
                ELSE the_fill]

no_pass == [switch |-> FALSE, bank |-> bank, playing |-> playing,
            fill |-> the_fill]

\* One clock: the presented level, the boundary, and then the fill.  (\E over
\* one value names the value, and has TLC work it out once.)
TickShuffled(N, stream, ts_t) ==
  \E p \in {IF pass_boundary(ts_t) THEN start_pass(stream, N) ELSE no_pass} :
    LET completes == p.fill.filling # NoSlot /\ p.fill.remaining <= 1
        slots == IF completes
                 THEN [p.bank EXCEPT ![p.fill.filling] = p.fill.fill]
                 ELSE p.bank
    IN  IF unservable(N) THEN UNCHANGED shuffledSource
        ELSE /\ underrun_flag' = underrun_next
             /\ underrun_next' = IF pass_boundary(ts_t) THEN ~p.switch
                                 ELSE underrun_next
             /\ ts_t_q' = ts_t
             /\ playing' = p.playing /\ bank' = slots
             /\ built' = IF completes /\ built < LEAD THEN built + 1 ELSE built
             /\ startup_done' = (startup_done \/ built' >= LEAD)
             /\ \E f \in {IF completes
                          THEN fill_of(free_slot(slots, p.playing), stream,
                                       p.fill.rng, N)
                          ELSE [p.fill EXCEPT !.remaining =
                                  IF p.fill.filling = NoSlot THEN 0 ELSE @ - 1]} :
                  PutFill(f)

-----------------------------------------------------------------------------
\* Every source at once: a write to the seed, to the selector, a change of N.
LoadSources(N, stream) == LoadAffine(N, stream) /\ LoadShuffledSource(N, stream)

TickSources(N, stream, ts_t) ==
  TickAffine(N, ts_t) /\ TickShuffled(N, stream, ts_t)
=============================================================================
