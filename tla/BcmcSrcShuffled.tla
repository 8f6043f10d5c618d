--------------------------- MODULE BcmcSrcShuffled ---------------------------
(***************************************************************************)
(* rtl/bcmc_src_shuffled.v: the shuffled traversal source.  Two banks, one *)
(* played while the other is filled by an in-place Fisher-Yates shuffle;   *)
(* the banks change places at a pass boundary, or the pass repeats.        *)
(*                                                                         *)
(* bank_q and its written-mask wmask_q are one partial function: an entry  *)
(* outside the domain is unwritten and reads as its own index.  The        *)
(* generator's counter is abstracted to the draw it yields in this clock.  *)
(***************************************************************************)
EXTENDS BcmcArith

CONSTANTS
  BankSize,       \* BANK_N_MAX, a power of two
  Lead            \* LEAD: banks built before the first pass

ASSUME BankSizeAssumption == BankSize \in Nat \ {0, 1}
ASSUME LeadAssumption == Lead \in {1, 2}

VARIABLES
  bank,           \* [0 .. 1 -> the written entries of that bank]
  st,             \* [0 .. 1 -> "EMPTY", "COMPLETE" or "PLAYING"]
  playing_q,      \* the bank the read path uses
  fill_busy_q, fill_bank_q,
  i_q,            \* the shuffle index, N - 1 down to 1
  built_q,        \* banks completed since the load, saturating
  ready_q, underrun_q,
  ts_t_q          \* ts_t in the previous clock

fillVars == <<bank, fill_busy_q, fill_bank_q, i_q>>
shuffledVars ==
  <<fillVars, st, playing_q, built_q, ready_q, underrun_q, ts_t_q>>

ShuffledInit ==
  /\ bank = [b \in 0 .. 1 |-> <<>>] /\ st = [b \in 0 .. 1 |-> "EMPTY"]
  /\ playing_q = 0 /\ fill_busy_q = FALSE /\ fill_bank_q = 0 /\ i_q = 0
  /\ built_q = 0 /\ ready_q = FALSE /\ underrun_q = FALSE /\ ts_t_q = 0

Entry(b, i) == IF i \in DOMAIN bank[b] THEN bank[b][i] ELSE i

\* The smallest 2^k - 1 that is at least m, k >= 1.
mask_for(m) ==
  LET masks == {2^k - 1 : k \in 1 .. ValRange}
  IN  CHOOSE a \in masks : a >= m /\ \A x \in masks : x >= m => a <= x

\* What one draw of the generator can be, masked for the present index; outside
\* a fill the draw is not looked at.
Draws == IF fill_busy_q THEN 0 .. mask_for(i_q) ELSE {0}

at_boundary(ts_t) == ts_t = 0 /\ ts_t # ts_t_q
st_other == st[1 - playing_q]

do_switch == st_other = "COMPLETE"

\* Mutant of read_bank: the switch is seen one clock late.
read_bank_late(ts_t) == playing_q

read_bank(ts_t) ==
  IF at_boundary(ts_t) /\ do_switch THEN 1 - playing_q ELSE playing_q

readable(ts_t) == st[read_bank(ts_t)] \in {"COMPLETE", "PLAYING"}

\* The answer on the seam, in every clock.
shuffled_pi(ts_t) ==
  IF readable(ts_t) THEN Entry(read_bank(ts_t), ts_t % BankSize) ELSE ts_t

empty_bank == IF st[0] = "EMPTY" THEN 0 ELSE 1

\* Mutants of can_start: a fill needs no free bank, or needs two.
can_start_always(n) == n \in 1 .. BankSize /\ ~fill_busy_q
can_start_both(n) ==
  (\A b \in 0 .. 1 : st[b] = "EMPTY") /\ n \in 1 .. BankSize /\ ~fill_busy_q

can_start(n) ==
  /\ \E b \in 0 .. 1 : st[b] = "EMPTY"
  /\ n \in 1 .. BankSize /\ ~fill_busy_q

-----------------------------------------------------------------------------
\* A free bank: all its entries are marked unwritten at once.
StartFill(n) ==
  /\ can_start(n)
  /\ fill_busy_q' = TRUE /\ fill_bank_q' = empty_bank /\ i_q' = n - 1
  /\ bank' = [bank EXCEPT ![empty_bank] = <<>>]

NoFill(n) == ~fill_busy_q /\ ~can_start(n) /\ UNCHANGED fillVars

\* N = 1: the shuffle has no steps, and the bank is the identity.
EndEmptyFill ==
  /\ fill_busy_q /\ i_q = 0
  /\ fill_busy_q' = FALSE /\ UNCHANGED <<bank, fill_bank_q, i_q>>

\* Mutant of Swap: the entry at i is overwritten and its old value lost.
SwapOneWrite(draw) ==
  /\ fill_busy_q /\ i_q # 0 /\ draw <= i_q
  /\ bank' = [bank EXCEPT ![fill_bank_q] =
       [x \in DOMAIN bank[fill_bank_q] \cup {i_q, draw} |->
          IF x = i_q THEN Entry(fill_bank_q, draw) ELSE Entry(fill_bank_q, x)]]
  /\ fill_busy_q' = (i_q # 1) /\ i_q' = IF i_q = 1 THEN i_q ELSE i_q - 1
  /\ UNCHANGED fill_bank_q

\* A draw inside the range: entries i and draw change places.
Swap(draw) ==
  /\ fill_busy_q /\ i_q # 0 /\ draw <= i_q
  /\ bank' = [bank EXCEPT ![fill_bank_q] =
       [x \in DOMAIN bank[fill_bank_q] \cup {i_q, draw} |->
          Entry(fill_bank_q,
                IF x = i_q THEN draw ELSE IF x = draw THEN i_q ELSE x)]]
  /\ fill_busy_q' = (i_q # 1) /\ i_q' = IF i_q = 1 THEN i_q ELSE i_q - 1
  /\ UNCHANGED fill_bank_q

\* A draw outside the range is consumed, and nothing else happens.
Reject(draw) == fill_busy_q /\ i_q # 0 /\ draw > i_q /\ UNCHANGED fillVars

\* The bank is whole after this clock.
fill_completes(draw) ==
  fill_busy_q /\ (i_q = 0 \/ (i_q = 1 /\ draw <= i_q))

CountBank(draw) ==
  LET one_more == fill_completes(draw)
  IN  /\ ready_q' = (ready_q \/ (one_more /\ built_q + 1 >= Lead))
      /\ built_q' = IF ~one_more THEN built_q
                    ELSE IF built_q >= Lead THEN 2 ELSE built_q + 1

\* Mutant of BankStates: the bank that is handed in is the one that is freed.
BankStatesSwapped(draw, ts_t) ==
  LET filled == IF fill_completes(draw)
                THEN [st EXCEPT ![fill_bank_q] = "COMPLETE"] ELSE st
  IN  st' = IF at_boundary(ts_t) /\ do_switch
            THEN [filled EXCEPT ![playing_q] = "PLAYING",
                                ![1 - playing_q] = "EMPTY"]
            ELSE filled

\* The bank states: a completed fill first, then the exchange at a boundary.
BankStates(draw, ts_t) ==
  LET filled == IF fill_completes(draw)
                THEN [st EXCEPT ![fill_bank_q] = "COMPLETE"] ELSE st
  IN  st' = IF at_boundary(ts_t) /\ do_switch
            THEN [filled EXCEPT ![playing_q] = "EMPTY",
                                ![1 - playing_q] = "PLAYING"]
            ELSE filled

\* Mutant of Boundary: underrun is a latch and not a level.
BoundarySticky(ts_t) ==
  /\ playing_q' = IF at_boundary(ts_t) /\ do_switch
                  THEN 1 - playing_q ELSE playing_q
  /\ underrun_q' = (underrun_q \/ (at_boundary(ts_t) /\ ~do_switch))

Boundary(ts_t) ==
  /\ playing_q' = IF at_boundary(ts_t) /\ do_switch
                  THEN 1 - playing_q ELSE playing_q
  /\ underrun_q' = IF at_boundary(ts_t) THEN ~do_switch ELSE underrun_q

\* One rising edge without rst or load.
ShuffledEdge(n, ts_t, draw) ==
  /\ \/ StartFill(n)
     \/ NoFill(n)
     \/ EndEmptyFill
     \/ Swap(draw)
     \/ Reject(draw)
  /\ CountBank(draw)
  /\ BankStates(draw, ts_t)
  /\ Boundary(ts_t)
  /\ ts_t_q' = ts_t

\* rst and load have the same effect: both banks are emptied.
LoadShuffled ==
  /\ bank' = [b \in 0 .. 1 |-> <<>>] /\ st' = [b \in 0 .. 1 |-> "EMPTY"]
  /\ playing_q' = 0 /\ fill_busy_q' = FALSE /\ fill_bank_q' = 0 /\ i_q' = 0
  /\ built_q' = 0 /\ ready_q' = FALSE /\ underrun_q' = FALSE /\ ts_t_q' = 0
=============================================================================
