-------------------------- MODULE BcmcShuffledPass --------------------------
(***************************************************************************)
(* The shuffled source under the traversal engine, on the seam of          *)
(* bcmc_obs_wb.v: ts_t one way, ts_pi the other, in the same clock.  The   *)
(* sideband (N and VALID) is an input that obeys one rule, the wrapper's:  *)
(* N never changes without VALID falling.  Of the observer's window the    *)
(* module keeps what stands between software and the source: its copy of   *)
(* N, the load pulse, the reset for N = 0 and the gate of START; its       *)
(* selector stays on the shuffled source.                                  *)
(***************************************************************************)
EXTENDS BcmcObserver, BcmcSrcShuffled, FiniteSets

CONSTANT Ns                      \* bound: the row lengths software programs

ASSUME NsAssumption == Ns \subseteq Val /\ 0 \in Ns

VARIABLES
  N, valid,       \* the sideband
  n_q,            \* the window's copy of N
  oneshot,
  whole,          \* history: each bank as its last complete fill left it
  pass_bank,      \* history: the bank in whole when step 0 was latched
  played          \* history: the banks played since their last complete fill

historyVars == <<whole, pass_bank, played>>
vars == <<observerVars, shuffledVars, historyVars, N, valid, n_q, oneshot>>

Init ==
  /\ ObserverInit /\ ShuffledInit
  /\ N = 0 /\ valid = FALSE /\ n_q = 0 /\ oneshot = FALSE
  /\ whole = [b \in 0 .. 1 |-> <<>>] /\ pass_bank = <<>> /\ played = {}

Row == 0 .. N - 1
ts_pi == shuffled_pi(ts_t(N))
no_source == N = 0

\* Mutant of n_changed: only writes of the window itself load the source.
n_changed_unseen == FALSE

n_changed == N # n_q

start_ready == ~no_source /\ ready_q /\ ~n_changed

-----------------------------------------------------------------------------
\* The wrapper: a write of N clears VALID; so does any other reprogramming.
Sideband ==
  \/ N' \in Ns \ {N} /\ valid' = FALSE
  \/ N' = N /\ valid' \in BOOLEAN

\* The engine latches the answer to step 0: a pass begins.
pass_begins == running' /\ visit_q' /\ t_q' = 0

\* A bank is remembered when its fill ends, and when a pass begins with it.
Record(draw) ==
  LET filled == IF fill_completes(draw) THEN {fill_bank_q} ELSE {}
      read == read_bank(ts_t(N))
  IN  /\ whole' = [b \in 0 .. 1 |->
                     IF b \in filled
                     THEN [x \in Row |-> IF x \in DOMAIN bank'[b]
                                        THEN bank'[b][x] ELSE x]
                     ELSE whole[b]]
      /\ pass_bank' = IF ~running' THEN <<>>
                      ELSE IF pass_begins THEN whole[read] ELSE pass_bank
      /\ played' = (played \ filled) \cup (IF pass_begins THEN {read} ELSE {})

\* A clock in which the source is not loaded.
Run(start, trigger, draw) ==
  /\ ~no_source /\ ~n_changed
  /\ start => start_ready /\ ~running /\ valid
  /\ ObserverEdge(start, trigger, oneshot, N, valid, ts_pi)
  /\ ShuffledEdge(N, ts_t(N), draw)
  /\ Record(draw)
  /\ n_q' = N /\ oneshot' \in BOOLEAN
  /\ Sideband

StartClock == \E draw \in Draws : Run(TRUE, FALSE, draw)
TriggerClock == \E draw \in Draws : Run(FALSE, TRUE, draw)
QuietClock == \E draw \in Draws : Run(FALSE, FALSE, draw)

\* OBS_CTRL.RESET: the engine alone is reset, and the source goes on.
StopClock ==
  /\ ~no_source /\ ~n_changed
  /\ ResetObserver
  /\ \E draw \in Draws : ShuffledEdge(N, ts_t(N), draw) /\ Record(draw)
  /\ n_q' = N /\ oneshot' \in BOOLEAN
  /\ Sideband

\* The source starts over, and whatever it had prepared is gone.
Reload ==
  /\ LoadShuffled
  /\ whole' = [b \in 0 .. 1 |-> <<>>] /\ played' = {}
  /\ pass_bank' = IF running' THEN pass_bank ELSE <<>>
  /\ n_q' = N
  /\ Sideband

\* N has changed, or there is no row at all; the window is still written to.
NewRow ==
  /\ no_source \/ n_changed
  /\ \/ \E trigger \in BOOLEAN :
          ObserverEdge(FALSE, trigger, oneshot, N, valid, ts_pi)
     \/ ResetObserver
  /\ Reload
  /\ oneshot' \in BOOLEAN

\* OBS_SEED is written; during a pass that is refused.
SeedWrite ==
  /\ ~no_source /\ ~n_changed /\ ~running
  /\ ObserverEdge(FALSE, FALSE, oneshot, N, valid, ts_pi)
  /\ Reload
  /\ UNCHANGED oneshot

ResetPass ==
  /\ ResetObserver /\ LoadShuffled
  /\ N' = 0 /\ valid' = FALSE /\ n_q' = 0 /\ oneshot' = FALSE
  /\ whole' = [b \in 0 .. 1 |-> <<>>] /\ pass_bank' = <<>> /\ played' = {}

Next ==
  \/ StartClock \/ TriggerClock \/ QuietClock
  \/ StopClock \/ NewRow \/ SeedWrite \/ ResetPass

Spec == Init /\ [][Next]_vars

\* The clock runs, and the generator does not reject for ever: in the end a
\* fill is given a draw inside the range (0 always is).
FairSpec ==
  /\ Spec
  /\ WF_vars(QuietClock \/ NewRow)
  /\ WF_vars(fill_busy_q /\ Run(FALSE, FALSE, 0))

-----------------------------------------------------------------------------
ShuffledTypeOK ==
  /\ ObserverTypeOK
  /\ N \in Ns /\ n_q \in Ns /\ valid \in BOOLEAN
  /\ DOMAIN bank = 0 .. 1 /\ DOMAIN whole = 0 .. 1
  /\ \A b \in 0 .. 1 : /\ DOMAIN bank[b] \subseteq 0 .. BankSize - 1
                       /\ \A i \in DOMAIN bank[b] : bank[b][i] \in Val
  /\ st \in [0 .. 1 -> {"EMPTY", "COMPLETE", "PLAYING"}]
  /\ playing_q \in 0 .. 1 /\ fill_bank_q \in 0 .. 1
  /\ i_q \in Val /\ ts_t_q \in Val /\ built_q \in 0 .. 2
  /\ fill_busy_q \in BOOLEAN /\ ready_q \in BOOLEAN

\* Section 5.5: the fill never works on the bank that is being read, nor is it
\* about to clear it, in any clock and on either side of a boundary.
BankIsolation ==
  ~no_source /\ readable(ts_t(N)) =>
    /\ fill_busy_q => fill_bank_q # read_bank(ts_t(N))
    /\ can_start(N) => empty_bank # read_bank(ts_t(N))

\* Every bank that may be played is a whole shuffle, and a permutation of the
\* row it was filled for, however the fills and the boundaries interleaved.
BanksAreWhole ==
  ~n_changed => \A b \in 0 .. 1 :
    st[b] # "EMPTY" =>
      /\ [x \in Row |-> Entry(b, x)] = whole[b]
      /\ {whole[b][x] : x \in Row} = Row

\* START is only accepted when the bank the pass will read is whole.
ReadyIsReadable ==
  start_ready /\ N <= BankSize => readable(ts_t(N))

\* START is never granted for a row the banks cannot hold.
NeverReadyBeyondBank == ready_q /\ ~n_changed => N \in 1 .. BankSize

\* What the source promises the engine at its seam: registers in their widths,
\* banks that are whole, and a ready that means a bank to read and a row that
\* fits.
SourceContract ==
  /\ ShuffledTypeOK
  /\ BanksAreWhole
  /\ ReadyIsReadable
  /\ NeverReadyBeyondBank

\* O1 and section 7.3: a pass presents the bank that was whole when it began,
\* step by step, whatever is filled meanwhile; an underrun repeats it whole.
PassPlaysOneBank ==
  visit_valid(valid) =>
    /\ pass_bank # <<>> /\ col_q = pass_bank[t_q]
    /\ {pass_bank[x] : x \in Row} = Row

\* A pass repeats a shuffle that an earlier pass has played exactly when the
\* source says so, however long before the pass its boundary was.  (A row of
\* one column has no boundary, and only one order to repeat.)
RepeatIsReported ==
  [][ pass_begins /\ N > 1 =>
        (read_bank(ts_t(N)) \in played <=> underrun_q') ]_vars

\* Start-up is not stuck: from the first fill on, either LEAD banks are built
\* or the source is loaded again.
StartUpCompletes ==
  (fill_busy_q /\ ~ready_q) ~> (ready_q \/ (~fill_busy_q /\ built_q = 0))

\* The strengthening of the properties above that is inductive.  The source
\* belongs to the row of the window's copy of N.
RowOf == 0 .. n_q - 1
Fits == n_q \in 1 .. BankSize

\* The bank being filled is always a permutation of its row: a swap keeps it one.
FillInv ==
  fill_busy_q =>
    /\ Fits /\ i_q \in RowOf /\ st[fill_bank_q] = "EMPTY"
    /\ {Entry(fill_bank_q, x) : x \in RowOf} = RowOf

BanksInv ==
  \A b \in 0 .. 1 :
    st[b] # "EMPTY" =>
      /\ Fits
      /\ whole[b] = [x \in RowOf |-> Entry(b, x)]
      /\ {Entry(b, x) : x \in RowOf} = RowOf

\* The first fill goes to the bank that is played first.
StartUpInv ==
  /\ built_q = 0 =>
       /\ st = [b \in 0 .. 1 |-> "EMPTY"] /\ playing_q = 0
       /\ fill_busy_q => fill_bank_q = 0
  /\ built_q # 0 => st[playing_q] # "EMPTY"
  /\ ready_q => built_q # 0

\* A live pass plays the bank it began with, until its last step is latched.
PlayInv ==
  /\ N # n_q => ~valid
  /\ visit_q => running
  /\ running /\ valid =>
       /\ N # 0 /\ ready_q /\ t_q < N
       /\ DOMAIN pass_bank = RowOf /\ {pass_bank[x] : x \in RowOf} = RowOf
       /\ t_q # N - 1 => pass_bank = whole[playing_q]
       /\ visit_q => col_q = pass_bank[t_q]

\* From the second step of a pass to its boundary the bank in play has been
\* played; from the boundary to the next pass underrun_q tells whether it has.
ReportInv ==
  /\ running \/ played # {} => ready_q
  /\ do_switch => 1 - playing_q \notin played
  /\ (running /\ t_q # n_q - 1) \/ ts_t_q # 0 => playing_q \in played
  /\ ts_t_q = 0 /\ ts_t(n_q) = 0 /\ n_q > 1 =>
       (playing_q \in played <=> underrun_q)

\* The whole of it: with the types, inductive.
ShuffledInv ==
  /\ ShuffledTypeOK /\ FillInv /\ BanksInv /\ StartUpInv /\ PlayInv
=============================================================================
