------------------------------ MODULE BcmcObsWb ------------------------------
(***************************************************************************)
(* rtl/bcmc_obs_wb.v, the register window of the observer, over the engine *)
(* and the affine source: the handshake, the selector and the seed, the    *)
(* copy of N, the loads of the sources, the gate of START and the status   *)
(* bits.  The identity is its argument.  The shuffled source, which        *)
(* BcmcShuffledPass composes with the engine, is here an input.  One       *)
(* rising edge is one step, with the request on the bus as parameter.      *)
(***************************************************************************)
EXTENDS BcmcObserver, BcmcSrcAffine

CONSTANTS
  Rows,           \* the row lengths the sideband shows, 0 among them
  Seeds,          \* the streams that written seeds stand for
  CtrlWords,      \* the words written to OBS_CTRL
  ShuffledInputs  \* what the shuffled source presents: ready, pi and underrun

Selectors == {"identity", "affine", "shuffled"}

AllCtrlWords == [start : BOOLEAN, step : BOOLEAN, reset : BOOLEAN,
                 oneshot : BOOLEAN, sel : Selectors \cup {"none"}]

ASSUME ObsWbAssumption ==
  /\ Rows \subseteq Val
  /\ Seeds \subseteq Seq(0 .. WordRange - 1) /\ Seeds # {}
  /\ \A s \in Seeds : {0, 1} \subseteq {s[k] : k \in DOMAIN s}
  /\ CtrlWords \subseteq AllCtrlWords
  /\ ShuffledInputs \subseteq [ready : BOOLEAN, pi : Val, under : BOOLEAN]

VARIABLES
  N, valid,       \* the sideband of this clock
  response,       \* wb_ack_o and wb_err_o
  oneshot_q, sel_q, seed_q,
  done_q, abort_latch, eng_aborted_q, under_lat,
  n_copy, n_seen_q,         \* n_q of the window: N as of the last clock
  mixed,          \* history: the START of this pass also changed the selector, and
                  \* the pass has not come back to its new source since
  acked           \* history: the last abort was acknowledged by a write or RESET

windowVars == <<response, oneshot_q, sel_q, seed_q, done_q, abort_latch,
                eng_aborted_q, under_lat, n_copy, n_seen_q>>
historyVars == <<mixed, acked>>
vars == <<observerVars, affineVars, N, valid, windowVars, historyVars>>

\* The stream of the seed 0.
ZeroSeed == CHOOSE s \in Seeds : TRUE

WindowInit ==
  /\ response = "none" /\ oneshot_q = FALSE /\ sel_q = "identity"
  /\ seed_q = ZeroSeed
  /\ done_q = FALSE /\ abort_latch = FALSE /\ eng_aborted_q = FALSE
  /\ under_lat = FALSE /\ n_copy = 0 /\ n_seen_q = FALSE

Init ==
  /\ ObserverInit /\ AffineInit /\ WindowInit
  /\ N \in Rows /\ valid \in BOOLEAN
  /\ mixed = FALSE /\ acked = FALSE

no_source == N = 0
n_changed == N # n_copy
n_changed_q == n_changed /\ n_seen_q

\* Mutant of accept: the window does not look at its own response.
accept_always == TRUE

\* A request is taken when the last one is not being answered.
accept == response = "none"

selected_ready(sh) ==
  CASE sel_q = "identity" -> TRUE
    [] sel_q = "affine"   -> ready_q
    [] sel_q = "shuffled" -> sh.ready

\* ts_pi of the selected source.
seam_pi(sh) ==
  CASE sel_q = "identity" -> ts_t(N)
    [] sel_q = "affine"   -> affine_pi(N, ts_t(N))
    [] sel_q = "shuffled" -> sh.pi

\* SEED_READY, in a clock without a load.
seam_ready(sh) == ~no_source /\ selected_ready(sh) /\ ~n_changed_q

\* Mutant of start_ok: the readiness of the source is not asked for.
start_ok_unready(sh) == ~running /\ valid /\ ~no_source

\* A START that the engine would take and that the source can serve.  The
\* selector that comes with it is not part of the question.
start_ok(sh) == ~running /\ valid /\ ~no_source /\ seam_ready(sh)

sel_changed(w) == w.sel # sel_q

\* E1 for a selector that names no source, E4 for what the engine would ignore.
ctrl_refused(w, sh) ==
  \/ w.sel = "none"
  \/ w.start /\ ~start_ok(sh)
  \/ w.step /\ ~running
  \/ sel_changed(w) /\ running

\* From here on the pass is of the selected source: the identity presents the
\* step it is asked for, and a source that is ready its order from step 0 on.
served_afresh(sh) ==
  sel_q = "identity" \/ (ts_t(N) = 0 /\ selected_ready(sh))

-----------------------------------------------------------------------------
NoCommand == [start |-> FALSE, step |-> FALSE, reset |-> FALSE]
NoClear == [done |-> FALSE, aborted |-> FALSE, under |-> FALSE]

\* The sources see the seed as it is before this edge.
SourcesEdge(load) ==
  IF no_source THEN ResetAffine
  ELSE AffineEdge(N, ts_t(N), load \/ n_changed, seed_q)

\* Mutant of abort_after: a restart does not acknowledge the abort.
abort_after_kept(clear) ==
  (abort_latch \/ (aborted_q /\ ~eng_aborted_q)) /\ ~clear

\* ABORTED follows the edges of the engine's flag, a clear has the last word.
abort_after(clear) ==
  /\ ~clear
  /\ IF aborted_q # eng_aborted_q THEN aborted_q ELSE abort_latch

\* The edge of everything that is clocked on every edge.
Edge(cmd, clear, load, sh) ==
  /\ IF cmd.reset THEN ResetObserver
     ELSE ObserverEdge(cmd.start, cmd.step, oneshot_q, N, valid, seam_pi(sh))
  /\ SourcesEdge(load)
  /\ eng_aborted_q' = aborted_q
  /\ done_q' = (~cmd.reset /\ (done_q \/ pass_done(N, valid)) /\ ~clear.done)
  /\ abort_latch' = (~cmd.reset /\ abort_after(clear.aborted))
  /\ under_lat' = ((under_lat \/ sh.under) /\ ~clear.under)
  /\ n_copy' = N /\ n_seen_q' = TRUE

\* The peripheral's sideband of the next clock: VALID comes and goes, and a row
\* of another length takes it away.
Sideband == N' \in Rows /\ valid' \in BOOLEAN /\ (N' # N => ~valid')

\* What the histories keep of a clock.  An abort is an event of its own: what was
\* written before it, or in its clock, does not acknowledge it.
Record(cmd, clear, sh) ==
  /\ mixed' = IF cmd.start THEN sel_q' # sel_q
              ELSE mixed /\ ~(cmd.step /\ served_afresh(sh))
  /\ acked' = (cmd.reset \/ ((valid \/ ~running) /\ (acked \/ clear.aborted)))

\* No request, or one that is not looked at.
QuietClock(sh) ==
  /\ Edge(NoCommand, NoClear, FALSE, sh) /\ Sideband
  /\ response' = "none"
  /\ UNCHANGED <<oneshot_q, sel_q, seed_q>> /\ Record(NoCommand, NoClear, sh)

\* E1, E2 and E3: any access that is not decoded.
RefusedAccess(sh) ==
  /\ accept /\ Edge(NoCommand, NoClear, FALSE, sh) /\ Sideband
  /\ response' = "err"
  /\ UNCHANGED <<oneshot_q, sel_q, seed_q>> /\ Record(NoCommand, NoClear, sh)

ReadAccess(sh) ==
  /\ accept /\ Edge(NoCommand, NoClear, FALSE, sh) /\ Sideband
  /\ response' = "ack"
  /\ UNCHANGED <<oneshot_q, sel_q, seed_q>> /\ Record(NoCommand, NoClear, sh)

StatusWrite(sh) ==
  /\ accept
  /\ UNCHANGED <<oneshot_q, sel_q, seed_q>>
  /\ \E clear \in [done : BOOLEAN, aborted : BOOLEAN, under : BOOLEAN] :
       Edge(NoCommand, clear, FALSE, sh) /\ Record(NoCommand, clear, sh)
  /\ Sideband /\ response' = "ack"

\* Mutant of CtrlWrite: a new selector reaches the sources although the write is
\* refused.
CtrlWriteLeaky(w, sh) ==
  /\ accept /\ Sideband /\ UNCHANGED seed_q
  /\ \/ /\ ctrl_refused(w, sh) /\ Edge(NoCommand, NoClear, sel_changed(w), sh)
        /\ response' = "err" /\ UNCHANGED <<oneshot_q, sel_q>>
        /\ Record(NoCommand, NoClear, sh)
     \/ /\ ~ctrl_refused(w, sh) /\ Edge(w, NoClear, sel_changed(w), sh)
        /\ response' = "ack" /\ oneshot_q' = w.oneshot /\ sel_q' = w.sel
        /\ Record(w, NoClear, sh)

CtrlWrite(w, sh) ==
  /\ accept /\ Sideband /\ UNCHANGED seed_q
  /\ \/ /\ ctrl_refused(w, sh) /\ Edge(NoCommand, NoClear, FALSE, sh)
        /\ response' = "err" /\ UNCHANGED <<oneshot_q, sel_q>>
        /\ Record(NoCommand, NoClear, sh)
     \/ /\ ~ctrl_refused(w, sh) /\ Edge(w, NoClear, sel_changed(w), sh)
        /\ response' = "ack" /\ oneshot_q' = w.oneshot /\ sel_q' = w.sel
        /\ Record(w, NoClear, sh)

\* A seed write loads the sources in its own clock, and is refused in a pass.
SeedWrite(stream, sh) ==
  /\ accept /\ Sideband /\ Edge(NoCommand, NoClear, ~running, sh)
  /\ response' = IF running THEN "err" ELSE "ack"
  /\ seed_q' = IF running THEN seed_q ELSE stream
  /\ UNCHANGED <<oneshot_q, sel_q>> /\ Record(NoCommand, NoClear, sh)

Reset ==
  /\ ResetObserver /\ ResetAffine
  /\ response' = "none" /\ oneshot_q' = FALSE /\ sel_q' = "identity"
  /\ seed_q' = ZeroSeed
  /\ done_q' = FALSE /\ abort_latch' = FALSE /\ eng_aborted_q' = FALSE
  /\ under_lat' = FALSE /\ n_copy' = 0 /\ n_seen_q' = FALSE
  /\ N' \in Rows /\ valid' \in BOOLEAN
  /\ mixed' = FALSE /\ acked' = FALSE

Clock(sh) ==
  \/ QuietClock(sh) \/ RefusedAccess(sh) \/ ReadAccess(sh) \/ StatusWrite(sh)
  \/ \E w \in CtrlWords : CtrlWrite(w, sh)
  \/ \E stream \in Seeds : SeedWrite(stream, sh)

Next == (\E sh \in ShuffledInputs : Clock(sh)) \/ Reset

Spec == Init /\ [][Next]_vars

-----------------------------------------------------------------------------
\* A source that the window calls ready has the pair of the row of now: whatever
\* was written, loaded or reset, a START that looks at SEED_READY and keeps the
\* selector finds a coprime pair.
ReadyPairIsOfTheRow ==
  sel_q = "affine" /\ ready_q /\ ~no_source /\ ~n_changed =>
    <<a_q, b_q>> = LET d == derive_ab(stream_q, N) IN <<d.a, d.b>>

\* A pass over the identity or the affine source presents its order, from any
\* START and across wraps, aborts, resets and refused writes.  A START that came
\* with another selector owes the order of the identity its first visit, answered
\* by the source before, and that of the affine source the steps before the
\* first 0 at which its pair is there.
PassFollowsItsSource ==
  visit_valid(valid) /\ ~mixed =>
    /\ sel_q = "identity" => col_q = t_q
    /\ sel_q = "affine" => col_q = affine_sequence(a_q, b_q, N)[t_q]

\* The clear of DONE has the last word, and yet it never swallows the end of a
\* pass, nor does RESET: a visit comes in the clock that answers its own write.
DoneIsNeverSwallowed == pass_done(N, valid) => done_q' \/ ~n_seen_q'

\* An access answered by err leaves the sources, the mode and the engine to
\* themselves, also when the word it refused asked for another source.
RefusalIsSilent ==
  response' = "err" =>
    /\ UNCHANGED <<oneshot_q, sel_q, seed_q>>
    /\ running' => running
    /\ ready_q /\ ~no_source /\ ~n_changed => ready_q'

\* What no access does to a pass, in whatever clock it comes.
AccessesAreSafe == [][DoneIsNeverSwallowed /\ RefusalIsSilent]_vars

\* ABORTED is the engine's abort as of the clock before, until software or RESET
\* has acknowledged that abort and no other: a clear that came first, in the
\* clock of the abort or before, takes nothing away, and a restart ends it.  The
\* write that comes in the one clock between acknowledges it unseen.
AbortedIsReported == abort_latch <=> eng_aborted_q /\ ~acked

\* docs/Observer_Register_Map.md, OBS_SEED: "a write loads every instantiated
\* source".  It loads them with the seed that the register held before.
SeedIsLoaded ==
  ready_q /\ ~no_source /\ ~n_changed => stream_q = seed_q

-----------------------------------------------------------------------------
(* The strengthening of the properties that is inductive.                  *)

\* A derivation is of the row the window saw last, and what it has drawn is
\* inside that row; a source that is ready has drawn both.
DeriveInv ==
  /\ n_q = n_copy /\ n_copy \in Val /\ mask_q \in Nat /\ at_q \in Nat
  /\ seed_q \in Seeds /\ stream_q \in Seeds \cup {<<0>>}
  /\ ready_q => state_q = "IDLE" /\ n_q # 0 /\ n_seen_q
  /\ n_q # 0 /\ state_q \in {"G_STEP", "G_DONE", "MASK_B", "DRAW_B", "IDLE"} =>
       a_q \in 0 .. n_q - 1
  /\ n_q # 0 /\ state_q = "IDLE" => b_q \in 0 .. n_q - 1

\* A visit comes in the clock that answers its own write; a pass keeps the row
\* that it began with for as long as its context is valid; and the accumulator
\* has answered for the step that is presented or for the one that is next.
ObsPassInv ==
  /\ running \in BOOLEAN /\ visit_q \in BOOLEAN /\ valid \in BOOLEAN
  /\ t_q \in Val /\ N \in Val /\ sel_q \in Selectors
  /\ visit_q => running /\ response = "ack"
  /\ running /\ valid => N = n_copy /\ t_q < N
  /\ running /\ valid /\ ~mixed /\ sel_q = "identity" => col_q = t_q
  /\ running /\ valid /\ ~mixed /\ sel_q = "affine" =>
       /\ ready_q
       /\ col_q = affine_sequence(a_q, b_q, N)[t_q]
       /\ ts_t_q \in {t_q, t_next(N)}
       /\ cur_q = affine_sequence(a_q, b_q, N)[ts_t_q]

\* A pass that runs is not aborted, and an abort of the clock before is not yet
\* acknowledged.
AbortInv ==
  /\ aborted_q \in BOOLEAN /\ eng_aborted_q \in BOOLEAN
  /\ running => ~aborted_q
  /\ aborted_q /\ ~eng_aborted_q => ~acked
  /\ AbortedIsReported

ObsWbInv ==
  /\ DeriveInv
  /\ DerivationInv(Seeds)
  /\ ObsPassInv
  /\ AbortInv
=============================================================================
