---------------------------- MODULE BcmcObsWindow ----------------------------
(***************************************************************************)
(* The golden observer window: ObserverPeriph of observer_periph.py, the   *)
(* Window of observer_window.py and ObserverPeriphV2C that joins them, over*)
(* the golden engine and the golden sources.  An access and tick() are     *)
(* calls of their own, at most one access before each tick: what an access *)
(* does is there when the edge of its cycle is taken.  OBS_PASS, which     *)
(* decides nothing, and the values of reads are left out.                  *)
(***************************************************************************)
EXTENDS BcmcEngine, BcmcSources, BcmcSideband

CONSTANTS
  Rows,           \* the row lengths the peripheral is programmed with
  Seeds,          \* the streams that the written seeds stand for
  CtrlWords       \* the words written to OBS_CTRL

Selectors == {"identity", "affine", "shuffled"}

AllCtrlWords == [start : BOOLEAN, step : BOOLEAN, reset : BOOLEAN,
                 oneshot : BOOLEAN, sel : Selectors]

ASSUME WindowAssumption ==
  /\ Rows \subseteq Nat \ {0}
  /\ Seeds \subseteq Seq(Nat)
  /\ \A s \in Seeds : {0, 1} \subseteq {s[k] : k \in DOMAIN s}
  /\ CtrlWords \subseteq AllCtrlWords

VARIABLES
  done_latch, aborted_latch,
  start_pulse, step_pulse, reset_pulse,
  sel, seed,
  recovery_q,     \* readiness is void until the next tick
  seam_t,         \* the step the sources were last ticked with
  under_lat,
  moved, accessed,  \* the sideband has changed, the bus has been used in this cycle
  shown,          \* history: the columns presented since step 0
  mixed           \* history: the START of this pass also changed the selector, and
                  \* the pass has not begun an order of its new source since

pulseVars == <<start_pulse, step_pulse, reset_pulse>>
latchVars == <<done_latch, aborted_latch, under_lat>>
historyVars == <<shown, mixed>>
windowVars == <<engineVars, sourceVars, N, valid, oneshot, latchVars, pulseVars, sel,
          seed, recovery_q, seam_t, moved, accessed, historyVars>>

WindowInit ==
  /\ EngineInit
  /\ N \in Rows /\ seed \in Seeds /\ valid = FALSE
  /\ AffineSourceInit(N, seed) /\ ShuffledSourceInit(N, seed)
  /\ oneshot = FALSE /\ done_latch = FALSE /\ aborted_latch = FALSE
  /\ start_pulse = FALSE /\ step_pulse = FALSE /\ reset_pulse = FALSE
  /\ sel = "identity" /\ recovery_q = FALSE /\ seam_t = 0
  /\ under_lat = FALSE /\ moved = FALSE /\ accessed = FALSE
  /\ shown = {} /\ mixed = FALSE

passing == state = "RUN"

selected_ready ==
  CASE sel = "identity" -> TRUE
    [] sel = "affine"   -> affine_ready
    [] sel = "shuffled" -> shuffled_ready(N)

\* SEED_READY.
ready == selected_ready /\ ~recovery_q

\* The mux: the answer for the step the sources were last ticked with.
pi ==
  CASE sel = "identity" -> seam_t
    [] sel = "affine"   -> affine_answer(N, seam_t)
    [] sel = "shuffled" -> shuffled_answer(seam_t)

\* Mutant of start_acceptable: START is asked of the engine alone.
start_acceptable_unready == ~passing /\ valid /\ N >= 1

start_acceptable == ~passing /\ valid /\ N >= 1 /\ ready

\* START and STEP that the engine would ignore, a selector that changes under a
\* pass.
refused(w) ==
  \/ passing /\ w.sel # sel
  \/ w.start /\ ~start_acceptable
  \/ w.step /\ ~passing

-----------------------------------------------------------------------------
Access == ~accessed /\ accessed' = TRUE /\ UNCHANGED moved

\* load_all: every source is loaded, selected or not.
LoadAll(n, stream) == LoadSources(n, stream) /\ recovery_q' = TRUE

\* An accepted write of OBS_CTRL.  Whether START may be taken was asked before
\* the selector is told.
WriteCtrl(w) ==
  /\ Access /\ ~refused(w)
  /\ start_pulse' = w.start /\ step_pulse' = w.step /\ reset_pulse' = w.reset
  /\ oneshot' = w.oneshot /\ sel' = w.sel
  /\ IF w.sel # sel THEN LoadAll(N, seed)
     ELSE UNCHANGED <<sourceVars, recovery_q>>
  /\ mixed' = IF w.start THEN w.sel # sel ELSE mixed
  /\ UNCHANGED <<engineVars, N, valid, latchVars, seed, seam_t, shown>>

\* An accepted write of OBS_SEED loads the sources, also with the seed they have.
WriteSeed(stream) ==
  /\ Access /\ ~passing
  /\ seed' = stream /\ LoadAll(N, stream)
  /\ UNCHANGED <<engineVars, N, valid, oneshot, latchVars, pulseVars, sel,
                 seam_t, historyVars>>

\* OBS_STATUS, written 1 to clear: both layers of latches.
ClearStatus ==
  /\ Access
  /\ \E d, a, u \in BOOLEAN :
       /\ done_latch' = (done_latch /\ ~d)
       /\ aborted_latch' = (aborted_latch /\ ~a)
       /\ under_lat' = (under_lat /\ ~u)
  /\ UNCHANGED <<engineVars, sourceVars, N, valid, oneshot, pulseVars, sel, seed,
                 recovery_q, seam_t, historyVars>>

\* The sideband of this cycle: the matrix goes or comes, or a row of another
\* length is programmed, which takes the matrix away.  observe_n loads the
\* sources for the new row.
SidebandMoves(n, v) ==
  /\ ~accessed /\ ~moved /\ <<n, v>> # <<N, valid>> /\ (n # N => ~v)
  /\ N' = n /\ valid' = v /\ moved' = TRUE
  /\ IF n # N THEN LoadAll(n, seed) ELSE UNCHANGED <<sourceVars, recovery_q>>
  /\ UNCHANGED <<engineVars, oneshot, latchVars, pulseVars, sel, seed, seam_t,
                 accessed, historyVars>>

\* The step that the engine will ask about after this edge.
seam_of == IF state' = "RUN" THEN (tq' + 1) % N ELSE 0

\* Mutant of latched_abort: only RESET and a write of 1 clear it.
latched_abort_stuck(latch, was, is, rst) == ~rst /\ (latch \/ (is /\ ~was))

\* ABORTED follows the engine: up when it aborts, down when a restart
\* acknowledges it.
latched_abort(latch, was, is, rst) == ~rst /\ IF was # is THEN is ELSE latch

\* tick(): the engine's edge, the latches that follow it, the sources.
Tick ==
  /\ moved' = FALSE /\ accessed' = FALSE
  /\ IF reset_pulse THEN EdgeReset
     ELSE Edge(start_pulse, step_pulse, oneshot, N, valid, [t \in 0 .. N |-> pi])
  /\ done_latch' = (~reset_pulse /\ (done_latch \/ outputs(N, valid).done))
  /\ aborted_latch' = latched_abort(aborted_latch, aborted, aborted', reset_pulse)
  /\ seam_t' = seam_of
  /\ under_lat' = (under_lat \/ underrun_flag)
  /\ TickSources(N, seed, seam_of)
  /\ recovery_q' = FALSE
  /\ start_pulse' = FALSE /\ step_pulse' = FALSE /\ reset_pulse' = FALSE
  /\ shown' = IF ~(state' = "RUN") THEN {}
              ELSE IF visit' THEN (IF tq' = 0 THEN {} ELSE shown) \cup {col'}
              ELSE shown
  /\ mixed' = (mixed /\ ~(visit' /\ tq' = 0 /\ selected_ready))
  /\ UNCHANGED <<N, valid, oneshot, sel, seed>>

WindowNext ==
  \/ \E w \in CtrlWords : WriteCtrl(w)
  \/ \E stream \in Seeds : WriteSeed(stream)
  \/ ClearStatus
  \/ \E n \in Rows, v \in BOOLEAN : SidebandMoves(n, v)
  \/ Tick

WindowSpec == WindowInit /\ [][WindowNext]_windowVars

\* The clock runs, whatever is written.  Tick is enabled in every state, so this
\* is its weak fairness, in the form that needs no ENABLED.
FairWindowSpec == WindowSpec /\ []<><<Tick>>_windowVars

-----------------------------------------------------------------------------
WindowTypeOK ==
  /\ state \in {"IDLE", "RUN"} /\ seam_t \in Nat
  /\ valid /\ passing => tq \in 0 .. N - 1 /\ col \in 0 .. N - 1
  /\ bank \in [0 .. 1 -> {NoBank} \cup [0 .. N - 1 -> 0 .. N - 1]]
  /\ filling \in 0 .. 2 /\ fill_remaining \in Nat
  /\ countdown \in Nat /\ rng \in 0 .. Len(seed) - 1

\* O1 through the window: a pass of the identity or of the shuffled source that is
\* done has presented every column of the row once, whatever was written, filled
\* or underrun meanwhile.  A START that came with another selector owes it from
\* the first step 0 at which the new source was ready: the identity at once, the
\* shuffled source when its banks are there.
PassIsPermutation ==
  outputs(N, valid).done /\ ~mixed /\ sel # "affine" => shown = 0 .. N - 1

\* Section 5.5: a fill works on a slot that holds no bank, and never on the one
\* that a pass is reading.
FillIsApart ==
  /\ filling # NoSlot => bank[filling] = NoBank
  /\ passing /\ valid /\ sel = "shuffled" /\ ~mixed =>
       bank[playing] # NoBank /\ filling # playing

\* The buffer never stands still with room in it: a slot without a bank is
\* being filled, at reset as well as after a boundary.
NoIdleSlot ==
  ~unservable(N) /\ (\E i \in 0 .. 1 : bank[i] = NoBank) => filling # NoSlot

\* ABORTED never outlives the abort: what it reports was not yet acknowledged by
\* a restart, so no pass runs.
AbortedIsOfNow == aborted_latch => aborted /\ ~passing

\* What the registers and the buffer promise in any cycle: values in their
\* ranges, a fill that is apart from the pass, no slot that stands idle, and an
\* ABORTED that is of the pass before.
WindowContract ==
  /\ WindowTypeOK
  /\ FillIsApart
  /\ NoIdleSlot
  /\ AbortedIsOfNow

\* Readiness comes back: unless the sources are loaded again and again, the
\* selected one that can serve the row is ready in the end.
ReadinessReturns ==
  []<>(ready \/ recovery_q \/ (sel = "shuffled" /\ unservable(N)))
=============================================================================
