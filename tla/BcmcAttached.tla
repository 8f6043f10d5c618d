---------------------------- MODULE BcmcAttached ----------------------------
(***************************************************************************)
(* Attached of validation/output_engine.py: the golden engine with the     *)
(* golden output stage on its outputs, clock by clock beside the hardware  *)
(* pair of bcmc_observer.v and bcmc_out_engine.v.  Both pairs get the same *)
(* start, trigger, mode, reset and sideband; each asks the source, and     *)
(* evaluates the matrix, in its own way.  The context is replaced only     *)
(* with a fall of valid, which is what the peripheral does.                *)
(***************************************************************************)
EXTENDS BcmcEngine, BcmcPins, BcmcObserver, BcmcOutEngine, BcmcSideband

CONSTANTS
  Contexts,       \* bound: the contexts <<N, C, W>>
  Sources(_)      \* the sources of a row, functions of the step

\* The weights fit their registers, and a source answers columns of its row: a
\* visit is always a legal column, as the assertion of bcmc_observer.v has it.
ASSUME AttachedAssumption ==
  /\ Lanes \subseteq Nat
  /\ Contexts \subseteq Val \X Nat \X [Lanes -> Val]
  /\ \A c \in Contexts :
       /\ 0 .. c[2] - 1 \subseteq Lanes
       /\ \A s \in Sources(c[1]), t \in 0 .. c[1] - 1 : s[t] \in 0 .. c[1] - 1

VARIABLES C, W, source

bench == <<N, C, W, valid, oneshot, source>>
vars == <<engineVars, stageVars, observerVars, outVars, bench>>

\* The column_bits wire of each pair.
bits == bits_of(N, C, W, col)

offset_window == [i \in Lanes |-> IF i < C THEN RefOffset(i, N, C, W) ELSE 0]
column_bits ==
  {i \in Lanes : N # 0 /\ ColumnBit(i, col_q, N, C, W, offset_window)}

Init ==
  /\ EngineInit /\ StageInit /\ ObserverInit /\ OutInit
  /\ \E c \in Contexts : N = c[1] /\ C = c[2] /\ W = c[3]
  /\ valid = FALSE /\ oneshot \in BOOLEAN /\ source \in Sources(N)

Sideband ==
  /\ \/ valid' \in BOOLEAN /\ UNCHANGED <<N, C, W>>
     \/ /\ valid' = FALSE
        /\ \E c \in Contexts : N' = c[1] /\ C' = c[2] /\ W' = c[3]
  /\ oneshot' \in BOOLEAN /\ source' \in Sources(N')

\* cycle(): observe, then the edge of the engine and the tick of the stage.
AttachedCycle(start, trigger) ==
  /\ Edge(start, trigger, oneshot, N, valid, source)
  /\ ObserverEdge(start, trigger, oneshot, N, valid, source[ts_t(N)])
  /\ StageTick(bits, visit /\ valid, valid)
  /\ OutEdge(column_bits, visit_valid(valid), valid)
  /\ Sideband

AttachedReset ==
  /\ EdgeReset /\ ResetObserver
  /\ StageReset(valid) /\ ResetOutEngine(valid)
  /\ Sideband

Next ==
  \/ \E start, trigger \in BOOLEAN : AttachedCycle(start, trigger)
  \/ AttachedReset

Spec == Init /\ [][Next]_vars

-----------------------------------------------------------------------------
\* The two engines cannot be told apart on any output in any cycle, whatever is
\* asserted in it: the vectors of the test benches sample this, here it is all
\* inputs.  It rests on a cursor inside the row whenever a pass is alive.
OutputsAgree ==
  outputs(N, valid) =
    [running     |-> running,
     scheduled   |-> visit_q,
     column      |-> col_q,
     visit_valid |-> visit_valid(valid),
     done        |-> pass_done(N, valid),
     aborted     |-> aborted_q]

\* The two output stages show the same lanes: the reference matrix latched by
\* the model is what the evaluators and the offset window yield at a visit, and
\* no lane at or above the C of now is among them, whatever C was at the visit.
PinsAgree ==
  /\ pins_of(valid) = pins(valid)
  /\ lane_above_c(pins_of(valid), C) = {}

\* The strengthening of OutputsAgree that is inductive: equal registers, and a
\* live pass over a valid context has its cursor inside the row.
Coupled ==
  /\ running \in BOOLEAN /\ visit_q \in BOOLEAN /\ aborted_q \in BOOLEAN
  /\ valid \in BOOLEAN /\ N \in Val /\ t_q \in Val
  /\ state = IF running THEN "RUN" ELSE "IDLE"
  /\ tq = t_q /\ col = col_q /\ visit = visit_q /\ aborted = aborted_q
  /\ visit_q => running
  /\ running /\ valid => t_q < N

\* The strengthening of PinsAgree that is inductive: a visit names a column of
\* the row, the stages hold one pattern, and a pattern that outlives its matrix
\* is on its way out, because the register of VALID remembers the matrix.
PinsInv ==
  /\ Coupled
  /\ <<N, C, W>> \in Contexts /\ source \in Sources(N)
  /\ visit_q /\ valid => col_q \in 0 .. N - 1
  /\ valid_q \in BOOLEAN
  /\ pattern = pattern_q
  /\ valid_was = valid_q \/ pattern_q = {}
  /\ ~valid_q => pattern_q = {}
  /\ valid => \A i \in pattern_q : i < C
=============================================================================
