------------------------- MODULE BcmcGolden_proofs -------------------------
(***************************************************************************)
(* The golden models of the observer.  First the golden engine and output  *)
(* stage in lockstep with the hardware's, for every width, row, source and *)
(* input: Coupled is inductive, one step per branch of the hardware's      *)
(* clocked block, and equal registers give equal outputs.  The branches    *)
(* pair up because the wrap of the model (tq + 1 < N) and that of the      *)
(* hardware (t_q = N - 1) choose alike while the cursor is inside the row. *)
(* Then the golden window over the golden sources: a pass of the identity  *)
(* or of the shuffled source shows every column once.  The fill is apart   *)
(* from the bank that plays, and that bank changes only in the clock that  *)
(* asks for step 0, when the last column is already presented.             *)
(***************************************************************************)
EXTENDS BcmcSimulate, BcmcObsWindow, BcmcArith_proofs

\* The seam inside a row: the question is about the next step, or about step 0
\* while the last one is presented.
LEMMA NextSteps ==
  ASSUME NEW n \in Val, t_q \in Val, t_q < n
  PROVE  /\ last_now(n) <=> t_q = n - 1
         /\ t_next(n) = IF t_q + 1 < n THEN t_q + 1 ELSE 0
         /\ t_next(n) \in Val /\ t_next(n) < n
<1>1. last_now(n) <=> t_q = n - 1
  BY NoWrap DEF last_now, last
<1>2. t_next(n) = IF t_q + 1 < n THEN t_q + 1 ELSE 0
  BY <1>1, NoWrap DEF t_next, Val
<1> QED BY <1>1, <1>2, NoWrap, ValRangeAssumption DEF Val

(* After reset the golden and the hardware registers correspond.           *)
LEMMA CoupledInit == Init => Coupled
<1> SUFFICES ASSUME Init PROVE Coupled OBVIOUS
<1>1. N \in Val BY AttachedAssumption DEF Init
<1>2. 0 \in Val BY ValRangeAssumption DEF Val
<1> QED BY <1>1, <1>2 DEF Init, EngineInit, ObserverInit, Coupled

\* The sideband keeps its types, and a new row arrives with valid low.
LEMMA SidebandKeeps ==
  ASSUME Sideband, N \in Val
  PROVE  /\ N' \in Val /\ valid' \in BOOLEAN
         /\ valid' => N' = N
<1>1. CASE valid' \in BOOLEAN /\ UNCHANGED <<N, C, W>> BY <1>1
<1>2. CASE valid' = FALSE /\ \E c \in Contexts : N' = c[1] /\ C' = c[2] /\ W' = c[3]
  BY <1>2, AttachedAssumption
<1> QED BY <1>1, <1>2 DEF Sideband

(* They do after every common clock.                                       *)
LEMMA CoupledStep == Coupled /\ Next => Coupled'
<1> SUFFICES ASSUME Coupled, Next PROVE Coupled' OBVIOUS
<1> USE DEF Coupled
<1>0. 0 \in Val BY ValRangeAssumption DEF Val
<1>1. CASE AttachedReset
  BY <1>0, <1>1, SidebandKeeps DEF AttachedReset, EdgeReset, ResetObserver
<1>2. ASSUME NEW start \in BOOLEAN, NEW trigger \in BOOLEAN,
             AttachedCycle(start, trigger)
      PROVE  Coupled'
  <2>1. /\ N' \in Val /\ valid' \in BOOLEAN
        /\ valid' => N' = N
    BY <1>2, SidebandKeeps DEF AttachedCycle
  <2>2. Edge(start, trigger, oneshot, N, valid, source)
    BY <1>2 DEF AttachedCycle
  <2>3. ObserverEdge(start, trigger, oneshot, N, valid, source[ts_t(N)])
    BY <1>2 DEF AttachedCycle
  <2> DEFINE addressed == source[ts_t(N)]
  <2>4. CASE AbortPass(valid)
    <3>1. EdgeAbort(valid)
      BY <2>2, <2>4 DEF AbortPass, Edge, EdgeStart, EdgeIdle, EdgeComplete,
         EdgeTrigger, EdgeHold, accepts_start, accepts_trigger, aborts
    <3> QED BY <2>1, <2>4, <3>1 DEF AbortPass, EdgeAbort
  <2>5. CASE StartPass(start, N, valid, addressed)
    <3>1. addressed = source[0] BY <2>5 DEF StartPass, ts_t
    <3>2. N >= 1 BY <2>5, ValRangeAssumption DEF StartPass, Val
    <3>3. EdgeStart(start, N, valid, source)
      BY <2>2, <2>5, <3>2 DEF StartPass, Edge, EdgeAbort, EdgeIdle, EdgeComplete,
         EdgeTrigger, EdgeHold, accepts_start, accepts_trigger, aborts
    <3>4. running' = TRUE /\ visit_q' = TRUE /\ t_q' = 0 /\ aborted_q' = FALSE
      BY <2>5 DEF StartPass
    <3>5. /\ state' = "RUN" /\ tq' = 0 /\ visit' = TRUE /\ aborted' = FALSE
          /\ col' = col_q'
      BY <2>5, <3>1, <3>3 DEF StartPass, EdgeStart
    <3>6. valid' => 0 < N' BY <2>1, <3>2 DEF Val
    <3> QED BY <1>0, <2>1, <3>4, <3>5, <3>6
  <2>6. CASE NoPass(start, N, valid)
    <3>1. ~(start /\ valid /\ N >= 1)
      BY <2>6, ValRangeAssumption DEF NoPass, Val
    <3>2. EdgeIdle(start, N, valid)
      BY <2>2, <2>6, <3>1 DEF NoPass, Edge, EdgeAbort, EdgeStart, EdgeComplete,
         EdgeTrigger, EdgeHold, accepts_start, accepts_trigger, aborts
    <3> QED BY <2>1, <2>6, <3>2 DEF NoPass, EdgeIdle
  <2>7. ASSUME running, valid
        PROVE  /\ t_q < N
               /\ last_now(N) <=> t_q = N - 1
               /\ t_next(N) = next_t(N)
               /\ t_next(N) \in Val /\ t_next(N) < N
               /\ completes(oneshot, N) <=> visit_q /\ last_now(N) /\ oneshot
    BY <2>7, NextSteps DEF next_t, completes
  <2>8. CASE EndPass(oneshot, N, valid)
    <3>1. EdgeComplete(trigger, oneshot, N, valid)
      BY <2>2, <2>7, <2>8 DEF EndPass, Edge, EdgeAbort, EdgeStart, EdgeIdle,
         EdgeTrigger, EdgeHold, accepts_start, accepts_trigger, aborts
    <3> QED BY <2>1, <2>7, <2>8, <3>1 DEF EndPass, EdgeComplete
  <2>9. CASE Advance(trigger, oneshot, N, valid, addressed)
    <3>1. EdgeTrigger(trigger, oneshot, N, valid, source)
      BY <2>2, <2>7, <2>9 DEF Advance, Edge, EdgeAbort, EdgeStart, EdgeIdle,
         EdgeComplete, EdgeHold, accepts_start, accepts_trigger, aborts
    <3>2. addressed = source[next_t(N)] BY <2>7, <2>9 DEF Advance, ts_t
    <3> QED BY <2>1, <2>7, <2>9, <3>1, <3>2 DEF Advance, EdgeTrigger
  <2>10. CASE HoldPass(trigger, oneshot, N, valid)
    <3>1. EdgeHold(trigger, oneshot, N, valid)
      BY <2>2, <2>7, <2>10 DEF HoldPass, Edge, EdgeAbort, EdgeStart, EdgeIdle,
         EdgeComplete, EdgeTrigger, accepts_start, accepts_trigger, aborts
    <3> QED BY <2>1, <2>7, <2>10, <3>1 DEF HoldPass, EdgeHold
  <2> QED BY <2>3, <2>4, <2>5, <2>6, <2>8, <2>9, <2>10 DEF ObserverEdge
<1> QED BY <1>1, <1>2 DEF Next

\* The inductive invariant of the pair.
THEOREM CoupledAlways == Spec => []Coupled
<1>1. Coupled /\ UNCHANGED vars => Coupled'
  BY DEF vars, engineVars, observerVars, bench, Coupled
<1> QED BY CoupledInit, CoupledStep, <1>1, PTL DEF Spec

(* Registers that correspond show the same outputs.                        *)
LEMMA CoupledOutputs == Coupled => OutputsAgree
<1> SUFFICES ASSUME Coupled PROVE OutputsAgree OBVIOUS
<1> USE DEF Coupled
<1>1. (state = "RUN") = running OBVIOUS
<1>2. (visit /\ valid) = visit_valid(valid) BY DEF visit_valid
<1>3. (visit /\ valid /\ N >= 1 /\ tq = N - 1) = pass_done(N, valid)
  <2>1. CASE visit_q /\ valid
    <3>1. t_q < N BY <2>1
    <3>2. N >= 1 BY <3>1, ValRangeAssumption DEF Val
    <3>3. last_now(N) <=> tq = N - 1 BY <3>1, NextSteps
    <3> QED BY <2>1, <3>2, <3>3 DEF pass_done, visit_valid
  <2>2. CASE ~(visit_q /\ valid) BY <2>2 DEF pass_done, visit_valid
  <2> QED BY <2>1, <2>2
<1> QED BY <1>1, <1>2, <1>3 DEF OutputsAgree, outputs

\* The model and the hardware cannot be told apart on the engine's outputs.
THEOREM Lockstep == Spec => []OutputsAgree
<1> QED BY CoupledAlways, CoupledOutputs, PTL

-----------------------------------------------------------------------------
(* The pins.  At a visit the evaluators and the offset window yield the    *)
(* reference matrix (EvaluatorIsReference), so the two stages latch the    *)
(* same lanes; what remains is that a pattern never outlives its matrix.   *)

\* A lane that holds no row answers 0 in every column of the row.
LEMMA NoRowIsDark ==
  ASSUME NEW n, NEW c \in Nat, NEW w, NEW o, NEW j \in Nat,
         NEW i \in Nat, ~(i < c)
  PROVE  ~ColumnBit(i, j, n, c, w, o)
BY DEF ColumnBit, CellBit, Delta

\* At a visit the column_bits wires of the two pairs agree, and mark rows only.
LEMMA VisitBitsAgree ==
  ASSUME PinsInv, visit_q, valid
  PROVE  /\ bits \cap Lanes = column_bits
         /\ \A i \in column_bits : i < C
<1> DEFINE o == offset_window
<1>1. /\ N \in Nat \ {0} /\ N < ValRange /\ col_q \in 0 .. N - 1 /\ col = col_q
      /\ C \in Nat
  BY AttachedAssumption, ValRangeAssumption DEF PinsInv, Coupled, Val
<1>2. Lanes \subseteq Nat /\ \A k \in 0 .. C - 1 : W[k] \in Nat
  BY AttachedAssumption, ValRangeAssumption DEF PinsInv, Val
<1>3. ASSUME NEW i \in Lanes, ~(i < C)
      PROVE  ~ColumnBit(i, col_q, N, C, W, o)
  BY <1>1, <1>2, <1>3, NoRowIsDark
<1>4. ASSUME NEW i \in Lanes, i < C
      PROVE  ColumnBit(i, col_q, N, C, W, o) <=> RefBit(i, col_q, N, C, W)
  <2>1. i \in 0 .. C - 1 BY <1>1, <1>2, <1>4
  <2>2. o[i] = RefOffset(i, N, C, W) BY <1>4 DEF offset_window
  <2> HIDE DEF o
  <2> QED BY <1>1, <1>2, <2>1, <2>2, EvaluatorIsReference
<1> HIDE DEF o
<1>5. column_bits = {i \in Lanes : ColumnBit(i, col_q, N, C, W, o)}
  BY <1>1 DEF column_bits, o
<1>6. ASSUME NEW i \in Lanes
      PROVE  i \in bits <=> i < C /\ RefBit(i, col_q, N, C, W)
  BY <1>1, <1>2 DEF bits, bits_of
<1> QED BY <1>3, <1>4, <1>5, <1>6

(* After reset both output stages are empty.                               *)
LEMMA PinsInit == Init => PinsInv
<1> SUFFICES ASSUME Init PROVE PinsInv OBVIOUS
<1>1. Coupled BY CoupledInit
<1>2. <<N, C, W>> \in Contexts
  <2>1. PICK c \in Contexts : N = c[1] /\ C = c[2] /\ W = c[3] BY DEF Init
  <2> QED BY <2>1, AttachedAssumption
<1> QED BY <1>1, <1>2 DEF Init, StageInit, OutInit, ObserverInit, PinsInv

\* The sideband keeps the context one of the contexts, the source one of its
\* row, and a matrix only while it is valid.
LEMMA SidebandPins ==
  ASSUME Sideband, <<N, C, W>> \in Contexts
  PROVE  /\ <<N, C, W>>' \in Contexts /\ source' \in Sources(N')
         /\ valid' => N' = N /\ C' = C
<1>1. CASE valid' \in BOOLEAN /\ UNCHANGED <<N, C, W>>
  BY <1>1 DEF Sideband
<1>2. CASE valid' = FALSE /\ \E c \in Contexts : N' = c[1] /\ C' = c[2] /\ W' = c[3]
  <2>1. PICK c \in Contexts : N' = c[1] /\ C' = c[2] /\ W' = c[3] BY <1>2
  <2>2. c = <<c[1], c[2], c[3]>> BY AttachedAssumption
  <2> QED BY <1>2, <2>1, <2>2 DEF Sideband
<1> QED BY <1>1, <1>2 DEF Sideband

\* The source is asked about a step of the row, so the column that the next
\* visit presents is a column of the row.
LEMMA VisitIsAColumn ==
  ASSUME PinsInv, NEW start \in BOOLEAN, NEW trigger \in BOOLEAN,
         ObserverEdge(start, trigger, oneshot, N, valid, source[ts_t(N)]),
         visit_q'
  PROVE  valid /\ col_q' \in 0 .. N - 1
<1>1. valid /\ N # 0 /\ col_q' = source[ts_t(N)] /\ ts_t(N) \in 0 .. N - 1
  <2> DEFINE addressed == source[ts_t(N)]
  <2>1. N \in Nat /\ t_q \in Nat /\ visit_q \in BOOLEAN /\ running \in BOOLEAN
        /\ (visit_q => running) /\ N \in Val
    BY ValRangeAssumption DEF PinsInv, Coupled, Val
  <2>2. CASE StartPass(start, N, valid, addressed)
    BY <2>1, <2>2 DEF StartPass, ts_t
  <2>3. CASE Advance(trigger, oneshot, N, valid, addressed)
    <3>1. t_q < N BY <2>3 DEF Advance, PinsInv, Coupled
    <3>2. t_next(N) \in Val /\ t_next(N) < N BY <2>1, <3>1, NextSteps DEF PinsInv, Coupled
    <3> QED BY <2>1, <2>3, <3>2, ValRangeAssumption DEF Advance, ts_t, Val
  <2> QED BY <2>2, <2>3 DEF ObserverEdge, AbortPass, NoPass, EndPass, HoldPass
<1>2. \A t \in 0 .. N - 1 : source[t] \in 0 .. N - 1
  BY AttachedAssumption DEF PinsInv
<1> QED BY <1>1, <1>2

(* Every clock keeps the two stages holding one pattern.                   *)
LEMMA PinsStep == PinsInv /\ Next => PinsInv'
<1> SUFFICES ASSUME PinsInv, Next PROVE PinsInv' OBVIOUS
<1>1. Coupled' BY CoupledStep DEF PinsInv
<1>2. Sideband BY DEF Next, AttachedCycle, AttachedReset
<1>3. /\ <<N, C, W>>' \in Contexts /\ source' \in Sources(N')
      /\ valid' => N' = N /\ C' = C
  BY <1>2, SidebandPins DEF PinsInv
<1>4. valid \in BOOLEAN /\ visit_q \in BOOLEAN /\ visit = visit_q /\ valid_q \in BOOLEAN
  BY DEF PinsInv, Coupled
<1>5. CASE AttachedReset
  BY <1>1, <1>3, <1>4, <1>5
     DEF AttachedReset, ResetObserver, StageReset, ResetOutEngine, PinsInv
<1>6. ASSUME NEW start \in BOOLEAN, NEW trigger \in BOOLEAN,
             AttachedCycle(start, trigger)
      PROVE  PinsInv'
  <2>1. visit_q' /\ valid' => col_q' \in 0 .. N' - 1
    BY <1>3, <1>6, VisitIsAColumn DEF AttachedCycle
  <2>2. StageTick(bits, visit /\ valid, valid) /\ OutEdge(column_bits, visit_valid(valid), valid)
    BY <1>6 DEF AttachedCycle
  <2>3. valid_q' = valid /\ valid_was' = valid
    BY <2>2 DEF StageTick, OutEdge
  <2>4. CASE ~valid
    <3>1. pattern_q' = {}
      BY <1>4, <2>2, <2>4 DEF OutEdge, valid_fell, visit_valid, PinsInv
    <3>2. pattern' = {}
      BY <1>4, <2>2, <2>4 DEF StageTick, PinsInv
    <3> QED BY <1>1, <1>3, <1>4, <2>1, <2>3, <2>4, <3>1, <3>2 DEF PinsInv
  <2>5. CASE valid /\ visit_q
    <3>1. pattern_q' = column_bits
      BY <1>4, <2>2, <2>5 DEF OutEdge, valid_fell, visit_valid
    <3>2. pattern' = bits \cap Lanes
      BY <1>4, <2>2, <2>5 DEF StageTick
    <3>3. bits \cap Lanes = column_bits /\ \A i \in column_bits : i < C
      BY <2>5, VisitBitsAgree
    <3> QED BY <1>1, <1>3, <2>1, <2>3, <2>5, <3>1, <3>2, <3>3 DEF PinsInv
  <2>6. CASE valid /\ ~visit_q
    <3>1. pattern_q' = pattern_q
      BY <1>4, <2>2, <2>6 DEF OutEdge, valid_fell, visit_valid
    <3>2. pattern' = pattern
      BY <1>4, <2>2, <2>6 DEF StageTick
    <3> QED BY <1>1, <1>3, <2>1, <2>3, <2>6, <3>1, <3>2 DEF PinsInv
  <2> QED BY <1>4, <2>4, <2>5, <2>6
<1> QED BY <1>5, <1>6 DEF Next

(* Stages that hold one pattern show the same pins.                        *)
LEMMA PinsAgreeFromInv == PinsInv => PinsAgree
<1> SUFFICES ASSUME PinsInv PROVE PinsAgree OBVIOUS
<1>1. pins_of(valid) = pins(valid) BY DEF PinsInv, pins_of, pins
<1>2. \A i \in pins_of(valid) : i < C BY DEF PinsInv, pins_of
<1>3. C \in Nat /\ Lanes \subseteq Nat BY AttachedAssumption DEF PinsInv
<1>4. ASSUME NEW i \in lane_above_c(pins_of(valid), C) PROVE FALSE
  <2>1. i \in pins_of(valid) /\ i \in Lanes /\ i >= C
    BY DEF lane_above_c
  <2>2. i < C BY <1>2, <2>1
  <2> QED BY <1>3, <2>1, <2>2
<1> QED BY <1>1, <1>4 DEF PinsAgree

\* The model and the hardware show the same lanes in every cycle of every run,
\* and none of a row that the context of now does not have.
THEOREM PinsLockstep == Spec => []PinsAgree
<1>1. PinsInv /\ UNCHANGED vars => PinsInv'
  BY DEF vars, engineVars, stageVars, observerVars, outVars, bench, PinsInv, Coupled
<1> QED BY PinsInit, PinsStep, PinsAgreeFromInv, <1>1, PTL DEF Spec

-----------------------------------------------------------------------------
(* The accounting of simulate().                                           *)

\* A visit that is due over a context that is gone ends with this clock, so at
\* most one is lost per invalidation: the pass ends, and a new one needs a
\* clock with VALID high, after which VALID falls again and the count restarts.
Accounted ==
  /\ Coupled
  /\ Conservation
  /\ suppressed \in 0 .. 1
  /\ visit /\ ~valid => suppressed = 0

(* Nothing is accepted and nothing is owed at first.                       *)
LEMMA AccountedInit == SimulateInit => Accounted
<1> SUFFICES ASSUME SimulateInit PROVE Accounted OBVIOUS
<1>1. Coupled BY CoupledInit DEF SimulateInit
<1> QED BY <1>1 DEF SimulateInit, Init, EngineInit, Accounted, Conservation

(* Every clock keeps the accounts of simulate().                           *)
LEMMA AccountedStep == Accounted /\ SimulateNext => Accounted'
<1> SUFFICES ASSUME Accounted, SimulateNext PROVE Accounted' OBVIOUS
<1>1. Next BY DEF SimulateNext, Cycle, ResetCycle, Next
<1>2. Coupled' BY <1>1, CoupledStep DEF Accounted
<1>3. Coupled BY DEF Accounted
<1>4. /\ visit \in BOOLEAN /\ valid \in BOOLEAN /\ visit' \in BOOLEAN
      /\ valid' \in BOOLEAN
  BY <1>2, <1>3 DEF Coupled
<1>5. now.scheduled = visit /\ now.visit_valid = (visit /\ valid)
  BY DEF now, outputs
<1>6. ASSUME NEW a \in 0 .. 1, Observe(a)
      PROVE  /\ scheduled' = a
             /\ suppressed' \in 0 .. 1
             /\ ~(visit /\ ~valid) /\ valid /\ ~valid' => suppressed' = 0
             /\ ~visit => (suppressed' = suppressed \/ suppressed' = 0)
  <2>1. CASE visit /\ valid
    BY <1>4, <1>5, <1>6, <2>1 DEF Observe, Accounted, Conservation
  <2>2. CASE visit /\ ~valid
    BY <1>4, <1>5, <1>6, <2>2 DEF Observe, Accounted, Conservation
  <2>3. CASE ~visit
    BY <1>4, <1>5, <1>6, <2>3 DEF Observe, Accounted, Conservation
  <2> QED BY <1>4, <2>1, <2>2, <2>3
<1>7. CASE ResetCycle
  <2>1. visit' = FALSE BY <1>7 DEF ResetCycle, AttachedReset, EdgeReset
  <2>2. Observe(0) BY <1>7 DEF ResetCycle
  <2>3. scheduled' = 0 /\ suppressed' \in 0 .. 1 BY <1>6, <2>2
  <2> QED BY <1>2, <2>1, <2>3 DEF Accounted, Conservation
<1>8. ASSUME NEW start \in BOOLEAN, NEW trigger \in BOOLEAN, Cycle(start, trigger)
      PROVE  Accounted'
  <2> DEFINE accepts == \/ accepts_start(start, N, valid)
                        \/ accepts_trigger(trigger, oneshot, N, valid)
             a == IF accepts THEN 1 ELSE 0
  <2>1. Edge(start, trigger, oneshot, N, valid, source)
    BY <1>8 DEF Cycle, AttachedCycle
  <2>2. visit' = accepts /\ (visit' => valid)
    BY <1>4, <2>1 DEF Edge, EdgeAbort, EdgeStart, EdgeIdle, EdgeComplete,
       EdgeTrigger, EdgeHold, accepts_start, accepts_trigger, aborts
  <2>3. Observe(a) BY <1>8 DEF Cycle
  <2> HIDE DEF accepts
  <2>4. a \in 0 .. 1 OBVIOUS
  <2>5. scheduled' = a /\ suppressed' \in 0 .. 1 BY <1>6, <2>3, <2>4
  <2>6. visit' /\ ~valid' => suppressed' = 0
    BY <1>6, <2>2, <2>3, <2>4
  <2>7. a = IF visit' THEN 1 ELSE 0 BY <2>2
  <2> QED BY <1>2, <2>5, <2>6, <2>7 DEF Accounted, Conservation
<1> QED BY <1>7, <1>8 DEF SimulateNext

\* Every accepted request is presented, suppressed, or due now, and an
\* invalidation costs one visit at most, in a run of any length.
THEOREM RequestsAreConserved == SimulateSpec => []Conservation
<1>1. Accounted /\ UNCHANGED simulateVars => Accounted'
  BY DEF simulateVars, vars, engineVars, observerVars, bench, Accounted,
     Conservation, Coupled
<1>2. Accounted => Conservation BY DEF Accounted
<1> QED BY AccountedInit, AccountedStep, <1>1, <1>2, PTL DEF SimulateSpec

-----------------------------------------------------------------------------
(* The golden window: its sources.                                         *)

\* The buffer of the shuffled source over a row of n: its slots, the one that
\* plays, the fill, and how many banks were completed.
Buffer(n, s, slots, plays, f, b) ==
  /\ slots \in [0 .. 1 -> {NoBank} \cup Orders(n)] /\ plays \in 0 .. 1
  /\ f.filling \in 0 .. 2 /\ f.rng \in Positions(s) /\ f.remaining \in Nat
  /\ f.filling # NoSlot => f.fill \in Orders(n) /\ slots[f.filling] = NoBank
  /\ ~unservable(n) /\ (\E i \in 0 .. 1 : slots[i] = NoBank) => f.filling # NoSlot
  /\ b \in Nat
  /\ b = 0 => slots = EmptySlots /\ plays = 0 /\ (~unservable(n) => f.filling = 0)
  /\ b # 0 => slots[plays] # NoBank

BufferInv(n, s) ==
  /\ Buffer(n, s, bank, playing, the_fill, built)
  /\ startup_done \in BOOLEAN /\ (startup_done => built # 0)

AffineInv(n) ==
  /\ ab.a \in 0 .. n - 1 /\ ab.b \in 0 .. n - 1 /\ r \in 0 .. n - 1
  /\ countdown \in Nat

(* An order of a row is never mistaken for the absence of a bank.          *)
LEMMA OrderIsABank ==
  ASSUME NEW n \in Nat \ {0}, NEW p \in Orders(n)
  PROVE  p # NoBank
<1>1. 0 \in DOMAIN p
  BY DEF Orders
<1>2. DOMAIN NoBank = {}
  BY DEF NoBank
<1> QED BY <1>1, <1>2

(* A fill that is begun for a slot holds an order of the row, from a seed  *)
(* of its stream.                                                          *)
LEMMA FillIsAnOrder ==
  ASSUME NEW n \in Nat \ {0}, NEW s, IsStream(s), NEW from \in Positions(s),
         NEW slot \in 0 .. 2
  PROVE  LET f == fill_of(slot, s, from, n)
         IN  /\ f.filling = slot /\ f.rng \in Positions(s) /\ f.remaining \in Nat
             /\ slot # NoSlot => f.fill \in Orders(n)
<1> DEFINE made == bank_and_cost(s, from, n)
<1>1. made \in Banks(s, n)
  BY BankIsAnOrder
<1>2. made.bank \in Orders(n) /\ made.at \in Positions(s) /\ 1 + made.cost \in Nat
  BY <1>1 DEF Banks
<1>3. start_fill(slot, s, from, n) =
        [filling |-> slot, fill |-> made.bank, rng |-> made.at,
         remaining |-> 1 + made.cost]
  BY DEF start_fill, fill_clocks
<1> HIDE DEF made
<1> QED BY <1>2, <1>3 DEF fill_of

(* The slot chosen for the next fill holds no bank; none is chosen only if *)
(* both hold one.                                                          *)
LEMMA FreeSlotIsFree ==
  ASSUME NEW slots, NEW plays
  PROVE  /\ free_slot(slots, plays) \in 0 .. 2
         /\ free_slot(slots, plays) # NoSlot => slots[free_slot(slots, plays)] = NoBank
         /\ free_slot(slots, plays) = NoSlot => \A i \in 0 .. 1 : slots[i] # NoBank
  BY DEF free_slot, NoSlot

(* The buffer as a load leaves it: both slots empty, the first fill in     *)
(* work.                                                                   *)
LEMMA FirstFill ==
  ASSUME NEW n \in Nat \ {0}, NEW s, IsStream(s)
  PROVE  Buffer(n, s, EmptySlots, 0, first_fill(n, s), 0)
<1> DEFINE slot == IF unservable(n) THEN NoSlot ELSE free_slot(EmptySlots, 0)
<1>1. slot \in 0 .. 2 /\ (~unservable(n) => slot = 0)
  BY DEF free_slot, EmptySlots, NoSlot
<1>2. first_fill(n, s) = fill_of(slot, s, 0, n)
  BY DEF first_fill
<1>3. 0 \in Positions(s)
  BY StreamHasWords
<1> HIDE DEF slot
<1> DEFINE f == fill_of(slot, s, 0, n)
<1>4. /\ f.filling = slot /\ f.rng \in Positions(s) /\ f.remaining \in Nat
      /\ slot # NoSlot => f.fill \in Orders(n)
  BY <1>1, <1>3, FillIsAnOrder
<1>5. EmptySlots \in [0 .. 1 -> {NoBank} \cup Orders(n)]
      /\ \A i \in 0 .. 1 : EmptySlots[i] = NoBank
  BY DEF EmptySlots
<1> HIDE DEF f
<1>6. f.filling # NoSlot => EmptySlots[f.filling] = NoBank
  BY <1>1, <1>4, <1>5 DEF NoSlot
<1>7. f = first_fill(n, s)
  BY <1>2 DEF f
<1> QED BY <1>1, <1>4, <1>5, <1>6, <1>7 DEF Buffer, NoSlot

(* The pair a load derives is of the row, and its countdown is a number of *)
(* ticks.                                                                  *)
LEMMA PairIsLoaded ==
  ASSUME NEW n \in Nat \ {0}, NEW s, IsStream(s), NEW d, d = derive_ab(s, n)
  PROVE  /\ d.a \in 0 .. n - 1 /\ d.b \in 0 .. n - 1 /\ d.b % n \in 0 .. n - 1
         /\ larger(1, d.draws + euclid_steps(d.a, n)) \in Nat
<1>1. d.a \in 0 .. n - 1 /\ d.b \in 0 .. n - 1 /\ d.draws \in Nat
  BY PairIsOfTheRow
<1>2. euclid_steps(d.a, n) \in Nat
  <2>1. \A a \in Nat : euclid_steps(a, n) \in Nat
    BY EuclidEnds
  <2>2. d.a \in Nat
    BY <1>1
  <2> QED BY <2>1, <2>2
<1>3. d.draws + euclid_steps(d.a, n) \in Nat
  BY <1>1, <1>2
<1>4. \A x \in Nat : larger(1, x) \in Nat
  BY DEF larger
<1>5. d.b % n \in 0 .. n - 1
  <2>1. \A x \in Int : x % n \in 0 .. n - 1
    BY DivMod
  <2> QED BY <1>1, <2>1
<1> QED BY <1>1, <1>3, <1>4, <1>5

(* Both golden sources keep their invariants when they are made.           *)
LEMMA SourcesBorn ==
  ASSUME NEW n \in Nat \ {0}, NEW s, IsStream(s),
         AffineSourceInit(n, s), ShuffledSourceInit(n, s)
  PROVE  AffineInv(n) /\ BufferInv(n, s)
<1>1. AffineInv(n)
  <2> DEFINE d == derive_ab(s, n)
  <2>1. /\ ab = [a |-> d.a, b |-> d.b] /\ r = d.b % n
        /\ countdown = larger(1, d.draws + euclid_steps(d.a, n))
    BY DEF AffineSourceInit
  <2>2. /\ d.a \in 0 .. n - 1 /\ d.b \in 0 .. n - 1 /\ d.b % n \in 0 .. n - 1
        /\ larger(1, d.draws + euclid_steps(d.a, n)) \in Nat
    BY PairIsLoaded
  <2> HIDE DEF d
  <2> QED BY <2>1, <2>2 DEF AffineInv
<1>2. BufferInv(n, s)
  <2>1. Buffer(n, s, EmptySlots, 0, first_fill(n, s), 0)
    BY FirstFill
  <2> DEFINE f == first_fill(n, s)
  <2>2. /\ bank = EmptySlots /\ playing = 0 /\ built = 0 /\ startup_done = FALSE
        /\ filling = f.filling /\ fill = f.fill /\ rng = f.rng
        /\ fill_remaining = f.remaining
    BY DEF ShuffledSourceInit
  <2>3. /\ the_fill.filling = f.filling /\ the_fill.fill = f.fill
        /\ the_fill.rng = f.rng /\ the_fill.remaining = f.remaining
    BY <2>2 DEF the_fill
  <2> HIDE DEF f
  <2>4. Buffer(n, s, EmptySlots, 0, f, 0)
    BY <2>1 DEF f
  <2>5. Buffer(n, s, bank, playing, the_fill, built)
    BY <2>2, <2>3, <2>4 DEF Buffer
  <2> QED BY <2>2, <2>5 DEF BufferInv
<1> QED BY <1>1, <1>2

\* A load leaves what the initial state has.
LEMMA SourcesLoaded ==
  ASSUME NEW n \in Nat \ {0}, NEW s, IsStream(s), LoadSources(n, s)
  PROVE  AffineInv(n)' /\ BufferInv(n, s)'
<1>1. AffineInv(n)'
  <2>1. PICK d \in {derive_ab(s, n)} :
          /\ ab' = [a |-> d.a, b |-> d.b] /\ r' = d.b % n
          /\ countdown' = larger(1, d.draws + euclid_steps(d.a, n))
    BY DEF LoadSources, LoadAffine
  <2>2. /\ d.a \in 0 .. n - 1 /\ d.b \in 0 .. n - 1 /\ d.b % n \in 0 .. n - 1
        /\ larger(1, d.draws + euclid_steps(d.a, n)) \in Nat
    BY PairIsLoaded
  <2> QED BY <2>1, <2>2 DEF AffineInv
<1>2. BufferInv(n, s)'
  <2>1. PICK f \in {first_fill(n, s)} : PutFill(f)
    BY DEF LoadSources, LoadShuffledSource
  <2>2. /\ bank' = EmptySlots /\ playing' = 0 /\ built' = 0 /\ startup_done' = FALSE
    BY DEF LoadSources, LoadShuffledSource
  <2>3. /\ (the_fill.filling)' = f.filling /\ (the_fill.fill)' = f.fill
        /\ (the_fill.rng)' = f.rng /\ (the_fill.remaining)' = f.remaining
    BY <2>1 DEF the_fill, PutFill
  <2>4. Buffer(n, s, EmptySlots, 0, f, 0)
    BY FirstFill
  <2>5. Buffer(n, s, bank, playing, the_fill, built)'
    BY <2>2, <2>3, <2>4 DEF Buffer, EmptySlots
  <2> QED BY <2>2, <2>5 DEF BufferInv
<1> QED BY <1>1, <1>2

\* A boundary keeps the buffer whole, and no step but 0 is one.
LEMMA BoundaryKeepsTheBuffer ==
  ASSUME NEW n \in Nat \ {0}, NEW s, IsStream(s), NEW b,
         Buffer(n, s, bank, playing, the_fill, b), NEW p, p = start_pass(s, n)
  PROVE  Buffer(n, s, p.bank, p.playing, p.fill, b)
<1> DEFINE other == 1 - playing
           slots == [bank EXCEPT ![playing] = NoBank]
           f == fill_of(free_slot(slots, other), s, rng, n)
<1>0. /\ bank \in [0 .. 1 -> {NoBank} \cup Orders(n)] /\ playing \in 0 .. 1
      /\ the_fill.filling \in 0 .. 2
      /\ the_fill.filling # NoSlot => bank[the_fill.filling] = NoBank
      /\ b # 0 => bank[playing] # NoBank
      /\ b = 0 => bank = EmptySlots
      /\ the_fill.filling = filling /\ rng \in Positions(s)
  BY DEF Buffer, the_fill
<1>1. CASE bank[other] = NoBank
  <2>1. p.bank = bank /\ p.playing = playing /\ p.fill = the_fill
    BY <1>1 DEF start_pass
  <2> QED BY <2>1 DEF Buffer
<1>2. CASE bank[other] # NoBank
  <2>1. b # 0 /\ bank[playing] # NoBank
    BY <1>0, <1>2 DEF EmptySlots
  <2>2. filling = NoSlot
    <3>1. filling # other /\ filling # playing
      BY <1>0, <1>2, <2>1 DEF NoSlot
    <3> QED BY <1>0, <3>1 DEF NoSlot
  <2>3. p.bank = slots /\ p.playing = other /\ p.fill = f
    BY <1>2, <2>2 DEF start_pass
  <2>4. /\ slots \in [0 .. 1 -> {NoBank} \cup Orders(n)] /\ other \in 0 .. 1
        /\ slots[other] # NoBank /\ slots[playing] = NoBank
    BY <1>0, <1>2
  <2> DEFINE slot == free_slot(slots, other)
  <2>5. /\ slot \in 0 .. 2
        /\ slot # NoSlot => slots[slot] = NoBank
        /\ slot = NoSlot => \A i \in 0 .. 1 : slots[i] # NoBank
    <3> HIDE DEF slots
    <3> QED BY FreeSlotIsFree
  <2>6. /\ f.filling = slot /\ f.rng \in Positions(s) /\ f.remaining \in Nat
        /\ slot # NoSlot => f.fill \in Orders(n)
    <3> HIDE DEF slots
    <3> QED BY <1>0, <2>5, FillIsAnOrder
  <2> HIDE DEF f, slot, slots
  <2>7. Buffer(n, s, slots, other, f, b)
    BY <1>0, <2>1, <2>4, <2>5, <2>6 DEF Buffer
  <2> QED BY <2>3, <2>7
<1> QED BY <1>1, <1>2

\* The fill has its last word in this clock.
LastWord(f) == f.filling # NoSlot /\ f.remaining <= 1

\* A clock of the fill keeps the buffer whole; a bank that is completed is
\* counted.
LEMMA FillKeepsTheBuffer ==
  ASSUME NEW n \in Nat \ {0}, NEW s, IsStream(s), NEW slots, NEW plays, NEW f,
         NEW b, NEW next, Buffer(n, s, slots, plays, f, b), ~unservable(n),
         NEW filled, NEW c,
         filled = IF LastWord(f) THEN [slots EXCEPT ![f.filling] = f.fill] ELSE slots,
         c = IF LastWord(f) /\ b < LEAD THEN b + 1 ELSE b,
         next = IF LastWord(f) THEN fill_of(free_slot(filled, plays), s, f.rng, n)
                ELSE [f EXCEPT !.remaining = IF f.filling = NoSlot THEN 0 ELSE @ - 1],
         f = [filling |-> f.filling, fill |-> f.fill, rng |-> f.rng,
              remaining |-> f.remaining]
  PROVE  /\ Buffer(n, s, filled, plays, next, c)
         /\ b # 0 => filled[plays] = slots[plays]
<1>0. /\ slots \in [0 .. 1 -> {NoBank} \cup Orders(n)] /\ plays \in 0 .. 1
      /\ f.filling \in 0 .. 2 /\ f.rng \in Positions(s) /\ f.remaining \in Nat
      /\ f.filling # NoSlot => f.fill \in Orders(n) /\ slots[f.filling] = NoBank
      /\ (\E i \in 0 .. 1 : slots[i] = NoBank) => f.filling # NoSlot
      /\ b \in Nat
      /\ b = 0 => slots = EmptySlots /\ plays = 0 /\ f.filling = 0
      /\ b # 0 => slots[plays] # NoBank
  BY DEF Buffer
<1>1. CASE ~LastWord(f)
  <2>1. filled = slots /\ c = b
    BY <1>1
  <2>2. next = [filling |-> f.filling, fill |-> f.fill, rng |-> f.rng,
                remaining |-> IF f.filling = NoSlot THEN 0 ELSE f.remaining - 1]
    BY <1>1
  <2>3. /\ next.filling = f.filling /\ next.fill = f.fill /\ next.rng = f.rng
        /\ next.remaining = IF f.filling = NoSlot THEN 0 ELSE f.remaining - 1
    BY <2>2
  <2>4. next.remaining \in Nat
    BY <1>0, <1>1, <2>3 DEF LastWord
  <2> QED BY <1>0, <2>1, <2>3, <2>4 DEF Buffer
<1>2. CASE LastWord(f)
  <2>1. f.filling \in 0 .. 1 /\ f.fill \in Orders(n) /\ slots[f.filling] = NoBank
    BY <1>0, <1>2 DEF NoSlot, LastWord
  <2>2. filled = [slots EXCEPT ![f.filling] = f.fill]
    BY <1>2
  <2>3. /\ filled \in [0 .. 1 -> {NoBank} \cup Orders(n)]
        /\ filled[f.filling] = f.fill /\ f.fill # NoBank
        /\ \A i \in 0 .. 1 : i # f.filling => filled[i] = slots[i]
    BY <1>0, <2>1, <2>2, OrderIsABank
  <2>4. c \in Nat /\ c # 0
    BY <1>0, <1>2, SourcesAssumption
  <2> DEFINE slot == free_slot(filled, plays)
             g == fill_of(slot, s, f.rng, n)
  <2>5. /\ slot \in 0 .. 2
        /\ slot # NoSlot => filled[slot] = NoBank
        /\ slot = NoSlot => \A i \in 0 .. 1 : filled[i] # NoBank
    BY FreeSlotIsFree
  <2>6. /\ g.filling = slot /\ g.rng \in Positions(s) /\ g.remaining \in Nat
        /\ slot # NoSlot => g.fill \in Orders(n)
    <3> HIDE DEF slot
    <3> QED BY <1>0, <2>5, FillIsAnOrder
  <2>7. next = g
    BY <1>2
  <2> HIDE DEF g, slot
  <2>8. filled[plays] # NoBank
    BY <1>0, <2>1, <2>3
  <2>9. b # 0 => filled[plays] = slots[plays]
    BY <1>0, <2>1, <2>3
  <2> QED BY <1>0, <2>3, <2>4, <2>5, <2>6, <2>7, <2>8, <2>9 DEF Buffer
<1> QED BY <1>1, <1>2

(* A clock of the shuffled source keeps its buffer whole and leaves the    *)
(* bank that plays alone, unless a pass begins.                            *)
LEMMA ShuffledTicks ==
  ASSUME NEW n \in Nat \ {0}, NEW s, IsStream(s), NEW t, BufferInv(n, s),
         TickShuffled(n, s, t)
  PROVE  /\ BufferInv(n, s)'
         /\ startup_done => startup_done'
         /\ startup_done /\ t # 0 => bank'[playing'] = bank[playing]
<1>1. CASE unservable(n)
  <2>1. UNCHANGED shuffledSource
    BY <1>1 DEF TickShuffled
  <2> QED BY <2>1 DEF shuffledSource, BufferInv, Buffer, the_fill
<1>2. CASE ~unservable(n)
  <2> DEFINE p == IF pass_boundary(t) THEN start_pass(s, n) ELSE no_pass
             slots == IF LastWord(p.fill) THEN [p.bank EXCEPT ![p.fill.filling] = p.fill.fill]
                      ELSE p.bank
             c == IF LastWord(p.fill) /\ built < LEAD THEN built + 1 ELSE built
             f == IF LastWord(p.fill)
                  THEN fill_of(free_slot(slots, p.playing), s, p.fill.rng, n)
                  ELSE [p.fill EXCEPT !.remaining =
                          IF p.fill.filling = NoSlot THEN 0 ELSE @ - 1]
  <2>1. /\ playing' = p.playing /\ bank' = slots /\ built' = c
        /\ startup_done' = (startup_done \/ built' >= LEAD)
        /\ PutFill(f)
    BY <1>2 DEF TickShuffled, LastWord
  <2>2. Buffer(n, s, p.bank, p.playing, p.fill, built)
    <3>1. CASE pass_boundary(t)
      BY <3>1, BoundaryKeepsTheBuffer DEF BufferInv
    <3>2. CASE ~pass_boundary(t)
      BY <3>2 DEF BufferInv, no_pass
    <3> QED BY <3>1, <3>2
  <2>3. p.fill = [filling |-> p.fill.filling, fill |-> p.fill.fill,
                  rng |-> p.fill.rng, remaining |-> p.fill.remaining]
    BY DEF start_pass, no_pass, the_fill, fill_of, start_fill
  <2>4. t # 0 => p.bank = bank /\ p.playing = playing
    BY DEF pass_boundary, no_pass
  <2>5. /\ Buffer(n, s, slots, p.playing, f, c)
        /\ built # 0 => slots[p.playing] = p.bank[p.playing]
    <3> DEFINE q == p.fill
               u == p.playing
               v == p.bank
    <3> HIDE DEF p
    <3> QED BY <1>2, <2>2, <2>3, FillKeepsTheBuffer
  <2> HIDE DEF p, slots, f, c
  <2>6. /\ (the_fill.filling)' = f.filling /\ (the_fill.fill)' = f.fill
        /\ (the_fill.rng)' = f.rng /\ (the_fill.remaining)' = f.remaining
    BY <2>1 DEF the_fill, PutFill
  <2>7. Buffer(n, s, bank, playing, the_fill, built)'
    BY <2>1, <2>5, <2>6 DEF Buffer, EmptySlots
  <2>8. startup_done' \in BOOLEAN /\ (startup_done' => built' # 0)
        /\ (startup_done => startup_done')
    <3>1. c \in Nat /\ (built # 0 => c # 0)
      BY DEF Buffer, BufferInv, c
    <3> QED BY <2>1, <3>1, SourcesAssumption DEF BufferInv
  <2>9. startup_done /\ t # 0 => bank'[playing'] = bank[playing]
    BY <2>1, <2>4, <2>5 DEF BufferInv
  <2> QED BY <2>7, <2>8, <2>9 DEF BufferInv
<1> QED BY <1>1, <1>2

(* The golden affine source answers a column of the row.                   *)
LEMMA AffineAnswers ==
  ASSUME NEW n \in Nat \ {0}, AffineInv(n), NEW t
  PROVE  affine_answer(n, t) \in 0 .. n - 1
<1>1. \A x \in Int : x % n \in 0 .. n - 1
  BY DivMod
<1>2. ab.b % n \in 0 .. n - 1
  BY <1>1 DEF AffineInv
<1> QED BY <1>2 DEF affine_answer, AffineInv

(* A tick keeps the golden affine source in its row.                       *)
LEMMA AffineTicks ==
  ASSUME NEW n \in Nat \ {0}, AffineInv(n), NEW t, TickAffine(n, t)
  PROVE  AffineInv(n)'
<1>1. affine_answer(n, t) \in 0 .. n - 1
  BY AffineAnswers
<1>2. ab' = ab /\ countdown' \in Nat
  BY DEF TickAffine, AffineInv, larger
<1>3. r' \in {r, affine_answer(n, t)}
  BY DEF TickAffine, Accumulate
<1> QED BY <1>1, <1>2, <1>3 DEF AffineInv

-----------------------------------------------------------------------------
(* The inductive invariant of the golden window, action by action.         *)

\* What the mux presents in a pass of the identity or of the shuffled source.
the_order == IF sel = "identity" THEN identity_sequence(N) ELSE bank[playing]

\* The pass, or the START of this cycle, is one of those, and did not come with
\* a change of the selector, or has come to step 0 of its new source since.
Ordered == ~mixed /\ sel # "affine"

\* The shuffled source has its banks.
Answering == sel = "shuffled" => startup_done /\ ~unservable(N)

Served == Ordered => Answering

EngineInv ==
  /\ N \in Rows /\ seed \in Seeds /\ sel \in Selectors
  /\ valid \in BOOLEAN /\ moved \in BOOLEAN /\ aborted \in BOOLEAN
  /\ state \in {"IDLE", "RUN"} /\ tq \in Nat /\ seam_t \in Nat
  /\ visit => passing
  /\ aborted => ~passing
  /\ passing /\ ~moved => valid
  /\ passing /\ valid => tq \in 0 .. N - 1 /\ col \in 0 .. N - 1
  /\ passing /\ valid => seam_t = (tq + 1) % N
  /\ ~passing => seam_t = 0

PassInv ==
  /\ start_pulse => accessed /\ valid /\ ~passing /\ Served
  /\ passing /\ valid => Served
  /\ passing /\ valid /\ Ordered =>
       shown = IF tq = N - 1 THEN 0 .. N - 1 ELSE {the_order[k] : k \in 0 .. tq}
  /\ aborted_latch => aborted

WindowInv == EngineInv /\ AffineInv(N) /\ BufferInv(N, seed) /\ PassInv

(* A row of the window is never empty, and its seed is a stream.           *)
LEMMA RowsAndSeeds ==
  ASSUME EngineInv
  PROVE  N \in Nat \ {0} /\ IsStream(seed)
  BY WindowAssumption DEF EngineInv, IsStream

(* The step after the last of a row is its first.                          *)
LEMMA NextStepOfTheRow ==
  ASSUME NEW n \in Nat \ {0}, NEW t \in 0 .. n - 1
  PROVE  (t + 1) % n = IF t + 1 < n THEN t + 1 ELSE 0
<1>1. CASE t + 1 < n
  <2>1. t + 1 \in 0 .. n - 1 /\ t + 1 = n * 0 + (t + 1) /\ t + 1 \in Int
    BY <1>1
  <2> QED BY <2>1, <1>1, ModUnique
<1>2. CASE ~(t + 1 < n)
  <2>1. t + 1 \in Int /\ t + 1 = n * 1 + 0 /\ 0 \in 0 .. n - 1
    BY <1>2
  <2>2. \A a \in Int : a = n * 1 + 0 => a % n = 0
    BY <2>1, ModUnique
  <2> QED BY <2>1, <2>2, <1>2
<1> QED BY <1>1, <1>2

(* The window as it is made keeps WindowInv.                               *)
LEMMA WindowInvInit == WindowInit => WindowInv
<1> SUFFICES ASSUME WindowInit PROVE WindowInv
  OBVIOUS
<1>1. EngineInv
  BY DEF WindowInit, EngineInit, EngineInv, Selectors, passing
<1>2. AffineInv(N) /\ BufferInv(N, seed)
  <2>1. AffineSourceInit(N, seed) /\ ShuffledSourceInit(N, seed)
    BY DEF WindowInit
  <2> QED BY <1>1, <2>1, RowsAndSeeds, SourcesBorn
<1>3. PassInv
  BY DEF WindowInit, EngineInit, PassInv, passing
<1> QED BY <1>1, <1>2, <1>3 DEF WindowInv

(* A load of every source, whatever they held, leaves them in the row      *)
(* loaded.                                                                 *)
LEMMA LoadAllKeeps ==
  ASSUME NEW n \in Nat \ {0}, NEW s, IsStream(s), LoadAll(n, s)
  PROVE  AffineInv(n)' /\ BufferInv(n, s)'
  BY SourcesLoaded DEF LoadAll

(* An access that leaves the sources alone leaves what is known of them    *)
(* alone.                                                                  *)
LEMMA UnchangedSources ==
  ASSUME NEW n, NEW s, AffineInv(n), BufferInv(n, s), UNCHANGED sourceVars
  PROVE  AffineInv(n)' /\ BufferInv(n, s)' /\ startup_done' = startup_done
         /\ bank' = bank /\ playing' = playing
  BY DEF sourceVars, affineSource, shuffledSource, AffineInv, BufferInv, Buffer, the_fill

(* A write of OBS_CTRL keeps WindowInv: it may start, abort, or change the *)
(* source.                                                                 *)
LEMMA CtrlKeeps ==
  ASSUME WindowInv, NEW w \in CtrlWords, WriteCtrl(w)
  PROVE  WindowInv'
<1>0. w.start \in BOOLEAN /\ w.sel \in Selectors
  BY WindowAssumption DEF AllCtrlWords
<1>1. /\ UNCHANGED <<engineVars, N, valid, latchVars, seed, seam_t, shown, moved>>
      /\ start_pulse' = w.start /\ sel' = w.sel /\ accessed' = TRUE /\ ~refused(w)
      /\ mixed' = IF w.start THEN w.sel # sel ELSE mixed
  BY DEF WriteCtrl, Access
<1>2. EngineInv'
  BY <1>0, <1>1 DEF WindowInv, EngineInv, engineVars, passing
<1>3. AffineInv(N)' /\ BufferInv(N, seed)'
  <2>1. CASE w.sel # sel
    <3>1. LoadAll(N, seed)
      BY <2>1 DEF WriteCtrl
    <3> QED BY <3>1, <1>1, RowsAndSeeds, LoadAllKeeps DEF WindowInv
  <2>2. CASE w.sel = sel
    <3>1. UNCHANGED sourceVars
      BY <2>2 DEF WriteCtrl
    <3> QED BY <3>1, <1>1, UnchangedSources DEF WindowInv
  <2> QED BY <2>1, <2>2
<1>4. w.sel = sel => startup_done' = startup_done /\ bank' = bank /\ playing' = playing
  <2>1. w.sel = sel => UNCHANGED sourceVars
    BY DEF WriteCtrl
  <2> QED BY <2>1, UnchangedSources DEF WindowInv
<1>5. w.start => ~passing /\ valid /\ ready
  BY <1>1 DEF refused, start_acceptable
<1>6. passing => w.sel = sel /\ ~w.start
  BY <1>1, <1>5 DEF refused
<1>7. w.start => Served'
  <2> SUFFICES ASSUME w.start, Ordered', sel' = "shuffled"
               PROVE  startup_done' /\ ~unservable(N')
    BY DEF Served, Answering
  <2>1. w.sel = sel
    BY <1>1 DEF Ordered
  <2>2. shuffled_ready(N)
    BY <1>1, <1>5, <2>1 DEF ready, selected_ready
  <2> QED BY <1>1, <1>4, <2>1, <2>2 DEF shuffled_ready, unservable
<1>8. state' = state /\ (passing' <=> passing) /\ valid' = valid /\ N' = N
  BY <1>1 DEF engineVars, passing
<1>9. passing => (Served' <=> Served) /\ (Ordered' <=> Ordered) /\ the_order' = the_order
  BY <1>1, <1>4, <1>6 DEF Served, Answering, Ordered, the_order, unservable
<1>10. PassInv'
  <2>1. start_pulse' => accessed' /\ valid' /\ ~passing' /\ Served'
    BY <1>1, <1>5, <1>7, <1>8
  <2>2. passing' /\ valid' => Served'
    BY <1>8, <1>9 DEF WindowInv, PassInv
  <2>3. passing' /\ valid' /\ Ordered' =>
          shown' = IF tq' = N' - 1 THEN 0 .. N' - 1
                   ELSE {the_order'[k] : k \in 0 .. tq'}
    BY <1>1, <1>8, <1>9 DEF WindowInv, PassInv, engineVars
  <2>4. aborted_latch' => aborted'
    BY <1>1 DEF WindowInv, PassInv, latchVars, engineVars
  <2> QED BY <2>1, <2>2, <2>3, <2>4 DEF PassInv
<1> QED BY <1>2, <1>3, <1>10 DEF WindowInv

(* So does a write of OBS_SEED, which loads every source.                  *)
LEMMA SeedKeeps ==
  ASSUME WindowInv, NEW stream \in Seeds, WriteSeed(stream)
  PROVE  WindowInv'
<1>1. /\ UNCHANGED <<engineVars, N, valid, latchVars, pulseVars, sel, seam_t,
                     historyVars, moved>>
      /\ seed' = stream /\ ~passing /\ ~accessed /\ LoadAll(N, stream)
  BY DEF WriteSeed, Access
<1>2. EngineInv'
  BY <1>1 DEF WindowInv, EngineInv, engineVars, passing
<1>3. AffineInv(N)' /\ BufferInv(N, seed)'
  <2>1. N \in Nat \ {0} /\ IsStream(stream)
    BY RowsAndSeeds, WindowAssumption DEF WindowInv, IsStream
  <2> QED BY <2>1, <1>1, LoadAllKeeps
<1>4. PassInv'
  BY <1>1 DEF WindowInv, PassInv, engineVars, passing, pulseVars, latchVars
<1> QED BY <1>2, <1>3, <1>4 DEF WindowInv

(* So does a write that clears status bits.                                *)
LEMMA ClearKeeps ==
  ASSUME WindowInv, ClearStatus
  PROVE  WindowInv'
<1>1. /\ UNCHANGED <<engineVars, sourceVars, N, valid, pulseVars, sel, seed, seam_t,
                     historyVars, moved>>
      /\ accessed' = TRUE /\ (aborted_latch' => aborted_latch)
  BY DEF ClearStatus, Access
<1>2. EngineInv'
  BY <1>1 DEF WindowInv, EngineInv, engineVars, passing
<1>3. /\ AffineInv(N)' /\ BufferInv(N, seed)' /\ startup_done' = startup_done
      /\ bank' = bank /\ playing' = playing
  BY <1>1, UnchangedSources DEF WindowInv
<1>4. PassInv'
  <2>1. /\ (Served' <=> Served) /\ (Ordered' <=> Ordered) /\ the_order' = the_order
        /\ (passing' <=> passing) /\ (start_pulse' <=> start_pulse)
    BY <1>1, <1>3 DEF Served, Answering, Ordered, the_order, unservable, passing, engineVars,
                      pulseVars, historyVars
  <2> QED BY <1>1, <2>1 DEF WindowInv, PassInv, engineVars, historyVars
<1> QED BY <1>2, <1>3, <1>4 DEF WindowInv

(* So does a change of the context under the window.                       *)
LEMMA SidebandMovesKeeps ==
  ASSUME WindowInv, NEW n \in Rows, NEW v \in BOOLEAN, SidebandMoves(n, v)
  PROVE  WindowInv'
<1>1. /\ UNCHANGED <<engineVars, latchVars, pulseVars, sel, seed, seam_t,
                     accessed, historyVars>>
      /\ N' = n /\ valid' = v /\ moved' = TRUE /\ ~moved /\ ~accessed
      /\ <<n, v>> # <<N, valid>> /\ (n # N => ~v)
  BY DEF SidebandMoves
<1>2. passing => ~v
  BY <1>1 DEF WindowInv, EngineInv
<1>3. EngineInv'
  BY <1>1, <1>2 DEF WindowInv, EngineInv, engineVars, passing
<1>4. AffineInv(N)' /\ BufferInv(N, seed)'
  <2>1. CASE n # N
    <3>1. LoadAll(n, seed)
      BY <2>1 DEF SidebandMoves
    <3>2. n \in Nat \ {0} /\ IsStream(seed)
      BY RowsAndSeeds, WindowAssumption DEF WindowInv
    <3> QED BY <1>1, <3>1, <3>2, LoadAllKeeps
  <2>2. CASE n = N
    <3>1. UNCHANGED sourceVars
      BY <2>2 DEF SidebandMoves
    <3> QED BY <1>1, <2>2, <3>1, UnchangedSources DEF WindowInv
  <2> QED BY <2>1, <2>2
<1>5. PassInv'
  BY <1>1, <1>2 DEF WindowInv, PassInv, engineVars, passing, pulseVars, latchVars
<1> QED BY <1>3, <1>4, <1>5 DEF WindowInv

(* A pass that serves its order is asked for the column of its step, and   *)
(* always for one of the row.                                              *)
LEMMA MuxAnswers ==
  ASSUME WindowInv, ~passing \/ valid
  PROVE  /\ pi \in 0 .. N - 1
         /\ sel # "affine" /\ Answering =>
              the_order \in Orders(N) /\ pi = the_order[seam_t]
<1>1. N \in Nat \ {0} /\ seam_t \in 0 .. N - 1
  <2>1. N \in Nat \ {0}
    BY RowsAndSeeds DEF WindowInv
  <2>2. passing => seam_t \in 0 .. N - 1
    BY <2>1, NextStepOfTheRow DEF WindowInv, EngineInv
  <2> QED BY <2>1, <2>2 DEF WindowInv, EngineInv
<1>2. sel \in {"identity", "affine", "shuffled"}
  BY DEF WindowInv, EngineInv, Selectors
<1>3. /\ bank[playing] = NoBank \/ bank[playing] \in Orders(N)
      /\ startup_done => bank[playing] # NoBank
  BY DEF WindowInv, BufferInv, Buffer
<1>4. CASE sel = "identity"
  <2>1. pi = seam_t /\ the_order = identity_sequence(N)
    BY <1>4 DEF pi, the_order
  <2>2. identity_sequence(N) \in Orders(N) /\ identity_sequence(N)[seam_t] = seam_t
    BY <1>1 DEF identity_sequence, Orders
  <2> QED BY <1>1, <2>1, <2>2
<1>5. CASE sel = "affine"
  <2>1. affine_answer(N, seam_t) \in 0 .. N - 1
    BY <1>1, AffineAnswers DEF WindowInv
  <2> QED BY <1>5, <2>1 DEF pi
<1>6. CASE sel = "shuffled"
  <2>1. pi = IF bank[playing] = NoBank THEN 0 ELSE bank[playing][seam_t]
    BY <1>6 DEF pi, shuffled_answer, bank_read
  <2>2. bank[playing] \in Orders(N) => bank[playing][seam_t] \in 0 .. N - 1
    BY <1>1 DEF Orders
  <2>3. the_order = bank[playing]
    BY <1>6 DEF the_order
  <2> QED BY <1>1, <1>3, <1>6, <2>1, <2>2, <2>3 DEF Answering
<1> QED BY <1>2, <1>4, <1>5, <1>6

\* What a clock may do to the engine.
Ends == /\ state' = "IDLE" /\ ~visit' /\ tq' \in Nat /\ aborted' \in BOOLEAN

Begins == /\ start_pulse /\ ~passing /\ valid
          /\ state' = "RUN" /\ tq' = 0 /\ col' = pi /\ visit' /\ aborted' = FALSE

Advances == /\ passing /\ valid /\ state' = "RUN" /\ aborted' = aborted
            /\ tq' = next_t(N) /\ col' = pi /\ visit'

Holds == /\ passing /\ valid /\ state' = "RUN" /\ aborted' = aborted
         /\ tq' = tq /\ col' = col /\ ~visit'

(* A tick ends a pass, begins one, takes it a step further, or leaves it   *)
(* where it is.                                                            *)
LEMMA TickCases ==
  ASSUME WindowInv, Tick
  PROVE  Ends \/ Begins \/ Advances \/ Holds
<1>1. CASE reset_pulse
  <2>1. EdgeReset
    BY <1>1, Zenon DEF Tick
  <2> QED BY <2>1 DEF EdgeReset, Ends
<1>2. CASE ~reset_pulse
  <2> DEFINE asked == [t \in 0 .. N |-> pi]
  <2>0. N \in Nat \ {0} /\ tq \in Nat /\ aborted \in BOOLEAN
    BY RowsAndSeeds DEF WindowInv, EngineInv
  <2>1. asked[0] = pi /\ asked[next_t(N)] = pi
    <3>1. 0 \in 0 .. N /\ next_t(N) \in 0 .. N
      BY <2>0 DEF next_t
    <3> QED BY <3>1
  <2> HIDE DEF asked
  <2>2. Edge(start_pulse, step_pulse, oneshot, N, valid, asked)
    BY <1>2 DEF Tick, asked
  <2>3. CASE EdgeAbort(valid)
    BY <2>0, <2>3 DEF EdgeAbort, Ends
  <2>4. CASE EdgeStart(start_pulse, N, valid, asked)
    BY <2>1, <2>4 DEF EdgeStart, accepts_start, Begins, passing
  <2>5. CASE EdgeIdle(start_pulse, N, valid)
    BY <2>0, <2>5 DEF EdgeIdle, Ends
  <2>6. CASE EdgeComplete(step_pulse, oneshot, N, valid)
    BY <2>0, <2>6 DEF EdgeComplete, Ends
  <2>7. CASE EdgeTrigger(step_pulse, oneshot, N, valid, asked)
    BY <2>1, <2>7 DEF EdgeTrigger, accepts_trigger, Advances, passing
  <2>8. CASE EdgeHold(step_pulse, oneshot, N, valid)
    BY <2>8 DEF EdgeHold, Holds, passing
  <2> QED BY <2>2, <2>3, <2>4, <2>5, <2>6, <2>7, <2>8 DEF Edge
<1> QED BY <1>1, <1>2

(* A tick keeps the sources; once started they stay so, and inside a pass  *)
(* the bank in play stays as it is.                                        *)
LEMMA SourcesTick ==
  ASSUME WindowInv, Tick
  PROVE  /\ AffineInv(N)' /\ BufferInv(N, seed)'
         /\ startup_done => startup_done'
         /\ startup_done /\ seam_t' # 0 => bank'[playing'] = bank[playing]
<1>1. N \in Nat \ {0} /\ IsStream(seed) /\ AffineInv(N) /\ BufferInv(N, seed)
  BY RowsAndSeeds DEF WindowInv
<1>2. N' = N /\ seed' = seed
  BY DEF Tick
<1>3. TickAffine(N, seam_t') /\ TickShuffled(N, seed, seam_t')
  BY DEF Tick, TickSources
<1>4. AffineInv(N)'
  BY <1>1, <1>2, <1>3, AffineTicks
<1>5. /\ BufferInv(N, seed)'
      /\ startup_done => startup_done'
      /\ startup_done /\ seam_t' # 0 => bank'[playing'] = bank[playing]
  BY <1>1, <1>2, <1>3, ShuffledTicks
<1> QED BY <1>4, <1>5

(* A tick keeps the engine at a step and a column of the row.              *)
LEMMA TickKeepsEngine ==
  ASSUME WindowInv, Tick
  PROVE  EngineInv'
<1>1. /\ UNCHANGED <<N, valid, sel, seed>> /\ moved' = FALSE
      /\ seam_t' = IF state' = "RUN" THEN (tq' + 1) % N ELSE 0
  BY DEF Tick, seam_of
<1>2. /\ N \in Nat \ {0} /\ EngineInv
  BY RowsAndSeeds DEF WindowInv
<1>3. CASE Ends
  BY <1>1, <1>2, <1>3 DEF Ends, EngineInv, passing
<1>4. ASSUME state' = "RUN", valid, tq' \in 0 .. N - 1, col' \in 0 .. N - 1,
             aborted' = FALSE
      PROVE  EngineInv'
  <2>1. (tq' + 1) % N \in Nat
    <3>1. \A t \in 0 .. N - 1 : (t + 1) % N \in Nat
      BY <1>2, NextStepOfTheRow
    <3> QED BY <1>4, <3>1
  <2>2. seam_t' = (tq' + 1) % N /\ N' = N /\ valid' = valid
    BY <1>1, <1>4
  <2>3. tq' \in Nat /\ seam_t' \in Nat
    <3>1. tq' \in Nat
      BY <1>2, <1>4
    <3>2. seam_t' \in Nat
      BY <2>1, <2>2, Zenon
    <3> QED BY <3>1, <3>2
  <2>4. passing' /\ ~aborted' /\ aborted' \in BOOLEAN /\ state' \in {"IDLE", "RUN"}
    BY <1>4 DEF passing
  <2>5. N' \in Rows /\ seed' \in Seeds /\ sel' \in Selectors /\ valid' \in BOOLEAN
        /\ moved' \in BOOLEAN
    BY <1>1, <1>2 DEF EngineInv
  <2> QED BY <1>4, <2>2, <2>3, <2>4, <2>5 DEF EngineInv
<1>5. CASE Begins
  <2>1. pi \in 0 .. N - 1
    BY <1>5, MuxAnswers DEF Begins
  <2>2. state' = "RUN" /\ valid /\ tq' \in 0 .. N - 1 /\ col' \in 0 .. N - 1
        /\ aborted' = FALSE
    BY <1>2, <1>5, <2>1 DEF Begins
  <2> QED BY <1>4, <2>2
<1>6. CASE Advances
  <2>1. pi \in 0 .. N - 1
    BY <1>6, MuxAnswers DEF Advances
  <2>2. next_t(N) \in 0 .. N - 1
    BY <1>2, <1>6 DEF next_t, Advances, EngineInv
  <2> QED BY <1>2, <1>4, <1>6, <2>1, <2>2 DEF Advances, EngineInv
<1>7. CASE Holds
  BY <1>2, <1>4, <1>7 DEF Holds, EngineInv
<1> QED BY <1>3, <1>5, <1>6, <1>7, TickCases

(* A tick shows the next column of the order in play, or begins, ends or   *)
(* loses the pass.                                                         *)
LEMMA TickKeepsPass ==
  ASSUME WindowInv, Tick
  PROVE  PassInv'
<1>1. /\ UNCHANGED <<N, valid, sel, seed>> /\ start_pulse' = FALSE
      /\ mixed' = (mixed /\ ~(visit' /\ tq' = 0 /\ selected_ready))
      /\ seam_t' = IF state' = "RUN" THEN (tq' + 1) % N ELSE 0
      /\ shown' = IF ~(state' = "RUN") THEN {}
                  ELSE IF visit' THEN (IF tq' = 0 THEN {} ELSE shown) \cup {col'}
                  ELSE shown
  BY DEF Tick, seam_of
<1>2. N \in Nat \ {0} /\ EngineInv /\ PassInv
  BY RowsAndSeeds DEF WindowInv
<1>3. startup_done => startup_done'
  BY SourcesTick
<1>4. /\ Ordered' => sel # "affine"
      /\ Answering => Answering'
      /\ Ordered' => Ordered \/ (visit' /\ tq' = 0 /\ Answering)
  <2>1. selected_ready => Answering
    BY DEF selected_ready, Answering, shuffled_ready
  <2>2. mixed' = (mixed /\ ~(visit' /\ tq' = 0 /\ selected_ready)) /\ sel' = sel
    BY <1>1
  <2>3. Answering => Answering'
    BY <1>1, <1>3 DEF Answering, unservable
  <2> QED BY <2>1, <2>2, <2>3 DEF Ordered
<1>5. sel # "affine" /\ Answering /\ seam_t' # 0 => the_order' = the_order
  <2>1. seam_t' # 0 /\ startup_done => bank'[playing'] = bank[playing]
    BY SourcesTick
  <2>2. sel # "affine" /\ Answering => sel = "identity" \/ startup_done
    BY <1>2 DEF Answering, EngineInv, Selectors
  <2> QED BY <1>1, <2>1, <2>2 DEF the_order
<1>6. aborted_latch' => aborted'
  <2>1. aborted_latch' = latched_abort(aborted_latch, aborted, aborted', reset_pulse)
    BY DEF Tick
  <2>2. aborted_latch => aborted
    BY <1>2 DEF PassInv
  <2>3. latched_abort(aborted_latch, aborted, aborted', reset_pulse) => aborted'
    <3>1. CASE aborted = aborted'
      BY <2>2, <3>1, Zenon DEF latched_abort
    <3>2. CASE aborted # aborted'
      BY <3>2, Zenon DEF latched_abort
    <3> QED BY <3>1, <3>2
  <2> QED BY <2>1, <2>3
<1>7. state' = "RUN" => valid /\ Served
  BY <1>2, TickCases DEF Ends, Begins, Advances, Holds, PassInv
<1>8. \A t \in 0 .. N - 1 : t # N - 1 => (t + 1) % N = t + 1
  BY <1>2, NextStepOfTheRow
<1>9. ASSUME state' = "RUN", Ordered'
      PROVE  shown' = IF tq' = N - 1 THEN 0 .. N - 1 ELSE {the_order'[k] : k \in 0 .. tq'}
  <2> DEFINE o == the_order
  <2>1. valid /\ Answering /\ sel # "affine" /\ (tq' \in 0 .. N - 1)
    BY <1>1, <1>4, <1>7, <1>9, TickKeepsEngine DEF EngineInv, passing, Served
  <2>2. tq' # N - 1 => the_order' = the_order
    <3>1. tq' # N - 1 => (tq' + 1) % N = tq' + 1
      BY <1>8, <2>1
    <3>0. seam_t' = (tq' + 1) % N
      BY <1>1, <1>9
    <3>2. tq' # N - 1 => seam_t' # 0
      <4>1. tq' + 1 # 0
        <5>1. N \in Nat /\ tq' \in 0 .. N - 1
          BY <1>2, <2>1
        <5>2. \A t \in 0 .. N - 1 : t + 1 # 0
          OBVIOUS
        <5> QED BY <5>1, <5>2
      <4> QED BY <3>0, <3>1, <4>1, Zenon
    <3> QED BY <1>5, <1>9, <2>1, <3>2
  <2>3. the_order \in Orders(N) /\ pi = the_order[seam_t]
    BY <1>9, <2>1, MuxAnswers
  <2>4. {o[k] : k \in 0 .. N - 1} = 0 .. N - 1 /\ o \in [0 .. N - 1 -> 0 .. N - 1]
    BY <2>3 DEF Orders
  <2> HIDE DEF o
  <2>5. ASSUME shown' = {o[k] : k \in 0 .. tq'}
        PROVE  shown' = IF tq' = N - 1 THEN 0 .. N - 1
                        ELSE {the_order'[k] : k \in 0 .. tq'}
    <3>1. CASE tq' = N - 1
      BY <3>1, <2>4, <2>5
    <3>2. CASE tq' # N - 1
      BY <3>2, <2>2, <2>5 DEF o
    <3> QED BY <3>1, <3>2
  <2>6. ASSUME tq' = 0, col' = pi, visit', seam_t = 0
        PROVE  shown' = {o[k] : k \in 0 .. tq'}
    <3>1. shown' = {pi}
      BY <1>1, <1>9, <2>6
    <3>2. pi = o[0]
      BY <2>3, <2>6 DEF o
    <3>3. {o[k] : k \in 0 .. tq'} = {o[0]}
      BY <2>6
    <3> QED BY <3>1, <3>2, <3>3
  <2>7. CASE Begins
    <3>1. seam_t = 0
      BY <1>2, <2>7 DEF Begins, EngineInv
    <3> QED BY <2>5, <2>6, <2>7, <3>1 DEF Begins
  <2>8. CASE Advances
    <3>0. tq \in 0 .. N - 1 /\ seam_t = (tq + 1) % N
      BY <1>2, <2>8 DEF Advances, EngineInv
    <3>1. CASE tq = N - 1
      <4>1. tq' = 0 /\ seam_t = 0
        BY <1>2, <2>8, <3>0, <3>1, NextStepOfTheRow DEF Advances, next_t
      <4> QED BY <2>5, <2>6, <2>8, <4>1 DEF Advances
    <3>2. CASE tq # N - 1
      <4>1. tq' = tq + 1 /\ seam_t = tq + 1
        BY <1>2, <1>8, <2>8, <3>0, <3>2 DEF Advances, next_t
      <4>0. Ordered
        <5>1. tq' # 0
          BY <3>0, <4>1
        <5> QED BY <1>4, <1>9, <5>1
      <4>2. shown = {o[k] : k \in 0 .. tq}
        BY <1>2, <2>8, <3>2, <4>0 DEF Advances, PassInv, o
      <4>3. shown' = shown \cup {o[tq + 1]}
        BY <1>1, <1>9, <2>3, <2>8, <3>0, <4>1 DEF Advances, o
      <4>4. shown' = {o[k] : k \in 0 .. tq'}
        BY <3>0, <4>1, <4>2, <4>3
      <4> QED BY <2>5, <4>4
    <3> QED BY <3>1, <3>2
  <2>9. CASE Holds
    <3>1. shown' = shown /\ tq' = tq
      BY <1>1, <1>9, <2>9 DEF Holds
    <3>0. Ordered
      BY <1>4, <1>9, <2>9 DEF Holds
    <3>2. shown = IF tq = N - 1 THEN 0 .. N - 1 ELSE {o[k] : k \in 0 .. tq}
      BY <1>2, <2>9, <3>0 DEF Holds, PassInv, o
    <3> QED BY <2>2, <3>1, <3>2 DEF o
  <2> QED BY <1>9, <2>7, <2>8, <2>9, TickCases DEF Ends
<1>10. state' = "RUN" => valid' /\ Served'
  BY <1>1, <1>4, <1>7 DEF Served
<1> QED BY <1>1, <1>6, <1>9, <1>10 DEF PassInv, passing

(* The golden window keeps WindowInv: engine, sources, latches and the     *)
(* order of the pass, under any accesses, ticks and changes of the         *)
(* context.                                                                *)
THEOREM WindowInvAlways == WindowSpec => []WindowInv
<1>1. WindowInit => WindowInv
  BY WindowInvInit
<1>2. WindowInv /\ [WindowNext]_windowVars => WindowInv'
  <2> SUFFICES ASSUME WindowInv, [WindowNext]_windowVars PROVE WindowInv'
    OBVIOUS
  <2>1. ASSUME NEW w \in CtrlWords, WriteCtrl(w) PROVE WindowInv'
    BY <2>1, CtrlKeeps
  <2>2. ASSUME NEW stream \in Seeds, WriteSeed(stream) PROVE WindowInv'
    BY <2>2, SeedKeeps
  <2>3. CASE ClearStatus
    BY <2>3, ClearKeeps
  <2>4. ASSUME NEW n \in Rows, NEW v \in BOOLEAN, SidebandMoves(n, v)
        PROVE  WindowInv'
    BY <2>4, SidebandMovesKeeps
  <2>5. CASE Tick
    BY <2>5, SourcesTick, TickKeepsEngine, TickKeepsPass DEF WindowInv
  <2>6. CASE UNCHANGED windowVars
    <3>1. AffineInv(N)' /\ BufferInv(N, seed)'
      BY <2>6, UnchangedSources DEF windowVars, WindowInv
    <3>2. EngineInv'
      BY <2>6 DEF windowVars, WindowInv, EngineInv, engineVars, passing
    <3>3. PassInv'
      BY <2>6 DEF windowVars, WindowInv, PassInv, engineVars, passing, pulseVars,
                  latchVars, historyVars, Served, Answering, Ordered, the_order, unservable,
                  sourceVars, shuffledSource
    <3> QED BY <3>1, <3>2, <3>3 DEF WindowInv
  <2> QED BY <2>1, <2>2, <2>3, <2>4, <2>5, <2>6 DEF WindowNext
<1> QED BY <1>1, <1>2, PTL DEF WindowSpec

(* O1 through the window, for the identity and the shuffled source: a pass *)
(* that ends has shown every column of the row once, whatever was written, *)
(* loaded or filled while it ran.  A START that changed the selector owes  *)
(* it from the first step 0 at which the new source is ready.              *)
THEOREM WindowPassIsPermutation == WindowSpec => []PassIsPermutation
<1>1. WindowInv => PassIsPermutation
  <2> SUFFICES ASSUME WindowInv, outputs(N, valid).done, ~mixed, sel # "affine"
               PROVE  shown = 0 .. N - 1
    BY DEF PassIsPermutation
  <2>1. visit /\ valid /\ tq = N - 1
    BY DEF outputs
  <2> QED BY <2>1 DEF WindowInv, EngineInv, PassInv, Ordered
<1> QED BY <1>1, WindowInvAlways, PTL

(* What the registers and the buffer of the window promise in every cycle. *)
THEOREM WindowKeepsItsContract == WindowSpec => []WindowContract
<1>1. WindowInv => WindowContract
  <2> SUFFICES ASSUME WindowInv PROVE WindowContract
    OBVIOUS
  <2>1. /\ Buffer(N, seed, bank, playing, the_fill, built)
        /\ the_fill.filling = filling /\ the_fill.rng = rng
        /\ the_fill.remaining = fill_remaining
    BY DEF WindowInv, BufferInv, the_fill
  <2>2. WindowTypeOK
    <3>1. \A p \in Orders(N) : p \in [0 .. N - 1 -> 0 .. N - 1]
      BY DEF Orders
    <3>2. bank \in [0 .. 1 -> {NoBank} \cup Orders(N)]
      BY <2>1 DEF Buffer
    <3>3. bank \in [0 .. 1 -> {NoBank} \cup [0 .. N - 1 -> 0 .. N - 1]]
      BY <3>1, <3>2
    <3>4. filling \in 0 .. 2 /\ fill_remaining \in Nat /\ rng \in 0 .. Len(seed) - 1
      BY <2>1 DEF Buffer, Positions
    <3> QED BY <3>3, <3>4 DEF WindowTypeOK, WindowInv, EngineInv, AffineInv
  <2>3. FillIsApart
    <3>1. filling # NoSlot => bank[filling] = NoBank
      BY <2>1 DEF Buffer
    <3>2. startup_done => bank[playing] # NoBank
      BY DEF WindowInv, BufferInv, Buffer
    <3>3. playing \in 0 .. 1
      BY <2>1 DEF Buffer
    <3>4. passing /\ valid /\ sel = "shuffled" /\ ~mixed => startup_done
      BY DEF WindowInv, PassInv, Served, Answering, Ordered
    <3> QED BY <3>1, <3>2, <3>3, <3>4 DEF FillIsApart, NoSlot
  <2>4. NoIdleSlot
    BY <2>1 DEF NoIdleSlot, Buffer
  <2>5. AbortedIsOfNow
    BY DEF AbortedIsOfNow, WindowInv, PassInv, EngineInv
  <2> QED BY <2>2, <2>3, <2>4, <2>5 DEF WindowContract
<1> QED BY <1>1, WindowInvAlways, PTL
=============================================================================
