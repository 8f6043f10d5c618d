----------------------------- MODULE BcmcEngine -----------------------------
(***************************************************************************)
(* validation/observer_hw.py: SequentialEngine, the golden model of the    *)
(* traversal engine.  The registers of the Python object are variables, a  *)
(* method call that changes them is an action, and the attributes that     *)
(* others set (N, oneshot, source) are parameters.  The wrap compares      *)
(* tq + 1 with N, where the hardware compares tq with N - 1.               *)
(***************************************************************************)
EXTENDS Integers

VARIABLES
  state,          \* "IDLE" or "RUN"
  tq, col,        \* the cursor and the column it names
  visit,          \* a visit is scheduled for this cycle
  aborted         \* an invalid context ended the last pass

engineVars == <<state, tq, col, visit, aborted>>

EngineInit ==
  /\ state = "IDLE" /\ tq = 0 /\ col = 0
  /\ visit = FALSE /\ aborted = FALSE

\* outputs(valid): what a reader of this cycle sees.
outputs(N, valid) ==
  LET vv == visit /\ valid
  IN  [running     |-> state = "RUN",
       scheduled   |-> visit,
       column      |-> col,
       visit_valid |-> vv,
       done        |-> vv /\ N >= 1 /\ tq = N - 1,
       aborted     |-> aborted]

\* What edge() will decide, in its order of precedence.
aborts(valid) == state = "RUN" /\ ~valid
accepts_start(start, N, valid) == state = "IDLE" /\ start /\ valid /\ N >= 1
completes(oneshot, N) == visit /\ tq = N - 1 /\ oneshot

\* Mutant of accepts_trigger: a trigger goes before the end of a one-shot pass.
accepts_trigger_first(trigger, oneshot, N, valid) ==
  state = "RUN" /\ valid /\ trigger

accepts_trigger(trigger, oneshot, N, valid) ==
  state = "RUN" /\ valid /\ ~completes(oneshot, N) /\ trigger

next_t(N) == IF tq + 1 < N THEN tq + 1 ELSE 0

-----------------------------------------------------------------------------
EdgeReset ==
  /\ state' = "IDLE" /\ tq' = 0 /\ col' = 0
  /\ visit' = FALSE /\ aborted' = FALSE

\* Mutant of EdgeAbort: the scheduled visit outlives the pass.
EdgeAbortScheduled(valid) ==
  /\ aborts(valid)
  /\ state' = "IDLE" /\ aborted' = TRUE
  /\ UNCHANGED <<tq, col, visit>>

EdgeAbort(valid) ==
  /\ aborts(valid)
  /\ state' = "IDLE" /\ visit' = FALSE /\ aborted' = TRUE
  /\ UNCHANGED <<tq, col>>

EdgeStart(start, N, valid, source) ==
  /\ accepts_start(start, N, valid)
  /\ state' = "RUN" /\ tq' = 0 /\ col' = source[0]
  /\ visit' = TRUE /\ aborted' = FALSE

EdgeIdle(start, N, valid) ==
  /\ state = "IDLE" /\ ~accepts_start(start, N, valid)
  /\ visit' = FALSE
  /\ UNCHANGED <<state, tq, col, aborted>>

EdgeComplete(trigger, oneshot, N, valid) ==
  /\ state = "RUN" /\ valid /\ completes(oneshot, N)
  /\ ~accepts_trigger(trigger, oneshot, N, valid)
  /\ state' = "IDLE" /\ visit' = FALSE
  /\ UNCHANGED <<tq, col, aborted>>

EdgeTrigger(trigger, oneshot, N, valid, source) ==
  /\ accepts_trigger(trigger, oneshot, N, valid)
  /\ tq' = next_t(N) /\ col' = source[next_t(N)] /\ visit' = TRUE
  /\ UNCHANGED <<state, aborted>>

EdgeHold(trigger, oneshot, N, valid) ==
  /\ state = "RUN" /\ valid /\ ~completes(oneshot, N)
  /\ ~accepts_trigger(trigger, oneshot, N, valid)
  /\ visit' = FALSE
  /\ UNCHANGED <<state, tq, col, aborted>>

\* edge() without rst; source is a function of the step, as set_source takes.
Edge(start, trigger, oneshot, N, valid, source) ==
  \/ EdgeAbort(valid)
  \/ EdgeStart(start, N, valid, source)
  \/ EdgeIdle(start, N, valid)
  \/ EdgeComplete(trigger, oneshot, N, valid)
  \/ EdgeTrigger(trigger, oneshot, N, valid, source)
  \/ EdgeHold(trigger, oneshot, N, valid)
=============================================================================
