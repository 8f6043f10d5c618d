---------------------------- MODULE BcmcObserver ----------------------------
(***************************************************************************)
(* rtl/bcmc_observer.v: the traversal engine.  A pass asks a traversal     *)
(* source for one column per trigger and presents it for one clock; the    *)
(* peripheral's sideband (N and VALID) decides whether a pass may begin    *)
(* and whether it may go on.  Each action is one branch of the clocked     *)
(* block, in its order of precedence, with the inputs as parameters.       *)
(***************************************************************************)
EXTENDS BcmcArith

VARIABLES
  running,        \* state_q = STATE_RUN
  t_q,            \* the cursor
  col_q,          \* the presented column, pi(t_q)
  visit_q,        \* a visit is due in this clock
  aborted_q       \* sticky until the next accepted start

observerVars == <<running, t_q, col_q, visit_q, aborted_q>>

ObserverTypeOK ==
  /\ running \in BOOLEAN /\ visit_q \in BOOLEAN /\ aborted_q \in BOOLEAN
  /\ t_q \in Val /\ col_q \in Val

ObserverInit ==
  /\ running = FALSE /\ visit_q = FALSE /\ aborted_q = FALSE
  /\ t_q = 0 /\ col_q = 0

last(n) == (n - 1) % ValRange
last_now(n) == t_q = last(n)

\* Mutant of t_next: the arms of the select swapped.
t_next_swapped(n) == IF last_now(n) THEN (t_q + 1) % ValRange ELSE 0

t_next(n) == IF last_now(n) THEN 0 ELSE (t_q + 1) % ValRange

\* Mutant of ts_t: the next step is asked about in IDLE as well.
ts_t_always_next(n) == t_next(n)

\* The step asked of the source: 0 while there is no pass.
ts_t(n) == IF running THEN t_next(n) ELSE 0

\* Mutant of visit_valid: the gate of VALID is missing.
visit_valid_ungated(valid) == visit_q

visit_valid(valid) == visit_q /\ valid
pass_done(n, valid) == visit_valid(valid) /\ last_now(n)

-----------------------------------------------------------------------------
\* Mutant of AbortPass: an abort between two visits leaves no record.
AbortPassUnrecorded(valid) ==
  /\ running /\ ~valid
  /\ running' = FALSE /\ visit_q' = FALSE /\ aborted_q' = visit_q
  /\ UNCHANGED <<t_q, col_q>>

\* Mutant of AbortPass: only a pass with a visit to show is ended.
AbortPassAtVisit(valid) ==
  /\ running /\ ~valid
  /\ running' = ~visit_q /\ visit_q' = FALSE /\ aborted_q' = visit_q
  /\ UNCHANGED <<t_q, col_q>>

\* The context is gone: the pass ends, and the fact is recorded.
AbortPass(valid) ==
  /\ running /\ ~valid
  /\ running' = FALSE /\ visit_q' = FALSE /\ aborted_q' = TRUE
  /\ UNCHANGED <<t_q, col_q>>

\* An accepted start presents pi(0) in the next clock.
StartPass(start, n, valid, pi) ==
  /\ ~running /\ start /\ valid /\ n # 0
  /\ running' = TRUE /\ t_q' = 0 /\ col_q' = pi
  /\ visit_q' = TRUE /\ aborted_q' = FALSE

NoPass(start, n, valid) ==
  /\ ~running /\ ~(start /\ valid /\ n # 0)
  /\ visit_q' = FALSE
  /\ UNCHANGED <<running, t_q, col_q, aborted_q>>

\* A one-shot pass ends with its last visit, whatever the trigger.
EndPass(oneshot, n, valid) ==
  /\ running /\ valid /\ visit_q /\ last_now(n) /\ oneshot
  /\ running' = FALSE /\ visit_q' = FALSE
  /\ UNCHANGED <<t_q, col_q, aborted_q>>

Advance(trigger, oneshot, n, valid, pi) ==
  /\ running /\ valid /\ ~(visit_q /\ last_now(n) /\ oneshot) /\ trigger
  /\ t_q' = t_next(n) /\ col_q' = pi /\ visit_q' = TRUE
  /\ UNCHANGED <<running, aborted_q>>

\* No trigger: the strobe of the visit is one clock wide.
HoldPass(trigger, oneshot, n, valid) ==
  /\ running /\ valid /\ ~(visit_q /\ last_now(n) /\ oneshot) /\ ~trigger
  /\ visit_q' = FALSE
  /\ UNCHANGED <<running, t_q, col_q, aborted_q>>

\* One rising edge; pi is the source's answer for ts_t(n) in this clock.
ObserverEdge(start, trigger, oneshot, n, valid, pi) ==
  \/ AbortPass(valid)
  \/ StartPass(start, n, valid, pi)
  \/ NoPass(start, n, valid)
  \/ EndPass(oneshot, n, valid)
  \/ Advance(trigger, oneshot, n, valid, pi)
  \/ HoldPass(trigger, oneshot, n, valid)

ResetObserver ==
  /\ running' = FALSE /\ visit_q' = FALSE /\ aborted_q' = FALSE
  /\ t_q' = 0 /\ col_q' = 0
=============================================================================
