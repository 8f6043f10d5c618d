---------------------------- MODULE BcmcSimulate ----------------------------
(***************************************************************************)
(* The accounting of simulate() in validation/observer_hw.py, over any run *)
(* of the attached pairs: what the golden engine accepted, what it         *)
(* presented, and what it suppressed because the context was gone.  The    *)
(* counters are kept as their balance, so that a run may have any length.  *)
(***************************************************************************)
EXTENDS BcmcAttached, Integers

VARIABLES
  scheduled,      \* requests accepted less visits presented and suppressed
  suppressed      \* visits suppressed since VALID fell last

simulateVars == <<vars, scheduled, suppressed>>

SimulateInit == Init /\ scheduled = 0 /\ suppressed = 0

now == outputs(N, valid)

\* One cycle's entry in the SimResult: outputs are read before the edge.
Observe(accepted) ==
  LET visited == IF now.visit_valid THEN 1 ELSE 0
      lost == IF now.scheduled /\ ~now.visit_valid THEN 1 ELSE 0
  IN  /\ scheduled' = scheduled + accepted - visited - lost
      /\ suppressed' = IF valid /\ ~valid' THEN 0 ELSE suppressed + lost

Cycle(start, trigger) ==
  /\ AttachedCycle(start, trigger)
  /\ Observe(IF \/ accepts_start(start, N, valid)
                \/ accepts_trigger(trigger, oneshot, N, valid)
             THEN 1 ELSE 0)

ResetCycle == AttachedReset /\ Observe(0)

SimulateNext ==
  \/ \E start, trigger \in BOOLEAN : Cycle(start, trigger)
  \/ ResetCycle

SimulateSpec == SimulateInit /\ [][SimulateNext]_simulateVars

-----------------------------------------------------------------------------
\* The corrected conservation of simulate()'s docstring: every request that the
\* engine accepted is presented, was suppressed, or is due in this cycle, and an
\* invalidation loses one visit at most, also when the context comes and goes
\* in consecutive cycles.
Conservation ==
  /\ scheduled = IF visit THEN 1 ELSE 0
  /\ suppressed <= 1
=============================================================================
