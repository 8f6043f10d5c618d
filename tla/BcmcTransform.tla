--------------------------- MODULE BcmcTransform ---------------------------
(***************************************************************************)
(* What the register map promises a driver, without clocks: a context      *)
(* (N, C and the weights) that may be programmed whenever no transform is  *)
(* under way, a transform that replaces the answers as one event, and an   *)
(* interrupt that stays until it is acknowledged.  BcmcWb implements it.   *)
(***************************************************************************)
EXTENDS BcmcArith

CONSTANTS Lanes, Idx

VARIABLES
  N, C, W,        \* the programmed context
  status,         \* "invalid", "busy" or "valid"
  offsets,        \* the answers of a valid context, all 0 while there are none
  irq

absVars == <<N, C, W, status, offsets, irq>>

NoAnswers == [i \in Lanes |-> 0]

AbsInit ==
  /\ N = 0 /\ C = 0 /\ W = [i \in Lanes |-> 0]
  /\ status = "invalid" /\ offsets = NoAnswers /\ irq = FALSE

\* Software changes one part of the context, and the answers are gone.
Program ==
  /\ status # "busy"
  /\ \/ N' \in Val /\ UNCHANGED <<C, W>>
     \/ C' \in Idx /\ UNCHANGED <<N, W>>
     \/ /\ \E i \in Lanes, w \in Val : W' = [W EXCEPT ![i] = w]
        /\ UNCHANGED <<N, C>>
  /\ status' = "invalid" /\ offsets' = NoAnswers
  /\ UNCHANGED irq

\* START.
Begin ==
  /\ status # "busy"
  /\ status' = "busy" /\ offsets' = NoAnswers
  /\ UNCHANGED <<N, C, W, irq>>

\* The transform of the context ends: VALID and IRQ rise with the answers.
Complete ==
  /\ status = "busy"
  /\ status' = "valid" /\ irq' = TRUE
  /\ offsets' \in [Lanes -> Val]
  /\ IsTransform(offsets', Lanes, N, C, W)
  /\ UNCHANGED <<N, C, W>>

\* STATUS.IRQ written 1.
AcknowledgeIrq == irq' = FALSE /\ UNCHANGED <<N, C, W, status, offsets>>

AbsReset ==
  /\ N' = 0 /\ C' = 0 /\ W' = [i \in Lanes |-> 0]
  /\ status' = "invalid" /\ offsets' = NoAnswers /\ irq' = FALSE

AbsNext == Program \/ Begin \/ Complete \/ AcknowledgeIrq \/ AbsReset

AbsSpec == AbsInit /\ [][AbsNext]_absVars
=============================================================================
