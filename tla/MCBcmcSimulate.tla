--------------------------- MODULE MCBcmcSimulate ---------------------------
(* The run of BcmcSimulate: two lanes, rows of 0, 1 and 3 columns.         *)
EXTENDS BcmcSimulate

MCLanes == 0 .. 1
MCContexts ==
  {<<n, c, [i \in MCLanes |-> w[i + 1]]>> :
     n \in {0, 1, 3}, c \in 1 .. 2, w \in {<<1, 0>>, <<1, 1>>}}
  \cup {<<3, 2, [i \in MCLanes |-> 2]>>}

MCSources(n) ==
  IF n = 0 THEN {[t \in 0 .. 3 |-> 0]}
  ELSE {[t \in 0 .. 3 |-> (a * t + b) % n] : <<a, b>> \in {<<1, 0>>, <<2, 1>>}}
=============================================================================
