----------------------------- MODULE MCBcmcScan -----------------------------
(* The contexts of the runs of BcmcScan: two lanes, rows of up to 3.       *)
EXTENDS BcmcScan

MCLanes == 0 .. 1
MCWeights == {<<0, 0>>, <<2, 0>>, <<2, 3>>}
Programmed(w) == [i \in MCLanes |-> w[i + 1]]

\* The reset context, the way out of it (weights first), and rows of length 0,
\* 1 and 3 of one or two lanes; with C = 1 the lane above C may hold a weight.
MCContexts ==
  {<<0, 0, Programmed(w)>> : w \in MCWeights}
    \cup {<<n, c, Programmed(w)>> :
            n \in {0, 1, 3}, c \in 1 .. 2, w \in MCWeights \ {<<0, 0>>}}
=============================================================================
