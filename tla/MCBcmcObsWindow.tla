-------------------------- MODULE MCBcmcObsWindow --------------------------
(* The run of BcmcObsWindow: one seed, a periodic stream of words.         *)
EXTENDS BcmcObsWindow

MCSeeds == {<<3, 0, 2, 1, 1>>}

Ctrl(cmd, once, which) ==
  [start |-> cmd = "start", step |-> cmd = "step", reset |-> cmd = "reset",
   oneshot |-> once, sel |-> which]

\* Every command to the shuffled source, passes of the identity in both modes,
\* and the affine source to change from and to.
MCWords ==
  {Ctrl(cmd, FALSE, "shuffled") : cmd \in {"none", "start", "step", "reset"}}
    \cup {Ctrl("start", TRUE, "identity"), Ctrl("start", FALSE, "identity"),
          Ctrl("step", FALSE, "identity"), Ctrl("none", FALSE, "affine")}
=============================================================================
