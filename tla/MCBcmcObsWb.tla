----------------------------- MODULE MCBcmcObsWb -----------------------------
(* The inputs of the runs of BcmcObsWb.                                    *)
EXTENDS BcmcObsWb

\* For the row 3: a word that is not coprime first, so that a is drawn again.
MCRedrawSeed == {<<0, 2, 2, 1>>}

\* Two streams whose pairs differ.
MCTwoSeeds == {<<2, 0, 1>>, <<1, 0>>}

Ctrl(cmd, once, which) ==
  [start |-> cmd = "start", step |-> cmd = "step", reset |-> cmd = "reset",
   oneshot |-> once, sel |-> which]

\* Every command with every selector in continuous mode, a one-shot START, and
\* START together with RESET.
MCWords ==
  {Ctrl(cmd, FALSE, which) : cmd \in {"none", "start", "step", "reset"},
                           which \in {"identity", "affine"}}
    \cup {Ctrl("start", TRUE, "affine"), Ctrl("start", FALSE, "shuffled"),
          [Ctrl("start", FALSE, "identity") EXCEPT !.reset = TRUE],
          Ctrl("none", FALSE, "none")}

MCPlainWords ==
  {Ctrl("none", FALSE, "affine"), Ctrl("start", FALSE, "affine")}

MCOneShuffled == {[ready |-> TRUE, pi |-> 1, under |-> FALSE]}
=============================================================================
