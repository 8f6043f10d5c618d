-------------------------- MODULE MCBcmcAffineWalk --------------------------
(* The run of BcmcAffineWalk: streams with words that are out of range for *)
(* some rows and words that are not coprime to them.                       *)
EXTENDS BcmcAffineWalk

MCSeeds == {<<7, 6, 2, 0, 1>>, <<0, 5, 1>>, <<4, 3, 1, 0, 7, 5, 2>>}
=============================================================================
