---------------------------- MODULE MCBcmcDriver ----------------------------
(* The loads of the run of BcmcDriver: two rows, none, and one too many.   *)
EXTENDS BcmcDriver

MCLoads == {<<<<2, 2>>, 3, 2>>, <<<<>>, 1, 0>>, <<<<1, 1, 1>>, 1, 3>>}
=============================================================================
