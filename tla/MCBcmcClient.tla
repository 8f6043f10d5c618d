---------------------------- MODULE MCBcmcClient ----------------------------
(* The jobs of the run of BcmcClient: weight lists of 0 to 2 rows over rows *)
(* of 1 and 3 columns, and one with more rows than the window has lanes.    *)
EXTENDS BcmcClient

MCJobs == {<<1, <<>>>>, <<1, <<1>>>>, <<3, <<2, 2>>>>, <<3, <<1, 1, 1>>>>}
=============================================================================
