---------------------------- MODULE MCRateWindow ----------------------------
(* RateWindow for TLC: a request that makes two calls, and one that makes   *)
(* one.                                                                     *)
EXTENDS RateWindow, TLC

CONSTANTS r1, r2

MCRequests == {r1, r2}
MCRequestOf == 1 :> r1 @@ 2 :> r1 @@ 3 :> r2
=============================================================================
