------------------------ MODULE MCSingleFlightCache ------------------------
(* Three threads of one web process, two keys of different lifetimes, room  *)
(* for one entry.                                                           *)
EXTENDS SingleFlightCache, TLC

CONSTANTS t1, t2, t3, k1, k2

ThreeThreads == {t1, t2, t3}
TwoKeys == {k1, k2}
Lifetimes == (k1 :> 0) @@ (k2 :> 1)
=============================================================================
