----------------------------- MODULE MCQueryCache -----------------------------
(* Two or three threads of one web process, one or two queries.             *)
EXTENDS QueryCache, TLC

CONSTANTS t1, t2, t3, q1

TwoThreads == {t1, t2}
ThreeThreads == {t1, t2, t3}
OneQuery == {q1}
Alike == Permutations(ThreeThreads)
=============================================================================
