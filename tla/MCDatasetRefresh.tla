--------------------------- MODULE MCDatasetRefresh ---------------------------
(***************************************************************************)
(* Instances of DatasetRefresh: two order lines over three days, a month   *)
(* of two days, a hot window of today and yesterday.                       *)
(***************************************************************************)
EXTENDS DatasetRefresh, TLC

CONSTANTS e1, e2, j1, j2, l1, l2

TwoLoops == {e1, e2}
OneLoop == {e1}
OneJob == {j1}
TwoJobs == {j1, j2}
Nobody == {}
TwoLines == {l1, l2}
OneLine == {l1}
=============================================================================
