----------------------------- MODULE MCBackground -----------------------------
(***************************************************************************)
(* Small instances of the programs that work beside the requests.  They    *)
(* share nothing, so one of them runs in each behaviour, and every         *)
(* property speaks of its own program only.                                *)
(***************************************************************************)
EXTENDS DatasetRefresh, ExportJobs, TLC

CONSTANTS e1, j1, l1, u1, k1, k2, w1, w2

OneLoop == {e1}
OneJob == {j1}
OneLine == {l1}
OneUser == {u1}
TwoKeys == {k1, k2}
TwoWorkers == {w1, w2}

VARIABLE running
allVars == <<vars, exportVars, running>>

BackgroundInit ==
    /\ running \in {"facts", "exports"}
    /\ Init /\ (running = "facts" \/ source = [id \in Ids |-> 0])
    /\ ExportInit

BackgroundNext ==
    \/ running = "facts" /\ Next /\ UNCHANGED <<exportVars, running>>
    \/ running = "exports" /\ ExportNext /\ UNCHANGED <<vars, running>>

\* The fairness of FairSpec and ExportFairSpec, each for its program.
BackgroundSpec ==
    /\ BackgroundInit /\ [][BackgroundNext]_allVars
    /\ WF_vars(running = "facts" /\ NextDay)
    /\ \A p \in EtlProcs : /\ WF_vars(running = "facts" /\ BeginRefresh(p))
                          /\ WF_vars(running = "facts" /\ Continue(p))
    /\ \A w \in Workers : WF_exportVars(running = "exports" /\ Work(w))

\* While the refresh runs, a dataset that is lost or was never built is built again
\* (DatasetRefresh, refresh_once).
RefreshComesBack == (running = "facts" /\ ~present) ~> present
=============================================================================
