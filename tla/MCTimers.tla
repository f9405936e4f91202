------------------------------- MODULE MCTimers -------------------------------
(***************************************************************************)
(* The alert runner and the labor refresh on small instances: each has a   *)
(* timer or loop of its own and commands beside it.  They share nothing,   *)
(* so one of them runs in each behaviour, and every property speaks of its *)
(* own program only.                                                       *)
(***************************************************************************)
EXTENDS NotificationRunner, LaborFeed

CONSTANTS timer, hand

NothingOrDayZero == {{}, {0}}

VARIABLE running
allVars == <<vars, laborVars, running>>

\* The labor refresh is followed from its first day.
TimersInit ==
    /\ running \in {"alerts", "labor"}
    /\ Init /\ (running = "alerts" \/ prefs = [u \in Users |-> Off])
    /\ LaborInit /\ now = 0
    /\ feed = IF running = "labor" THEN [EmptyDataset EXCEPT ![0] = 1] ELSE EmptyDataset

TimersNext ==
    \/ running = "alerts" /\ Next /\ UNCHANGED <<laborVars, running>>
    \/ running = "labor" /\ LaborNext /\ UNCHANGED <<vars, running>>

\* The fairness of FairSpec and LaborFairSpec, each for its program.
TimersSpec ==
    /\ TimersInit /\ [][TimersNext]_allVars
    /\ SF_vars(running = "alerts" /\ BeginHourly)
    /\ \A r \in Runners : WF_vars(running = "alerts" /\ Step(r))
    /\ WF_laborVars(running = "labor" /\ IncrementalRefresh(Loop))
    /\ \A p \in Refreshers : WF_laborVars(running = "labor" /\ ContinuePull(p))
=============================================================================
