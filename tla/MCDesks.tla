-------------------------------- MODULE MCDesks --------------------------------
(***************************************************************************)
(* Small instances of the three kinds of governed records outside the      *)
(* returns: scenarios and their orders, work items, corrective actions.    *)
(* They share no table, so each behaviour is of one desk, and two requests *)
(* at a time work at it.                                                   *)
(***************************************************************************)
EXTENDS PlanningWriteback, WorkItems, CorrectiveActions, TLC

CONSTANTS r1, r2, o1, o2

TwoRequests == {r1, r2}
\* Returns are always counted; without orders in its window an outcome has no rate.
TwoOutcomes == {[returns |-> o1, orders |-> o1], [returns |-> o2, orders |-> NoValue]}
Symmetry == Permutations(TwoRequests)
\* One item with room for three events, to which another one relates.
ItemMoves == <<3, 1>>

VARIABLE desk
deskVars == <<vars, itemVars, actionVars, desk>>

DesksInit == desk \in {"planning", "items", "actions"} /\ Init /\ ItemInit /\ ActionInit

DesksNext ==
    \/ desk = "planning" /\ Next /\ UNCHANGED <<itemVars, actionVars, desk>>
    \/ desk = "items" /\ ItemNext /\ UNCHANGED <<vars, actionVars, desk>>
    \/ desk = "actions" /\ ActionNext /\ UNCHANGED <<vars, itemVars, desk>>

DesksSpec == DesksInit /\ [][DesksNext]_deskVars
=============================================================================
