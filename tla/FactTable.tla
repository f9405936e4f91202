------------------------------ MODULE FactTable ------------------------------
(***************************************************************************)
(* What a reader of the fact dataset is promised: a set of lines that only *)
(* changes by replacing a window of dates and the keys of a batch, or by a *)
(* full rebuild, and that is out of sight while it changes.                *)
(***************************************************************************)
EXTENDS FactPartitions

VARIABLES lines, phase

Init == lines = {} /\ phase = "missing"

\* A batch of lines, one per key, replaces its keys and a window of dates.
Replace == \E batch \in (SUBSET Line) \ {{}}, window \in SUBSET Days :
    /\ phase = "shown" /\ phase' = "replacing"
    /\ Unique(batch, {})
    /\ lines' = Replaced(lines, batch, window)

Rebuild == /\ phase \in {"shown", "missing"} /\ phase' = "rebuilding"
           /\ lines' \in (SUBSET Line) \ {{}}

Show == /\ phase \in {"replacing", "rebuilding"} /\ phase' = "shown"
        /\ UNCHANGED lines

\* A writer that dies while the dataset is out of sight loses it.
Lose == /\ phase \in {"replacing", "rebuilding"} /\ phase' = "missing"
        /\ lines' = {}

Next == Replace \/ Rebuild \/ Show \/ Lose

Spec == Init /\ [][Next]_<<lines, phase>>
=============================================================================
