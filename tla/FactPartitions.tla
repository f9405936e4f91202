---------------------------- MODULE FactPartitions ----------------------------
(***************************************************************************)
(* The partitioned fact dataset and etl/partition_writer.upsert_dataset.   *)
(* An order line is its key and its date; a partition is the set of lines  *)
(* it holds.  A full build writes month directories (`legacy'), an upsert  *)
(* writes day directories and folds the month directories it finds.        *)
(***************************************************************************)
EXTENDS Naturals, FiniteSets

CONSTANTS
    Ids,        \* OrderLineId values, already normalised
    LastDay,    \* bound on the dates
    MaxScanPks  \* FACT_UPSERT_SCAN_EXISTING_PARTITIONS_MAX_PKS; 0: no limit

ASSUME DayAssumption == LastDay \in Nat
ASSUME ScanAssumption == MaxScanPks \in Nat

Days == 0..LastDay
Line == [id: Ids, day: Days]
Table == [legacy: SUBSET Line, days: [Days -> SUBSET Line]]

EmptyTable == [legacy |-> {}, days |-> [d \in Days |-> {}]]
Lines(t) == t.legacy \cup UNION {t.days[d] : d \in Days}
KeysOf(batch) == {l.id : l \in batch}
DaysOf(batch) == {l.day : l \in batch}

\* A line sits in the partition of its own date, and a dataset has one layout.
WellPlaced(t) ==
    /\ \A d \in Days : \A l \in t.days[d] : l.day = d
    /\ t.legacy # {} => \A d \in Days : t.days[d] = {}

\* At most one line of each key outside the set allowed.
Unique(lines, allowed) ==
    \A l, m \in lines : l.id = m.id /\ l.id \notin allowed => l = m

-----------------------------------------------------------------------------
(* upsert_dataset *)

ScanNothing(t, batch) == {}                                           \* mutant
\* _existing_partitions_for_pks: none for a batch above the limit, and none from
\* month directories, which have no `day' column to select.
PartitionsHolding(t, batch) ==
    IF t.legacy # {} \/ (MaxScanPks > 0 /\ Cardinality(KeysOf(batch)) > MaxScanPks) THEN {}
    ELSE {d \in Days : \E l \in t.days[d] : l.id \in KeysOf(batch)}

\* _drop_existing_rows_in_window and the key filter: what a batch leaves of old lines.
Survivors(lines, batch, window) ==
    {l \in lines : l.id \notin KeysOf(batch) /\ l.day \notin window}

FoldedWhole(t, batch, window, d) ==                                   \* mutant
    t.days[d] \cup {l \in t.legacy : l.day = d}
\* _migrate_legacy_partitions, in the cloned directory.
Folded(t, batch, window, d) ==
    t.days[d] \cup {l \in Survivors(t.legacy, batch, window) : l.day = d}

\* Touched day partitions are rewritten from the published dataset, not from the
\* clone the month directories were folded into.
Upsert(t, batch, window) ==
    LET touched == DaysOf(batch) \cup window \cup PartitionsHolding(t, batch)
    IN [legacy |-> {},
        days |-> [d \in Days |->
                    IF d \in touched
                    THEN Survivors(t.days[d], batch, window) \cup {l \in batch : l.day = d}
                    ELSE Folded(t, batch, window, d)]]

\* What an upsert should leave of the lines, whatever directories they are in.
Replaced(lines, batch, window) == Survivors(lines, batch, window) \cup batch
=============================================================================
