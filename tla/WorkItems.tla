------------------------------ MODULE WorkItems ------------------------------
(***************************************************************************)
(* The action center's work items, app/decision_ops/service.py: their      *)
(* lifecycle, approval requests, dependencies and notes, with the events   *)
(* that record them.                                                       *)
(*                                                                         *)
(* A request reads its rows outside any transaction and writes in one      *)
(* later, as in PlanningWriteback; an update writes the columns whose new  *)
(* value differs from the one read.  Titles, owners, dates and amounts,    *)
(* which no guard reads, are left out.                                     *)
(***************************************************************************)
EXTENDS Integers, Sequences, FiniteSetsExt

CONSTANTS
    Threads,
    Items,          \* ids of work_items
    NewStatuses, NewApprovals,  \* what the payload of a new item may give
    MaxMoves,       \* bound on each item's status events
    MaxNotes        \* bound on comments and pieces of evidence

ASSUME PayloadAssumption == NewStatuses \subseteq {"draft", "planned", "in_progress", "blocked",
                                "pending_approval", "approved", "completed", "cancelled"}
ASSUME ItemBounds == MaxMoves \in [Items -> Nat] /\ MaxNotes \in Nat

ActionStatuses == {"draft", "planned", "in_progress", "blocked", "pending_approval",
                   "approved", "completed", "cancelled"}
ActionMoves ==
    LET to(s, targets) == {<<s, t>> : t \in targets} IN
    to("draft", {"planned", "pending_approval", "cancelled"})
    \cup to("planned", {"in_progress", "pending_approval", "blocked", "cancelled"})
    \cup to("in_progress", {"blocked", "pending_approval", "completed", "cancelled"})
    \cup to("blocked", {"in_progress", "cancelled"})
    \cup to("pending_approval", {"approved", "planned", "cancelled"})
    \cup to("approved", {"in_progress", "completed", "cancelled"})
ApprovalStatuses == {"pending", "approved", "changes_requested"} \cup NewApprovals

VARIABLES
    item,       \* work_items; status "none" before the insert
    log,        \* work_item_events: the status events of each item, <<from, to>>
    asked,      \* approval_records of the items
    links,      \* work_item_dependencies
    linkLog,    \* work_item_events: the dependency events
    notes,      \* comments and evidence, each with its event: their items
    job         \* what each request has read and is about to write

itemTables == <<item, log, asked, links, linkLog, notes>>
itemVars == <<itemTables, job>>

NoItem == [status |-> "none", approval |-> "none", approvedAt |-> FALSE, completedAt |-> FALSE]
Free == [does |-> "nothing"]
Doing(t, what) == job[t].does = what
Turn(t, j) == job' = [job EXCEPT ![t] = j]
Stored(i) == item[i].status # "none"
AskedFor(i) == {a \in DOMAIN asked : asked[a] = [item |-> i, status |-> "pending"]}

-----------------------------------------------------------------------------
(* create_work_item: any status, and whatever approval status the payload says *)

CreateItemUnasked(i, status, approval) ==                             \* mutant
    /\ ~Stored(i)
    /\ item' = [item EXCEPT ![i] = [NoItem EXCEPT !.status = status, !.approval = approval]]
    /\ log' = [log EXCEPT ![i] = << <<"none", status>> >>]
    /\ UNCHANGED <<asked, links, linkLog, notes, job>>
CreateItem(i, status, approval) ==
    /\ ~Stored(i)
    /\ item' = [item EXCEPT ![i] = [NoItem EXCEPT
                    !.status = status,
                    !.approval = IF status = "pending_approval" THEN "pending" ELSE approval]]
    /\ log' = [log EXCEPT ![i] = << <<"none", status>> >>]
    /\ asked' = IF status = "pending_approval"
                THEN Append(asked, [item |-> i, status |-> "pending"]) ELSE asked
    /\ UNCHANGED <<links, linkLog, notes, job>>

-----------------------------------------------------------------------------
(* transition_work_item *)

ReadItem(t, i, to) ==
    /\ job[t] = Free /\ Len(log[i]) < MaxMoves[i]
    /\ <<item[i].status, to>> \in ActionMoves
    /\ Turn(t, [does |-> "move", item |-> i, seen |-> item[i], to |-> to])
    /\ UNCHANGED itemTables

ApprovalAfter(seen, to) ==
    CASE to = "pending_approval" -> "pending"
      [] to = "approved" -> "approved"
      [] to = "planned" /\ seen.status = "pending_approval" -> "changes_requested"
      [] OTHER -> seen.approval

\* The columns that differ from what was read; the stamps are times and always do.
Updated(row, seen, to) ==
    [row EXCEPT !.status = to,
                !.approval = IF ApprovalAfter(seen, to) = seen.approval THEN @ ELSE ApprovalAfter(seen, to),
                !.approvedAt = @ \/ to = "approved",
                !.completedAt = @ \/ to = "completed"]

\* An approval decides the newest request that is pending, if one is.
Decided(i, to) ==
    CASE to = "pending_approval" -> Append(asked, [item |-> i, status |-> "pending"])
      [] to = "approved" /\ AskedFor(i) # {} -> [asked EXCEPT ![Max(AskedFor(i))].status = "approved"]
      [] OTHER -> asked

WriteItemLogStored(t) ==                                              \* mutant
    LET i == job[t].item  seen == job[t].seen  to == job[t].to IN
    /\ Doing(t, "move")
    /\ item' = [item EXCEPT ![i] = Updated(@, seen, to)]
    /\ log' = [log EXCEPT ![i] = Append(@, <<item[i].status, to>>)]
    /\ asked' = Decided(i, to)
    /\ Turn(t, Free)
    /\ UNCHANGED <<links, linkLog, notes>>
WriteItem(t) ==
    LET i == job[t].item  seen == job[t].seen  to == job[t].to IN
    /\ Doing(t, "move")
    /\ item' = [item EXCEPT ![i] = Updated(@, seen, to)]
    /\ log' = [log EXCEPT ![i] = Append(@, <<seen.status, to>>)]
    /\ asked' = Decided(i, to)
    /\ Turn(t, Free)
    /\ UNCHANGED <<links, linkLog, notes>>

-----------------------------------------------------------------------------
(* add_dependency, add_comment, add_attachment *)

ReadLink(t, i, on) ==
    /\ job[t] = Free /\ i # on /\ Stored(i) /\ Stored(on)
    /\ <<i, on>> \notin links
    /\ Turn(t, [does |-> "link", pair |-> <<i, on>>])
    /\ UNCHANGED itemTables

InsertLinkAgain(t) ==                                                 \* mutant
    /\ Doing(t, "link")
    /\ links' = links \cup {job[t].pair} /\ linkLog' = Append(linkLog, job[t].pair)
    /\ Turn(t, Free)
    /\ UNCHANGED <<item, log, asked, notes>>
\* The unique index on the pair refuses a dependency stored meanwhile, with its event.
InsertLink(t) ==
    /\ Doing(t, "link") /\ job[t].pair \notin links
    /\ links' = links \cup {job[t].pair} /\ linkLog' = Append(linkLog, job[t].pair)
    /\ Turn(t, Free)
    /\ UNCHANGED <<item, log, asked, notes>>

\* Nothing deletes an item: that it was there when it was looked up is enough.
AddNote(i) ==
    /\ Stored(i) /\ Len(notes) < MaxNotes
    /\ notes' = Append(notes, i)
    /\ UNCHANGED <<item, log, asked, links, linkLog, job>>

\* A request fails, or its worker is killed, before it writes.
DropJob(t) ==
    /\ job[t] # Free
    /\ Turn(t, Free)
    /\ UNCHANGED itemTables

-----------------------------------------------------------------------------
ItemInit ==
    /\ item = [i \in Items |-> NoItem] /\ log = [i \in Items |-> <<>>]
    /\ asked = <<>> /\ links = {} /\ linkLog = <<>>
    /\ notes = <<>>
    /\ job = [t \in Threads |-> Free]

ItemNext ==
    \/ \E i \in Items : AddNote(i) \/ \E s \in NewStatuses, a \in NewApprovals : CreateItem(i, s, a)
    \/ \E t \in Threads :
        \/ \E i \in Items, to \in ActionStatuses : ReadItem(t, i, to)
        \/ \E i, on \in Items : ReadLink(t, i, on)
        \/ WriteItem(t) \/ InsertLink(t) \/ DropJob(t)

ItemSpec == ItemInit /\ [][ItemNext]_itemVars

-----------------------------------------------------------------------------
(* Properties *)

ItemRow == [status: ActionStatuses, approval: ApprovalStatuses, approvedAt: BOOLEAN, completedAt: BOOLEAN]
Job == [does: {"nothing"}]
       \cup [does: {"move"}, item: Items, seen: ItemRow, to: ActionStatuses]
       \cup [does: {"link"}, pair: Items \X Items]

ItemTypeOK ==
    /\ item \in [Items -> ItemRow \cup {NoItem}]
    /\ log \in [Items -> Seq((ActionStatuses \cup {"none"}) \X ActionStatuses)]
    /\ asked \in Seq([item: Items, status: {"pending", "approved"}])
    /\ links \subseteq Items \X Items /\ linkLog \in Seq(Items \X Items)
    /\ notes \in Seq(Items)
    /\ job \in [Threads -> Job]

\* The items' events are an AuditTrail: a request that decides on a stale status still
\* leaves a trail whose moves are all legal and whose end is the status.
ItemTrail == INSTANCE AuditTrail WITH
    Records <- Items, Starts <- NewStatuses, Moves <- ActionMoves,
    status <- [i \in Items |-> item[i].status], trail <- log
ImplementsItemTrail == ItemTrail!Spec

\* An item that waits for approval has a request somebody can still decide; one that
\* was ever moved to approved or completed, and no other, has the stamp of it, and the
\* approved one a request that says so.
MovedTo(i, s) == \E n \in DOMAIN log[i] : n > 1 /\ log[i][n][2] = s
ItemsAreDecided ==
    \A i \in Items :
        /\ item[i].status = "pending_approval" => AskedFor(i) # {}
        /\ item[i].approvedAt = MovedTo(i, "approved") /\ item[i].completedAt = MovedTo(i, "completed")
        /\ item[i].approvedAt => \E a \in DOMAIN asked : asked[a] = [item |-> i, status |-> "approved"]

\* Every dependency has one event and one row, though two requests that found none
\* insert it both; an action never depends on itself.
LinksAreLogged ==
    /\ links = {linkLog[n] : n \in DOMAIN linkLog}
    /\ \A m, n \in DOMAIN linkLog : linkLog[m] = linkLog[n] => m = n
    /\ \A p \in links : p[1] # p[2] /\ Stored(p[1]) /\ Stored(p[2])
=============================================================================
