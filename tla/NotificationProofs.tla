-------------------------- MODULE NotificationProofs --------------------------
(***************************************************************************)
(* NotificationRunner keeps its promises for any number of runners, users, *)
(* dates and kills: an alert is recorded once, mailed no more often than   *)
(* runners and kills explain, and what is marked sent went out.            *)
(***************************************************************************)
EXTENDS NotificationRunner, FiniteSetTheorems, SequenceTheorems, WellFoundedInduction, TLAPS

-----------------------------------------------------------------------------
(* Types *)

Jobs == {Idle} \cup Evaluating \cup Inserting \cup Dispatching \cup Sending

\* An INSERT leaves the rows there were and adds one.
LEMMA Recording ==
    ASSUME NEW S, NEW s \in Seq(S), NEW x \in S
    PROVE  /\ Append(s, x) \in Seq(S)
           /\ DOMAIN Append(s, x) = DOMAIN s \cup {Len(s) + 1}
           /\ Len(s) + 1 \notin DOMAIN s
           /\ \A i \in DOMAIN s : Append(s, x)[i] = s[i]
           /\ Append(s, x)[Len(s) + 1] = x
<1>1. DOMAIN s = 1..Len(s) /\ Len(s) \in Nat
  OBVIOUS
<1>2. Append(s, x) \in Seq(S) /\ Len(Append(s, x)) = Len(s) + 1
  BY AppendProperties
<1>3. DOMAIN Append(s, x) = 1..(Len(s) + 1)
  BY <1>2
<1> QED BY <1>1, <1>2, <1>3, AppendProperties

\* A table with other values in its rows is a table.
LEMMA Rewriting ==
    ASSUME NEW S, NEW T, NEW s \in Seq(S), NEW f, f = [i \in DOMAIN s |-> f[i]],
           \A i \in DOMAIN s : f[i] \in T
    PROVE  f \in Seq(T) /\ DOMAIN f = DOMAIN s
<1>1. DOMAIN s = 1..Len(s) /\ Len(s) \in Nat
  OBVIOUS
<1>2. f \in [1..Len(s) -> T]
  BY <1>1
<1> QED BY <1>1, <1>2

\* Some numbers have a least one.
LEMMA FirstOf ==
    ASSUME NEW S \in SUBSET Nat, S # {} PROVE Min(S) \in S /\ \A x \in S : Min(S) <= x
<1> DEFINE R == {ss \in Nat \X Nat : ss[1] < ss[2]}
<1>1. IsWellFoundedOn(R, Nat)
  <2>1. R = OpToRel(<, Nat)
    BY DEF OpToRel
  <2> QED BY <2>1, NatLessThanWellFounded
<1>2. PICK s \in S : \A u \in S : <<u, s>> \notin R
  <2> HIDE DEF R
  <2> QED BY <1>1, WFMin
<1>3. \A u \in S : ~(u < s)
  BY <1>2
<1>4. S \subseteq Nat
  OBVIOUS
<1>5. \A u \in S : s <= u
  BY <1>3, <1>4
<1> QED BY <1>5 DEF Min

\* The events a runner has in hand are among those recorded later.
LEMMA JobsLast == ASSUME DOMAIN events \subseteq DOMAIN events' PROVE Jobs \subseteq Jobs'
<1>1. Dispatching \subseteq Dispatching'
  BY DEF Dispatching
<1>2. Sending \subseteq Sending'
  BY DEF Sending
<1>3. Evaluating' = Evaluating /\ Inserting' = Inserting /\ Idle' = Idle
  BY DEF Evaluating, Inserting, Idle
<1> QED BY <1>1, <1>2, <1>3 DEF Jobs

\* Where a runner is says what it has in hand.
LEMMA Places ==
    ASSUME TypeOK, NEW r \in Runners
    PROVE  /\ run[r] \in Jobs
           /\ run[r].at \in {"idle", "evaluate", "insert", "dispatch", "send", "sent", "failed"}
           /\ run[r].at = "idle" => run[r] = Idle
           /\ run[r].at = "evaluate" => run[r] \in Evaluating
           /\ run[r].at = "insert" => run[r] \in Inserting
           /\ run[r].at = "dispatch" => run[r] \in Dispatching
           /\ run[r].at \in {"send", "sent", "failed"} => run[r] \in Sending
<1>1. run[r] \in Jobs
  BY DEF TypeOK, Jobs
<1>2. CASE run[r] = Idle
  BY <1>1, <1>2 DEF Idle
<1>3. CASE run[r] \in Evaluating
  BY <1>1, <1>3 DEF Evaluating
<1>4. CASE run[r] \in Inserting
  BY <1>1, <1>4 DEF Inserting
<1>5. CASE run[r] \in Dispatching
  BY <1>1, <1>5 DEF Dispatching
<1>6. CASE run[r] \in Sending
  BY <1>1, <1>6 DEF Sending
<1> QED BY <1>1, <1>2, <1>3, <1>4, <1>5, <1>6 DEF Jobs

\* One runner moves and the others stay.
LEMMA OneMoves ==
    ASSUME TypeOK, NEW r \in Runners, NEW t, Then(r, t)
    PROVE  /\ run'[r] = t /\ \A q \in Runners \ {r} : run'[q] = run[q]
           /\ t \in Jobs' /\ DOMAIN events \subseteq DOMAIN events' => run' \in [Runners -> Jobs']
<1>1. run \in [Runners -> Jobs] /\ run' = [run EXCEPT ![r] = t]
  BY DEF TypeOK, Jobs, Then
<1> QED BY <1>1, JobsLast

\* The users a runner still has to evaluate begin with a user.
LEMMA NextUser ==
    ASSUME TypeOK, NEW r \in Runners, run[r].at \in {"evaluate", "insert"}, run[r].due # {}
    PROVE  Min(run[r].due) \in Users
<1>1. run[r].due \subseteq Users /\ Users \subseteq Nat
  BY Places DEF Evaluating, Inserting, Users
<1> QED BY <1>1, FirstOf

\* A group is part of what is left, and not empty.
LEMMA GroupOf ==
    ASSUME TypeOK, NEW r \in Runners, Does(r, "dispatch"), run[r].left # {}
    PROVE  /\ run[r].left \subseteq DOMAIN events /\ Group(r) \subseteq run[r].left /\ Group(r) # {}
           /\ Oldest(Group(r)) \subseteq Group(r) /\ Oldest(Group(r)) # {}
<1>1. run[r].left \subseteq DOMAIN events /\ DOMAIN events \subseteq Nat
  BY Places DEF Does, Dispatching, TypeOK
<1>2. Min(run[r].left) \in Group(r) /\ Group(r) \subseteq run[r].left
  BY <1>1, FirstOf DEF Group, Concerns
<1>3. Min(Group(r)) \in Oldest(Group(r))
  BY <1>1, <1>2, FirstOf DEF Oldest
<1> QED BY <1>1, <1>2, <1>3 DEF Oldest

\* What a runner does after it marked a batch.
LEMMA AfterBatch ==
    ASSUME TypeOK, NEW r \in Runners, run[r].at \in {"sent", "failed"}
    PROVE  /\ NextBatch(r) \in Dispatching \cup Sending
           /\ run[r].next = {} => NextBatch(r).at = "dispatch" /\ NextBatch(r).left = run[r].left
           /\ run[r].next # {} =>
                /\ NextBatch(r).at = "send" /\ NextBatch(r).left = run[r].left
                /\ NextBatch(r).batch = Oldest(run[r].next)
                /\ NextBatch(r).next = run[r].next \ Oldest(run[r].next)
<1>1. run[r] \in Sending
  BY Places
<1>2. DOMAIN events \subseteq Nat
  BY DEF TypeOK
<1>3. CASE run[r].next = {}
  <2>1. NextBatch(r) = [at |-> "dispatch", dry |-> run[r].dry, left |-> run[r].left]
    BY <1>3 DEF NextBatch
  <2> QED BY <1>1, <1>3, <2>1 DEF Sending, Dispatching
<1>4. CASE run[r].next # {}
  <2> DEFINE first == Oldest(run[r].next)
  <2>1. first \subseteq run[r].next /\ first # {}
    <3>1. run[r].next \subseteq Nat
      BY <1>1, <1>2 DEF Sending
    <3>2. Min(run[r].next) \in first
      BY <1>4, <3>1, FirstOf DEF Oldest
    <3> QED BY <3>2 DEF Oldest
  <2>2. NextBatch(r) = [run[r] EXCEPT !.at = "send", !.batch = first, !.next = run[r].next \ first]
    BY <1>4 DEF NextBatch
  <2> HIDE DEF first
  <2>3. /\ NextBatch(r) \in Sending /\ NextBatch(r).at = "send" /\ NextBatch(r).left = run[r].left
        /\ NextBatch(r).batch = first /\ NextBatch(r).next = run[r].next \ first
    BY <1>1, <2>1, <2>2 DEF Sending
  <2> QED BY <1>4, <2>3 DEF first
<1> QED BY <1>3, <1>4

\* Every step keeps the types.
LEMMA TypesKept == ASSUME TypeOK, [Next]_vars PROVE TypeOK'
<1> USE DEF tables, history
<1>0. run \in [Runners -> Jobs] /\ (run' \in [Runners -> Jobs'] <=> run' \in [Runners -> {Idle} \cup Evaluating \cup Inserting \cup Dispatching \cup Sending]')
  BY DEF TypeOK, Jobs
<1>1. ASSUME NEW u \in Users, SavePreferences(u) PROVE TypeOK'
  <2>1. prefs' \in [Users -> Frequencies \cup {Off}] /\ UNCHANGED <<events, history, run>>
    BY <1>1 DEF SavePreferences, TypeOK
  <2> QED BY <2>1 DEF TypeOK, Dispatching, Sending
<1>2. ASSUME NEW r \in Runners, NEW dry \in BOOLEAN, Candidates(r, dry), DOMAIN events' = DOMAIN events
      PROVE  run' \in [Runners -> Jobs']
  <2>1. PICK date \in Dates, due \in SUBSET Users :
            Then(r, [at |-> "evaluate", dry |-> dry, date |-> date, due |-> due])
    BY <1>2 DEF Candidates
  <2>2. [at |-> "evaluate", dry |-> dry, date |-> date, due |-> due] \in Evaluating
    BY DEF Evaluating
  <2>3. Evaluating' = Evaluating
    BY DEF Evaluating
  <2> QED BY <1>2, <2>1, <2>2, <2>3, OneMoves DEF Jobs
<1>3. CASE BeginHourly
  <2>1. events' \in Seq(Event) /\ DOMAIN events' = DOMAIN events
    <3>1. events' = [e \in DOMAIN events |->
                        IF events[e].age < 2 THEN [events[e] EXCEPT !.age = @ + 1] ELSE events[e]]
      BY <1>3 DEF BeginHourly
    <3>2. \A e \in DOMAIN events : events'[e] \in Event
      <4> TAKE e \in DOMAIN events
      <4>1. events[e] \in Event
        BY DEF TypeOK
      <4>2. CASE events[e].age < 2
        <5>1. events[e].age + 1 \in Ages
          BY <4>1, <4>2 DEF Event, Ages, NotSent
        <5> QED BY <3>1, <4>1, <4>2, <5>1 DEF Event
      <4>3. CASE ~(events[e].age < 2)
        BY <3>1, <4>1, <4>3
      <4> QED BY <4>2, <4>3
    <3>3. DOMAIN events' = 1..Len(events) /\ Len(events) \in Nat
      BY <3>1 DEF TypeOK
    <3> QED BY <3>1, <3>2, <3>3
  <2>2. run' \in [Runners -> Jobs']
    <3>1. Timer \in Runners
      BY DEF Runners
    <3>2. Candidates(Timer, FALSE)
      BY <1>3 DEF BeginHourly
    <3> QED BY <1>2, <2>1, <3>1, <3>2
  <2> QED BY <1>0, <1>3, <2>1, <2>2 DEF BeginHourly, TypeOK
<1>4. ASSUME NEW r \in ByHand, NEW dry \in BOOLEAN, BeginByHand(r, dry) PROVE TypeOK'
  <2>1. UNCHANGED <<tables, history>> /\ r \in Runners /\ Candidates(r, dry)
    BY <1>4 DEF BeginByHand, Runners
  <2>2. run' \in [Runners -> Jobs']
    BY <1>2, <2>1
  <2> QED BY <1>0, <2>1, <2>2 DEF TypeOK
<1>5. ASSUME NEW r \in Runners, NEW t, Then(r, t), t \in Jobs', UNCHANGED <<tables, mailed>>,
             trials' \subseteq DOMAIN events, crashes' \in 0..MaxCrashes
      PROVE  TypeOK'
  <2>1. run' \in [Runners -> Jobs']
    BY <1>5, OneMoves
  <2> QED BY <1>0, <1>5, <2>1 DEF TypeOK
<1>6. ASSUME NEW r \in Runners, FindEvent(r) PROVE TypeOK'
  <2> DEFINE u == Min(run[r].due)
  <2>1. run[r] \in Evaluating /\ run[r].due # {} /\ UNCHANGED <<tables, history>>
    BY <1>6, Places DEF FindEvent, Does
  <2>2. PICK t \in {[run[r] EXCEPT !.due = run[r].due \ {u}], [run[r] EXCEPT !.at = "insert"]} : Then(r, t)
    BY <1>6 DEF FindEvent
  <2> HIDE DEF u
  <2>3. t \in Evaluating \cup Inserting
    BY <2>1, <2>2 DEF Evaluating, Inserting
  <2>4. t \in Jobs'
    BY <2>3 DEF Jobs, Evaluating, Inserting
  <2> QED BY <1>5, <2>1, <2>2, <2>4 DEF TypeOK
<1>7. ASSUME NEW r \in Runners, InsertEvent(r) PROVE TypeOK'
  <2> DEFINE u == Min(run[r].due)
             x == [user |-> u, date |-> run[r].date, status |-> "pending", age |-> NotSent]
  <2>1. run[r] \in Inserting /\ UNCHANGED <<prefs, trials, crashes>>
    BY <1>7, Places DEF InsertEvent, Does
  <2>2. CASE Then(r, Idle) /\ UNCHANGED <<events, mailed>>
    BY <1>5, <2>1, <2>2 DEF TypeOK, Jobs
  <2>3. CASE /\ events' = Append(events, x) /\ mailed' = Append(mailed, 0)
             /\ Then(r, [run[r] EXCEPT !.at = "evaluate", !.due = run[r].due \ {u}])
    <3>1. u \in Users
      BY <1>7, <2>1, NextUser DEF InsertEvent, Does, Inserting
    <3> HIDE DEF u
    <3>2. x \in Event
      BY <2>1, <3>1 DEF Event, Inserting
    <3>3. [run[r] EXCEPT !.at = "evaluate", !.due = run[r].due \ {u}] \in Evaluating
      BY <2>1 DEF Evaluating, Inserting
    <3> HIDE DEF x
    <3>4. events' \in Seq(Event) /\ mailed' \in Seq(Nat) /\ DOMAIN events' = DOMAIN mailed'
          /\ DOMAIN events \subseteq DOMAIN events'
      <4>1. events \in Seq(Event) /\ mailed \in Seq(Nat) /\ 0 \in Nat /\ DOMAIN events = DOMAIN mailed
        BY DEF TypeOK
      <4>2. Len(events) = Len(mailed)
        BY <4>1
      <4> QED BY <2>3, <3>2, <4>1, <4>2, Recording
    <3>5. Evaluating' = Evaluating
      BY DEF Evaluating
    <3>6. run' \in [Runners -> Jobs']
      BY <2>3, <3>3, <3>4, <3>5, OneMoves DEF Jobs
    <3> QED BY <1>0, <2>1, <3>4, <3>6 DEF TypeOK
  <2> QED BY <1>7, <2>2, <2>3 DEF InsertEvent
<1>8. ASSUME NEW r \in Runners, NEW t \in Dispatching \cup Sending \cup {Idle}, Then(r, t),
             UNCHANGED <<tables, history>>
      PROVE  TypeOK'
  <2>1. t \in Jobs'
    BY <1>8 DEF Jobs, Dispatching, Sending
  <2> QED BY <1>5, <1>8, <2>1 DEF TypeOK
<1>9. ASSUME NEW r \in Runners, LoadPending(r) PROVE TypeOK'
  <2> DEFINE t == [at |-> "dispatch", dry |-> run[r].dry, left |-> {e \in DOMAIN events : IsPending(e)}]
  <2>1. t \in Dispatching
    BY <1>9, Places DEF LoadPending, Does, Evaluating, Dispatching
  <2> QED BY <1>8, <1>9, <2>1 DEF LoadPending
<1>10. ASSUME NEW r \in Runners, SkipUser(r) PROVE TypeOK'
  <2> DEFINE t == [run[r] EXCEPT !.left = run[r].left \ Group(r)]
  <2>1. t \in Dispatching
    BY <1>10, Places DEF SkipUser, Does, Dispatching
  <2> QED BY <1>8, <1>10, <2>1 DEF SkipUser
<1>11. ASSUME NEW r \in Runners, MayMail(r), NEW batch \in (SUBSET Group(r)) \ {{}}
       PROVE  Mailing(r, batch) \in Sending
  <2>1. run[r] \in Dispatching /\ Group(r) \subseteq run[r].left
    BY <1>11, Places, GroupOf DEF MayMail, Does
  <2> QED BY <2>1 DEF Mailing, Dispatching, Sending
<1>12. ASSUME NEW r \in Runners, StartImmediate(r) PROVE TypeOK'
  <2>1. Mailing(r, Oldest(Group(r))) \in Sending
    BY <1>11, <1>12, GroupOf DEF StartImmediate, MayMail
  <2> QED BY <1>8, <1>12, <2>1 DEF StartImmediate
<1>13. ASSUME NEW r \in Runners, StartDigest(r) PROVE TypeOK'
  <2>1. Mailing(r, Group(r)) \in Sending
    BY <1>11, <1>13, GroupOf DEF StartDigest, MayMail
  <2>2. PICK t \in {Idle, Mailing(r, Group(r))} : Then(r, t)
    BY <1>13 DEF StartDigest
  <2> QED BY <1>8, <1>13, <2>1, <2>2 DEF StartDigest
<1>14. ASSUME NEW r \in Runners, NEW ok \in BOOLEAN, Send(r, ok) PROVE TypeOK'
  <2>1. run[r] \in Sending
    BY <1>14, Places DEF Send, Does
  <2>2. PICK a \in {"sent", "failed"} : Then(r, [run[r] EXCEPT !.at = a])
    BY <1>14 DEF Send
  <2>3. [run[r] EXCEPT !.at = a] \in Sending
    BY <2>1 DEF Sending
  <2>4. UNCHANGED <<tables, crashes>> /\ Jobs' = Jobs
    BY <1>14 DEF Send, Jobs, Evaluating, Inserting, Dispatching, Sending
  <2>5. run' \in [Runners -> Jobs']
    BY <2>2, <2>3, <2>4, OneMoves DEF Jobs
  <2>6. trials' \subseteq DOMAIN events
    BY <1>14, <2>1 DEF Send, TypeOK, Sending
  <2>7. mailed' \in Seq(Nat) /\ DOMAIN mailed' = DOMAIN events
    <3>1. /\ DOMAIN mailed' = DOMAIN mailed
          /\ \A e \in DOMAIN mailed : mailed'[e] = mailed[e] \/ mailed'[e] = mailed[e] + 1
      BY <1>14 DEF Send, TypeOK
    <3>2. mailed' = [e \in DOMAIN mailed |-> mailed'[e]]
      BY <1>14 DEF Send
    <3>3. \A e \in DOMAIN mailed : mailed'[e] \in Nat
      BY <3>1 DEF TypeOK
    <3>4. mailed \in Seq(Nat) /\ DOMAIN mailed = DOMAIN events
      BY DEF TypeOK
    <3> QED BY <3>2, <3>3, <3>4, Rewriting
  <2> QED BY <1>0, <2>4, <2>5, <2>6, <2>7 DEF TypeOK
<1>15. ASSUME NEW r \in Runners, MarkEvents(r) PROVE TypeOK'
  <2>1. UNCHANGED <<prefs, history>> /\ Then(r, NextBatch(r)) /\ run[r].at \in {"sent", "failed"}
    BY <1>15 DEF MarkEvents
  <2>2. events' \in Seq(Event) /\ DOMAIN events' = DOMAIN events
    <3>1. /\ DOMAIN events' = DOMAIN events
          /\ \A e \in DOMAIN events :
                \/ events'[e] = events[e]
                \/ events'[e] = [events[e] EXCEPT !.status = "sent", !.age = 0]
                \/ events'[e] = [events[e] EXCEPT !.status = "error"]
      BY <1>15 DEF MarkEvents
    <3>2. events' = [e \in DOMAIN events |-> events'[e]]
      BY <1>15 DEF MarkEvents
    <3>3. \A e \in DOMAIN events : events'[e] \in Event
      <4> TAKE e \in DOMAIN events
      <4>1. events[e] \in Event /\ 0 \in Ages
        BY DEF TypeOK, Ages
      <4> QED BY <3>1, <4>1 DEF Event
    <3>4. events \in Seq(Event)
      BY DEF TypeOK
    <3> QED BY <3>2, <3>3, <3>4, Rewriting
  <2>3. run' \in [Runners -> Jobs']
    BY <2>1, <2>2, AfterBatch, OneMoves, JobsLast DEF Jobs
  <2> QED BY <1>0, <2>1, <2>2, <2>3 DEF TypeOK
<1>16. ASSUME NEW r \in Runners, Finish(r) PROVE TypeOK'
  BY <1>8, <1>16 DEF Finish
<1>17. ASSUME NEW r \in Runners, Crash(r) PROVE TypeOK'
  <2>1. crashes' \in 0..MaxCrashes
    BY <1>17, AlertBounds DEF Crash, TypeOK
  <2>2. Idle \in Jobs'
    BY DEF Jobs, Idle
  <2> QED BY <1>5, <1>17, <2>1, <2>2 DEF Crash, TypeOK
<1>18. CASE UNCHANGED vars
  BY <1>18 DEF vars, TypeOK, Dispatching, Sending
<1> QED
  BY <1>1, <1>3, <1>4, <1>6, <1>7, <1>9, <1>10, <1>12, <1>13, <1>14, <1>15, <1>16, <1>17, <1>18
  DEF Next, Step

LEMMA TypesStart == Init => TypeOK
BY AlertBounds DEF Init, TypeOK

\* The variables of the alert runner keep their types (run_notification_cycle).
THEOREM AlertTypes == Spec => []TypeOK
BY TypesStart, TypesKept, PTL DEF Spec

-----------------------------------------------------------------------------
(* Recorded once *)

\* What a step does to the rows: their keys last, and a new one has a key of its own.
LEMMA RowsLast ==
    ASSUME TypeOK, [Next]_vars
    PROVE  /\ DOMAIN events \subseteq DOMAIN events'
           /\ \A e \in DOMAIN events :
                  events'[e].user = events[e].user /\ events'[e].date = events[e].date
           /\ \A e \in DOMAIN events' \ DOMAIN events :
                  ~Recorded(events'[e].user, events'[e].date)
           /\ \A e, f \in DOMAIN events' \ DOMAIN events : e = f
           /\ \A e \in DOMAIN events' \ DOMAIN events : events'[e].status = "pending"
<1> USE DEF tables
<1>1. CASE UNCHANGED events
  BY <1>1
<1>2. CASE BeginHourly
  <2>1. events' = [e \in DOMAIN events |->
                      IF events[e].age < 2 THEN [events[e] EXCEPT !.age = @ + 1] ELSE events[e]]
    BY <1>2 DEF BeginHourly
  <2>2. \A e \in DOMAIN events : events[e] \in Event
    BY DEF TypeOK
  <2> QED BY <2>1, <2>2 DEF Event
<1>3. ASSUME NEW r \in Runners, MarkEvents(r)
      PROVE  /\ DOMAIN events = DOMAIN events'
             /\ \A e \in DOMAIN events :
                    events'[e].user = events[e].user /\ events'[e].date = events[e].date
  <2>1. /\ DOMAIN events' = DOMAIN events
        /\ \A e \in DOMAIN events :
              \/ events'[e] = events[e]
              \/ events'[e] = [events[e] EXCEPT !.status = "sent", !.age = 0]
              \/ events'[e] = [events[e] EXCEPT !.status = "error"]
    BY <1>3 DEF MarkEvents
  <2>2. \A e \in DOMAIN events : events[e] \in Event
    BY DEF TypeOK
  <2> QED BY <2>1, <2>2 DEF Event
<1>4. ASSUME NEW r \in Runners, InsertEvent(r), ~(UNCHANGED events)
      PROVE  \E x \in Event : /\ events' = Append(events, x) /\ ~Recorded(x.user, x.date)
                             /\ x.status = "pending"
  <2> DEFINE u == Min(run[r].due)
             x == [user |-> u, date |-> run[r].date, status |-> "pending", age |-> NotSent]
  <2>1. run[r] \in Inserting
    BY <1>4, Places DEF InsertEvent, Does
  <2>2. u \in Users
    BY <1>4, <2>1, NextUser DEF InsertEvent, Does, Inserting
  <2>3. events' = Append(events, x) /\ ~Recorded(u, run[r].date)
    BY <1>4 DEF InsertEvent
  <2> HIDE DEF u
  <2>4. x \in Event /\ x.user = u /\ x.date = run[r].date /\ x.status = "pending"
    BY <2>1, <2>2 DEF Event, Inserting
  <2> QED BY <2>3, <2>4
<1>5. ASSUME NEW x \in Event, events' = Append(events, x), ~Recorded(x.user, x.date)
      PROVE  /\ DOMAIN events \subseteq DOMAIN events'
             /\ \A e \in DOMAIN events : events'[e] = events[e]
             /\ \A e \in DOMAIN events' \ DOMAIN events : e = Len(events) + 1 /\ events'[e] = x
  BY <1>5, Recording DEF TypeOK
<1>6. \/ UNCHANGED events \/ BeginHourly
      \/ \E r \in Runners : MarkEvents(r) \/ InsertEvent(r)
  BY DEF Next, Step, vars, SavePreferences, BeginByHand, FindEvent, LoadPending, SkipUser,
         StartImmediate, StartDigest, Send, Finish, Crash
<1> QED BY <1>1, <1>2, <1>3, <1>4, <1>5, <1>6

\* What a step does to the status of a row.
LEMMA Statuses ==
    ASSUME TypeOK, [Next]_vars, NEW e \in DOMAIN events
    PROVE  \/ /\ events'[e].status = events[e].status
              /\ events'[e].age = NotSent <=> events[e].age = NotSent
           \/ \E r \in Runners :
                /\ MarkEvents(r) /\ e \in run[r].batch
                /\ events'[e].status = IF Does(r, "sent") THEN "sent" ELSE "error"
<1> USE DEF tables
<1>a. events[e] \in Event
  BY DEF TypeOK
<1>1. CASE UNCHANGED events
  BY <1>1
<1>2. CASE BeginHourly
  <2>1. events'[e] = IF events[e].age < 2 THEN [events[e] EXCEPT !.age = @ + 1] ELSE events[e]
    BY <1>2 DEF BeginHourly
  <2> QED BY <1>a, <2>1 DEF Event, Ages, NotSent
<1>3. ASSUME NEW r \in Runners, MarkEvents(r), e \notin run[r].batch PROVE events'[e] = events[e]
  BY <1>3 DEF MarkEvents
<1>4. ASSUME NEW r \in Runners, MarkEvents(r), e \in run[r].batch
      PROVE  events'[e].status = IF Does(r, "sent") THEN "sent" ELSE "error"
  <2>1. events'[e] = IF Does(r, "sent") THEN [events[e] EXCEPT !.status = "sent", !.age = 0]
                     ELSE [events[e] EXCEPT !.status = "error"]
    BY <1>4 DEF MarkEvents
  <2> QED BY <1>a, <2>1 DEF Event
<1>5. ASSUME NEW r \in Runners, InsertEvent(r) PROVE events'[e] = events[e]
  <2>1. UNCHANGED events \/ \E x : events' = Append(events, x)
    BY <1>5 DEF InsertEvent
  <2>2. \A x : Append(events, x)[e] = events[e]
    BY DEF TypeOK
  <2> QED BY <2>1, <2>2
<1>6. \/ UNCHANGED events \/ BeginHourly
      \/ \E r \in Runners : MarkEvents(r) \/ InsertEvent(r)
  BY DEF Next, Step, vars, SavePreferences, BeginByHand, FindEvent, LoadPending, SkipUser,
         StartImmediate, StartDigest, Send, Finish, Crash
<1> QED BY <1>1, <1>2, <1>3, <1>4, <1>5, <1>6

\* Two cycles that find no event for an alert record one (create_notification_event).
THEOREM AlertsAreRecordedOnce == Spec => []OneEventPerHash
<1>1. Init => OneEventPerHash
  BY DEF Init, OneEventPerHash
<1>2. TypeOK /\ OneEventPerHash /\ [Next]_vars => OneEventPerHash'
  <2> SUFFICES ASSUME TypeOK, OneEventPerHash, [Next]_vars PROVE OneEventPerHash'
    OBVIOUS
  <2>1. ASSUME NEW e \in DOMAIN events', NEW f \in DOMAIN events',
               events'[e].user = events'[f].user, events'[e].date = events'[f].date
        PROVE  e = f
    <3>1. CASE e \in DOMAIN events /\ f \in DOMAIN events
      BY <2>1, <3>1, RowsLast DEF OneEventPerHash
    <3>2. CASE e \notin DOMAIN events /\ f \in DOMAIN events
      BY <2>1, <3>2, RowsLast DEF Recorded, EventsOf
    <3>3. CASE e \in DOMAIN events /\ f \notin DOMAIN events
      BY <2>1, <3>3, RowsLast DEF Recorded, EventsOf
    <3> QED BY <2>1, <3>1, <3>2, <3>3, RowsLast
  <2> QED BY <2>1 DEF OneEventPerHash
<1> QED BY <1>1, <1>2, AlertTypes, PTL DEF Spec

-----------------------------------------------------------------------------
(* What runners have in hand *)

Unsent(r) == IF Does(r, "dispatch") THEN run[r].left
             ELSE IF Does(r, "send") THEN run[r].batch \cup run[r].next \cup run[r].left
             ELSE IF run[r].at \in {"sent", "failed"} THEN run[r].next \cup run[r].left
             ELSE {}
Unmarked(r) == IF run[r].at \in {"sent", "failed"} THEN run[r].batch ELSE {}

\* A step that neither loads, mails nor marks anything, and kills nobody.
Quiet(r) ==
    /\ \A q \in Runners \ {r} : run'[q] = run[q]
    /\ Unsent(r)' \subseteq Unsent(r) /\ Unmarked(r) = {} /\ Unmarked(r)' = {}

LEMMA QuietMove ==
    ASSUME TypeOK, NEW r \in Runners, NEW t, Then(r, t), run[r].at \notin {"sent", "failed"},
           \/ t.at \in {"idle", "evaluate", "insert"}
           \/ t.at = "dispatch" /\ Does(r, "dispatch") /\ t.left \subseteq run[r].left
           \/ /\ t.at = "send" /\ Does(r, "dispatch")
              /\ t.batch \cup t.next \cup t.left \subseteq run[r].left
    PROVE  Quiet(r)
<1>1. run'[r] = t /\ \A q \in Runners \ {r} : run'[q] = run[q]
  BY OneMoves
<1>2. Unmarked(r) = {}
  BY DEF Unmarked
<1>3. Unmarked(r)' = {}
  BY <1>1 DEF Unmarked
<1>4. Unsent(r)' \subseteq Unsent(r)
  BY <1>1 DEF Unsent, Does
<1> QED BY <1>1, <1>2, <1>3, <1>4 DEF Quiet

LEMMA QuietSteps ==
    ASSUME TypeOK, NEW r \in Runners,
           \/ \E dry \in BOOLEAN : Candidates(r, dry) /\ Does(r, "idle")
           \/ FindEvent(r) \/ InsertEvent(r) \/ SkipUser(r) \/ StartImmediate(r)
           \/ StartDigest(r) \/ Finish(r)
    PROVE  Quiet(r)
<1>1. ASSUME NEW dry \in BOOLEAN, Candidates(r, dry), Does(r, "idle") PROVE Quiet(r)
  <2>1. PICK date \in Dates, due \in SUBSET Users :
            Then(r, [at |-> "evaluate", dry |-> dry, date |-> date, due |-> due])
    BY <1>1 DEF Candidates
  <2> QED BY <1>1, <2>1, QuietMove DEF Does
<1>2. CASE FindEvent(r)
  <2> DEFINE u == Min(run[r].due)
  <2>1. run[r] \in Evaluating /\ run[r].at = "evaluate"
    BY <1>2, Places DEF FindEvent, Does
  <2>2. PICK t \in {[run[r] EXCEPT !.due = run[r].due \ {u}], [run[r] EXCEPT !.at = "insert"]} : Then(r, t)
    BY <1>2 DEF FindEvent
  <2> HIDE DEF u
  <2>3. t.at \in {"evaluate", "insert"}
    BY <2>1, <2>2 DEF Evaluating
  <2> QED BY <2>1, <2>2, <2>3, QuietMove
<1>3. CASE InsertEvent(r)
  <2> DEFINE u == Min(run[r].due)
  <2>1. run[r] \in Inserting /\ run[r].at = "insert"
    BY <1>3, Places DEF InsertEvent, Does
  <2>2. \/ Then(r, Idle)
        \/ Then(r, [run[r] EXCEPT !.at = "evaluate", !.due = run[r].due \ {u}])
    BY <1>3 DEF InsertEvent
  <2> HIDE DEF u
  <2>3. CASE Then(r, Idle)
    BY <2>1, <2>3, QuietMove DEF Idle
  <2>4. CASE Then(r, [run[r] EXCEPT !.at = "evaluate", !.due = run[r].due \ {u}])
    <3>1. [run[r] EXCEPT !.at = "evaluate", !.due = run[r].due \ {u}].at = "evaluate"
      BY <2>1 DEF Inserting
    <3> QED BY <2>1, <2>4, <3>1, QuietMove
  <2> QED BY <2>2, <2>3, <2>4
<1>4. CASE SkipUser(r)
  <2>1. Does(r, "dispatch") /\ run[r] \in Dispatching /\ run[r].at = "dispatch"
    BY <1>4, Places DEF SkipUser, Does
  <2>2. Then(r, [run[r] EXCEPT !.left = run[r].left \ Group(r)])
    BY <1>4 DEF SkipUser
  <2> QED BY <2>1, <2>2, QuietMove DEF Dispatching
<1>5. ASSUME MayMail(r), NEW batch \in SUBSET Group(r), Then(r, Mailing(r, batch)) PROVE Quiet(r)
  <2>1. Group(r) \subseteq run[r].left /\ Does(r, "dispatch") /\ run[r].at = "dispatch"
    BY <1>5, GroupOf DEF MayMail, Does
  <2> QED BY <1>5, <2>1, QuietMove DEF Mailing
<1>6. CASE StartImmediate(r)
  BY <1>5, <1>6 DEF StartImmediate, Oldest
<1>7. CASE StartDigest(r)
  <2>1. PICK t \in {Idle, Mailing(r, Group(r))} : Then(r, t)
    BY <1>7 DEF StartDigest
  <2>2. CASE t = Idle
    BY <1>7, <2>1, <2>2, QuietMove DEF StartDigest, MayMail, Does, Idle
  <2> QED BY <1>5, <1>7, <2>1, <2>2 DEF StartDigest
<1>8. CASE Finish(r)
  BY <1>8, QuietMove DEF Finish, Does, Idle
<1> QED BY <1>1, <1>2, <1>3, <1>4, <1>5, <1>6, <1>7, <1>8

\* A runner loads, mails, marks or is killed, or the step is quiet.
LEMMA Steps ==
    ASSUME TypeOK, [Next]_vars
    PROVE  \/ run' = run /\ UNCHANGED <<events, history>>
           \/ \E r \in Runners : Quiet(r) /\ UNCHANGED <<trials, crashes>>
           \/ \E r \in Runners : LoadPending(r) \/ MarkEvents(r) \/ Crash(r)
           \/ \E r \in Runners, ok \in BOOLEAN : Send(r, ok)
<1> USE DEF tables, history
<1>1. CASE UNCHANGED vars \/ \E u \in Users : SavePreferences(u)
  BY <1>1 DEF vars, SavePreferences
<1>2. CASE BeginHourly
  <2>1. Timer \in Runners
    BY DEF Runners
  <2> QED BY <1>2, <2>1, QuietSteps DEF BeginHourly
<1>3. CASE \E r \in ByHand, dry \in BOOLEAN : BeginByHand(r, dry)
  <2>1. PICK r \in ByHand, dry \in BOOLEAN : BeginByHand(r, dry)
    BY <1>3
  <2>2. r \in Runners
    BY DEF Runners
  <2> QED BY <2>1, <2>2, QuietSteps DEF BeginByHand
<1>4. ASSUME NEW r \in Runners,
             FindEvent(r) \/ InsertEvent(r) \/ SkipUser(r) \/ StartImmediate(r) \/ StartDigest(r) \/ Finish(r)
      PROVE  Quiet(r) /\ UNCHANGED <<trials, crashes>>
  BY <1>4, QuietSteps
  DEF FindEvent, InsertEvent, SkipUser, StartImmediate, StartDigest, Finish
<1> QED BY <1>1, <1>2, <1>3, <1>4 DEF Next, Step

-----------------------------------------------------------------------------
(* Marked as sent *)

Went(e) == mailed[e] > 0 \/ e \in trials

\* What a runner is about to mark as sent went out, or a dry run pretended so.
AboutToMark == \A r \in Runners : Does(r, "sent") => \A e \in run[r].batch : Went(e)

\* What went out went out.
LEMMA WentLasts ==
    ASSUME TypeOK, [Next]_vars, NEW e \in DOMAIN events, Went(e) PROVE Went(e)'
<1> USE DEF tables, history
<1>1. mailed \in Seq(Nat) /\ e \in DOMAIN mailed
  BY DEF TypeOK
<1>2. CASE UNCHANGED <<mailed, trials>>
  BY <1>2 DEF Went
<1>3. ASSUME NEW r \in Runners, InsertEvent(r), mailed' = Append(mailed, 0) PROVE Went(e)'
  <2>1. 0 \in Nat /\ trials' = trials
    BY <1>3 DEF InsertEvent
  <2>2. mailed'[e] = mailed[e]
    BY <1>1, <1>3, <2>1, Recording
  <2> QED BY <2>1, <2>2 DEF Went
<1>4. ASSUME NEW r \in Runners, NEW ok \in BOOLEAN, Send(r, ok) PROVE Went(e)'
  <2>1. mailed'[e] \in {mailed[e], mailed[e] + 1} /\ trials \subseteq trials'
    BY <1>1, <1>4 DEF Send
  <2> QED BY <1>1, <2>1 DEF Went
<1>5. \/ UNCHANGED <<mailed, trials>>
      \/ \E r \in Runners : InsertEvent(r) /\ mailed' = Append(mailed, 0)
      \/ \E r \in Runners, ok \in BOOLEAN : Send(r, ok)
  BY DEF Next, Step, vars, SavePreferences, BeginHourly, BeginByHand, FindEvent, InsertEvent,
         LoadPending, SkipUser, StartImmediate, StartDigest, MarkEvents, Finish, Crash
<1> QED BY <1>2, <1>3, <1>4, <1>5

\* A runner is about to mark a batch as sent only when it was before, or sent it.
LEMMA OnlySent ==
    ASSUME TypeOK, TypeOK', [Next]_vars, NEW r \in Runners, Does(r, "sent")'
    PROVE  run'[r] = run[r] \/ Send(r, TRUE)
<1>1. run'[r].at = "sent" /\ Unmarked(r)' # {}
  <2>1. run'[r].at = "sent"
    BY DEF Does
  <2>2. run'[r] \in {Idle} \cup Evaluating \cup Inserting \cup Dispatching' \cup Sending'
    BY DEF TypeOK, Evaluating, Inserting
  <2>3. run'[r] \in Sending'
    BY <2>1, <2>2 DEF Idle, Evaluating, Inserting, Dispatching
  <2> QED BY <2>1, <2>3 DEF Unmarked, Sending
<1>2. ASSUME NEW q \in Runners, Quiet(q) PROVE run'[r] = run[r]
  BY <1>1, <1>2 DEF Quiet
<1>3. ASSUME NEW q \in Runners, NEW t, Then(q, t), t.at # "sent" PROVE run'[r] = run[r]
  BY <1>1, <1>3, OneMoves
<1>4. ASSUME NEW q \in Runners, LoadPending(q) \/ MarkEvents(q) \/ Crash(q) PROVE run'[r] = run[r]
  <2>1. CASE LoadPending(q)
    BY <1>3, <2>1 DEF LoadPending
  <2>2. CASE MarkEvents(q)
    BY <1>3, <2>2, AfterBatch DEF MarkEvents
  <2>3. CASE Crash(q)
    BY <1>3, <2>3 DEF Crash, Idle
  <2> QED BY <1>4, <2>1, <2>2, <2>3
<1>5. ASSUME NEW q \in Runners, NEW ok \in BOOLEAN, Send(q, ok), ~Send(r, TRUE) PROVE run'[r] = run[r]
  <2>1. CASE q # r
    BY <1>5, <2>1, OneMoves DEF Send
  <2>2. CASE q = r /\ ~ok
    <3>1. run[r] \in Sending /\ Then(r, [run[r] EXCEPT !.at = "failed"])
      BY <1>5, <2>2, Places DEF Send, Does
    <3> QED BY <1>3, <3>1 DEF Sending
  <2> QED BY <1>5, <2>1, <2>2
<1> QED BY <1>2, <1>4, <1>5, Steps

\* A step leaves a runner about to mark only what went out.
LEMMA MarksKept ==
    ASSUME TypeOK, TypeOK', AboutToMark, [Next]_vars PROVE AboutToMark'
<1> SUFFICES ASSUME NEW r \in Runners, Does(r, "sent")', NEW e \in run'[r].batch PROVE Went(e)'
  BY DEF AboutToMark
<1>1. CASE run'[r] = run[r]
  <2>1. Does(r, "sent") /\ e \in run[r].batch
    BY <1>1 DEF Does
  <2>2. e \in DOMAIN events
    BY <2>1, Places DEF Does, Sending
  <2> QED BY <2>1, <2>2, WentLasts DEF AboutToMark
<1>2. CASE Send(r, TRUE)
  <2>1. run[r] \in Sending /\ Then(r, [run[r] EXCEPT !.at = "sent"])
    BY <1>2, Places DEF Send, Does
  <2>2. e \in run[r].batch
    <3>1. run'[r] = [run[r] EXCEPT !.at = "sent"]
      BY <2>1, OneMoves
    <3> QED BY <2>1, <3>1 DEF Sending
  <2>3. e \in DOMAIN mailed /\ mailed[e] \in Nat
    BY <2>1, <2>2 DEF Sending, TypeOK
  <2> QED BY <1>2, <2>2, <2>3 DEF Send, Went
<1> QED BY <1>1, <1>2, OnlySent

\* What is marked as sent was mailed, or a dry run marked it (_mark_events).
THEOREM SentWasMailed == Spec => []SentIsMailed
<1> DEFINE Inv == TypeOK /\ AboutToMark /\ SentIsMailed
<1>1. Init => Inv
  BY TypesStart DEF Init, AboutToMark, SentIsMailed, Does, Idle
<1>2. Inv /\ [Next]_vars => Inv'
  <2> SUFFICES ASSUME TypeOK, AboutToMark, SentIsMailed, [Next]_vars PROVE Inv'
    OBVIOUS
  <2>1. TypeOK' /\ AboutToMark'
    BY TypesKept, MarksKept
  <2>2. ASSUME NEW e \in DOMAIN events', IsSent(e)' PROVE Went(e)'
    <3>1. e \in DOMAIN events
      BY <2>2, RowsLast DEF IsSent
    <3>2. IsSent(e) \/ \E r \in Runners : Does(r, "sent") /\ e \in run[r].batch
      BY <2>2, <3>1, Statuses DEF IsSent
    <3>3. Went(e)
      BY <3>1, <3>2 DEF SentIsMailed, AboutToMark, Went
    <3> QED BY <3>1, <3>3, WentLasts
  <2>3. SentIsMailed'
    BY <2>2 DEF SentIsMailed, Went
  <2> QED BY <2>1, <2>3
<1> QED BY <1>1, <1>2, PTL DEF Spec

-----------------------------------------------------------------------------
(* Mailed how often *)

Holding(e) == {r \in Runners : e \in Unsent(r)}
Marking(e) == {r \in Runners : e \in Unmarked(r)}

\* An event is in one place only of what a runner has in hand.
Apart ==
    \A r \in Runners : run[r].at \in {"send", "sent", "failed"} =>
        /\ run[r].batch \cap run[r].next = {}
        /\ (run[r].batch \cup run[r].next) \cap run[r].left = {}

\* Each mail of a pending event was followed by a kill, or its runner is about to mark it;
\* and who still has an event in hand may mail it once.
Repeats(e) ==
    /\ IsPending(e) => mailed[e] <= crashes + Cardinality(Marking(e))
    /\ mailed[e] + Cardinality(Holding(e)) <= crashes + Cardinality(Runners)

\* Runners can be counted.
LEMMA Counts ==
    /\ IsFiniteSet(Runners)
    /\ \A S \in SUBSET Runners : IsFiniteSet(S) /\ Cardinality(S) \in Nat
    /\ \A S \in SUBSET Runners : \A T \in SUBSET S : Cardinality(T) <= Cardinality(S)
<1>1. Runners = ByHand \cup {Timer}
  BY DEF Runners
<1>2. IsFiniteSet(Runners)
  BY <1>1, RunnerAssumption, FS_AddElement
<1> QED BY <1>2, FS_Subset, FS_CardinalityType

LEMMA ApartKept == ASSUME TypeOK, Apart, [Next]_vars PROVE Apart'
<1> DEFINE Parts(t) == t.at \in {"send", "sent", "failed"} =>
                           /\ t.batch \cap t.next = {}
                           /\ (t.batch \cup t.next) \cap t.left = {}
<1>1. ASSUME NEW r \in Runners, NEW t, Then(r, t), Parts(t) PROVE Apart'
  <2>1. \A q \in Runners : run'[q] = run[q] \/ (q = r /\ run'[q] = t)
    BY <1>1, OneMoves
  <2> QED BY <1>1, <2>1 DEF Apart
<1>2. CASE run' = run
  BY <1>2 DEF Apart
<1>3. ASSUME NEW r \in Runners, NEW batch \in SUBSET Group(r), Then(r, Mailing(r, batch)) PROVE Apart'
  BY <1>1, <1>3 DEF Mailing
<1>4. ASSUME NEW r \in Runners, StartImmediate(r) \/ StartDigest(r) PROVE Apart'
  <2>1. CASE Then(r, Idle)
    BY <1>1, <2>1 DEF Idle
  <2>2. CASE Then(r, Mailing(r, Group(r))) \/ Then(r, Mailing(r, Oldest(Group(r))))
    BY <1>3, <2>2 DEF Oldest
  <2> QED BY <1>4, <2>1, <2>2 DEF StartImmediate, StartDigest
<1>5. ASSUME NEW r \in Runners, NEW ok \in BOOLEAN, Send(r, ok) PROVE Apart'
  <2>1. run[r] \in Sending /\ run[r].at = "send"
    BY <1>5, Places DEF Send, Does
  <2>2. PICK a \in {"sent", "failed"} : Then(r, [run[r] EXCEPT !.at = a])
    BY <1>5 DEF Send
  <2>3. Parts([run[r] EXCEPT !.at = a])
    BY <2>1 DEF Apart, Sending
  <2> HIDE DEF Parts
  <2> QED BY <1>1, <2>2, <2>3
<1>6. ASSUME NEW r \in Runners, MarkEvents(r) PROVE Apart'
  <2>1. run[r].at \in {"sent", "failed"} /\ Then(r, NextBatch(r))
    BY <1>6 DEF MarkEvents
  <2>2. Parts(NextBatch(r))
    BY <2>1, AfterBatch DEF Apart, Oldest
  <2> HIDE DEF Parts
  <2> QED BY <1>1, <2>1, <2>2
<1>7. ASSUME NEW r \in Runners, NEW t, Then(r, t), t.at \notin {"send", "sent", "failed"} PROVE Apart'
  BY <1>1, <1>7
<1>8. ASSUME NEW r \in Runners, NEW dry, Candidates(r, dry) PROVE Apart'
  <2>1. PICK date \in Dates, due \in SUBSET Users :
            Then(r, [at |-> "evaluate", dry |-> dry, date |-> date, due |-> due])
    BY <1>8 DEF Candidates
  <2> QED BY <1>7, <2>1
<1>9. ASSUME NEW r \in Runners, FindEvent(r) \/ InsertEvent(r) PROVE Apart'
  <2> DEFINE u == Min(run[r].due)
  <2>1. run[r] \in Evaluating \cup Inserting /\ run[r].at \in {"evaluate", "insert"}
    BY <1>9, Places DEF FindEvent, InsertEvent, Does
  <2>2. \/ Then(r, Idle) \/ Then(r, [run[r] EXCEPT !.at = "insert"])
        \/ Then(r, [run[r] EXCEPT !.due = run[r].due \ {u}])
        \/ Then(r, [run[r] EXCEPT !.at = "evaluate", !.due = run[r].due \ {u}])
    BY <1>9 DEF FindEvent, InsertEvent
  <2> HIDE DEF u
  <2>3. /\ [run[r] EXCEPT !.at = "insert"].at = "insert"
        /\ [run[r] EXCEPT !.due = run[r].due \ {u}].at = run[r].at
        /\ [run[r] EXCEPT !.at = "evaluate", !.due = run[r].due \ {u}].at = "evaluate"
    BY <2>1 DEF Evaluating, Inserting
  <2> QED BY <1>7, <2>1, <2>2, <2>3 DEF Idle
<1>10. ASSUME NEW r \in Runners, LoadPending(r) \/ Finish(r) \/ Crash(r) PROVE Apart'
  BY <1>7, <1>10 DEF LoadPending, Finish, Crash, Idle
<1>11. ASSUME NEW r \in Runners, SkipUser(r) PROVE Apart'
  <2>1. run[r] \in Dispatching /\ run[r].at = "dispatch"
    BY <1>11, Places DEF SkipUser, Does
  <2>2. Then(r, [run[r] EXCEPT !.left = run[r].left \ Group(r)])
    BY <1>11 DEF SkipUser
  <2>3. [run[r] EXCEPT !.left = run[r].left \ Group(r)].at = "dispatch"
    BY <2>1 DEF Dispatching
  <2> QED BY <1>7, <2>2, <2>3
<1>12. CASE BeginHourly
  BY <1>8, <1>12 DEF BeginHourly, Runners
<1>13. ASSUME NEW r \in ByHand, NEW dry \in BOOLEAN, BeginByHand(r, dry) PROVE Apart'
  BY <1>8, <1>13 DEF BeginByHand, Runners
<1> QED
  BY <1>2, <1>4, <1>5, <1>6, <1>9, <1>10, <1>11, <1>12, <1>13 DEF Next, Step, vars, SavePreferences

\* What a step does to the mails of an event.
LEMMA Mails ==
    ASSUME TypeOK, [Next]_vars
    PROVE  /\ \A e \in DOMAIN events' \ DOMAIN events : mailed'[e] = 0
           /\ \/ \A e \in DOMAIN events : mailed'[e] = mailed[e]
              \/ \E r \in Runners, ok \in BOOLEAN : Send(r, ok)
<1> USE DEF tables, history
<1>1. mailed \in Seq(Nat) /\ DOMAIN mailed = DOMAIN events /\ Len(mailed) = Len(events)
  BY DEF TypeOK
<1>2. CASE UNCHANGED mailed /\ DOMAIN events' = DOMAIN events
  BY <1>2
<1>3. ASSUME NEW r \in Runners, InsertEvent(r)
      PROVE  /\ \A e \in DOMAIN events' \ DOMAIN events : mailed'[e] = 0
             /\ \A e \in DOMAIN events : mailed'[e] = mailed[e]
  <2>1. CASE UNCHANGED <<events, mailed>>
    BY <2>1
  <2>2. CASE mailed' = Append(mailed, 0) /\ \E x : events' = Append(events, x)
    <3>1. 0 \in Nat
      OBVIOUS
    <3>2. \A x : DOMAIN Append(events, x) = DOMAIN events \cup {Len(events) + 1}
      BY DEF TypeOK
    <3> QED BY <1>1, <2>2, <3>1, <3>2, Recording
  <2> QED BY <1>3, <2>1, <2>2 DEF InsertEvent
<1>4. ASSUME NEW r \in Runners, NEW ok \in BOOLEAN, Send(r, ok) PROVE events' = events
  BY <1>4 DEF Send
<1>5. \/ UNCHANGED mailed /\ DOMAIN events' = DOMAIN events
      \/ \E r \in Runners : InsertEvent(r)
      \/ \E r \in Runners, ok \in BOOLEAN : Send(r, ok)
  BY DEF Next, Step, vars, SavePreferences, BeginHourly, BeginByHand, FindEvent,
         LoadPending, SkipUser, StartImmediate, StartDigest, MarkEvents, Finish, Crash
<1> QED BY <1>2, <1>3, <1>4, <1>5

\* An event that is no longer pending stays so.
LEMMA PendingWas ==
    ASSUME TypeOK, [Next]_vars, NEW e \in DOMAIN events, IsPending(e)'
    PROVE  IsPending(e)
BY Statuses DEF IsPending

\* What one runner does to the two counts of an event.
LEMMA OneCounts ==
    ASSUME NEW r \in Runners, \A q \in Runners \ {r} : run'[q] = run[q], NEW e
    PROVE  /\ e \in Unsent(r)' => Holding(e)' = Holding(e) \cup {r}
           /\ e \notin Unsent(r)' => Holding(e)' = Holding(e) \ {r}
           /\ e \in Unmarked(r)' => Marking(e)' = Marking(e) \cup {r}
           /\ e \notin Unmarked(r)' => Marking(e)' = Marking(e) \ {r}
<1>1. \A q \in Runners \ {r} : Unsent(q)' = Unsent(q) /\ Unmarked(q)' = Unmarked(q)
  BY DEF Unsent, Unmarked, Does
<1>2. Runners' = Runners
  BY DEF Runners
<1> QED BY <1>1, <1>2 DEF Holding, Marking

\* Two sets of runners without a common one are no more than the runners.
LEMMA TwoParts ==
    ASSUME NEW H \in SUBSET Runners, NEW M \in SUBSET Runners, H \cap M = {}
    PROVE  Cardinality(H) + Cardinality(M) <= Cardinality(Runners)
<1>1. IsFiniteSet(H) /\ IsFiniteSet(M)
  BY Counts
<1>2. Cardinality(H \cup M) = Cardinality(H) + Cardinality(M) - Cardinality({})
  BY <1>1, FS_Union
<1>3. Cardinality({}) = 0
  BY FS_EmptySet
<1>4. Cardinality(H \cup M) <= Cardinality(Runners) /\ Cardinality(H) \in Nat /\ Cardinality(M) \in Nat
  BY Counts
<1> QED BY <1>2, <1>3, <1>4

\* Nobody both has an event in hand and is about to mark it.
LEMMA Disjoint ==
    ASSUME Apart, NEW e
    PROVE  /\ Holding(e) \in SUBSET Runners /\ Marking(e) \in SUBSET Runners
           /\ Holding(e) \cap Marking(e) = {}
<1>1. ASSUME NEW r \in Holding(e) \cap Marking(e) PROVE FALSE
  <2>1. r \in Runners /\ e \in Unsent(r) /\ e \in Unmarked(r)
    BY <1>1 DEF Holding, Marking
  <2>2. run[r].at \in {"sent", "failed"}
    BY <2>1 DEF Unmarked
  <2> QED BY <2>1, <2>2 DEF Unmarked, Unsent, Does, Apart
<1> QED BY <1>1 DEF Holding, Marking

\* Every step keeps the bound on the mails of an event.
LEMMA RepeatsKept ==
    ASSUME TypeOK, TypeOK', Apart, [Next]_vars, NEW e \in DOMAIN events, Repeats(e)
    PROVE  Repeats(e)'
<1> USE DEF tables, history
<1> DEFINE H == Cardinality(Holding(e))
           M == Cardinality(Marking(e))
           R == Cardinality(Runners)
<1>a. /\ mailed[e] \in Nat /\ crashes \in Nat /\ R \in Nat /\ R' = R
      /\ H \in Nat /\ M \in Nat /\ H' \in Nat /\ M' \in Nat
  <2>1. Runners' = Runners /\ {Holding(e), Marking(e), Holding(e)', Marking(e)'} \subseteq SUBSET Runners
    BY DEF Runners, Holding, Marking
  <2> QED BY <2>1, Counts DEF TypeOK
<1>b. /\ IsPending(e) => mailed[e] <= crashes + M
      /\ mailed[e] + H <= crashes + R
  BY DEF Repeats
<1>c. IsFiniteSet(Holding(e)) /\ IsFiniteSet(Marking(e))
  BY Counts DEF Holding, Marking
<1>d. ASSUME /\ IsPending(e)' => mailed'[e] <= crashes' + M'
             /\ mailed'[e] + H' <= crashes' + R
      PROVE  Repeats(e)'
  BY <1>a, <1>d DEF Repeats
<1>1. CASE run' = run /\ UNCHANGED <<events, history>>
  BY <1>1 DEF Repeats, Holding, Marking, Unsent, Unmarked, Does, Runners, IsPending
<1>2. ASSUME NEW r \in Runners, Quiet(r), UNCHANGED <<trials, crashes>>, mailed'[e] = mailed[e]
      PROVE  Repeats(e)'
  <2>1. e \notin Unmarked(r)' /\ e \notin Unmarked(r) /\ (e \in Unsent(r)' => e \in Unsent(r))
    BY <1>2 DEF Quiet
  <2>2. Marking(e)' = Marking(e) /\ Holding(e)' \subseteq Holding(e)
    BY <1>2, <2>1, OneCounts DEF Quiet, Holding, Marking
  <2>3. H' <= H /\ M' = M
    BY <1>c, <2>2, FS_Subset
  <2> HIDE DEF H, M, R
  <2> QED BY <1>a, <1>b, <1>d, <1>2, <2>3, PendingWas
<1>3. ASSUME NEW r \in Runners, LoadPending(r) PROVE Repeats(e)'
  <2>1. /\ run'[r] = [at |-> "dispatch", dry |-> run[r].dry, left |-> {f \in DOMAIN events : IsPending(f)}]
        /\ \A q \in Runners \ {r} : run'[q] = run[q]
        /\ run[r].at = "evaluate" /\ UNCHANGED <<events, history>>
    BY <1>3, OneMoves DEF LoadPending, Does
  <2>2. /\ Unsent(r)' = {f \in DOMAIN events : IsPending(f)} /\ Unmarked(r)' = {}
        /\ Unmarked(r) = {} /\ Unsent(r) = {}
    BY <2>1 DEF Unsent, Unmarked, Does
  <2>3. Marking(e)' = Marking(e)
    BY <2>1, <2>2, OneCounts DEF Marking
  <2>4. CASE ~IsPending(e)
    <3>1. Holding(e)' = Holding(e)
      BY <2>1, <2>2, <2>4, OneCounts DEF Holding
    <3> QED BY <1>a, <1>b, <1>d, <2>1, <2>3, <3>1, PendingWas
  <2>5. CASE IsPending(e)
    <3>1. Holding(e)' \cap Marking(e) = {} /\ Holding(e)' \in SUBSET Runners /\ Marking(e) \in SUBSET Runners
      <4>1. Holding(e)' \subseteq Holding(e) \cup {r} /\ r \notin Marking(e)
        BY <2>1, <2>2, OneCounts DEF Marking
      <4> QED BY <4>1, Disjoint
    <3>2. H' + M <= R /\ M' = M
      BY <2>3, <3>1, TwoParts
    <3>3. mailed'[e] = mailed[e] /\ crashes' = crashes /\ mailed[e] <= crashes + M
      BY <1>b, <2>1, <2>5
    <3> HIDE DEF H, M, R
    <3>4. M' = M
      BY <3>2
    <3>5. mailed'[e] <= crashes' + M'
      BY <3>3, <3>4
    <3>6. mailed'[e] + H' <= crashes' + R
      <4>1. ASSUME NEW m \in Nat, NEW c \in Nat, NEW h \in Nat, NEW k \in Nat, NEW n \in Nat,
                   m <= c + k, h + k <= n
            PROVE  m + h <= c + n
        BY <4>1
      <4>2. /\ mailed[e] \in Nat /\ crashes \in Nat /\ H' \in Nat /\ M \in Nat /\ R \in Nat
            /\ mailed[e] <= crashes + M /\ H' + M <= R
        BY <1>a, <3>2, <3>3
      <4>3. mailed[e] + H' <= crashes + R
        BY <4>1, <4>2
      <4> QED BY <3>3, <4>3
    <3> QED BY <1>d, <3>5, <3>6
  <2> QED BY <2>4, <2>5
<1>4. ASSUME NEW r \in Runners, MarkEvents(r) PROVE Repeats(e)'
  <2>1. /\ run'[r] = NextBatch(r) /\ \A q \in Runners \ {r} : run'[q] = run[q]
        /\ run[r].at \in {"sent", "failed"} /\ UNCHANGED history
    BY <1>4, OneMoves DEF MarkEvents
  <2>2. Unsent(r)' \subseteq Unsent(r) /\ Unmarked(r)' = {} /\ Unmarked(r) = run[r].batch
    BY <2>1, AfterBatch DEF Unsent, Unmarked, Does, Oldest
  <2>3. Holding(e)' \subseteq Holding(e)
    BY <2>1, <2>2, OneCounts DEF Holding
  <2>4. H' <= H
    BY <1>c, <2>3, FS_Subset
  <2>5. IsPending(e)' => M' = M
    <3>1. CASE e \in run[r].batch
      <4>1. events'[e].status # "pending"
        <5>1. events'[e] = IF Does(r, "sent") THEN [events[e] EXCEPT !.status = "sent", !.age = 0]
                           ELSE [events[e] EXCEPT !.status = "error"]
          BY <1>4, <3>1 DEF MarkEvents
        <5> QED BY <5>1 DEF TypeOK, Event
      <4> QED BY <4>1 DEF IsPending
    <3>2. CASE e \notin run[r].batch
      <4>1. Marking(e)' = Marking(e) \ {r} /\ r \notin Marking(e)
        BY <2>1, <2>2, <3>2, OneCounts DEF Marking
      <4>2. Marking(e)' = Marking(e)
        BY <4>1
      <4> QED BY <4>2
    <3> QED BY <3>1, <3>2
  <2> HIDE DEF H, M, R
  <2> QED BY <1>a, <1>b, <1>d, <2>1, <2>4, <2>5, PendingWas
<1>5. ASSUME NEW r \in Runners, Crash(r) PROVE Repeats(e)'
  <2>1. /\ run'[r] = Idle /\ \A q \in Runners \ {r} : run'[q] = run[q]
        /\ crashes' = crashes + 1 /\ UNCHANGED <<events, mailed>>
    BY <1>5, OneMoves DEF Crash
  <2>2. Unsent(r)' = {} /\ Unmarked(r)' = {}
    BY <2>1 DEF Unsent, Unmarked, Does, Idle
  <2>3. Holding(e)' = Holding(e) \ {r} /\ Marking(e)' = Marking(e) \ {r}
    BY <2>1, <2>2, OneCounts
  <2>4. H' <= H /\ M' >= M - 1
    <3>1. Cardinality(Holding(e) \ {r}) \in {H, H - 1} /\ Cardinality(Marking(e) \ {r}) \in {M, M - 1}
      BY <1>c, FS_RemoveElement
    <3>2. H' = Cardinality(Holding(e) \ {r}) /\ M' = Cardinality(Marking(e) \ {r})
      BY <2>3
    <3> HIDE DEF H, M
    <3> QED BY <1>a, <3>1, <3>2
  <2> HIDE DEF H, M, R
  <2> QED BY <1>a, <1>b, <1>d, <2>1, <2>4, PendingWas
<1>6. ASSUME NEW r \in Runners, NEW ok \in BOOLEAN, Send(r, ok) PROVE Repeats(e)'
  <2>1. run[r] \in Sending /\ run[r].at = "send"
    BY <1>6, Places DEF Send, Does
  <2>2. PICK a \in {"sent", "failed"} : Then(r, [run[r] EXCEPT !.at = a])
    BY <1>6 DEF Send
  <2>3. /\ run'[r] = [run[r] EXCEPT !.at = a] /\ \A q \in Runners \ {r} : run'[q] = run[q]
        /\ UNCHANGED <<events, crashes>>
    BY <1>6, <2>2, OneMoves DEF Send
  <2>4. /\ run'[r].at = a /\ run'[r].batch = run[r].batch /\ run'[r].next = run[r].next
        /\ run'[r].left = run[r].left
    BY <2>1, <2>3 DEF Sending
  <2>5. /\ Unsent(r) = run[r].batch \cup run[r].next \cup run[r].left /\ Unmarked(r) = {}
        /\ Unsent(r)' = run[r].next \cup run[r].left /\ Unmarked(r)' = run[r].batch
    BY <2>1, <2>4 DEF Unsent, Unmarked, Does
  <2>6. CASE e \in run[r].batch
    <3>1. e \notin run[r].next /\ e \notin run[r].left
      BY <2>1, <2>6 DEF Apart
    <3>2. Holding(e)' = Holding(e) \ {r} /\ Marking(e)' = Marking(e) \cup {r}
      BY <2>3, <2>5, <2>6, <3>1, OneCounts
    <3>3. r \in Holding(e) /\ r \notin Marking(e)
      BY <2>5, <2>6 DEF Holding, Marking
    <3>4. H' = H - 1 /\ M' = M + 1
      BY <1>c, <3>2, <3>3, FS_RemoveElement, FS_AddElement
    <3>5. mailed'[e] \in {mailed[e], mailed[e] + 1}
      BY <1>6, <1>a DEF Send, TypeOK
    <3> HIDE DEF H, M, R
    <3> QED BY <1>a, <1>b, <1>d, <2>3, <3>4, <3>5, PendingWas
  <2>7. CASE e \notin run[r].batch
    <3>1. Holding(e)' = Holding(e) /\ Marking(e)' = Marking(e)
      BY <2>3, <2>5, <2>7, OneCounts DEF Holding, Marking
    <3>2. mailed'[e] = mailed[e]
      BY <1>6, <1>a, <2>7 DEF Send, TypeOK
    <3> QED BY <1>a, <1>b, <1>d, <2>3, <3>1, <3>2, PendingWas
  <2> QED BY <2>6, <2>7
<1>7. (\E r \in Runners, ok \in BOOLEAN : Send(r, ok)) \/ mailed'[e] = mailed[e]
  BY Mails
<1> QED BY <1>1, <1>2, <1>3, <1>4, <1>5, <1>6, <1>7, Steps

\* A new event has not been mailed, and nobody has it in hand.
LEMMA RepeatsBegin ==
    ASSUME TypeOK', NEW e, mailed'[e] = 0 PROVE Repeats(e)'
<1>1. /\ Runners' = Runners /\ Holding(e)' \in SUBSET Runners /\ Marking(e)' \in SUBSET Runners
      /\ crashes' \in Nat
  BY DEF Runners, Holding, Marking, TypeOK
<1>2. /\ Cardinality(Holding(e)') \in Nat /\ Cardinality(Marking(e)') \in Nat
      /\ Cardinality(Runners) \in Nat /\ Cardinality(Holding(e)') <= Cardinality(Runners)
  BY <1>1, Counts
<1> QED BY <1>1, <1>2 DEF Repeats

\* Nobody is mailed an event more often than runners and kills explain
\* (_dispatch_pending_notifications, _mark_events).
THEOREM MailsAreExplained == Spec => []NoRepeats
<1> DEFINE Inv == TypeOK /\ Apart /\ \A e \in DOMAIN events : Repeats(e)
<1>1. Init => Inv
  BY TypesStart DEF Init, Apart, Idle
<1>2. Inv /\ [Next]_vars => Inv'
  <2> SUFFICES ASSUME Inv, [Next]_vars PROVE Inv'
    OBVIOUS
  <2>1. TypeOK' /\ Apart'
    BY TypesKept, ApartKept
  <2>2. ASSUME NEW e \in DOMAIN events' PROVE Repeats(e)'
    BY <2>1, <2>2, RepeatsKept, RepeatsBegin, Mails
  <2> QED BY <2>1, <2>2
<1>3. Inv => NoRepeats
  <2> SUFFICES ASSUME Inv, NEW e \in DOMAIN mailed
               PROVE  mailed[e] <= Cardinality(Runners) + crashes
    BY DEF NoRepeats
  <2>1. e \in DOMAIN events /\ mailed[e] \in Nat /\ crashes \in Nat
    BY DEF TypeOK
  <2>2. Cardinality(Holding(e)) \in Nat /\ Cardinality(Runners) \in Nat
    BY Counts DEF Holding
  <2>3. mailed[e] + Cardinality(Holding(e)) <= crashes + Cardinality(Runners)
    BY <2>1 DEF Repeats
  <2> QED BY <2>1, <2>2, <2>3
<1> QED BY <1>1, <1>2, <1>3, PTL DEF Spec

\* Where nobody starts a cycle by hand and none is killed, nobody is mailed an event
\* twice: the timer's cycles do not overlap (alerts_runner.py, _dispatch_pending_notifications).
THEOREM TimerMailsOnce ==
    ASSUME ByHand = {}
    PROVE  Spec /\ [](crashes = 0) => [](\A e \in DOMAIN mailed : mailed[e] <= 1)
<1>1. Cardinality(Runners) = 1
  BY FS_Singleton DEF Runners
<1>2. NoRepeats /\ crashes = 0 => \A e \in DOMAIN mailed : mailed[e] <= 1
  BY <1>1 DEF NoRepeats
<1> QED
  BY <1>2, MailsAreExplained, PTL
=============================================================================
