-------------------------- MODULE NotificationRunner --------------------------
(***************************************************************************)
(* The alert runner: run_notification_cycle of app/services/               *)
(* notifications.py, which a timer starts every hour and somebody may      *)
(* start by hand beside it.  A cycle records an event for each user whom   *)
(* the age of the facts concerns and mails the events that are pending.    *)
(*                                                                         *)
(* Each read and each write is a session of its own, the mail goes out     *)
(* between two of them, and the process may be killed there.  One type of  *)
(* alert is evaluated (data_freshness_sla), so that a user's events have   *)
(* one frequency.  A date of the facts stands for all that is hashed with  *)
(* it, the user's threshold and scope.  A cycle is over within the hour.   *)
(***************************************************************************)
EXTENDS Naturals, Sequences, FiniteSets, FiniteSetsExt

CONSTANTS
    Timer,          \* the runner the timer starts
    ByHand,         \* runners started by hand
    NumUsers,
    Dates,          \* dates of the newest fact
    MaxPerHour,     \* NOTIFICATIONS_MAX_EMAILS_PER_HOUR
    MaxCrashes      \* bound on processes killed

ASSUME CapAssumption == MaxPerHour \in Nat \ {0}
ASSUME RunnerAssumption == IsFiniteSet(ByHand)
ASSUME AlertBounds == {NumUsers, MaxCrashes} \subseteq Nat

VARIABLES
    prefs,      \* user_notification_prefs: a frequency, or off
    events,     \* notification_events, by id
    mailed,     \* how often each event was mailed
    trials,     \* events a dry run has marked
    crashes,    \* processes killed so far
    run         \* what each runner has read and is about to do

tables == <<prefs, events>>
history == <<mailed, trials, crashes>>
vars == <<tables, history, run>>

Runners == {Timer} \cup ByHand
Users == 1..NumUsers
Off == "off"
Frequencies == {"immediate", "digest"}
NotSent == 3            \* sent_at IS NULL
Ages == 0..2            \* hours since sent_at, 2 for any longer time
Idle == [at |-> "idle"]
Does(r, step) == run[r].at = step
Then(r, t) == run' = [run EXCEPT ![r] = t]

EventsOf(u) == {e \in DOMAIN events : events[e].user = u}
Recorded(u, d) == \E e \in EventsOf(u) : events[e].date = d
IsNoError(e) == events[e].status # "error"                            \* mutant
IsPending(e) == events[e].status = "pending" /\ events[e].age = NotSent
IsSent(e) == events[e].status = "sent" /\ events[e].age # NotSent
SentEver(u) == {e \in EventsOf(u) : IsSent(e)}                        \* mutant
SentLastHour(u) == {e \in EventsOf(u) : IsSent(e) /\ events[e].age <= 1}

-----------------------------------------------------------------------------
(* Around the runner *)

SavePreferences(u) == /\ \E f \in Frequencies \cup {Off} : prefs' = [prefs EXCEPT ![u] = f]
                      /\ UNCHANGED <<events, history, run>>

-----------------------------------------------------------------------------
(* run_notification_cycle *)

\* Facts arrive or fall behind between two cycles.  Whom their age concerns depends on
\* each user's threshold.
Candidates(r, dry) ==
    \E date \in Dates, due \in SUBSET {u \in Users : prefs[u] # Off} :
        Then(r, [at |-> "evaluate", dry |-> dry, date |-> date, due |-> due])

BeginHourly ==
    /\ \A r \in Runners : Does(r, "idle")
    /\ Candidates(Timer, FALSE)
    /\ events' = [e \in DOMAIN events |->
                     IF events[e].age < 2 THEN [events[e] EXCEPT !.age = @ + 1] ELSE events[e]]
    /\ UNCHANGED <<prefs, history>>
BeginByHand(r, dry) ==
    /\ Does(r, "idle")
    /\ Candidates(r, dry)
    /\ UNCHANGED <<tables, history>>

\* An event with the hash that is there already, whatever became of it, is left alone.
FindEvent(r) ==
    LET u == Min(run[r].due) IN
    /\ Does(r, "evaluate") /\ run[r].due # {}
    /\ Then(r, IF Recorded(u, run[r].date) THEN [run[r] EXCEPT !.due = @ \ {u}]
               ELSE [run[r] EXCEPT !.at = "insert"])
    /\ UNCHANGED <<tables, history>>

InsertTwice(r) ==                                                     \* mutant
    LET u == Min(run[r].due) IN
    /\ Does(r, "insert")
    /\ events' = Append(events, [user |-> u, date |-> run[r].date,
                                 status |-> "pending", age |-> NotSent])
    /\ mailed' = Append(mailed, 0)
    /\ Then(r, [run[r] EXCEPT !.at = "evaluate", !.due = @ \ {u}])
    /\ UNCHANGED <<prefs, trials, crashes>>
\* The index on user and hash refuses an event recorded meanwhile: the cycle ends there.
InsertEvent(r) ==
    LET u == Min(run[r].due) IN
    /\ Does(r, "insert")
    /\ IF Recorded(u, run[r].date)
       THEN Then(r, Idle) /\ UNCHANGED <<events, mailed>>
       ELSE /\ events' = Append(events, [user |-> u, date |-> run[r].date,
                                         status |-> "pending", age |-> NotSent])
            /\ mailed' = Append(mailed, 0)
            /\ Then(r, [run[r] EXCEPT !.at = "evaluate", !.due = @ \ {u}])
    /\ UNCHANGED <<prefs, trials, crashes>>

\* What is left to dispatch: the events pending now.
LoadPending(r) ==
    /\ Does(r, "evaluate") /\ run[r].due = {}
    /\ Then(r, [at |-> "dispatch", dry |-> run[r].dry, left |-> {e \in DOMAIN events : IsPending(e)}])
    /\ UNCHANGED <<tables, history>>

\* One user after the other, the one with the oldest event first.
Concerns(r) == events[Min(run[r].left)].user
Oldest(ids) == {e \in ids : \A f \in ids : e <= f}
Group(r) == {e \in run[r].left : events[e].user = Concerns(r)}
MayMail(r) == /\ Does(r, "dispatch") /\ run[r].left # {}
              /\ Cardinality(SentLastHour(Concerns(r))) < MaxPerHour
Mailing(r, batch) ==
    [at |-> "send", dry |-> run[r].dry, batch |-> batch, next |-> Group(r) \ batch,
     left |-> run[r].left \ Group(r)]

\* A user who turned the alert off, or got as many mails as one may in an hour.
SkipUser(r) ==
    /\ Does(r, "dispatch") /\ run[r].left # {}
    /\ prefs[Concerns(r)] = Off \/ ~MayMail(r)
    /\ Then(r, [run[r] EXCEPT !.left = @ \ Group(r)])
    /\ UNCHANGED <<tables, history>>

StartImmediate(r) ==
    /\ MayMail(r) /\ prefs[Concerns(r)] = "immediate"
    /\ Then(r, Mailing(r, Oldest(Group(r))))
    /\ UNCHANGED <<tables, history>>

\* After a first mail, _digest_due compares the time of the last one, which the database
\* returns without a time zone, with a time that has one: the cycle raises and ends.
StartDigest(r) ==
    /\ MayMail(r) /\ prefs[Concerns(r)] = "digest"
    /\ Then(r, IF \E e \in EventsOf(Concerns(r)) : IsSent(e) THEN Idle
               ELSE Mailing(r, Group(r)))
    /\ UNCHANGED <<tables, history>>

\* A dry run only pretends that the mail went out.
Send(r, ok) ==
    /\ Does(r, "send")
    /\ run[r].dry => ok
    /\ mailed' = [e \in DOMAIN mailed |->
                     mailed[e] + IF e \in run[r].batch /\ ok /\ ~run[r].dry THEN 1 ELSE 0]
    /\ trials' = IF run[r].dry THEN trials \cup run[r].batch ELSE trials
    /\ Then(r, [run[r] EXCEPT !.at = IF ok THEN "sent" ELSE "failed"])
    /\ UNCHANGED <<tables, crashes>>

NextBatchAnyway(r) ==                                                 \* mutant
    [run[r] EXCEPT !.at = "send", !.batch = Oldest(run[r].next), !.next = @ \ Oldest(@)]
NextBatch(r) ==
    IF run[r].next = {} THEN [at |-> "dispatch", dry |-> run[r].dry, left |-> run[r].left]
    ELSE [run[r] EXCEPT !.at = "send", !.batch = Oldest(run[r].next), !.next = @ \ Oldest(@)]
MarkSent(r) ==                                                        \* mutant
    /\ run[r].at \in {"sent", "failed"}
    /\ events' = [e \in DOMAIN events |->
                     IF e \in run[r].batch THEN [events[e] EXCEPT !.status = "sent", !.age = 0] ELSE events[e]]
    /\ Then(r, NextBatch(r))
    /\ UNCHANGED <<prefs, history>>
MarkEvents(r) ==
    /\ run[r].at \in {"sent", "failed"}
    /\ events' = [e \in DOMAIN events |->
                     IF e \notin run[r].batch THEN events[e]
                     ELSE IF Does(r, "sent") THEN [events[e] EXCEPT !.status = "sent", !.age = 0]
                     ELSE [events[e] EXCEPT !.status = "error"]]
    /\ Then(r, NextBatch(r))
    /\ UNCHANGED <<prefs, history>>

Finish(r) == /\ Does(r, "dispatch") /\ run[r].left = {}
             /\ Then(r, Idle)
             /\ UNCHANGED <<tables, history>>

\* The process is killed.
Crash(r) == /\ ~Does(r, "idle") /\ crashes < MaxCrashes
            /\ crashes' = crashes + 1
            /\ Then(r, Idle)
            /\ UNCHANGED <<tables, mailed, trials>>

-----------------------------------------------------------------------------
Init ==
    /\ prefs \in [Users -> Frequencies \cup {Off}]
    /\ events = <<>> /\ mailed = <<>> /\ trials = {} /\ crashes = 0
    /\ run = [r \in Runners |-> Idle]

Step(r) ==
    \/ FindEvent(r) \/ InsertEvent(r) \/ LoadPending(r)
    \/ SkipUser(r) \/ StartImmediate(r) \/ StartDigest(r)
    \/ \E ok \in BOOLEAN : Send(r, ok)
    \/ MarkEvents(r) \/ Finish(r)

Next ==
    \/ \E u \in Users : SavePreferences(u)
    \/ BeginHourly
    \/ \E r \in ByHand, dry \in BOOLEAN : BeginByHand(r, dry)
    \/ \E r \in Runners : Step(r) \/ Crash(r)

Spec == Init /\ [][Next]_vars

\* The timer fires every hour, whatever is started beside it, and a cycle that nobody
\* kills goes on.
FairSpec ==
    /\ Spec /\ SF_vars(BeginHourly)
    /\ \A r \in Runners : WF_vars(Step(r))

-----------------------------------------------------------------------------
(* Properties *)

Evaluating == [at: {"evaluate"}, dry: BOOLEAN, date: Dates, due: SUBSET Users]
Inserting == [at: {"insert"}, dry: BOOLEAN, date: Dates, due: (SUBSET Users) \ {{}}]
Dispatching == [at: {"dispatch"}, dry: BOOLEAN, left: SUBSET DOMAIN events]
Sending == [at: {"send", "sent", "failed"}, dry: BOOLEAN, batch: (SUBSET DOMAIN events) \ {{}},
            next: SUBSET DOMAIN events, left: SUBSET DOMAIN events]
Event == [user: Users, date: Dates, status: {"pending", "sent", "error"}, age: Ages \cup {NotSent}]

TypeOK ==
    /\ prefs \in [Users -> Frequencies \cup {Off}]
    /\ events \in Seq(Event)
    /\ mailed \in Seq(Nat) /\ DOMAIN mailed = DOMAIN events
    /\ trials \subseteq DOMAIN events /\ crashes \in 0..MaxCrashes
    /\ run \in [Runners -> {Idle} \cup Evaluating \cup Inserting \cup Dispatching \cup Sending]

\* A user is alerted of a date once: two cycles that both find no event record one
\* (create_notification_event).
OneEventPerHash ==
    \A e, f \in DOMAIN events :
        events[e].user = events[f].user /\ events[e].date = events[f].date => e = f

\* Nobody is mailed an event more often than cycles can have loaded it while it was
\* pending: once by each runner, and once more for each that was killed.
NoRepeats == \A e \in DOMAIN mailed : mailed[e] <= Cardinality(Runners) + crashes

\* What is marked sent was mailed, unless a dry run marked it.
SentIsMailed == \A e \in DOMAIN events : IsSent(e) => mailed[e] > 0 \/ e \in trials

Waits(u, d) == \E e \in EventsOf(u) : events[e].date = d /\ IsPending(e)
\* A user with a digest whose events wait although one was sent.
Stuck(v) ==
    /\ prefs[v] = "digest" /\ \E d \in Dates : Waits(v, d)
    /\ \E e \in EventsOf(v) : IsSent(e)

\* An event of a user who keeps the alert on is mailed in the end, or marked as failed,
\* unless some user's digest stops the cycles.
AlertsGoOut ==
    \A u \in Users, d \in Dates :
        <>[](Waits(u, d) /\ prefs[u] # Off) => []<>(\E v \in Users : Stuck(v))
=============================================================================
