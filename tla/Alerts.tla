------------------------------- MODULE Alerts -------------------------------
(***************************************************************************)
(* Alerts, SOS calls and the check-ins that decide who hears of an SOS     *)
(* (alertService, sosService, checkinService, the delay job).  One         *)
(* organization, one route with its trips; an action is one statement, or  *)
(* one transaction's COMMIT, with the code up to the next await.           *)
(***************************************************************************)
EXTENDS Naturals, FiniteSets

CONSTANTS
    Workers,     \* requests the API serves at the same time
    Managers,    \* users with role admin, school_manager or super_admin
    Callers,     \* users who raise an SOS
    Trips, Children,
    ParentOf,    \* children.parent_id
    MaxAlerts,   \* bound: rows ever inserted into alerts
    MaxSos,      \* bound: rows ever inserted into sos_alerts
    MaxCrashes,  \* bound: deaths of the process
    None

Users == Managers \cup Callers \cup {ParentOf[c] : c \in Children}
AIds == 1..MaxAlerts
SIds == 1..MaxSos

ASSUME BoundAssumption ==
    /\ MaxAlerts \in Nat /\ MaxSos \in Nat /\ MaxCrashes \in Nat
    /\ DOMAIN ParentOf = Children
    /\ IsFiniteSet(Trips)

ASSUME NoneAssumption == None \notin Users \cup Trips

VARIABLES
    alerts, alertSeq,  \* rows of alerts; how many were ever inserted
    sos, sosSeq,       \* rows of sos_alerts
    boarded,           \* trips and children with a row "boarded" in checkins
    onBoard,           \* trips and children whose last row in checkins is "boarded"
    running,           \* trips in progress
    job,               \* the request each worker is in the middle of
    notified,          \* users with a notification of each SOS
    announced,         \* SOS calls broadcast to the rooms of org, trip and bus
    aboard,            \* history: children on board when the SOS was stored and ever since
    failed,            \* history: SOS calls whose fan-out met an error
    crashes

tables == <<alerts, alertSeq, sos, sosSeq>>
riders == <<boarded, onBoard, running>>
fanout == <<notified, announced, aboard, failed>>
vars == <<tables, riders, job, fanout, crashes>>

\* The audit columns hold who and when; when is left out, and so are the type and the
\* trip of an alert, which nothing reads.
Status == {"none", "active", "acknowledged", "resolved", "removed"}
Row == [status : Status, ackBy : Managers \cup {None}, resBy : Managers \cup {None}]
Call == [user : Callers \cup {None}, trip : Trips \cup {None},
         status : Status, ackBy : Managers \cup {None}, resBy : Managers \cup {None}]

Idle == [at |-> "idle"]
Job == {Idle}
    \cup [at : {"delete"}, id : AIds]
    \cup [at : {"inserted"}, user : Callers, trip : Trips \cup {None}]
    \cup [at : {"stored"}, sos : SIds]
    \cup [at : {"audience", "told"}, sos : SIds, to : SUBSET Users]

TypeOK ==
    /\ alerts \in [AIds -> Row] /\ alertSeq \in 0..MaxAlerts
    /\ sos \in [SIds -> Call] /\ sosSeq \in 0..MaxSos
    /\ boarded \subseteq Trips \X Children /\ onBoard \subseteq boarded
    /\ running \subseteq Trips
    /\ job \in [Workers -> Job]
    /\ notified \in [SIds -> SUBSET Users]
    /\ aboard \in [SIds -> SUBSET Children]
    /\ announced \subseteq SIds /\ failed \subseteq SIds
    /\ crashes \in 0..MaxCrashes

NoRow == [status |-> "none", ackBy |-> None, resBy |-> None]
NoCall == [user |-> None, trip |-> None, status |-> "none", ackBy |-> None, resBy |-> None]

Init ==
    /\ alerts = [i \in AIds |-> NoRow] /\ alertSeq = 0
    /\ sos = [s \in SIds |-> NoCall] /\ sosSeq = 0
    /\ boarded = {} /\ onBoard = {} /\ running = Trips
    /\ job = [w \in Workers |-> Idle]
    /\ notified = [s \in SIds |-> {}]
    /\ aboard = [s \in SIds |-> {}]
    /\ announced = {} /\ failed = {}
    /\ crashes = 0

-----------------------------------------------------------------------------
\* Rows of either table: the two services write the same UPDATEs.

Stored(row) == row.status \notin {"none", "removed"}

\* Mutant of FirstOf: the placeholder before, $2, is the organization.
FirstOfOrg(by, u) == IF by = None THEN "org" ELSE by

\* COALESCE(acknowledged_by, $3)
FirstOf(by, u) == IF by = None THEN u ELSE by

\* Mutant of Acknowledged: without COALESCE the last one to press the button is kept.
AcknowledgedAgain(row, u) == [row EXCEPT !.status = "acknowledged", !.ackBy = u]

Acknowledged(row, u) ==
    [row EXCEPT !.status = "acknowledged", !.ackBy = FirstOf(@, u)]

Resolved(row, u) ==
    [row EXCEPT !.status = "resolved", !.ackBy = FirstOf(@, u), !.resBy = u]

\* alertService.acknowledge; 404 when there is no row or it is resolved
AckAlert(i, u) ==
    /\ Stored(alerts[i]) /\ alerts[i].status # "resolved"
    /\ alerts' = [alerts EXCEPT ![i] = Acknowledged(@, u)]
    /\ UNCHANGED <<alertSeq, sos, sosSeq, riders, job, fanout, crashes>>

\* alertService.resolve, of a resolved alert too
ResolveAlert(i, u) ==
    /\ Stored(alerts[i])
    /\ alerts' = [alerts EXCEPT ![i] = Resolved(@, u)]
    /\ UNCHANGED <<alertSeq, sos, sosSeq, riders, job, fanout, crashes>>

\* sosService.acknowledge
AckSos(s, u) ==
    /\ Stored(sos[s]) /\ sos[s].status # "resolved"
    /\ sos' = [sos EXCEPT ![s] = Acknowledged(@, u)]
    /\ UNCHANGED <<alerts, alertSeq, sosSeq, riders, job, fanout, crashes>>

\* sosService.resolve
ResolveSos(s, u) ==
    /\ Stored(sos[s])
    /\ sos' = [sos EXCEPT ![s] = Resolved(@, u)]
    /\ UNCHANGED <<alerts, alertSeq, sosSeq, riders, job, fanout, crashes>>

NewRow == [status |-> "active", ackBy |-> None, resBy |-> None]

\* alertService.create
CreateAlert ==
    /\ alertSeq < MaxAlerts
    /\ alertSeq' = alertSeq + 1
    /\ alerts' = [alerts EXCEPT ![alertSeq + 1] = NewRow]
    /\ UNCHANGED <<sos, sosSeq, riders, job, fanout, crashes>>

\* alertService.remove: getById, then the DELETE, which finds what it finds.
RemoveFind(w) ==
    /\ job[w] = Idle
    /\ \E i \in AIds :
        /\ Stored(alerts[i])
        /\ job' = [job EXCEPT ![w] = [at |-> "delete", id |-> i]]
    /\ UNCHANGED <<tables, riders, fanout, crashes>>

RemoveDelete(w) ==
    /\ job[w].at = "delete"
    /\ alerts' = [alerts EXCEPT ![job[w].id] = [NoRow EXCEPT !.status = "removed"]]
    /\ job' = [job EXCEPT ![w] = Idle]
    /\ UNCHANGED <<alertSeq, sos, sosSeq, riders, fanout, crashes>>

\* delayDetection: one alert for each trip in progress that has an unvisited stop
\* more than five minutes past its time (here any of them), on every run of the job.
DelayJob ==
    /\ \E late \in (SUBSET running) \ {{}} :
        /\ alertSeq + Cardinality(late) <= MaxAlerts
        /\ alertSeq' = alertSeq + Cardinality(late)
        /\ alerts' = [i \in AIds |-> IF i \in alertSeq + 1 .. alertSeq + Cardinality(late)
                                       THEN NewRow ELSE alerts[i]]
    /\ UNCHANGED <<sos, sosSeq, riders, job, fanout, crashes>>

-----------------------------------------------------------------------------
\* Trips and check-ins.

\* tripService.end
EndTrip(t) ==
    /\ t \in running
    /\ running' = running \ {t}
    /\ UNCHANGED <<tables, boarded, onBoard, job, fanout, crashes>>

\* checkinService.create: that the trip and the child exist and share a route does
\* not change here, and the trip's status is not asked.  A row of its own for each
\* check-in: one that says left or absent changes no other row.
Checkin(t, c) ==
    /\ \/ /\ boarded' = boarded \cup {<<t, c>>}
          /\ onBoard' = onBoard \cup {<<t, c>>}
          /\ UNCHANGED aboard
       \/ /\ onBoard' = onBoard \ {<<t, c>>}
          /\ aboard' = [s \in SIds |-> IF sos[s].trip = t THEN aboard[s] \ {c} ELSE aboard[s]]
          /\ UNCHANGED boarded
    /\ UNCHANGED <<tables, running, job, notified, announced, failed, crashes>>

-----------------------------------------------------------------------------
\* sosService.trigger.

Parents(t) == {ParentOf[c] : c \in {k \in Children : <<t, k>> \in boarded}}

\* resolveTripContext, BEGIN and the row of sos_alerts, which only this transaction
\* sees until it commits.
SosInsert(w) ==
    /\ job[w] = Idle
    /\ \E u \in Callers, t \in Trips \cup {None} :
        job' = [job EXCEPT ![w] = [at |-> "inserted", user |-> u, trip |-> t]]
    /\ UNCHANGED <<tables, riders, fanout, crashes>>

\* The row of alerts, and COMMIT.
SosCommit(w) ==
    /\ job[w].at = "inserted" /\ sosSeq < MaxSos /\ alertSeq < MaxAlerts
    /\ sosSeq' = sosSeq + 1
    /\ sos' = [sos EXCEPT ![sosSeq + 1] =
                 [user |-> job[w].user, trip |-> job[w].trip, status |-> "active",
                  ackBy |-> None, resBy |-> None]]
    /\ alertSeq' = alertSeq + 1
    /\ alerts' = [alerts EXCEPT ![alertSeq + 1] = NewRow]
    /\ aboard' = [aboard EXCEPT ![sosSeq + 1] =
                    {c \in Children : <<job[w].trip, c>> \in onBoard}]
    /\ job' = [job EXCEPT ![w] = [at |-> "stored", sos |-> sosSeq + 1]]
    /\ UNCHANGED <<riders, notified, announced, failed, crashes>>

\* Mutant of SosAudience: only trips that are still running are looked at.
SosAudienceRunning(w) ==
    /\ job[w].at = "stored"
    /\ LET s == job[w].sos
           to == (Managers \cup IF sos[s].trip \in running THEN Parents(sos[s].trip) ELSE {})
                 \ {sos[s].user}
       IN job' = [job EXCEPT ![w] = [at |-> "audience", sos |-> s, to |-> to]]
    /\ UNCHANGED <<tables, riders, fanout, crashes>>

\* resolveAudience: the managers and the parents of whoever has a row "boarded" on the
\* trip, also of a child who got off after it, but not the caller.
SosAudience(w) ==
    /\ job[w].at = "stored"
    /\ LET s == job[w].sos
           to == (Managers \cup Parents(sos[s].trip)) \ {sos[s].user}
       IN job' = [job EXCEPT ![w] = [at |-> "audience", sos |-> s, to |-> to]]
    /\ UNCHANGED <<tables, riders, fanout, crashes>>

\* createNotifications, one INSERT for all of them; sendToUsers changes nothing here.
SosNotify(w) ==
    /\ job[w].at = "audience"
    /\ notified' = [notified EXCEPT ![job[w].sos] = job[w].to]
    /\ job' = [job EXCEPT ![w].at = "told"]
    /\ UNCHANGED <<tables, riders, announced, aboard, failed, crashes>>

\* The handler of POST /sos: broadcast to the rooms, then 201.
SosAnnounce(w) ==
    /\ job[w].at = "told"
    /\ announced' = announced \cup {job[w].sos}
    /\ job' = [job EXCEPT ![w] = Idle]
    /\ UNCHANGED <<tables, riders, notified, aboard, failed, crashes>>

\* Mutant of Fail: without the try and the catch the request ends.
FailThrough(w) ==
    /\ job[w].at \in {"delete", "inserted", "stored", "audience"}
    /\ job' = [job EXCEPT ![w] = Idle]
    /\ failed' = failed \cup (IF job[w].at \in {"stored", "audience"} THEN {job[w].sos} ELSE {})
    /\ UNCHANGED <<tables, riders, notified, announced, aboard, crashes>>

\* A statement fails.  Before the COMMIT the transaction is rolled back and the
\* request ends; after it the error is logged, and the call is announced without an
\* audience, or without notifications.
Fail(w) ==
    \/ /\ job[w].at \in {"delete", "inserted"}
       /\ job' = [job EXCEPT ![w] = Idle]
       /\ UNCHANGED <<tables, riders, fanout, crashes>>
    \/ /\ job[w].at \in {"stored", "audience"}
       /\ job' = [job EXCEPT ![w] =
                    [at |-> "told", sos |-> job[w].sos,
                     to |-> IF job[w].at = "stored" THEN {} ELSE job[w].to]]
       /\ failed' = failed \cup {job[w].sos}
       /\ UNCHANGED <<tables, riders, notified, announced, aboard, crashes>>

\* The process dies; what was not committed is rolled back.
Crash ==
    /\ crashes < MaxCrashes
    /\ crashes' = crashes + 1
    /\ job' = [w \in Workers |-> Idle]
    /\ UNCHANGED <<tables, riders, fanout>>

-----------------------------------------------------------------------------
\* The next step of a request.
Handle(w) ==
    \/ RemoveDelete(w) \/ SosCommit(w) \/ SosAudience(w) \/ SosNotify(w) \/ SosAnnounce(w)

Next ==
    \/ CreateAlert \/ DelayJob \/ Crash
    \/ \E u \in Managers :
        \/ \E i \in AIds : AckAlert(i, u) \/ ResolveAlert(i, u)
        \/ \E s \in SIds : AckSos(s, u) \/ ResolveSos(s, u)
    \/ \E t \in Trips : EndTrip(t) \/ \E c \in Children : Checkin(t, c)
    \/ \E w \in Workers :
        Handle(w) \/ RemoveFind(w) \/ SosInsert(w) \/ Fail(w)

Spec == Init /\ [][Next]_vars

FairSpec == Spec /\ \A w \in Workers : WF_vars(Handle(w))

-----------------------------------------------------------------------------
\* Properties.

\* The parent of a child who is on board when an SOS is stored, and does not get off
\* before it is announced, has a notification of it by then, whoever else checks in or
\* ends the trip meanwhile, and also if the child had got off before and boarded again;
\* only a failed fan-out, which is logged, loses it.
BoardedParentsTold ==
    \A s \in announced \ failed :
        {ParentOf[c] : c \in aboard[s]} \ {sos[s].user} \subseteq notified[s]

\* An SOS that was stored is announced to the rooms of its trip, bus and
\* organization, even if its audience could not be found or notified.
StoredIsAnnounced ==
    \A s \in SIds : sos[s].status # "none" ~> s \in announced \/ crashes > 0

\* Both tables keep the promise of AlertLifecycle, under every interleaving of
\* managers, the delay job, deletions and SOS calls: the acknowledgement of a row is
\* written once, and a resolved row is never active or acknowledged again.
AlertFeed == INSTANCE AlertLifecycle WITH
    Ids <- AIds, Users <- Managers,
    status <- [i \in AIds |-> alerts[i].status],
    ackBy <- [i \in AIds |-> alerts[i].ackBy],
    resBy <- [i \in AIds |-> alerts[i].resBy]

SosFeed == INSTANCE AlertLifecycle WITH
    Ids <- SIds, Users <- Managers,
    status <- [s \in SIds |-> sos[s].status],
    ackBy <- [s \in SIds |-> sos[s].ackBy],
    resBy <- [s \in SIds |-> sos[s].resBy]

LifecyclesKept == AlertFeed!Spec /\ SosFeed!Spec

=============================================================================
