---------------------------- MODULE GpsTracking -----------------------------
(***************************************************************************)
(* A GPS ping from its arrival to the parents' notifications               *)
(* (gpsService.ingest, the ingest handler and fanOutArrivals of            *)
(* gps.routes), beside everything that moves under it: trips that start    *)
(* and end, assignments that change bus, stops that are replaced, the      *)
(* auto-close and GPS-offline jobs, and the death of the process.          *)
(*                                                                         *)
(* The ping resolves its trip on one connection, then runs a READ          *)
(* COMMITTED transaction on another: nothing it wrote is visible before    *)
(* the commit, every statement reads what is committed when it starts.     *)
(* Until it ends, its upsert holds the row of the bus, each of its inserts *)
(* an entry of the unique index and, through the foreign key, a KEY SHARE  *)
(* lock on the row of the stop, which replaceStops needs for itself.       *)
(***************************************************************************)
EXTENDS Naturals, FiniteSets

CONSTANTS
    Workers,      \* pings the API serves at the same time
    Buses,
    Assignments,  \* route_assignments, all of one route
    MaxTrips,     \* bound: trips ever started
    MaxStops,     \* bound: route_stops rows ever inserted
    MaxPings,     \* bound: ping transactions ever begun
    Place,        \* the rank of each route_stops row by stop_order, which is not unique
    MaxUpsets,    \* bound: edits of the stops, changes of an assignment's bus, INSERTs that
                  \* fail into the catch, COMMITs without an answer, deaths of the process
    None

TIds == 1..MaxTrips
Stops == 1..MaxStops
Stamps == 1..MaxPings     \* NOW(): the order in which transactions begin

ASSUME BoundAssumption ==
    {MaxTrips, MaxStops, MaxPings, MaxUpsets} \subseteq Nat
ASSUME PlaceAssumption == Place \in [Stops -> Stops]

\* Who holds locks beside the pings: the UPDATE of the GPS-offline job, and replaceStops.
Sweeper == "gpsOffDetection"
Editor == "replaceStops"
ASSUME AgentAssumption == Sweeper \notin Workers /\ Editor \notin Workers

VARIABLES
    busOf,      \* the bus of each active assignment, None for an inactive one
    trips,      \* trips, None where there is no row yet
    stops,      \* the route's stops
    stopSeq,    \* the route_stops rows inserted so far
    logs,       \* gps_logs
    live,       \* bus_live_status
    events,     \* stop_events, as pairs of a trip and a stop
    clock,      \* transactions begun so far
    job,        \* the ping each worker is in the middle of
    edit,       \* the replaceStops in progress
    sweep,      \* the UPDATE of the GPS-offline job in progress
    acked,      \* pings answered 202
    announced,  \* per pair: the pings that broadcast "stop.arrived" for it
    notified,   \* per bus and pair: its pings that notified the parents of it
    lost,       \* history: pings whose COMMIT rolled back, after a swallowed error
    cut,        \* history: pairs committed by a ping that never came to its broadcasts
    upsets      \* edits, changes of bus, failures and deaths so far

dbVars == <<logs, live, events>>
outVars == <<acked, announced, notified>>
roadVars == <<busOf, stops, stopSeq>>
seenVars == <<lost, cut>>
vars == <<roadVars, trips, dbVars, clock, job, edit, sweep, outVars, seenVars, upsets>>

Visits == TIds \X Stops

\* silent: no fix, or no start, within the last 30 minutes.
Trip == [assignment : Assignments, status : {"in_progress", "completed"},
         silent : BOOLEAN]
\* old: last_update is more than 30 seconds ago.
Live == [trip : TIds, at : Stamps, status : {"ok", "offline"}, old : BOOLEAN]
Log == [trip : TIds, bus : Buses, at : Stamps]

ASSUME NoneAssumption == None \notin Buses /\ None \notin Live

Idle == [at |-> "idle"]
\* todo: the stops still to be recorded; next: the one whose INSERT is under way, 0 for
\* none; entered: its index entry is taken and the foreign key is being checked; mine: the
\* stop_events inserted; arrived: what detectArrivals returns; aborted: a statement
\* failed, and the catch swallowed it.
Ping == [at : {"resolved", "logged", "upserted", "detecting", "committed", "fanout"},
         bus : Buses, trip : TIds, stamp : {0} \cup Stamps,
         todo : SUBSET Stops, next : {0} \cup Stops, entered : BOOLEAN,
         mine : SUBSET Stops, arrived : SUBSET Stops, aborted : BOOLEAN]

\* The DELETE of replaceStops: the rows it has still to lock, and those it has deleted.
NoEdit == [at |-> "idle", todo |-> {}, gone |-> {}]
Edit == [at : {"idle", "deleting"}, todo : SUBSET Stops, gone : SUBSET Stops]

\* The rows the job's UPDATE wants, and those it has locked and found dark.
NoSweep == [todo |-> {}, mine |-> {}]
Sweep == [todo : SUBSET Buses, mine : SUBSET Buses]

TypeOK ==
    /\ busOf \in [Assignments -> Buses \cup {None}]
    /\ trips \in [TIds -> Trip \cup {None}]
    /\ stops \subseteq Stops /\ stopSeq \in 0..MaxStops
    /\ logs \subseteq Log
    /\ live \in [Buses -> Live \cup {None}]
    /\ events \subseteq Visits
    /\ clock \in 0..MaxPings
    /\ job \in [Workers -> Ping \cup {Idle}]
    /\ edit \in Edit /\ sweep \in Sweep
    /\ acked \subseteq Stamps /\ lost \subseteq Stamps /\ cut \subseteq Visits
    /\ announced \in [Visits -> SUBSET Stamps]
    /\ notified \in [Buses -> [Visits -> SUBSET Stamps]]
    /\ upsets \in 0..MaxUpsets

\* A route with stops, active assignments on different buses, no trip yet.
Init ==
    /\ busOf \in [Assignments -> Buses \cup {None}]
    /\ \A a, b \in Assignments : busOf[a] = busOf[b] /\ busOf[a] # None => a = b
    /\ trips = [t \in TIds |-> None]
    /\ stopSeq \in 1..MaxStops /\ stops = 1..stopSeq
    /\ logs = {} /\ events = {}
    /\ live = [b \in Buses |-> None]
    /\ clock = 0
    /\ job = [w \in Workers |-> Idle]
    /\ edit = NoEdit /\ sweep = NoSweep
    /\ acked = {} /\ lost = {} /\ cut = {}
    /\ announced = [v \in Visits |-> {}]
    /\ notified = [b \in Buses |-> [v \in Visits |-> {}]]
    /\ upsets = 0

-----------------------------------------------------------------------------
InProgress(t) == trips[t] # None /\ trips[t].status = "in_progress"

\* The rows of resolveActiveTrip's join; the code takes the first.
Candidates(bus) == {t \in TIds : InProgress(t) /\ busOf[trips[t].assignment] = bus}

\* Mutant of HoldsRow: the row is locked before the log is written, by each of two
\* transactions that then wait for the other.
HoldsRowEarly(w, bus) ==
    job[w].at \in {"logged", "upserted", "detecting"} /\ ~job[w].aborted /\ job[w].bus = bus

\* The transaction holds the bus_live_status row of its bus.  An aborted one holds
\* nothing any more.
HoldsRow(w, bus) ==
    job[w].at \in {"upserted", "detecting"} /\ ~job[w].aborted /\ job[w].bus = bus

\* The transaction has inserted the stop_event and not ended.
HoldsEvent(w, trip, stop) ==
    job[w].at = "detecting" /\ job[w].trip = trip /\ stop \in job[w].mine

\* It holds the row of the stop FOR KEY SHARE: the foreign key is checked.
HoldsKey(w, stop) ==
    /\ job[w].at = "detecting" /\ stop \in job[w].mine
    /\ ~(job[w].entered /\ job[w].next = stop)

\* Silent for 30 seconds and not yet marked.
Dark(b) == live[b] # None /\ live[b].status # "offline" /\ live[b].old

\* The next statement of x, or the next row of it, waits for y's transaction to end.
WaitsFor(x, y) ==
    \/ /\ x \in Workers /\ job[x].at = "logged"
       /\ \/ y \in Workers \ {x} /\ HoldsRow(y, job[x].bus)
          \/ y = Sweeper /\ job[x].bus \in sweep.mine
    \/ /\ x \in Workers /\ job[x].at = "detecting" /\ job[x].next # 0
       /\ IF job[x].entered THEN y = Editor /\ job[x].next \in edit.gone
                            ELSE /\ y \in Workers \ {x}
                                 /\ HoldsEvent(y, job[x].trip, job[x].next)
    \/ x = Sweeper /\ y \in Workers /\ \E b \in sweep.todo : HoldsRow(y, b)
    \/ x = Editor /\ y \in Workers /\ \E s \in edit.todo : HoldsKey(y, s)

Agents == Workers \cup {Sweeper, Editor}
Waits(x) == \E y \in Agents : WaitsFor(x, y)

\* x is in a circle of transactions that wait for one another, and the detector of
\* PostgreSQL may choose it to fail.
InCircle(x) ==
    Waits(x) /\ \E group \in SUBSET Agents :
        /\ x \in group
        /\ \A y \in group : /\ \E z \in group : WaitsFor(y, z)
                           /\ \E z \in group : WaitsFor(z, y)

\* Mutant of Firsts: stops in no particular order.
AnyOf(todo) == IF todo = {} THEN {0} ELSE todo

\* What the loop of detectArrivals may turn to next: the stops come ORDER BY stop_order,
\* and in any order where that is the same.
Firsts(todo) ==
    IF todo = {} THEN {0} ELSE {s \in todo : \A x \in todo : Place[s] <= Place[x]}

\* Ping n has told of some stops of the trip.
Told(tally, n, trip, some) ==
    [v \in Visits |-> IF v[1] = trip /\ v[2] \in some THEN tally[v] \cup {n} ELSE tally[v]]

Upset == upsets < MaxUpsets /\ upsets' = upsets + 1

-----------------------------------------------------------------------------
\* gpsService.ingest

Resolve(w) ==
    /\ job[w] = Idle /\ clock < MaxPings
    /\ \E bus \in Buses : \E trip \in Candidates(bus) :
        job' = [job EXCEPT ![w] =
                  [at |-> "resolved", bus |-> bus, trip |-> trip, stamp |-> 0,
                   todo |-> {}, next |-> 0, entered |-> FALSE,
                   mine |-> {}, arrived |-> {}, aborted |-> FALSE]]
    /\ UNCHANGED <<roadVars, trips, dbVars, clock, edit, sweep, outVars, seenVars, upsets>>

\* BEGIN, which fixes NOW(), and the INSERT into gps_logs.
InsertLog(w) ==
    /\ job[w].at = "resolved" /\ clock < MaxPings
    /\ clock' = clock + 1
    /\ job' = [job EXCEPT ![w].at = "logged", ![w].stamp = clock + 1]
    /\ UNCHANGED <<roadVars, trips, dbVars, edit, sweep, outVars, seenVars, upsets>>

\* The upsert waits for whoever holds the row of the bus.
UpsertLive(w) ==
    /\ job[w].at = "logged" /\ ~Waits(w)
    /\ job' = [job EXCEPT ![w].at = "upserted"]
    /\ UNCHANGED <<roadVars, trips, dbVars, clock, edit, sweep, outVars, seenVars, upsets>>

\* Mutant of SelectStops: without the LEFT JOIN to stop_events.
SelectAllStops(w) ==
    /\ job[w].at = "upserted"
    /\ \E todo \in SUBSET stops : \E s \in Firsts(todo) :
          job' = [job EXCEPT ![w].at = "detecting", ![w].todo = todo, ![w].next = s]
    /\ UNCHANGED <<roadVars, trips, dbVars, clock, edit, sweep, outVars, seenVars, upsets>>

\* The stops of the route with no stop_event of the trip, those within 75 m of the fix.
SelectStops(w) ==
    /\ job[w].at = "upserted"
    /\ \E todo \in SUBSET {s \in stops : <<job[w].trip, s>> \notin events} :
          \E s \in Firsts(todo) :
             job' = [job EXCEPT ![w].at = "detecting", ![w].todo = todo, ![w].next = s]
    /\ UNCHANGED <<roadVars, trips, dbVars, clock, edit, sweep, outVars, seenVars, upsets>>

\* The INSERT returned: the stop counts as arrived, whether or not it wrote a row.
Arrived(p) ==
    {[p EXCEPT !.arrived = @ \cup {p.next}, !.todo = @ \ {p.next},
               !.next = s, !.entered = FALSE] : s \in Firsts(p.todo \ {p.next})}

\* The INSERT threw into the empty catch: PostgreSQL has aborted the transaction and
\* let its locks go, so the later inserts throw as well.  What has arrived stays so.
Swallowed(p) ==
    [p EXCEPT !.todo = {}, !.next = 0, !.entered = FALSE, !.mine = {}, !.aborted = TRUE]

\* INSERT .. ON CONFLICT DO NOTHING waits for an uncommitted entry of the index, and
\* writes nothing beside a committed one.
InsertArrival(w) ==
    /\ job[w].at = "detecting" /\ job[w].next # 0 /\ ~job[w].entered /\ ~Waits(w)
    /\ IF <<job[w].trip, job[w].next>> \in events
         THEN \E p \in Arrived(job[w]) : job' = [job EXCEPT ![w] = p]
         ELSE job' = [job EXCEPT ![w].entered = TRUE, ![w].mine = @ \cup {job[w].next}]
    /\ UNCHANGED <<roadVars, trips, dbVars, clock, edit, sweep, outVars, seenVars, upsets>>

\* The end of that INSERT: the foreign key wants the row of the stop, waits for who
\* deletes it, and is violated if it is gone.
CheckStop(w) ==
    /\ job[w].at = "detecting" /\ job[w].entered /\ ~Waits(w)
    /\ IF job[w].next \in stops
         THEN \E p \in Arrived(job[w]) : job' = [job EXCEPT ![w] = p]
         ELSE job' = [job EXCEPT ![w] = Swallowed(@)]
    /\ UNCHANGED <<roadVars, trips, dbVars, clock, edit, sweep, outVars, seenVars, upsets>>

\* It may fail for other reasons, as the victim of a deadlock, cancelled, for want of
\* space: the catch takes them all.
InsertThrows(w) ==
    /\ job[w].at = "detecting" /\ job[w].next # 0
    /\ job' = [job EXCEPT ![w] = Swallowed(@)]
    /\ UNCHANGED <<roadVars, trips, dbVars, clock, edit, sweep, outVars, seenVars>>

Victim(w) == InCircle(w) /\ InsertThrows(w) /\ UNCHANGED upsets
InsertFails(w) == InsertThrows(w) /\ Upset

\* Mutant of Stored: the upsert does not write the status of a bus that has a row.
StoredStatusKept(p) ==
    /\ logs' = logs \cup {[trip |-> p.trip, bus |-> p.bus, at |-> p.stamp]}
    /\ live' = [live EXCEPT ![p.bus] =
                  [trip |-> p.trip, at |-> p.stamp, old |-> FALSE,
                   status |-> IF @ = None THEN "ok" ELSE @.status]]
    /\ events' = events \cup {<<p.trip, s>> : s \in p.mine}
    /\ trips' = [trips EXCEPT ![p.trip].silent = FALSE]

\* The rows of a transaction that committed.
Stored(p) ==
    /\ logs' = logs \cup {[trip |-> p.trip, bus |-> p.bus, at |-> p.stamp]}
    /\ live' = [live EXCEPT ![p.bus] =
                  [trip |-> p.trip, at |-> p.stamp, status |-> "ok", old |-> FALSE]]
    /\ events' = events \cup {<<p.trip, s>> : s \in p.mine}
    /\ trips' = [trips EXCEPT ![p.trip].silent = FALSE]

\* Mutant of Commit: the upsert ran on another connection.
CommitLiveApart(w) ==
    /\ job[w].at = "detecting" /\ job[w].next = 0
    /\ LET p == job[w]
       IN IF p.aborted
            THEN /\ lost' = lost \cup {p.stamp} /\ UNCHANGED <<trips, logs, events>>
                 /\ live' = [live EXCEPT ![p.bus] =
                       [trip |-> p.trip, at |-> p.stamp, status |-> "ok", old |-> FALSE]]
            ELSE Stored(p) /\ UNCHANGED lost
    /\ job' = [job EXCEPT ![w].at = "committed"]
    /\ UNCHANGED <<roadVars, clock, edit, sweep, outVars, cut, upsets>>

\* COMMIT of an aborted transaction rolls it back and reports no error.
Commit(w) ==
    /\ job[w].at = "detecting" /\ job[w].next = 0
    /\ IF job[w].aborted
         THEN lost' = lost \cup {job[w].stamp} /\ UNCHANGED <<trips, dbVars>>
         ELSE Stored(job[w]) /\ UNCHANGED lost
    /\ job' = [job EXCEPT ![w].at = "committed"]
    /\ UNCHANGED <<roadVars, clock, edit, sweep, outVars, cut, upsets>>

\* The COMMIT is done and its answer does not come: the handler's ROLLBACK fails too, 500.
LoseCommit(w) ==
    /\ job[w].at = "detecting" /\ job[w].next = 0 /\ ~job[w].aborted
    /\ Upset
    /\ Stored(job[w])
    /\ cut' = cut \cup {<<job[w].trip, s>> : s \in job[w].mine}
    /\ job' = [job EXCEPT ![w] = Idle]
    /\ UNCHANGED <<roadVars, clock, edit, sweep, outVars, lost>>

\* A statement outside the catch fails, COMMIT included: ROLLBACK, 500.
Fail(w) ==
    /\ \/ job[w].at \in {"resolved", "logged", "upserted"}
       \/ job[w].at = "detecting" /\ job[w].next = 0
    /\ job' = [job EXCEPT ![w] = Idle]
    /\ UNCHANGED <<roadVars, trips, dbVars, clock, edit, sweep, outVars, seenVars, upsets>>

\* Mutant of Reply: nothing is broadcast.
ReplyOnly(w) ==
    /\ job[w].at = "committed"
    /\ acked' = acked \cup {job[w].stamp}
    /\ job' = [job EXCEPT ![w] = IF @.arrived = {} THEN Idle ELSE [@ EXCEPT !.at = "fanout"]]
    /\ UNCHANGED <<roadVars, trips, dbVars, clock, edit, sweep, announced, notified,
                   seenVars, upsets>>

\* The handler: 202, then the broadcasts, then the fan-out if there is any.
Reply(w) ==
    /\ job[w].at = "committed"
    /\ acked' = acked \cup {job[w].stamp}
    /\ announced' = Told(announced, job[w].stamp, job[w].trip, job[w].arrived)
    /\ job' = [job EXCEPT ![w] = IF @.arrived = {} THEN Idle ELSE [@ EXCEPT !.at = "fanout"]]
    /\ UNCHANGED <<roadVars, trips, dbVars, clock, edit, sweep, notified, seenVars, upsets>>

\* fanOutArrivals: one bulk insert for all parents; its failure is only logged.
FanOut(w) ==
    /\ job[w].at = "fanout"
    /\ notified' \in {notified, [notified EXCEPT ![job[w].bus] =
                                    Told(@, job[w].stamp, job[w].trip, job[w].arrived)]}
    /\ job' = [job EXCEPT ![w] = Idle]
    /\ UNCHANGED <<roadVars, trips, dbVars, clock, edit, sweep, acked, announced, seenVars,
                   upsets>>

-----------------------------------------------------------------------------
\* What happens around the pings.

\* tripService.start on an active assignment with no trip in progress; Dispatch
\* has the statements of it.
StartTrip ==
    /\ \E t \in TIds, a \in Assignments :
        /\ trips[t] = None /\ \A u \in TIds : u < t => trips[u] # None
        /\ busOf[a] # None
        /\ \A u \in TIds : InProgress(u) => trips[u].assignment # a
        /\ trips' = [trips EXCEPT ![t] =
                       [assignment |-> a, status |-> "in_progress", silent |-> FALSE]]
    /\ UNCHANGED <<roadVars, dbVars, clock, job, edit, sweep, outVars, seenVars, upsets>>

\* Mutant of EndTrip: a status the schema does not know.
EndMisspelt(t) ==
    /\ InProgress(t)
    /\ trips' = [trips EXCEPT ![t].status = "complete"]
    /\ UNCHANGED <<roadVars, dbVars, clock, job, edit, sweep, outVars, seenVars, upsets>>

EndTrip(t) ==
    /\ InProgress(t)
    /\ trips' = [trips EXCEPT ![t].status = "completed"]
    /\ UNCHANGED <<roadVars, dbVars, clock, job, edit, sweep, outVars, seenVars, upsets>>

\* Mutant of Stale: an inner join to the fixes, where the code has MAX and COALESCE.
StaleHeard(t) ==
    /\ InProgress(t) /\ trips[t].silent
    /\ \E l \in logs : l.trip = t

\* tripService.autoCloseStaleTrips: every trip that is stale, in one UPDATE.
Stale(t) == InProgress(t) /\ trips[t].silent

AutoClose ==
    /\ \E t \in TIds : Stale(t)
    /\ trips' = [t \in TIds |-> IF Stale(t) THEN [trips[t] EXCEPT !.status = "completed"]
                                            ELSE trips[t]]
    /\ UNCHANGED <<roadVars, dbVars, clock, job, edit, sweep, outVars, seenVars, upsets>>

\* jobs.gpsOffDetection: one UPDATE, which selects its rows, waits for each of them and
\* looks at its condition again when it gets it.
GpsOffSelect ==
    /\ sweep = NoSweep /\ \E b \in Buses : Dark(b)
    /\ sweep' = [sweep EXCEPT !.todo = {b \in Buses : Dark(b)}]
    /\ UNCHANGED <<roadVars, trips, dbVars, clock, job, edit, outVars, seenVars, upsets>>

\* Mutant of GpsOffRow: the condition is that of the SELECT.
GpsOffRowSeen(b) ==
    /\ b \in sweep.todo /\ \A w \in Workers : ~HoldsRow(w, b)
    /\ sweep' = [todo |-> sweep.todo \ {b}, mine |-> sweep.mine \cup {b}]
    /\ UNCHANGED <<roadVars, trips, dbVars, clock, job, edit, outVars, seenVars, upsets>>

GpsOffRow(b) ==
    /\ b \in sweep.todo /\ \A w \in Workers : ~HoldsRow(w, b)
    /\ sweep' = [todo |-> sweep.todo \ {b},
                 mine |-> IF Dark(b) THEN sweep.mine \cup {b} ELSE sweep.mine]
    /\ UNCHANGED <<roadVars, trips, dbVars, clock, job, edit, outVars, seenVars, upsets>>

GpsOffEnd ==
    /\ sweep.todo = {} /\ sweep.mine # {}
    /\ live' = [b \in Buses |-> IF b \in sweep.mine THEN [live[b] EXCEPT !.status = "offline"]
                                                   ELSE live[b]]
    /\ sweep' = NoSweep
    /\ UNCHANGED <<roadVars, trips, logs, events, clock, job, edit, outVars, seenVars, upsets>>

\* Time passes: 30 seconds since a bus was heard, 30 minutes since a trip was.
Age30s(b) ==
    /\ live[b] # None /\ ~live[b].old
    /\ live' = [live EXCEPT ![b].old = TRUE]
    /\ UNCHANGED <<roadVars, trips, logs, events, clock, job, edit, sweep, outVars,
                   seenVars, upsets>>

Age30m(t) ==
    /\ InProgress(t) /\ ~trips[t].silent
    /\ \A b \in Buses : live[b] # None /\ live[b].trip = t => live[b].old
    /\ trips' = [trips EXCEPT ![t].silent = TRUE]
    /\ UNCHANGED <<roadVars, dbVars, clock, job, edit, sweep, outVars, seenVars, upsets>>

\* driverService.updateAssignment, deactivateAssignment: another bus, or none,
\* within the unique index on active buses.
Rebind(a) ==
    /\ \E bus \in (Buses \cup {None}) \ {busOf[a]} :
        /\ bus # None => \A b \in Assignments : busOf[b] # bus
        /\ busOf' = [busOf EXCEPT ![a] = bus]
    /\ Upset
    /\ UNCHANGED <<trips, stops, stopSeq, dbVars, clock, job, edit, sweep, outVars, seenVars>>

\* routeService.addStop.
AddStop ==
    /\ stopSeq < MaxStops
    /\ stopSeq' = stopSeq + 1 /\ stops' = stops \cup {stopSeq + 1}
    /\ Upset
    /\ UNCHANGED <<busOf, trips, dbVars, clock, job, edit, sweep, outVars, seenVars>>

\* routeService.replaceStops: BEGIN and the DELETE of every stop there is, in the order
\* in which it finds the rows.  (One replacement of the route at a time.)
ReplaceStops ==
    /\ edit = NoEdit
    /\ edit' = [at |-> "deleting", todo |-> stops, gone |-> {}]
    /\ Upset
    /\ UNCHANGED <<roadVars, trips, dbVars, clock, job, sweep, outVars, seenVars>>

\* The next row; who holds it FOR KEY SHARE is waited for.
DeleteStop(s) ==
    /\ s \in edit.todo /\ \A w \in Workers : ~HoldsKey(w, s)
    /\ edit' = [edit EXCEPT !.todo = @ \ {s}, !.gone = @ \cup {s}]
    /\ UNCHANGED <<roadVars, trips, dbVars, clock, job, sweep, outVars, seenVars, upsets>>

\* A stop_event of a deleted stop violates the foreign key at the end of the DELETE.
Referenced == \E t \in TIds, s \in edit.gone : <<t, s>> \in events

\* The INSERTs of the new stops, and COMMIT.
CommitStops ==
    /\ edit.at = "deleting" /\ edit.todo = {} /\ ~Referenced
    /\ \E n \in 0..(MaxStops - stopSeq) :
        /\ stops' = (stops \ edit.gone) \cup ((stopSeq + 1)..(stopSeq + n))
        /\ stopSeq' = stopSeq + n
    /\ edit' = NoEdit
    /\ UNCHANGED <<busOf, trips, dbVars, clock, job, sweep, outVars, seenVars, upsets>>

\* Mutant of RefuseStops: the client goes back to the pool without ROLLBACK.
RefuseUnrolled ==
    /\ edit.at = "deleting" /\ ((edit.todo = {} /\ Referenced) \/ InCircle(Editor))
    /\ edit' = [edit EXCEPT !.at = "idle"]
    /\ UNCHANGED <<roadVars, trips, dbVars, clock, job, sweep, outVars, seenVars, upsets>>

\* Its foreign key is violated, or it is the victim of a deadlock: ROLLBACK, 500.
RefuseStops ==
    /\ edit.at = "deleting" /\ ((edit.todo = {} /\ Referenced) \/ InCircle(Editor))
    /\ edit' = NoEdit
    /\ UNCHANGED <<roadVars, trips, dbVars, clock, job, sweep, outVars, seenVars, upsets>>

\* Another of its statements fails.
StopsFail ==
    /\ edit.at = "deleting"
    /\ edit' = NoEdit
    /\ UNCHANGED <<roadVars, trips, dbVars, clock, job, sweep, outVars, seenVars, upsets>>

\* The process dies: the database rolls every open transaction back, and what
\* was committed but not yet sent is never sent.
Crash ==
    /\ job' = [w \in Workers |-> Idle]
    /\ edit' = NoEdit /\ sweep' = NoSweep
    /\ cut' = cut \cup {v \in Visits : \E w \in Workers :
                           job[w].at = "committed" /\ v[1] = job[w].trip /\ v[2] \in job[w].mine}
    /\ Upset
    /\ UNCHANGED <<roadVars, trips, dbVars, clock, outVars, lost>>

Handle(w) ==
    \/ InsertLog(w) \/ UpsertLive(w) \/ SelectStops(w)
    \/ InsertArrival(w) \/ CheckStop(w) \/ Victim(w)
    \/ Commit(w) \/ Reply(w) \/ FanOut(w)

Editing == CommitStops \/ RefuseStops \/ \E s \in Stops : DeleteStop(s)
Sweeping == GpsOffEnd \/ \E b \in Buses : GpsOffRow(b)

Next ==
    \/ \E w \in Workers :
          Resolve(w) \/ Handle(w) \/ InsertFails(w) \/ LoseCommit(w) \/ Fail(w)
    \/ StartTrip \/ AutoClose \/ GpsOffSelect \/ Sweeping
    \/ AddStop \/ ReplaceStops \/ Editing \/ StopsFail \/ Crash
    \/ \E t \in TIds : EndTrip(t) \/ Age30m(t)
    \/ \E b \in Buses : Age30s(b)
    \/ \E a \in Assignments : Rebind(a)

Spec == Init /\ [][Next]_vars

\* Node runs every continuation that is ready: a ping or a replacement that is being
\* served goes on, and need not fail to do so; PostgreSQL breaks every circle within a
\* second (Victim, RefuseStops).  The timer of the auto-close fires for ever.  Nothing
\* makes time pass, or a driver send, start or end anything.
Serving ==
    /\ \A w \in Workers : WF_vars(Handle(w))
    /\ WF_vars(Editing) /\ WF_vars(Sweeping)

FairSpec == Spec /\ Serving /\ WF_vars(AutoClose)

-----------------------------------------------------------------------------
\* Properties.

\* What the live map shows of a bus was really received: the position came with
\* a row of gps_logs, both written by one transaction of ingest.
LiveHasLog ==
    \A b \in Buses : live[b] # None =>
        [trip |-> live[b].trip, bus |-> b, at |-> live[b].at] \in logs

\* What is broadcast as an arrival is a stop_event in the database, unless the empty catch
\* of each ping that broadcast it has swallowed an error of a later insert: also where the
\* row came from another ping (ON CONFLICT DO NOTHING) and the stops are being replaced.
AnnouncedIsRecorded == \A v \in Visits : announced[v] \subseteq lost \/ v \in events

\* What clients see of a bus, on the map or as an event, is in the database, but for the
\* arrivals of pings whose COMMIT rolled back.
ShownIsStored == LiveHasLog /\ AnnouncedIsRecorded

\* A bus shown offline has been silent for 30 seconds: the job's UPDATE never
\* overwrites a position that arrived while it was waiting for the row.
OfflineMeansOld ==
    \A b \in Buses : live[b] # None /\ live[b].status = "offline" => live[b].old

\* Of the pings of one bus that notify the parents of a stop, at most one per trip was
\* stored: the upsert makes them queue for the row of the bus, so each looks for the stops
\* still to be recorded after the one before it has ended.  The parents hear again only
\* after pings that an error in the empty catch has rolled back.  (Two buses on one trip,
\* after a change of the assignment, have no such queue.)
NotifiedOnce ==
    \A b \in Buses, v \in Visits : \A m, n \in notified[b][v] \ lost : m = n

\* A ping answered 202 is in gps_logs, whatever the empty catch around the
\* stop_events inserts swallowed.
AckedIsStored == \A n \in acked : \E l \in logs : l.at = n

\* A trip nobody hears of any more is closed, also when its assignment was
\* taken away while it ran or it never sent a fix.
SilentTripCloses ==
    \A t \in TIds : InProgress(t) /\ trips[t].silent ~> ~InProgress(t) \/ ~trips[t].silent

\* No recorded arrival is forgotten: it was broadcast, or its ping is about to, unless the
\* process died, or the answer to COMMIT was lost, between the two.
ArrivalAnnounced ==
    \A v \in events :
        \/ announced[v] # {} \/ v \in cut
        \/ \E w \in Workers : /\ job[w].at = "committed"
                              /\ job[w].trip = v[1]
                              /\ v[2] \in job[w].mine \cap job[w].arrived

\* No ping waits for ever, also when it and replaceStops wait for each other.
PingFinishes == \A w \in Workers : job[w].at = "logged" ~> job[w] = Idle

\* Pings and the GPS-offline job never wait for each other in a circle but over stops with
\* the same stop_order, also when the pings of two buses record the arrivals of one trip:
\* each takes the row of its bus first and then the entries of the stops as they come.
\* (With replaceStops, which takes the stops in its own order, they can.)
NoWaitCycle ==
    \A group \in (SUBSET (Agents \ {Editor})) \ {{}} :
        \/ \E x \in group : \A y \in group : ~WaitsFor(x, y)
        \/ \E x, y \in group \ {Sweeper} :
              /\ WaitsFor(x, y) /\ 0 \notin {job[x].next, job[y].next}
              /\ Place[job[x].next] = Place[job[y].next]

=============================================================================
