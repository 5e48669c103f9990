------------------------------ MODULE Dispatch ------------------------------
(***************************************************************************)
(* Assignments and trips: driverService (route_assignments), tripService   *)
(* (trips) and the delete of busService (buses), as PostgreSQL runs them:  *)
(* READ COMMITTED, one action per SQL statement whose place among the      *)
(* statements of other requests matters.                                   *)
(*                                                                         *)
(* A request that needs several statements occupies a worker; its first    *)
(* statement is its arrival.  A request the code refuses (4xx) changes     *)
(* nothing, so a refusal at arrival is no step at all.  A request of one   *)
(* effective statement (end, deactivate, delete, the auto-close job) is    *)
(* one action and may fall between any two statements of the others.       *)
(***************************************************************************)
EXTENDS Naturals

CONSTANTS
    Workers,         \* requests the API serves at the same time
    Buses,           \* rows of buses
    Drivers,         \* active users with the driver role
    Routes,          \* rows of routes
    Patches,         \* bodies of PATCH /drivers/assignments/:id, None for an absent field
    MaxAssignments,  \* bound: assignments ever inserted
    MaxTrips,        \* bound: trips ever inserted
    None             \* SQL NULL, a missing row, an absent field of a body

\* Rows are numbered in the order of their insertion (created_at).
AIds == 1..MaxAssignments
TIds == 1..MaxTrips
ASSUME BoundAssumption == MaxAssignments \in Nat /\ MaxTrips \in Nat

VARIABLES
    deleted,        \* buses with deleted_at set
    assignments,    \* route_assignments, None where there is no row
    assignmentSeq,  \* assignments inserted so far
    trips,          \* trips, None where there is no row
    tripSeq,        \* trips inserted so far
    job,            \* the request each worker is in the middle of
    missed,         \* history: what others wrote since each request read it
    blind           \* history: trips started on an assignment that had been missed

rows == <<deleted, assignments, assignmentSeq, trips, tripSeq>>
vars == <<rows, job, missed, blind>>

Assignment == [route : Routes, bus : Buses, driver : Drivers, active : BOOLEAN]

\* endWrites counts the statements that wrote end_time, 2 standing for "again".
Trip == [assignment : AIds, status : {"in_progress", "completed"}, endWrites : 0..2]

ASSUME NoneAssumption ==
    /\ None \notin AIds
    /\ None \notin Buses /\ None \notin Drivers /\ None \notin BOOLEAN
    /\ None \notin Assignment /\ None \notin Trip

Patch == [bus : Buses \cup {None}, driver : Drivers \cup {None},
          active : BOOLEAN \cup {None}]

ASSUME PatchAssumption == Patches \subseteq Patch

Idle == [at |-> "idle"]
CreateJob == [at : {"createCheck", "createInsert"}, row : Assignment]
UpdateJob ==
    [at : {"updateCheck"}, a : AIds, patch : Patch, bus : Buses, driver : Drivers]
        \cup [at : {"updateWrite"}, a : AIds, patch : Patch]
RemoveJob == [at : {"removeWrite"}, bus : Buses]
StartJob == [at : {"startCheck"}, a : AIds, driver : Drivers]
                \cup [at : {"startInsert"}, a : AIds]

\* What one request may write between another's look and its write: a row of
\* route_assignments, a trip on one, the deleted_at of a bus.
Touch == ({"row", "trip"} \X AIds) \cup ({"bus"} \X Buses)

TypeOK ==
    /\ deleted \subseteq Buses
    /\ assignments \in [AIds -> Assignment \cup {None}]
    /\ assignmentSeq \in 0..MaxAssignments
    /\ trips \in [TIds -> Trip \cup {None}]
    /\ tripSeq \in 0..MaxTrips
    /\ job \in [Workers ->
                  {Idle} \cup CreateJob \cup UpdateJob \cup RemoveJob \cup StartJob]
    /\ missed \in [Workers -> SUBSET Touch] /\ blind \subseteq TIds

Init ==
    /\ deleted = {}
    /\ assignments = [a \in AIds |-> None]
    /\ assignmentSeq = 0
    /\ trips = [t \in TIds |-> None]
    /\ tripSeq = 0
    /\ job = [w \in Workers |-> Idle]
    /\ missed = [w \in Workers |-> {}] /\ blind = {}

-----------------------------------------------------------------------------
\* What the statements select.

IsActive(a) == assignments[a] # None /\ assignments[a].active

\* Mutant of Conflict: only the bus is looked for.
ConflictOnBus(bus, driver, except) ==
    \E a \in AIds \ {except} : IsActive(a) /\ assignments[a].bus = bus

\* Another active assignment than `except` holds the bus or the driver.
Conflict(bus, driver, except) ==
    \E a \in AIds \ {except} :
        /\ IsActive(a)
        /\ assignments[a].bus = bus \/ assignments[a].driver = driver

\* Mutant of IndexAllows: the migration with the unique index was not run.
NoIndex(a, row) == TRUE

\* uq_route_assignments_active_bus lets row be stored as assignment a.
IndexAllows(a, row) ==
    row.active => \A b \in AIds \ {a} : IsActive(b) => assignments[b].bus # row.bus

InProgress(t) == trips[t] # None /\ trips[t].status = "in_progress"

\* An in-progress trip whose assignment is now the driver's.
DriverOnTrip(driver) ==
    \E t \in TIds :
        /\ InProgress(t)
        /\ assignments[trips[t].assignment] # None
        /\ assignments[trips[t].assignment].driver = driver

\* Mutant of Patched: bus_id is set also when the body has none.
PatchedOverNull(row, patch) ==
    [row EXCEPT !.bus = patch.bus,
                !.driver = IF patch.driver = None THEN @ ELSE patch.driver,
                !.active = IF patch.active = None THEN @ ELSE patch.active]

Patched(row, patch) ==
    [row EXCEPT !.bus = IF patch.bus = None THEN @ ELSE patch.bus,
                !.driver = IF patch.driver = None THEN @ ELSE patch.driver,
                !.active = IF patch.active = None THEN @ ELSE patch.active]

Finish(w) == job' = [job EXCEPT ![w] = Idle]

\* What a request has looked at when it is at this point: the bus of a body is read at
\* arrival, and so is the assignment of a PATCH or a start; the check reads the others.
HasRead(j) ==
    CASE j.at \in {"createCheck", "createInsert"} ->
            {<<"bus", j.row.bus>>}
                \cup (IF j.at = "createInsert" THEN {"row"} \X AIds ELSE {})
      [] j.at \in {"updateCheck", "updateWrite"} ->
            {<<"bus", j.patch.bus>>, <<"row", j.a>>}
                \cup (IF j.at = "updateWrite" THEN {"row"} \X AIds ELSE {})
      [] j.at = "removeWrite" -> {"row"} \X AIds
      [] j.at = "startCheck" -> {<<"row", j.a>>}
      [] j.at = "startInsert" -> {"row", "trip"} \X AIds
      [] OTHER -> {}

\* The other requests miss what w writes of what they have read; w itself is done.
Touched(w, some) ==
    missed' = [v \in Workers |->
                 IF v = w THEN {} ELSE missed[v] \cup (some \cap HasRead(job[v]))]

-----------------------------------------------------------------------------
\* POST /drivers/assignments

\* Mutant of CreateBegin: the bus is looked up without asking for deleted_at.
CreateOnAnyBus(w) ==
    /\ job[w] = Idle
    /\ \E row \in Assignment :
        job' = [job EXCEPT ![w] =
                  [at |-> IF row.active THEN "createCheck" ELSE "createInsert", row |-> row]]
    /\ UNCHANGED <<rows, missed, blind>>

CreateBegin(w) ==
    /\ job[w] = Idle
    /\ \E row \in Assignment :
        /\ row.bus \notin deleted
        /\ job' = [job EXCEPT ![w] =
                     [at |-> IF row.active THEN "createCheck" ELSE "createInsert",
                      row |-> row]]
    /\ UNCHANGED <<rows, missed, blind>>

CreateCheck(w) ==
    /\ job[w].at = "createCheck"
    /\ IF Conflict(job[w].row.bus, job[w].row.driver, None)
         THEN Finish(w) /\ Touched(w, {})
         ELSE job' = [job EXCEPT ![w].at = "createInsert"] /\ UNCHANGED missed
    /\ UNCHANGED <<rows, blind>>

\* A unique violation answers 500; so does the model's bound on rows.
CreateInsert(w) ==
    /\ job[w].at = "createInsert"
    /\ LET a == assignmentSeq + 1
           row == job[w].row
       IN IF a \in AIds /\ IndexAllows(a, row)
            THEN /\ assignments' = [assignments EXCEPT ![a] = row]
                 /\ assignmentSeq' = a
                 /\ Touched(w, {<<"row", a>>})
            ELSE Touched(w, {}) /\ UNCHANGED <<assignments, assignmentSeq>>
    /\ Finish(w)
    /\ UNCHANGED <<deleted, trips, tripSeq, blind>>

\* PATCH /drivers/assignments/:id.  The check works on the row as it was read,
\* the UPDATE patches the row as it is.
UpdateBegin(w) ==
    /\ job[w] = Idle
    /\ \E a \in AIds, patch \in Patches :
        /\ assignments[a] # None
        /\ patch # [bus |-> None, driver |-> None, active |-> None]
        /\ patch.bus \notin deleted
        /\ LET target == Patched(assignments[a], patch)
           IN job' = [job EXCEPT ![w] =
                        IF target.active
                          THEN [at |-> "updateCheck", a |-> a, patch |-> patch,
                                bus |-> target.bus, driver |-> target.driver]
                          ELSE [at |-> "updateWrite", a |-> a, patch |-> patch]]
    /\ UNCHANGED <<rows, missed, blind>>

UpdateCheck(w) ==
    /\ job[w].at = "updateCheck"
    /\ IF Conflict(job[w].bus, job[w].driver, job[w].a)
         THEN Finish(w) /\ Touched(w, {})
         ELSE /\ job' = [job EXCEPT ![w] =
                           [at |-> "updateWrite", a |-> @.a, patch |-> @.patch]]
              /\ UNCHANGED missed
    /\ UNCHANGED <<rows, blind>>

UpdateWrite(w) ==
    /\ job[w].at = "updateWrite"
    /\ LET a == job[w].a
           row == Patched(assignments[a], job[w].patch)
       IN IF assignments[a] # None /\ IndexAllows(a, row)
            THEN /\ assignments' = [assignments EXCEPT ![a] = row]
                 /\ Touched(w, {<<"row", a>>})
            ELSE Touched(w, {}) /\ UNCHANGED assignments
    /\ Finish(w)
    /\ UNCHANGED <<deleted, assignmentSeq, trips, tripSeq, blind>>

DeactivateAssignment(a) ==
    /\ assignments[a] # None
    /\ assignments' = [assignments EXCEPT ![a].active = FALSE]
    /\ UNCHANGED <<deleted, assignmentSeq, trips, tripSeq, job, missed, blind>>

\* Mutant of DeleteAssignment: the foreign key is missing.
DeleteUnreferenced(a) ==
    /\ assignments[a] # None
    /\ assignments' = [assignments EXCEPT ![a] = None]
    /\ UNCHANGED <<deleted, assignmentSeq, trips, tripSeq, job, missed, blind>>

\* trips.assignment_id is a foreign key: an assignment a trip ran on stays.
DeleteAssignment(a) ==
    /\ assignments[a] # None
    /\ \A t \in TIds : trips[t] # None => trips[t].assignment # a
    /\ assignments' = [assignments EXCEPT ![a] = None]
    /\ UNCHANGED <<deleted, assignmentSeq, trips, tripSeq, job, missed, blind>>

\* Mutant of RemoveBusCheck: nobody looks for active assignments.
RemoveBusUnchecked(w) ==
    /\ job[w] = Idle
    /\ \E bus \in Buses \ deleted :
        job' = [job EXCEPT ![w] = [at |-> "removeWrite", bus |-> bus]]
    /\ UNCHANGED <<rows, missed, blind>>

\* DELETE /buses/:id
RemoveBusCheck(w) ==
    /\ job[w] = Idle
    /\ \E bus \in Buses \ deleted :
        /\ \A a \in AIds : IsActive(a) => assignments[a].bus # bus
        /\ job' = [job EXCEPT ![w] = [at |-> "removeWrite", bus |-> bus]]
    /\ UNCHANGED <<rows, missed, blind>>

RemoveBusWrite(w) ==
    /\ job[w].at = "removeWrite"
    /\ deleted' = deleted \cup {job[w].bus}
    /\ Finish(w) /\ Touched(w, {<<"bus", job[w].bus>>})
    /\ UNCHANGED <<assignments, assignmentSeq, trips, tripSeq, blind>>

\* POST /trips/start.  By id any active assignment will do, so the one that was
\* created last on the route, picked when there is no id, is among the choices.
StartPick(w) ==
    /\ job[w] = Idle
    /\ \E a \in AIds :
        /\ IsActive(a)
        /\ job' = [job EXCEPT ![w] =
                     [at |-> "startCheck", a |-> a, driver |-> assignments[a].driver]]
    /\ UNCHANGED <<rows, missed, blind>>

\* Mutants of StartCheck: no check, or one that looks at the assignment only.
StartUnchecked(w) ==
    /\ job[w].at = "startCheck"
    /\ UNCHANGED missed
    /\ job' = [job EXCEPT ![w] = [at |-> "startInsert", a |-> @.a]]
    /\ UNCHANGED <<rows, blind>>

StartCheckAssignment(w) ==
    /\ job[w].at = "startCheck"
    /\ IF \E t \in TIds : InProgress(t) /\ trips[t].assignment = job[w].a
         THEN Finish(w) /\ Touched(w, {})
         ELSE job' = [job EXCEPT ![w] = [at |-> "startInsert", a |-> @.a]] /\ UNCHANGED missed
    /\ UNCHANGED <<rows, blind>>

StartCheck(w) ==
    /\ job[w].at = "startCheck"
    /\ IF DriverOnTrip(job[w].driver)
         THEN Finish(w) /\ Touched(w, {})
         ELSE job' = [job EXCEPT ![w] = [at |-> "startInsert", a |-> @.a]] /\ UNCHANGED missed
    /\ UNCHANGED <<rows, blind>>

\* INSERT and COMMIT; the foreign key refuses an assignment deleted meanwhile,
\* and the model's bound ends it.
StartInsert(w) ==
    /\ job[w].at = "startInsert"
    /\ LET t == tripSeq + 1
           a == job[w].a
       IN IF t \in TIds /\ assignments[a] # None
            THEN /\ trips' = [trips EXCEPT ![t] =
                        [assignment |-> a, status |-> "in_progress", endWrites |-> 0]]
                 /\ tripSeq' = t
                 /\ Touched(w, {<<"trip", a>>})
                 /\ blind' = IF missed[w] \cap ({"row", "trip"} \X {a}) # {}
                               THEN blind \cup {t} ELSE blind
            ELSE Touched(w, {}) /\ UNCHANGED <<trips, tripSeq, blind>>
    /\ Finish(w)
    /\ UNCHANGED <<deleted, assignments, assignmentSeq>>

Closed(trip) ==
    [assignment |-> trip.assignment, status |-> "completed",
     endWrites |-> IF trip.endWrites = 0 THEN 1 ELSE 2]

\* Mutant of EndTrip: the UPDATE does not ask for an in-progress row.
EndAnyTrip(t) ==
    /\ trips[t] # None
    /\ trips' = [trips EXCEPT ![t] = Closed(@)]
    /\ UNCHANGED <<deleted, assignments, assignmentSeq, tripSeq, job, missed, blind>>

\* POST /trips/stop, PATCH /trips/:id/end
EndTrip(t) ==
    /\ InProgress(t)
    /\ trips' = [trips EXCEPT ![t] = Closed(@)]
    /\ UNCHANGED <<deleted, assignments, assignmentSeq, tripSeq, job, missed, blind>>

\* Which in-progress trips are stale depends on GPS and on time: any set here,
\* the real condition in GpsTracking.
AutoClose ==
    /\ \E stale \in SUBSET {t \in TIds : InProgress(t)} :
        trips' = [t \in TIds |-> IF t \in stale THEN Closed(trips[t]) ELSE trips[t]]
    /\ UNCHANGED <<deleted, assignments, assignmentSeq, tripSeq, job, missed, blind>>

Step(w) ==
    \/ CreateBegin(w) \/ CreateCheck(w) \/ CreateInsert(w)
    \/ UpdateBegin(w) \/ UpdateCheck(w) \/ UpdateWrite(w)
    \/ RemoveBusCheck(w) \/ RemoveBusWrite(w)
    \/ StartPick(w) \/ StartCheck(w) \/ StartInsert(w)

Next ==
    \/ \E w \in Workers : Step(w)
    \/ \E a \in AIds : DeactivateAssignment(a) \/ DeleteAssignment(a)
    \/ \E t \in TIds : EndTrip(t)
    \/ AutoClose

Spec == Init /\ [][Next]_vars

-----------------------------------------------------------------------------
\* Properties.

\* A bus never has two active assignments, whatever the requests in flight:
\* the checks of createAssignment and updateAssignment run before the write,
\* so only the partial unique index stands between two racing writes.
OneActivePerBus ==
    \A a, b \in AIds :
        IsActive(a) /\ IsActive(b) /\ assignments[a].bus = assignments[b].bus => a = b

\* A trip never outlives its assignment: start reads the assignment, checks
\* the driver and inserts the trip while deleteAssignment may remove the row.
TripKeepsAssignment ==
    \A t \in TIds : trips[t] # None => assignments[trips[t].assignment] # None

\* The end of a trip is written exactly once, by the driver's request or by
\* the auto-close job, in whatever order the two reach the row.
EndedOnce ==
    \A t \in TIds :
        trips[t] # None =>
            trips[t].endWrites = IF InProgress(t) THEN 0 ELSE 1

\* Whatever requests cross it, a trip keeps its assignment and ends once.
TripKept == TripKeepsAssignment /\ EndedOnce

\* No index keeps the rest, only checks that come before the writes: it breaks through
\* requests in the middle of which another one wrote what they had looked for, and only so.

SameDriver(a, b) ==
    a # b /\ IsActive(a) /\ IsActive(b) /\ assignments[a].driver = assignments[b].driver

\* A driver comes to two active assignments (no index is against it) only by a request
\* in the middle of which another one wrote one of the two.
OneActivePerDriver ==
    [][\A a, b \in AIds :
        SameDriver(a, b)' /\ ~SameDriver(a, b) =>
            \E w \in Workers : /\ job'[w] # job[w]
                               /\ missed[w] \cap ({"row"} \X {a, b}) # {}]_vars

\* The trips a GPS ping of a bus can be resolved to: resolveActiveTrip joins
\* the active assignments of the bus to their in-progress trips and takes the
\* first row.
Candidates(bus) ==
    {t \in TIds : /\ InProgress(t)
                  /\ IsActive(trips[t].assignment)
                  /\ assignments[trips[t].assignment].bus = bus}

\* A ping has at most one trip to go to, so "the first row" is no choice, unless a start
\* came between another start, or a PATCH of the assignment, and its own insert.
ResolveUnambiguous ==
    \A bus \in Buses : \A t, u \in Candidates(bus) : t = u \/ {t, u} \cap blind # {}

\* tripService.start inserts a trip only for a driver who has none in progress at that
\* moment (the promise of its 409), unless the assignment of the one or the other trip
\* was written, or that other trip inserted, in the middle of it.
StartsOnlyFreeDriver ==
    [][\A t, u \in TIds :
        LET a == trips'[t].assignment
            b == trips[u].assignment
        IN trips[t] = None /\ trips'[t] # None /\ InProgress(u)
                /\ assignments[b].driver = assignments[a].driver =>
             \E w \in Workers : /\ job'[w] # job[w]
                                /\ missed[w] \cap ({"row", "trip"} \X {a, b}) # {}]_vars

\* A bus is deleted only while no active assignment holds it (the 409 of DELETE
\* /buses/:id), unless that assignment was written between the look of busService.remove
\* and its UPDATE.
DeletedOnlyUnused ==
    [][\A bus \in deleted' \ deleted, a \in AIds :
        IsActive(a) /\ assignments[a].bus = bus =>
            \E w \in Workers : job'[w] # job[w] /\ <<"row", a>> \in missed[w]]_vars

\* A deleted bus gets no assignment any more, not even an inactive one, but from a request
\* that looked at the bus before it was deleted: those it has were there before.  Only
\* they can become active again, because updateAssignment asks for deleted_at when the
\* PATCH names a bus, and not otherwise.
DeletedGetsNone ==
    [][\A a \in AIds :
        assignments'[a] # None /\ assignments'[a].bus \in deleted' =>
            \/ assignments[a] # None /\ assignments[a].bus = assignments'[a].bus
            \/ \E w \in Workers : /\ job'[w] # job[w]
                                  /\ <<"bus", assignments'[a].bus>> \in missed[w]]_vars

\* A bus that is taken out of service was free, and nothing is planned on it again.
DeletedBusIsFree == DeletedOnlyUnused /\ DeletedGetsNone

=============================================================================
