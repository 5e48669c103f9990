--------------------------- MODULE Dispatch_proofs --------------------------
(***************************************************************************)
(* Proofs about Dispatch, for any numbers of requests, buses, drivers,     *)
(* routes, assignments and trips.                                          *)
(***************************************************************************)
EXTENDS Dispatch, TLAPS

Jobs == {Idle} \cup CreateJob \cup UpdateJob \cup RemoveJob \cup StartJob

\* A patched row is a row.
LEMMA PatchedType ==
    ASSUME NEW row \in Assignment, NEW patch \in Patch
    PROVE  Patched(row, patch) \in Assignment
  BY NoneAssumption DEF Patched, Assignment, Patch

\* Closing a trip gives a completed trip.
LEMMA ClosedType ==
    ASSUME NEW trip \in Trip
    PROVE  /\ Closed(trip) \in Trip
           /\ Closed(trip).status = "completed"
           /\ Closed(trip).assignment = trip.assignment
  BY DEF Closed, Trip

\* What the job of a worker holds, by the point the worker is at.
LEMMA JobFields ==
    ASSUME NEW j \in Jobs
    PROVE  /\ j.at \in {"createCheck", "createInsert"} =>
                j \in CreateJob /\ j.row \in Assignment
           /\ j.at = "updateCheck" =>
                j.a \in AIds /\ j.patch \in Patch /\ j.bus \in Buses /\ j.driver \in Drivers
           /\ j.at = "updateWrite" => j.a \in AIds /\ j.patch \in Patch
           /\ j.at = "removeWrite" => j.bus \in Buses
           /\ j.at = "startCheck" => j.a \in AIds /\ j.driver \in Drivers
           /\ j.at = "startInsert" => j.a \in AIds
  BY DEF Jobs, Idle, CreateJob, UpdateJob, RemoveJob, StartJob

\* The history of what the others write stays within what can be written.
LEMMA TouchedType ==
    ASSUME missed \in [Workers -> SUBSET Touch], NEW w \in Workers,
           NEW some \in SUBSET Touch, Touched(w, some)
    PROVE  missed' \in [Workers -> SUBSET Touch]
  BY DEF Touched

\* Every variable keeps its type: rows stay rows of their table, a worker only
\* ever holds what its request needs at the point it is at.
THEOREM TypeCorrect == Spec => []TypeOK
<1>1. Init => TypeOK
  BY BoundAssumption DEF Init, TypeOK, AIds, TIds
<1>2. TypeOK /\ [Next]_vars => TypeOK'
  <2> SUFFICES ASSUME TypeOK, [Next]_vars PROVE TypeOK'
    OBVIOUS
  <2> USE DEF TypeOK, rows
  <2>0. \A w \in Workers : job[w] \in Jobs
    BY DEF Jobs
  <2>1. ASSUME NEW w \in Workers, CreateBegin(w) PROVE TypeOK'
    BY <2>1 DEF CreateBegin, CreateJob
  <2>2. ASSUME NEW w \in Workers, CreateCheck(w) PROVE TypeOK'
    <3>1. job[w] \in CreateJob
      BY <2>0, <2>2, JobFields DEF CreateCheck
    <3>2. [job[w] EXCEPT !.at = "createInsert"] \in CreateJob
      BY <3>1 DEF CreateJob
    <3>3. missed' \in [Workers -> SUBSET Touch]
      BY <2>2, TouchedType DEF CreateCheck
    <3>4. QED
      BY <2>2, <3>2, <3>3 DEF CreateCheck, Finish
  <2>3. ASSUME NEW w \in Workers, CreateInsert(w) PROVE TypeOK'
    <3>1. job[w].row \in Assignment
      BY <2>0, <2>3, JobFields DEF CreateInsert
    <3>2. PICK some \in SUBSET Touch : Touched(w, some)
      <4>1. \A a \in AIds : {<<"row", a>>} \in SUBSET Touch
        BY DEF Touch
      <4>2. \/ Touched(w, {<<"row", assignmentSeq + 1>>}) /\ assignmentSeq + 1 \in AIds
            \/ Touched(w, {})
        BY <2>3 DEF CreateInsert
      <4>3. QED
        BY <4>1, <4>2
    <3>3. missed' \in [Workers -> SUBSET Touch]
      BY <3>2, TouchedType
    <3>4. /\ assignmentSeq' \in 0..MaxAssignments
          /\ assignments' \in [AIds -> Assignment \cup {None}]
      BY <2>3, <3>1, BoundAssumption DEF CreateInsert, AIds
    <3>5. QED
      BY <2>3, <3>3, <3>4 DEF CreateInsert, Finish
  <2>4. ASSUME NEW w \in Workers, UpdateBegin(w) PROVE TypeOK'
    <3>1. PICK a \in AIds, patch \in Patches :
            /\ assignments[a] # None
            /\ job' = [job EXCEPT ![w] =
                 IF Patched(assignments[a], patch).active
                   THEN [at |-> "updateCheck", a |-> a, patch |-> patch,
                         bus |-> Patched(assignments[a], patch).bus,
                         driver |-> Patched(assignments[a], patch).driver]
                   ELSE [at |-> "updateWrite", a |-> a, patch |-> patch]]
      BY <2>4 DEF UpdateBegin
    <3>2. patch \in Patch
      BY PatchAssumption
    <3>3. /\ Patched(assignments[a], patch).bus \in Buses
          /\ Patched(assignments[a], patch).driver \in Drivers
      BY <3>1, <3>2, PatchedType DEF Assignment
    <3>4. job'[w] \in UpdateJob
      BY <3>1, <3>2, <3>3 DEF UpdateJob
    <3>5. QED
      BY <2>4, <3>1, <3>4 DEF UpdateBegin
  <2>5. ASSUME NEW w \in Workers, UpdateCheck(w) PROVE TypeOK'
    <3>1. job[w].a \in AIds /\ job[w].patch \in Patch
      BY <2>0, <2>5, JobFields DEF UpdateCheck
    <3>2. [at |-> "updateWrite", a |-> job[w].a, patch |-> job[w].patch] \in UpdateJob
      BY <3>1 DEF UpdateJob
    <3>3. missed' \in [Workers -> SUBSET Touch]
      BY <2>5, TouchedType DEF UpdateCheck
    <3>4. QED
      BY <2>5, <3>2, <3>3 DEF UpdateCheck, Finish
  <2>6. ASSUME NEW w \in Workers, UpdateWrite(w) PROVE TypeOK'
    <3>1. job[w].a \in AIds /\ job[w].patch \in Patch
      BY <2>0, <2>6, JobFields DEF UpdateWrite
    <3>2. assignments[job[w].a] # None =>
            Patched(assignments[job[w].a], job[w].patch) \in Assignment
      BY <3>1, PatchedType
    <3>3. assignments' \in [AIds -> Assignment \cup {None}]
      BY <2>6, <3>1, <3>2 DEF UpdateWrite
    <3>4. {<<"row", job[w].a>>} \in SUBSET Touch
      BY <3>1 DEF Touch
    <3>5. missed' \in [Workers -> SUBSET Touch]
      BY <2>6, <3>4, TouchedType DEF UpdateWrite
    <3>6. QED
      BY <2>6, <3>3, <3>5 DEF UpdateWrite, Finish
  <2>7. ASSUME NEW w \in Workers, RemoveBusCheck(w) PROVE TypeOK'
    BY <2>7 DEF RemoveBusCheck, RemoveJob
  <2>8. ASSUME NEW w \in Workers, RemoveBusWrite(w) PROVE TypeOK'
    <3>1. job[w].bus \in Buses
      BY <2>0, <2>8, JobFields DEF RemoveBusWrite
    <3>2. {<<"bus", job[w].bus>>} \in SUBSET Touch
      BY <3>1 DEF Touch
    <3>3. missed' \in [Workers -> SUBSET Touch]
      BY <2>8, <3>2, TouchedType DEF RemoveBusWrite
    <3>4. QED
      BY <2>8, <3>1, <3>3 DEF RemoveBusWrite, Finish
  <2>9. ASSUME NEW w \in Workers, StartPick(w) PROVE TypeOK'
    <3>1. PICK a \in AIds :
            /\ assignments[a] # None
            /\ job' = [job EXCEPT ![w] =
                 [at |-> "startCheck", a |-> a, driver |-> assignments[a].driver]]
      BY <2>9 DEF StartPick, IsActive
    <3>2. job'[w] \in StartJob
      BY <3>1 DEF StartJob, Assignment
    <3>3. QED
      BY <2>9, <3>1, <3>2 DEF StartPick
  <2>10. ASSUME NEW w \in Workers, StartCheck(w) PROVE TypeOK'
    <3>1. job[w].a \in AIds
      BY <2>0, <2>10, JobFields DEF StartCheck
    <3>2. [at |-> "startInsert", a |-> job[w].a] \in StartJob
      BY <3>1 DEF StartJob
    <3>3. missed' \in [Workers -> SUBSET Touch]
      BY <2>10, TouchedType DEF StartCheck
    <3>4. QED
      BY <2>10, <3>2, <3>3 DEF StartCheck, Finish
  <2>11. ASSUME NEW w \in Workers, StartInsert(w) PROVE TypeOK'
    <3>1. job[w].a \in AIds
      BY <2>0, <2>11, JobFields DEF StartInsert
    <3>2. [assignment |-> job[w].a, status |-> "in_progress", endWrites |-> 0] \in Trip
      BY <3>1 DEF Trip
    <3>3. {<<"trip", job[w].a>>} \in SUBSET Touch
      BY <3>1 DEF Touch
    <3>4. missed' \in [Workers -> SUBSET Touch]
      BY <2>11, <3>3, TouchedType DEF StartInsert
    <3>5. tripSeq' \in 0..MaxTrips /\ trips' \in [TIds -> Trip \cup {None}]
      BY <2>11, <3>2, BoundAssumption DEF StartInsert, TIds
    <3>6. blind' \subseteq TIds
      BY <2>11 DEF StartInsert
    <3>7. QED
      BY <2>11, <3>4, <3>5, <3>6 DEF StartInsert, Finish
  <2>12. ASSUME NEW a \in AIds, DeactivateAssignment(a) PROVE TypeOK'
    <3>1. [assignments[a] EXCEPT !.active = FALSE] \in Assignment
      BY <2>12 DEF DeactivateAssignment, Assignment
    <3>2. QED
      BY <2>12, <3>1 DEF DeactivateAssignment
  <2>13. ASSUME NEW a \in AIds, DeleteAssignment(a) PROVE TypeOK'
    BY <2>13 DEF DeleteAssignment
  <2>14. ASSUME NEW t \in TIds, EndTrip(t) PROVE TypeOK'
    <3>1. Closed(trips[t]) \in Trip
      BY <2>14, ClosedType DEF EndTrip, InProgress
    <3>2. QED
      BY <2>14, <3>1 DEF EndTrip
  <2>15. CASE AutoClose
    <3>1. \A t \in TIds : InProgress(t) => Closed(trips[t]) \in Trip
      BY ClosedType DEF InProgress
    <3>2. QED
      BY <2>15, <3>1 DEF AutoClose
  <2>16. CASE UNCHANGED vars
    BY <2>16 DEF vars, rows
  <2>17. QED
    BY <2>1, <2>2, <2>3, <2>4, <2>5, <2>6, <2>7, <2>8, <2>9, <2>10, <2>11, <2>12,
       <2>13, <2>14, <2>15, <2>16 DEF Next, Step
<1>3. QED
  BY <1>1, <1>2, PTL DEF Spec

-----------------------------------------------------------------------------
(***************************************************************************)
(* What holds however many requests are in flight.                         *)
(***************************************************************************)

\* One step touches at most one assignment: it stores a row the unique index
\* accepts, or removes one that no trip refers to.
OneRow(a, row) ==
    /\ assignments' = [assignments EXCEPT ![a] = row]
    /\ trips' = trips
    /\ IF row = None THEN \A t \in TIds : trips[t] # None => trips[t].assignment # a
                     ELSE row \in Assignment /\ IndexAllows(a, row)

LEMMA AssignmentStep ==
    ASSUME TypeOK, [Next]_vars
    PROVE  \/ assignments' = assignments
           \/ \E a \in AIds, row \in Assignment \cup {None} : OneRow(a, row)
<1> USE DEF TypeOK, rows
<1>0. \A w \in Workers : job[w] \in Jobs
  BY DEF Jobs
<1>1. ASSUME NEW w \in Workers, CreateInsert(w), assignments' # assignments
      PROVE  \E a \in AIds, row \in Assignment \cup {None} : OneRow(a, row)
  <2>1. job[w].row \in Assignment
    BY <1>0, <1>1, JobFields DEF CreateInsert
  <2>2. assignmentSeq + 1 \in AIds /\ OneRow(assignmentSeq + 1, job[w].row)
    BY <1>1, <2>1, NoneAssumption DEF CreateInsert, OneRow
  <2>3. QED
    BY <2>1, <2>2
<1>2. ASSUME NEW w \in Workers, UpdateWrite(w), assignments' # assignments
      PROVE  \E a \in AIds, row \in Assignment \cup {None} : OneRow(a, row)
  <2>1. job[w].a \in AIds /\ job[w].patch \in Patch
    BY <1>0, <1>2, JobFields DEF UpdateWrite
  <2>2. assignments[job[w].a] # None
    BY <1>2 DEF UpdateWrite
  <2>3. Patched(assignments[job[w].a], job[w].patch) \in Assignment
    BY <2>1, <2>2, PatchedType
  <2>4. OneRow(job[w].a, Patched(assignments[job[w].a], job[w].patch))
    BY <1>2, <2>3, NoneAssumption DEF UpdateWrite, OneRow
  <2>5. QED
    BY <2>1, <2>3, <2>4
<1>3. ASSUME NEW a \in AIds, DeactivateAssignment(a)
      PROVE  \E row \in Assignment \cup {None} : OneRow(a, row)
  <2> DEFINE row == [assignments[a] EXCEPT !.active = FALSE]
  <2>1. row \in Assignment /\ ~row.active
    BY <1>3 DEF DeactivateAssignment, Assignment
  <2>2. assignments' = [assignments EXCEPT ![a] = row] /\ trips' = trips
    BY <1>3 DEF DeactivateAssignment
  <2>3. IndexAllows(a, row)
    BY <2>1 DEF IndexAllows
  <2> HIDE DEF row
  <2>4. OneRow(a, row)
    BY <2>1, <2>2, <2>3, NoneAssumption DEF OneRow
  <2>5. QED
    BY <2>1, <2>4
<1>4. ASSUME NEW a \in AIds, DeleteAssignment(a)
      PROVE  OneRow(a, None)
  BY <1>4 DEF DeleteAssignment, OneRow
<1>5. QED
  BY <1>1, <1>2, <1>3, <1>4
     DEF Next, Step, rows, vars, CreateBegin, CreateCheck, UpdateBegin, UpdateCheck,
         RemoveBusCheck, RemoveBusWrite, StartPick, StartCheck, StartInsert,
         EndTrip, AutoClose

\* One step starts one trip on an assignment that exists, or closes some that
\* are in progress; neither touches an assignment.
Starts(t, a) ==
    /\ assignments[a] # None
    /\ trips' = [trips EXCEPT ![t] =
                   [assignment |-> a, status |-> "in_progress", endWrites |-> 0]]

Closes(some) ==
    /\ \A t \in some : InProgress(t)
    /\ trips' = [t \in TIds |-> IF t \in some THEN Closed(trips[t]) ELSE trips[t]]

LEMMA TripStep ==
    ASSUME TypeOK, [Next]_vars
    PROVE  \/ trips' = trips
           \/ /\ assignments' = assignments
              /\ \/ \E w \in Workers : /\ StartInsert(w) /\ tripSeq + 1 \in TIds
                                       /\ job[w].a \in AIds
                                       /\ Starts(tripSeq + 1, job[w].a)
                 \/ \E some \in SUBSET TIds : Closes(some)
<1> USE DEF TypeOK, rows
<1>0. \A w \in Workers : job[w] \in Jobs
  BY DEF Jobs
<1>1. ASSUME NEW w \in Workers, StartInsert(w), trips' # trips
      PROVE  /\ tripSeq + 1 \in TIds /\ job[w].a \in AIds
             /\ Starts(tripSeq + 1, job[w].a) /\ assignments' = assignments
  BY <1>0, <1>1, JobFields DEF StartInsert, Starts
<1>2. ASSUME NEW t \in TIds, EndTrip(t)
      PROVE  Closes({t}) /\ assignments' = assignments
  BY <1>2 DEF EndTrip, Closes
<1>3. ASSUME AutoClose
      PROVE  (\E some \in SUBSET TIds : Closes(some)) /\ assignments' = assignments
  BY <1>3 DEF AutoClose, Closes
<1>4. QED
  BY <1>1, <1>2, <1>3
     DEF Next, Step, rows, vars, CreateBegin, CreateCheck, CreateInsert, UpdateBegin,
         UpdateCheck, UpdateWrite, RemoveBusCheck, RemoveBusWrite, StartPick,
         StartCheck, DeactivateAssignment, DeleteAssignment

\* A bus never has two active assignments: whatever was checked before, the
\* partial unique index accepts or refuses the row that is written.
THEOREM BusInvariant == Spec => []OneActivePerBus
<1>1. Init => OneActivePerBus
  BY DEF Init, OneActivePerBus, IsActive
<1>2. TypeOK /\ OneActivePerBus /\ [Next]_vars => OneActivePerBus'
  <2> SUFFICES ASSUME TypeOK, OneActivePerBus, [Next]_vars PROVE OneActivePerBus'
    OBVIOUS
  <2>1. CASE assignments' = assignments
    BY <2>1 DEF OneActivePerBus, IsActive
  <2>2. ASSUME NEW a \in AIds, NEW row \in Assignment \cup {None}, OneRow(a, row)
        PROVE  OneActivePerBus'
    BY <2>2 DEF OneActivePerBus, IsActive, OneRow, IndexAllows, TypeOK
  <2>3. QED
    BY <2>1, <2>2, AssignmentStep
<1>3. QED
  BY <1>1, <1>2, TypeCorrect, PTL DEF Spec

\* A trip never outlives its assignment: start's insert and deleteAssignment's
\* delete meet at the foreign key, on whichever side of each other they fall.
THEOREM TripInvariant == Spec => []TripKeepsAssignment
<1>1. Init => TripKeepsAssignment
  BY DEF Init, TripKeepsAssignment
<1>2. TypeOK /\ TripKeepsAssignment /\ [Next]_vars => TripKeepsAssignment'
  <2> SUFFICES ASSUME TypeOK, TripKeepsAssignment, [Next]_vars
               PROVE  TripKeepsAssignment'
    OBVIOUS
  <2> USE DEF TripKeepsAssignment, TypeOK
  <2>0. \A t \in TIds : trips[t] # None => trips[t].assignment \in AIds
    BY DEF Trip
  <2>1. CASE assignments' = assignments /\ trips' = trips
    BY <2>1
  <2>2. ASSUME NEW a \in AIds, NEW row \in Assignment \cup {None}, OneRow(a, row)
        PROVE  TripKeepsAssignment'
    BY <2>0, <2>2, NoneAssumption DEF OneRow
  <2>3. ASSUME NEW t \in TIds, NEW a \in AIds, Starts(t, a), assignments' = assignments
        PROVE  TripKeepsAssignment'
    BY <2>3 DEF Starts
  <2>4. ASSUME NEW some \in SUBSET TIds, Closes(some), assignments' = assignments
        PROVE  TripKeepsAssignment'
    BY <2>0, <2>4, ClosedType DEF Closes, InProgress
  <2>5. QED
    BY <2>1, <2>2, <2>3, <2>4, AssignmentStep, TripStep
<1>3. QED
  BY <1>1, <1>2, TypeCorrect, PTL DEF Spec

\* The end of a trip is written exactly once: the driver's request and the job
\* both update only a row that is still in progress.
THEOREM EndInvariant == Spec => []EndedOnce
<1>1. Init => EndedOnce
  BY DEF Init, EndedOnce
<1>2. TypeOK /\ EndedOnce /\ [Next]_vars => EndedOnce'
  <2> SUFFICES ASSUME TypeOK, EndedOnce, [Next]_vars PROVE EndedOnce'
    OBVIOUS
  <2>1. CASE trips' = trips
    BY <2>1 DEF EndedOnce, InProgress
  <2>2. ASSUME NEW t \in TIds, NEW a \in AIds, Starts(t, a)
        PROVE  EndedOnce'
    BY <2>2 DEF EndedOnce, InProgress, Starts, TypeOK
  <2>3. ASSUME NEW some \in SUBSET TIds, Closes(some)
        PROVE  EndedOnce'
    BY <2>3, ClosedType DEF EndedOnce, InProgress, Closes, Closed, TypeOK
  <2>4. QED
    BY <2>1, <2>2, <2>3, TripStep
<1>3. QED
  BY <1>1, <1>2, TypeCorrect, PTL DEF Spec

\* Both, for any number of requests that start, end, close and delete at the same time.
THEOREM TripIsKept == Spec => []TripKept
<1>1. TripKeepsAssignment /\ EndedOnce => TripKept
  BY DEF TripKept
<1>2. QED
  BY <1>1, TripInvariant, EndInvariant, PTL

-----------------------------------------------------------------------------
(***************************************************************************)
(* What the checks that come before the writes are worth, for any number   *)
(* of requests at once: what a request has found out still holds, but for  *)
(* what others wrote since and the history `missed` remembers.             *)
(***************************************************************************)

Tables == [AIds -> Assignment \cup {None}]
TripTables == [TIds -> Trip \cup {None}]

\* Assignment b is active and the driver's, or active and on the bus.
DriverHas(tab, driver, b) == tab[b] # None /\ tab[b].active /\ tab[b].driver = driver
BusHas(tab, bus, b) == tab[b] # None /\ tab[b].active /\ tab[b].bus = bus

\* Trip u is in progress on an assignment that is the driver's.
DriverOn(tab, trp, driver, u) ==
    /\ trp[u] # None /\ trp[u].status = "in_progress"
    /\ tab[trp[u].assignment] # None /\ tab[trp[u].assignment].driver = driver

\* The row a request works on is still the one it read.
Fresh(tab, j, m) == tab[j.a] # None /\ <<"row", j.a>> \notin m

\* createAssignment found no active assignment of the driver.
CreateLooked(tab, j, m) ==
    j.at = "createInsert" /\ j.row.active =>
        \A b \in AIds : DriverHas(tab, j.row.driver, b) => <<"row", b>> \in m

\* updateAssignment worked out the driver from the row, and then found no other
\* active assignment of the driver.
UpdateRead(tab, j, m) ==
    j.at = "updateCheck" /\ Fresh(tab, j, m) => Patched(tab[j.a], j.patch).driver = j.driver

UpdateLooked(tab, j, m) ==
    j.at = "updateWrite" /\ Fresh(tab, j, m) /\ Patched(tab[j.a], j.patch).active =>
        \A b \in AIds \ {j.a} :
            DriverHas(tab, Patched(tab[j.a], j.patch).driver, b) => <<"row", b>> \in m

\* start read the driver of the assignment, and then found no trip of the driver.
StartRead(tab, j, m) ==
    j.at = "startCheck" /\ Fresh(tab, j, m) => tab[j.a].driver = j.driver

StartLooked(tab, trp, j, m) ==
    j.at = "startInsert" /\ Fresh(tab, j, m) =>
        \A u \in TIds :
            DriverOn(tab, trp, tab[j.a].driver, u) =>
                <<"row", trp[u].assignment>> \in m \/ <<"trip", trp[u].assignment>> \in m

\* remove found no active assignment of the bus.
RemoveLooked(tab, j, m) ==
    j.at = "removeWrite" => \A b \in AIds : BusHas(tab, j.bus, b) => <<"row", b>> \in m

\* A bus named by a body was not deleted.
BusRead(gone, j, m) ==
    /\ j.at \in {"createCheck", "createInsert"} /\ j.row.bus \in gone =>
         <<"bus", j.row.bus>> \in m
    /\ j.at \in {"updateCheck", "updateWrite"} /\ j.patch.bus \in gone =>
         <<"bus", j.patch.bus>> \in m

Known(tab, trp, gone, j, m) ==
    /\ CreateLooked(tab, j, m) /\ UpdateRead(tab, j, m) /\ UpdateLooked(tab, j, m)
    /\ StartRead(tab, j, m) /\ StartLooked(tab, trp, j, m)
    /\ RemoveLooked(tab, j, m) /\ BusRead(gone, j, m)

AllKnown == \A w \in Workers : Known(assignments, trips, deleted, job[w], missed[w])

-----------------------------------------------------------------------------
\* What each kind of write does to what the other requests know.

\* Tables from which something was taken away: rows vanish or stop being
\* active, trips vanish or end.
Less(tab, trp, tab2, trp2) ==
    /\ \A a \in AIds :
         tab2[a] # None =>
           /\ tab[a] # None
           /\ tab2[a].bus = tab[a].bus /\ tab2[a].driver = tab[a].driver
           /\ tab2[a].active => tab[a].active
    /\ \A t \in TIds :
         trp2[t] # None /\ trp2[t].status = "in_progress" =>
           /\ trp[t] # None /\ trp[t].status = "in_progress"
           /\ trp2[t].assignment = trp[t].assignment

\* What Patched does to each field.
LEMMA PatchedFields ==
    ASSUME NEW row \in Assignment, NEW patch \in Patch
    PROVE  /\ Patched(row, patch).bus = IF patch.bus = None THEN row.bus ELSE patch.bus
           /\ Patched(row, patch).driver =
                IF patch.driver = None THEN row.driver ELSE patch.driver
           /\ Patched(row, patch).active =
                IF patch.active = None THEN row.active ELSE patch.active
  BY DEF Patched, Assignment

\* A patch makes of a row that lost at most its being active what it made of it.
LEMMA LessPatched ==
    ASSUME NEW old \in Assignment, NEW new \in Assignment, NEW patch \in Patch,
           new.driver = old.driver, new.active => old.active
    PROVE  /\ Patched(new, patch).driver = Patched(old, patch).driver
           /\ Patched(new, patch).active => Patched(old, patch).active
  BY PatchedFields

\* When something is taken away, all that is known stays true.
LEMMA LessKnown ==
    ASSUME NEW tab \in Tables, NEW trp \in TripTables, NEW tab2 \in Tables,
           NEW trp2 \in TripTables, Less(tab, trp, tab2, trp2), NEW gone,
           NEW j \in Jobs, NEW m, Known(tab, trp, gone, j, m)
    PROVE  Known(tab2, trp2, gone, j, m)
<1>1. /\ \A driver, b : b \in AIds /\ DriverHas(tab2, driver, b) => DriverHas(tab, driver, b)
      /\ \A bus, b : b \in AIds /\ BusHas(tab2, bus, b) => BusHas(tab, bus, b)
  BY DEF Less, DriverHas, BusHas
<1>2. \A driver, u : u \in TIds /\ DriverOn(tab2, trp2, driver, u) =>
        DriverOn(tab, trp, driver, u) /\ trp2[u].assignment = trp[u].assignment
  <2>1. \A u \in TIds : trp2[u] # None => trp2[u].assignment \in AIds
    BY DEF TripTables, Trip
  <2>2. QED
    BY <2>1 DEF Less, DriverOn
<1>3. j.a \in AIds /\ Fresh(tab2, j, m) => Fresh(tab, j, m)
  BY DEF Less, Fresh
<1>4. j.at \in {"updateCheck", "updateWrite"} /\ Fresh(tab2, j, m) =>
        /\ Patched(tab2[j.a], j.patch).driver = Patched(tab[j.a], j.patch).driver
        /\ Patched(tab2[j.a], j.patch).active => Patched(tab[j.a], j.patch).active
  <2> SUFFICES ASSUME j.at \in {"updateCheck", "updateWrite"}, tab2[j.a] # None
               PROVE  /\ Patched(tab2[j.a], j.patch).driver = Patched(tab[j.a], j.patch).driver
                      /\ Patched(tab2[j.a], j.patch).active => Patched(tab[j.a], j.patch).active
    BY DEF Fresh
  <2>1. j.a \in AIds /\ j.patch \in Patch
    BY JobFields
  <2>2. /\ tab[j.a] # None /\ tab2[j.a].driver = tab[j.a].driver
        /\ tab2[j.a].active => tab[j.a].active
    BY <2>1 DEF Less
  <2>3. tab[j.a] \in Assignment /\ tab2[j.a] \in Assignment
    BY <2>1, <2>2 DEF Tables
  <2>4. QED
    BY <2>1, <2>2, <2>3, LessPatched
<1>5. CreateLooked(tab2, j, m)
  BY <1>1 DEF Known, CreateLooked
<1>6. j.at \in {"updateCheck", "updateWrite", "startCheck", "startInsert"} => j.a \in AIds
  BY JobFields
<1>7. UpdateRead(tab2, j, m)
  BY <1>3, <1>4, <1>6 DEF Known, UpdateRead
<1>8. UpdateLooked(tab2, j, m)
  <2> SUFFICES ASSUME j.at = "updateWrite", Fresh(tab2, j, m),
                      Patched(tab2[j.a], j.patch).active, NEW b \in AIds \ {j.a},
                      DriverHas(tab2, Patched(tab2[j.a], j.patch).driver, b)
               PROVE  <<"row", b>> \in m
    BY DEF UpdateLooked
  <2>1. DriverHas(tab, Patched(tab[j.a], j.patch).driver, b)
    BY <1>1, <1>4
  <2>2. QED
    BY <1>3, <1>4, <1>6, <2>1 DEF Known, UpdateLooked
<1>9. StartRead(tab2, j, m)
  BY <1>3, <1>6 DEF Known, StartRead, Fresh, Less
<1>10. StartLooked(tab2, trp2, j, m)
  <2> SUFFICES ASSUME j.at = "startInsert", Fresh(tab2, j, m), NEW u \in TIds,
                      DriverOn(tab2, trp2, tab2[j.a].driver, u)
               PROVE  \/ <<"row", trp2[u].assignment>> \in m
                      \/ <<"trip", trp2[u].assignment>> \in m
    BY DEF StartLooked
  <2>1. tab2[j.a].driver = tab[j.a].driver
    BY <1>6 DEF Fresh, Less
  <2>2. DriverOn(tab, trp, tab[j.a].driver, u) /\ trp2[u].assignment = trp[u].assignment
    BY <1>2, <2>1
  <2>3. QED
    BY <1>3, <1>6, <2>2 DEF Known, StartLooked
<1>11. RemoveLooked(tab2, j, m)
  BY <1>1 DEF Known, RemoveLooked
<1>12. QED
  BY <1>5, <1>7, <1>8, <1>9, <1>10, <1>11 DEF Known

\* A request at a point where it has read row a, or trips on it, or bus a.
LEMMA ReadThere ==
    ASSUME NEW j \in Jobs, NEW a \in AIds
    PROVE  /\ j.at \in {"createInsert", "updateWrite", "startInsert", "removeWrite"} =>
                <<"row", a>> \in HasRead(j)
           /\ j.at \in {"updateCheck", "startCheck"} => <<"row", j.a>> \in HasRead(j)
           /\ j.at = "startInsert" => <<"trip", a>> \in HasRead(j)
           /\ j.at \in {"createCheck", "createInsert"} => <<"bus", j.row.bus>> \in HasRead(j)
           /\ j.at \in {"updateCheck", "updateWrite"} => <<"bus", j.patch.bus>> \in HasRead(j)
  BY DEF HasRead

\* A row that is written is missed by all who had read it.
LEMMA RowKnown ==
    ASSUME NEW tab \in Tables, NEW trp \in TripTables, NEW gone, NEW j \in Jobs, NEW m,
           Known(tab, trp, gone, j, m), NEW a \in AIds, NEW row \in Assignment
    PROVE  Known([tab EXCEPT ![a] = row], trp, gone, j,
                 m \cup ({<<"row", a>>} \cap HasRead(j)))
<1> DEFINE tab2 == [tab EXCEPT ![a] = row]
           m2 == m \cup ({<<"row", a>>} \cap HasRead(j))
<1>1. m \subseteq m2 /\ (<<"row", a>> \in HasRead(j) => <<"row", a>> \in m2)
  OBVIOUS
<1>2. \A b \in AIds \ {a} : tab2[b] = tab[b]
  BY DEF Tables
<1> HIDE DEF tab2, m2
<1>3. \A b \in AIds \ {a} :
        /\ \A driver : DriverHas(tab2, driver, b) => DriverHas(tab, driver, b)
        /\ \A bus : BusHas(tab2, bus, b) => BusHas(tab, bus, b)
  BY <1>2 DEF DriverHas, BusHas
<1>4. j.at \in {"updateCheck", "updateWrite", "startCheck", "startInsert"} => j.a \in AIds
  BY JobFields
<1>5. j.at \in {"updateCheck", "updateWrite", "startCheck", "startInsert"}
        /\ Fresh(tab2, j, m2) => j.a # a /\ Fresh(tab, j, m) /\ tab2[j.a] = tab[j.a]
  BY <1>1, <1>2, <1>4, ReadThere DEF Fresh
<1>6. CreateLooked(tab2, j, m2)
  BY <1>1, <1>3, ReadThere DEF Known, CreateLooked
<1>7. UpdateRead(tab2, j, m2)
  BY <1>5 DEF Known, UpdateRead
<1>8. UpdateLooked(tab2, j, m2)
  BY <1>1, <1>3, <1>5, ReadThere DEF Known, UpdateLooked
<1>9. StartRead(tab2, j, m2)
  BY <1>5 DEF Known, StartRead
<1>10. StartLooked(tab2, trp, j, m2)
  <2> SUFFICES ASSUME j.at = "startInsert", Fresh(tab2, j, m2), NEW u \in TIds,
                      DriverOn(tab2, trp, tab2[j.a].driver, u)
               PROVE  \/ <<"row", trp[u].assignment>> \in m2
                      \/ <<"trip", trp[u].assignment>> \in m2
    BY DEF StartLooked
  <2>1. trp[u].assignment \in AIds
    BY DEF DriverOn, TripTables, Trip
  <2>2. CASE trp[u].assignment = a
    BY <1>1, <2>2, ReadThere
  <2>3. CASE trp[u].assignment # a
    <3>1. DriverOn(tab, trp, tab[j.a].driver, u)
      BY <1>2, <1>5, <2>1, <2>3 DEF DriverOn
    <3>2. QED
      BY <1>1, <1>5, <3>1 DEF Known, StartLooked
  <2>4. QED
    BY <2>2, <2>3
<1>11. RemoveLooked(tab2, j, m2)
  BY <1>1, <1>3, ReadThere DEF Known, RemoveLooked
<1>12. BusRead(gone, j, m2)
  BY <1>1 DEF Known, BusRead
<1>13. QED
  BY <1>6, <1>7, <1>8, <1>9, <1>10, <1>11, <1>12 DEF Known, tab2, m2

\* So is a trip that is started.
LEMMA TripKnown ==
    ASSUME NEW tab \in Tables, NEW trp \in TripTables, NEW gone, NEW j \in Jobs, NEW m,
           Known(tab, trp, gone, j, m), NEW a \in AIds, NEW t \in TIds,
           NEW trip \in Trip, trip.assignment = a
    PROVE  Known(tab, [trp EXCEPT ![t] = trip], gone, j,
                 m \cup ({<<"trip", a>>} \cap HasRead(j)))
<1> DEFINE trp2 == [trp EXCEPT ![t] = trip]
           m2 == m \cup ({<<"trip", a>>} \cap HasRead(j))
<1>1. /\ m \subseteq m2
      /\ \A b \in AIds : <<"row", b>> \in m2 <=> <<"row", b>> \in m
      /\ <<"trip", a>> \in HasRead(j) => <<"trip", a>> \in m2
  OBVIOUS
<1>2. trp2[t] = trip /\ \A u \in TIds \ {t} : trp2[u] = trp[u]
  BY DEF TripTables
<1> HIDE DEF trp2, m2
<1>3. Fresh(tab, j, m2) => Fresh(tab, j, m)
  BY <1>1 DEF Fresh
<1>4. /\ CreateLooked(tab, j, m2) /\ UpdateRead(tab, j, m2) /\ UpdateLooked(tab, j, m2)
      /\ StartRead(tab, j, m2) /\ RemoveLooked(tab, j, m2) /\ BusRead(gone, j, m2)
  BY <1>1, <1>3 DEF Known, CreateLooked, UpdateRead, UpdateLooked, StartRead, RemoveLooked,
                    BusRead
<1>5. StartLooked(tab, trp2, j, m2)
  <2> SUFFICES ASSUME j.at = "startInsert", Fresh(tab, j, m2), NEW u \in TIds,
                      DriverOn(tab, trp2, tab[j.a].driver, u)
               PROVE  \/ <<"row", trp2[u].assignment>> \in m2
                      \/ <<"trip", trp2[u].assignment>> \in m2
    BY DEF StartLooked
  <2>1. CASE u = t
    BY <1>1, <1>2, <2>1, ReadThere
  <2>2. CASE u # t
    <3>1. trp2[u] = trp[u] /\ DriverOn(tab, trp, tab[j.a].driver, u)
      BY <1>2, <2>2 DEF DriverOn
    <3>2. QED
      BY <1>1, <1>3, <3>1 DEF Known, StartLooked
  <2>3. QED
    BY <2>1, <2>2
<1>6. QED
  BY <1>4, <1>5 DEF Known, trp2, m2

\* And the delete of a bus.
LEMMA BusKnown ==
    ASSUME NEW tab, NEW trp, NEW gone, NEW j \in Jobs, NEW m,
           Known(tab, trp, gone, j, m), NEW bus
    PROVE  Known(tab, trp, gone \cup {bus}, j, m \cup ({<<"bus", bus>>} \cap HasRead(j)))
<1> DEFINE m2 == m \cup ({<<"bus", bus>>} \cap HasRead(j))
<1>1. /\ m \subseteq m2
      /\ \A b : <<"row", b>> \in m2 <=> <<"row", b>> \in m
      /\ <<"bus", bus>> \in HasRead(j) => <<"bus", bus>> \in m2
  OBVIOUS
<1> HIDE DEF m2
<1>2. Fresh(tab, j, m2) => Fresh(tab, j, m)
  BY <1>1 DEF Fresh
<1>3. /\ CreateLooked(tab, j, m2) /\ UpdateRead(tab, j, m2) /\ UpdateLooked(tab, j, m2)
      /\ StartRead(tab, j, m2) /\ RemoveLooked(tab, j, m2)
  BY <1>1, <1>2 DEF Known, CreateLooked, UpdateRead, UpdateLooked, StartRead, RemoveLooked
<1>4. StartLooked(tab, trp, j, m2)
  BY <1>1, <1>2 DEF Known, StartLooked
<1>5. BusRead(gone \cup {bus}, j, m2)
  BY <1>1 DEF Known, BusRead, HasRead
<1>6. QED
  BY <1>3, <1>4, <1>5 DEF Known, m2

\* A request that is over knows nothing.
LEMMA IdleKnown ==
    ASSUME NEW tab, NEW trp, NEW gone, NEW m PROVE Known(tab, trp, gone, Idle, m)
  BY DEF Known, Idle, CreateLooked, UpdateRead, UpdateLooked, StartRead, StartLooked,
         RemoveLooked, BusRead

-----------------------------------------------------------------------------
\* A request goes on to its next statement, and nothing is written.
LEMMA GoesOn ==
    ASSUME TypeOK, AllKnown, NEW w \in Workers, NEW k, job' = [job EXCEPT ![w] = k],
           UNCHANGED <<assignments, trips, deleted, missed>>,
           Known(assignments, trips, deleted, k, missed[w])
    PROVE  AllKnown'
  BY DEF AllKnown, TypeOK

\* A request is over, and the others keep what they know, but for what it wrote.
LEMMA IsOver ==
    ASSUME TypeOK, NEW w \in Workers, NEW some, Finish(w), Touched(w, some),
           \A v \in Workers \ {w} :
               Known(assignments', trips', deleted', job[v],
                     missed[v] \cup (some \cap HasRead(job[v])))
    PROVE  AllKnown'
  BY IdleKnown DEF AllKnown, TypeOK, Finish, Touched

\* A request is refused, or gives up.
LEMMA IsRefused ==
    ASSUME TypeOK, AllKnown, NEW w \in Workers, Finish(w), Touched(w, {}),
           UNCHANGED <<assignments, trips, deleted>>
    PROVE  AllKnown'
<1>1. \A v \in Workers \ {w} : missed[v] \cup ({} \cap HasRead(job[v])) = missed[v]
  OBVIOUS
<1>2. \A v \in Workers \ {w} :
        Known(assignments', trips', deleted', job[v], missed[v] \cup ({} \cap HasRead(job[v])))
  BY <1>1 DEF AllKnown
<1>3. QED
  BY <1>2, IsOver

\* A single statement takes something away, and moves no request.
LEMMA TakesAway ==
    ASSUME TypeOK, TypeOK', AllKnown, Less(assignments, trips, assignments', trips'),
           UNCHANGED <<deleted, job, missed>>
    PROVE  AllKnown'
  BY LessKnown DEF AllKnown, TypeOK, Tables, TripTables, Jobs

\* Whatever is checked before a write is still so when it is written, or was written by
\* another request, and the history says which row, trip or bus that was.
LEMMA KnownStep ==
    ASSUME TypeOK, TypeOK', AllKnown, [Next]_vars
    PROVE  AllKnown'
<1>0. /\ \A w \in Workers : job[w] \in Jobs
      /\ \A w \in Workers : Known(assignments, trips, deleted, job[w], missed[w])
      /\ assignments \in Tables /\ trips \in TripTables
  BY DEF TypeOK, Jobs, AllKnown, Tables, TripTables
<1> USE DEF rows
<1>1. ASSUME NEW w \in Workers, CreateBegin(w) PROVE AllKnown'
  <2>1. PICK row \in Assignment :
          /\ row.bus \notin deleted
          /\ job' = [job EXCEPT ![w] =
                       [at |-> IF row.active THEN "createCheck" ELSE "createInsert",
                        row |-> row]]
    BY <1>1 DEF CreateBegin
  <2> DEFINE k == [at |-> IF row.active THEN "createCheck" ELSE "createInsert", row |-> row]
  <2>2. Known(assignments, trips, deleted, k, missed[w])
    BY <2>1 DEF Known, CreateLooked, UpdateRead, UpdateLooked, StartRead, StartLooked,
                RemoveLooked, BusRead
  <2> HIDE DEF k
  <2>3. QED
    BY <1>1, <2>1, <2>2, GoesOn DEF CreateBegin, k
<1>2. ASSUME NEW w \in Workers, CreateCheck(w) PROVE AllKnown'
  <2>1. CASE Conflict(job[w].row.bus, job[w].row.driver, None)
    BY <1>2, <2>1, IsRefused DEF CreateCheck
  <2>2. CASE ~Conflict(job[w].row.bus, job[w].row.driver, None)
    <3>1. PICK j \in CreateJob : j = job[w] /\ j.at = "createCheck"
      BY <1>0, <1>2, JobFields DEF CreateCheck
    <3>2. PICK k \in CreateJob : k = [j EXCEPT !.at = "createInsert"]
      BY DEF CreateJob
    <3>3. k.at = "createInsert" /\ k.row = j.row
      BY <3>2 DEF CreateJob
    <3>4. \A b \in AIds : ~DriverHas(assignments, k.row.driver, b)
      BY <2>2, <3>1, <3>3, NoneAssumption DEF Conflict, DriverHas, IsActive
    <3>5. BusRead(deleted, k, missed[w])
      BY <1>0, <3>1, <3>3 DEF Known, BusRead
    <3>6. Known(assignments, trips, deleted, k, missed[w])
      BY <3>3, <3>4, <3>5 DEF Known, CreateLooked, UpdateRead, UpdateLooked, StartRead,
                              StartLooked, RemoveLooked
    <3>7. job' = [job EXCEPT ![w] = k]
      BY <1>2, <2>2, <3>1, <3>2 DEF CreateCheck
    <3>8. QED
      BY <1>2, <2>2, <3>6, <3>7, GoesOn DEF CreateCheck
  <2>3. QED
    BY <2>1, <2>2
<1>3. ASSUME NEW w \in Workers, CreateInsert(w) PROVE AllKnown'
  <2> DEFINE a == assignmentSeq + 1
  <2>1. CASE a \in AIds /\ IndexAllows(a, job[w].row)
    <3>1. /\ assignments' = [assignments EXCEPT ![a] = job[w].row]
          /\ Touched(w, {<<"row", a>>}) /\ Finish(w) /\ trips' = trips /\ deleted' = deleted
      BY <1>3, <2>1 DEF CreateInsert
    <3>2. job[w].row \in Assignment
      BY <1>0, <1>3, JobFields DEF CreateInsert
    <3> HIDE DEF a
    <3>3. \A v \in Workers \ {w} :
            Known(assignments', trips', deleted', job[v],
                  missed[v] \cup ({<<"row", a>>} \cap HasRead(job[v])))
      BY <1>0, <2>1, <3>1, <3>2, RowKnown
    <3>4. QED
      BY <3>1, <3>3, IsOver
  <2>2. CASE ~(a \in AIds /\ IndexAllows(a, job[w].row))
    BY <1>3, <2>2, IsRefused DEF CreateInsert
  <2>3. QED
    BY <2>1, <2>2
<1>4. ASSUME NEW w \in Workers, UpdateBegin(w) PROVE AllKnown'
  <2>1. PICK a \in AIds, patch \in Patches :
          /\ assignments[a] # None /\ patch.bus \notin deleted
          /\ job' = [job EXCEPT ![w] =
               IF Patched(assignments[a], patch).active
                 THEN [at |-> "updateCheck", a |-> a, patch |-> patch,
                       bus |-> Patched(assignments[a], patch).bus,
                       driver |-> Patched(assignments[a], patch).driver]
                 ELSE [at |-> "updateWrite", a |-> a, patch |-> patch]]
    BY <1>4 DEF UpdateBegin
  <2>2. PICK row : row = Patched(assignments[a], patch)
    OBVIOUS
  <2>3. CASE row.active
    <3>1. PICK k : k = [at |-> "updateCheck", a |-> a, patch |-> patch,
                        bus |-> row.bus, driver |-> row.driver]
      OBVIOUS
    <3>2. /\ k.at = "updateCheck" /\ k.a = a /\ k.patch = patch /\ k.driver = row.driver
          /\ job' = [job EXCEPT ![w] = k]
      BY <2>1, <2>2, <2>3, <3>1
    <3>3. Known(assignments, trips, deleted, k, missed[w])
      BY <2>1, <2>2, <3>2 DEF Known, CreateLooked, UpdateRead, UpdateLooked, StartRead,
                              StartLooked, RemoveLooked, BusRead
    <3>4. QED
      BY <1>4, <3>2, <3>3, GoesOn DEF UpdateBegin
  <2>4. CASE ~row.active
    <3>1. PICK k : k = [at |-> "updateWrite", a |-> a, patch |-> patch]
      OBVIOUS
    <3>2. /\ k.at = "updateWrite" /\ k.a = a /\ k.patch = patch
          /\ job' = [job EXCEPT ![w] = k]
      BY <2>1, <2>2, <2>4, <3>1
    <3>3. Known(assignments, trips, deleted, k, missed[w])
      BY <2>1, <2>2, <2>4, <3>2 DEF Known, CreateLooked, UpdateRead, UpdateLooked, StartRead,
                                    StartLooked, RemoveLooked, BusRead
    <3>4. QED
      BY <1>4, <3>2, <3>3, GoesOn DEF UpdateBegin
  <2>5. QED
    BY <2>3, <2>4
<1>5. ASSUME NEW w \in Workers, UpdateCheck(w) PROVE AllKnown'
  <2>1. CASE Conflict(job[w].bus, job[w].driver, job[w].a)
    BY <1>5, <2>1, IsRefused DEF UpdateCheck
  <2>2. CASE ~Conflict(job[w].bus, job[w].driver, job[w].a)
    <3>1. PICK j \in Jobs : j = job[w] /\ j.at = "updateCheck"
      BY <1>0, <1>5 DEF UpdateCheck
    <3>2. PICK k : k = [at |-> "updateWrite", a |-> j.a, patch |-> j.patch]
      OBVIOUS
    <3>3. /\ k.at = "updateWrite" /\ k.a = j.a /\ k.patch = j.patch
          /\ job' = [job EXCEPT ![w] = k]
      BY <1>5, <2>2, <3>1, <3>2 DEF UpdateCheck
    <3>4. \A b \in AIds \ {j.a} : ~DriverHas(assignments, j.driver, b)
      BY <2>2, <3>1 DEF Conflict, DriverHas, IsActive
    <3>5. Fresh(assignments, k, missed[w]) =>
            Patched(assignments[k.a], k.patch).driver = j.driver
      BY <1>0, <3>1, <3>3 DEF Known, UpdateRead, Fresh
    <3>6. UpdateLooked(assignments, k, missed[w])
      BY <3>3, <3>4, <3>5 DEF UpdateLooked
    <3>7. BusRead(deleted, k, missed[w])
      BY <1>0, <3>1, <3>3 DEF Known, BusRead
    <3>8. Known(assignments, trips, deleted, k, missed[w])
      BY <3>3, <3>6, <3>7 DEF Known, CreateLooked, UpdateRead, StartRead, StartLooked,
                              RemoveLooked
    <3>9. QED
      BY <1>5, <2>2, <3>3, <3>8, GoesOn DEF UpdateCheck
  <2>3. QED
    BY <2>1, <2>2
<1>6. ASSUME NEW w \in Workers, UpdateWrite(w) PROVE AllKnown'
  <2>1. PICK a \in AIds, patch \in Patch : a = job[w].a /\ patch = job[w].patch
    BY <1>0, <1>6, JobFields DEF UpdateWrite
  <2> DEFINE row == Patched(assignments[a], patch)
  <2>2. CASE assignments[a] # None /\ IndexAllows(a, row)
    <3>1. /\ assignments' = [assignments EXCEPT ![a] = row]
          /\ Touched(w, {<<"row", a>>}) /\ Finish(w) /\ trips' = trips /\ deleted' = deleted
      BY <1>6, <2>1, <2>2 DEF UpdateWrite
    <3>2. row \in Assignment
      BY <1>0, <2>2, PatchedType DEF Tables
    <3> HIDE DEF row
    <3>3. \A v \in Workers \ {w} :
            Known(assignments', trips', deleted', job[v],
                  missed[v] \cup ({<<"row", a>>} \cap HasRead(job[v])))
      BY <1>0, <3>1, <3>2, RowKnown
    <3>4. QED
      BY <3>1, <3>3, IsOver
  <2>3. CASE ~(assignments[a] # None /\ IndexAllows(a, row))
    BY <1>6, <2>1, <2>3, IsRefused DEF UpdateWrite
  <2>4. QED
    BY <2>2, <2>3
<1>7. ASSUME NEW w \in Workers, RemoveBusCheck(w) PROVE AllKnown'
  <2>1. PICK bus \in Buses :
          /\ \A a \in AIds : IsActive(a) => assignments[a].bus # bus
          /\ job' = [job EXCEPT ![w] = [at |-> "removeWrite", bus |-> bus]]
    BY <1>7 DEF RemoveBusCheck
  <2>2. PICK k : k = [at |-> "removeWrite", bus |-> bus]
    OBVIOUS
  <2>3. k.at = "removeWrite" /\ k.bus = bus /\ job' = [job EXCEPT ![w] = k]
    BY <2>1, <2>2
  <2>4. Known(assignments, trips, deleted, k, missed[w])
    BY <2>1, <2>3 DEF Known, CreateLooked, UpdateRead, UpdateLooked, StartRead, StartLooked,
                      RemoveLooked, BusRead, BusHas, IsActive
  <2>5. QED
    BY <1>7, <2>3, <2>4, GoesOn DEF RemoveBusCheck
<1>8. ASSUME NEW w \in Workers, RemoveBusWrite(w) PROVE AllKnown'
  <2>1. /\ Finish(w) /\ Touched(w, {<<"bus", job[w].bus>>})
        /\ deleted' = deleted \cup {job[w].bus}
        /\ assignments' = assignments /\ trips' = trips
    BY <1>8 DEF RemoveBusWrite
  <2>2. \A v \in Workers \ {w} :
          Known(assignments', trips', deleted', job[v],
                missed[v] \cup ({<<"bus", job[w].bus>>} \cap HasRead(job[v])))
    BY <1>0, <2>1, BusKnown
  <2>3. QED
    BY <2>1, <2>2, IsOver
<1>9. ASSUME NEW w \in Workers, StartPick(w) PROVE AllKnown'
  <2>1. PICK a \in AIds :
          job' = [job EXCEPT ![w] =
                    [at |-> "startCheck", a |-> a, driver |-> assignments[a].driver]]
    BY <1>9 DEF StartPick
  <2>2. PICK k : k = [at |-> "startCheck", a |-> a, driver |-> assignments[a].driver]
    OBVIOUS
  <2>3. /\ k.at = "startCheck" /\ k.a = a /\ k.driver = assignments[a].driver
        /\ job' = [job EXCEPT ![w] = k]
    BY <2>1, <2>2
  <2>4. Known(assignments, trips, deleted, k, missed[w])
    BY <2>3 DEF Known, CreateLooked, UpdateRead, UpdateLooked, StartRead, StartLooked,
                RemoveLooked, BusRead
  <2>5. QED
    BY <1>9, <2>3, <2>4, GoesOn DEF StartPick
<1>10. ASSUME NEW w \in Workers, StartCheck(w) PROVE AllKnown'
  <2>1. CASE DriverOnTrip(job[w].driver)
    BY <1>10, <2>1, IsRefused DEF StartCheck
  <2>2. CASE ~DriverOnTrip(job[w].driver)
    <3>1. PICK j \in Jobs : j = job[w] /\ j.at = "startCheck"
      BY <1>0, <1>10 DEF StartCheck
    <3>2. PICK k : k = [at |-> "startInsert", a |-> j.a]
      OBVIOUS
    <3>3. k.at = "startInsert" /\ k.a = j.a /\ job' = [job EXCEPT ![w] = k]
      BY <1>10, <2>2, <3>1, <3>2 DEF StartCheck
    <3>4. \A u \in TIds : ~DriverOn(assignments, trips, j.driver, u)
      BY <2>2, <3>1 DEF DriverOnTrip, DriverOn, InProgress
    <3>5. Fresh(assignments, k, missed[w]) => assignments[k.a].driver = j.driver
      BY <1>0, <3>1, <3>3 DEF Known, StartRead, Fresh
    <3>6. StartLooked(assignments, trips, k, missed[w])
      BY <3>4, <3>5 DEF StartLooked
    <3>7. Known(assignments, trips, deleted, k, missed[w])
      BY <3>3, <3>6 DEF Known, CreateLooked, UpdateRead, UpdateLooked, StartRead,
                        RemoveLooked, BusRead
    <3>8. QED
      BY <1>10, <2>2, <3>3, <3>7, GoesOn DEF StartCheck
  <2>3. QED
    BY <2>1, <2>2
<1>11. ASSUME NEW w \in Workers, StartInsert(w) PROVE AllKnown'
  <2> DEFINE t == tripSeq + 1
  <2>1. PICK a \in AIds : a = job[w].a
    BY <1>0, <1>11, JobFields DEF StartInsert
  <2>2. CASE t \in TIds /\ assignments[a] # None
    <3>1. PICK trip :
            trip = [assignment |-> a, status |-> "in_progress", endWrites |-> 0]
      OBVIOUS
    <3>2. trip \in Trip /\ trip.assignment = a
      BY <3>1 DEF Trip
    <3>3. /\ trips' = [trips EXCEPT ![t] = trip]
          /\ Touched(w, {<<"trip", a>>}) /\ Finish(w)
          /\ assignments' = assignments /\ deleted' = deleted
      BY <1>11, <2>1, <2>2, <3>1 DEF StartInsert
    <3> HIDE DEF t
    <3>4. \A v \in Workers \ {w} :
            Known(assignments', trips', deleted', job[v],
                  missed[v] \cup ({<<"trip", a>>} \cap HasRead(job[v])))
      BY <1>0, <2>2, <3>2, <3>3, TripKnown
    <3>5. QED
      BY <3>3, <3>4, IsOver
  <2>3. CASE ~(t \in TIds /\ assignments[a] # None)
    BY <1>11, <2>1, <2>3, IsRefused DEF StartInsert
  <2>4. QED
    BY <2>2, <2>3
<1>12. ASSUME NEW a \in AIds, DeactivateAssignment(a) PROVE AllKnown'
  <2>1. Less(assignments, trips, assignments', trips')
    BY <1>0, <1>12 DEF DeactivateAssignment, Less, Assignment, Tables
  <2>2. QED
    BY <1>12, <2>1, TakesAway DEF DeactivateAssignment
<1>13. ASSUME NEW a \in AIds, DeleteAssignment(a) PROVE AllKnown'
  <2>1. Less(assignments, trips, assignments', trips')
    BY <1>0, <1>13 DEF DeleteAssignment, Less, Tables
  <2>2. QED
    BY <1>13, <2>1, TakesAway DEF DeleteAssignment
<1>14. ASSUME NEW t \in TIds, EndTrip(t) PROVE AllKnown'
  <2>1. Less(assignments, trips, assignments', trips')
    BY <1>0, <1>14, ClosedType DEF EndTrip, InProgress, Less, TripTables
  <2>2. QED
    BY <1>14, <2>1, TakesAway DEF EndTrip
<1>15. CASE AutoClose
  <2>1. Less(assignments, trips, assignments', trips')
    BY <1>0, <1>15, ClosedType DEF AutoClose, InProgress, Less, TripTables
  <2>2. QED
    BY <1>15, <2>1, TakesAway DEF AutoClose
<1>16. CASE UNCHANGED vars
  <2>1. Less(assignments, trips, assignments', trips')
    BY <1>16 DEF vars, Less
  <2>2. QED
    BY <1>16, <2>1, TakesAway DEF vars
<1>17. QED
  BY <1>1, <1>2, <1>3, <1>4, <1>5, <1>6, <1>7, <1>8, <1>9, <1>10, <1>11, <1>12,
     <1>13, <1>14, <1>15, <1>16 DEF Next, Step

LEMMA KnownInvariant == Spec => []AllKnown
<1>1. Init => AllKnown
  <2>1. ASSUME Init, NEW w \in Workers
        PROVE  Known(assignments, trips, deleted, job[w], missed[w])
    BY <2>1, IdleKnown DEF Init
  <2>2. QED
    BY <2>1 DEF AllKnown
<1>2. TypeOK /\ TypeOK' /\ AllKnown /\ [Next]_vars => AllKnown'
  BY KnownStep
<1>3. QED
  BY <1>1, <1>2, TypeCorrect, PTL DEF Spec

-----------------------------------------------------------------------------
\* A step of a request writes an assignment: a create its row, an update its patched one.
Writes(w, a, row) ==
    /\ assignments' = [assignments EXCEPT ![a] = row]
    /\ deleted' = deleted /\ job'[w] # job[w]
    /\ \/ job[w].at = "createInsert" /\ row = job[w].row
       \/ /\ job[w].at = "updateWrite" /\ a = job[w].a /\ assignments[a] # None
          /\ job[w].patch \in Patch /\ row = Patched(assignments[a], job[w].patch)

\* Every other step leaves each assignment its bus and its driver, and makes none active.
Keeps ==
    \A a \in AIds :
        assignments'[a] # None =>
            /\ assignments[a] # None
            /\ assignments'[a].bus = assignments[a].bus
            /\ assignments'[a].driver = assignments[a].driver
            /\ assignments'[a].active => assignments[a].active

LEMMA WriteStep ==
    ASSUME TypeOK, [Next]_vars
    PROVE  \/ Keeps
           \/ \E w \in Workers, a \in AIds, row \in Assignment : Writes(w, a, row)
<1> USE DEF rows
<1>0. /\ \A w \in Workers : job[w] \in Jobs
      /\ assignments \in Tables /\ job \in [Workers -> Jobs]
  BY DEF TypeOK, Jobs, Tables
<1>1. assignments' = assignments => Keeps
  BY DEF Keeps
<1>2. ASSUME NEW w \in Workers, CreateInsert(w), assignments' # assignments
      PROVE  \E a \in AIds, row \in Assignment : Writes(w, a, row)
  <2>1. job[w].row \in Assignment /\ job'[w] # job[w] /\ deleted' = deleted
    BY <1>0, <1>2, JobFields DEF CreateInsert, Finish, Idle
  <2>2. assignmentSeq + 1 \in AIds /\ Writes(w, assignmentSeq + 1, job[w].row)
    BY <1>2, <2>1 DEF CreateInsert, Writes
  <2>3. QED
    BY <2>1, <2>2
<1>3. ASSUME NEW w \in Workers, UpdateWrite(w), assignments' # assignments
      PROVE  \E a \in AIds, row \in Assignment : Writes(w, a, row)
  <2>1. /\ job[w].a \in AIds /\ job[w].patch \in Patch
        /\ job'[w] # job[w] /\ deleted' = deleted
    BY <1>0, <1>3, JobFields DEF UpdateWrite, Finish, Idle
  <2>2. PICK row : row = Patched(assignments[job[w].a], job[w].patch)
    OBVIOUS
  <2>3. assignments[job[w].a] # None /\ assignments' = [assignments EXCEPT ![job[w].a] = row]
    BY <1>3, <2>2 DEF UpdateWrite
  <2>4. row \in Assignment
    BY <1>0, <2>1, <2>2, <2>3, PatchedType DEF Tables
  <2>5. Writes(w, job[w].a, row)
    BY <1>3, <2>1, <2>2, <2>3 DEF UpdateWrite, Writes
  <2>6. QED
    BY <2>1, <2>4, <2>5
<1>4. ASSUME NEW a \in AIds, DeactivateAssignment(a) PROVE Keeps
  BY <1>0, <1>4 DEF DeactivateAssignment, Keeps, Assignment, Tables
<1>5. ASSUME NEW a \in AIds, DeleteAssignment(a) PROVE Keeps
  BY <1>0, <1>5 DEF DeleteAssignment, Keeps, Tables
<1>6. QED
  BY <1>1, <1>2, <1>3, <1>4, <1>5
     DEF Next, Step, vars, CreateBegin, CreateCheck, UpdateBegin, UpdateCheck,
         RemoveBusCheck, RemoveBusWrite, StartPick, StartCheck, StartInsert,
         EndTrip, AutoClose

\* A driver comes to a second active assignment only by a request that missed the write
\* of one of the two: createAssignment and updateAssignment look for all that can be in
\* the way, for any number of requests at once.
THEOREM DriverInvariant == Spec => OneActivePerDriver
<1> DEFINE Second ==
      \A a, b \in AIds :
        SameDriver(a, b)' /\ ~SameDriver(a, b) =>
            \E w \in Workers : /\ job'[w] # job[w]
                               /\ missed[w] \cap ({"row"} \X {a, b}) # {}
<1>1. ASSUME TypeOK, AllKnown, [Next]_vars PROVE [Second]_vars
  <2>1. CASE Keeps
    BY <2>1 DEF Keeps, SameDriver, IsActive
  <2>2. ASSUME NEW w \in Workers, NEW c \in AIds, NEW row \in Assignment, Writes(w, c, row)
        PROVE  Second
    <3>1. assignments'[c] = row /\ \A b \in AIds \ {c} : assignments'[b] = assignments[b]
      BY <1>1, <2>2 DEF Writes, TypeOK
    <3>2. ASSUME row.active, NEW b \in AIds \ {c}, DriverHas(assignments, row.driver, b)
          PROVE  <<"row", b>> \in missed[w] \/ <<"row", c>> \in missed[w]
      BY <1>1, <2>2, <3>2 DEF AllKnown, Known, CreateLooked, UpdateLooked, Fresh, Writes
    <3>3. SUFFICES ASSUME NEW a \in AIds, NEW b \in AIds, SameDriver(a, b)', ~SameDriver(a, b)
                   PROVE  missed[w] \cap ({"row"} \X {a, b}) # {}
      BY <2>2 DEF Writes
    <3>4. /\ a # b /\ IsActive(a)' /\ IsActive(b)'
          /\ assignments'[a].driver = assignments'[b].driver
      BY <3>3 DEF SameDriver
    <3>5. a = c \/ b = c
      BY <3>1, <3>3 DEF SameDriver, IsActive
    <3>6. CASE a = c
      <4>1. row.active /\ DriverHas(assignments, row.driver, b)
        BY <3>1, <3>4, <3>6 DEF IsActive, DriverHas
      <4>2. <<"row", b>> \in missed[w] \/ <<"row", a>> \in missed[w]
        BY <3>2, <3>4, <3>6, <4>1
      <4>3. QED
        BY <4>2
    <3>7. CASE b = c
      <4>1. row.active /\ DriverHas(assignments, row.driver, a)
        BY <3>1, <3>4, <3>7 DEF IsActive, DriverHas
      <4>2. <<"row", a>> \in missed[w] \/ <<"row", b>> \in missed[w]
        BY <3>2, <3>4, <3>7, <4>1
      <4>3. QED
        BY <4>2
    <3>8. QED
      BY <3>5, <3>6, <3>7
  <2>3. QED
    BY <1>1, <2>1, <2>2, WriteStep
<1>2. QED
  BY <1>1, TypeCorrect, KnownInvariant, PTL DEF Spec, OneActivePerDriver

-----------------------------------------------------------------------------
\* Two trips are in progress on one assignment only if one of them was started blindly.
OneTripPerAssignment ==
    \A t, u \in TIds :
        InProgress(t) /\ InProgress(u) /\ trips[t].assignment = trips[u].assignment =>
            t = u \/ {t, u} \cap blind # {}

LEMMA OneTripInvariant == Spec => []OneTripPerAssignment
<1>1. Init => OneTripPerAssignment
  BY DEF Init, OneTripPerAssignment, InProgress
<1>2. TypeOK /\ AllKnown /\ OneTripPerAssignment /\ [Next]_vars => OneTripPerAssignment'
  <2> SUFFICES ASSUME TypeOK, AllKnown, OneTripPerAssignment, [Next]_vars
               PROVE  OneTripPerAssignment'
    OBVIOUS
  <2>0. blind \subseteq blind'
    BY DEF Next, Step, rows, vars, CreateBegin, CreateCheck, CreateInsert, UpdateBegin,
           UpdateCheck, UpdateWrite, RemoveBusCheck, RemoveBusWrite, StartPick, StartCheck,
           StartInsert, DeactivateAssignment, DeleteAssignment, EndTrip, AutoClose
  <2>1. CASE trips' = trips
    BY <2>0, <2>1 DEF OneTripPerAssignment, InProgress
  <2>2. ASSUME NEW some \in SUBSET TIds, Closes(some) PROVE OneTripPerAssignment'
    BY <2>0, <2>2, ClosedType DEF Closes, OneTripPerAssignment, InProgress, TypeOK
  <2>3. ASSUME NEW w \in Workers, StartInsert(w), tripSeq + 1 \in TIds, job[w].a \in AIds,
               Starts(tripSeq + 1, job[w].a)
        PROVE  OneTripPerAssignment'
    <3>1. PICK t \in TIds, a \in AIds : t = tripSeq + 1 /\ a = job[w].a
      BY <2>3
    <3>2. /\ assignments[a] # None /\ trips'[t].assignment = a
          /\ \A u \in TIds \ {t} : trips'[u] = trips[u]
      BY <2>3, <3>1 DEF Starts, TypeOK
    <3>3. missed[w] \cap ({"row", "trip"} \X {a}) # {} => t \in blind'
      BY <2>3, <3>1, <3>2 DEF StartInsert
    <3>4. ASSUME NEW u \in TIds, InProgress(u), trips[u].assignment = a
          PROVE  missed[w] \cap ({"row", "trip"} \X {a}) # {}
      <4>1. DriverOn(assignments, trips, assignments[a].driver, u)
        BY <3>2, <3>4 DEF DriverOn, InProgress
      <4>2. job[w].at = "startInsert" /\ StartLooked(assignments, trips, job[w], missed[w])
        BY <2>3 DEF StartInsert, AllKnown, Known
      <4>3. <<"row", a>> \in missed[w] \/ <<"trip", a>> \in missed[w]
        BY <3>1, <3>2, <3>4, <4>1, <4>2 DEF StartLooked, Fresh
      <4>4. QED
        BY <4>3
    <3>5. QED
      BY <2>0, <3>2, <3>3, <3>4 DEF OneTripPerAssignment, InProgress
  <2>4. QED
    BY <2>1, <2>2, <2>3, TripStep
<1>3. QED
  BY <1>1, <1>2, TypeCorrect, KnownInvariant, PTL DEF Spec

\* There is no choice of trip for a GPS ping, unless one was started in the middle of
\* another's start or of a PATCH: the unique index leaves the bus one active assignment,
\* and start's check leaves that one trip.
THEOREM ResolveInvariant == Spec => []ResolveUnambiguous
<1>1. OneActivePerBus /\ OneTripPerAssignment /\ TypeOK => ResolveUnambiguous
  <2> SUFFICES ASSUME OneActivePerBus, OneTripPerAssignment, TypeOK, NEW bus \in Buses,
                      NEW t \in Candidates(bus), NEW u \in Candidates(bus)
               PROVE  t = u \/ {t, u} \cap blind # {}
    BY DEF ResolveUnambiguous
  <2>1. trips[t].assignment \in AIds /\ trips[u].assignment \in AIds
    BY DEF Candidates, InProgress, TypeOK, Trip
  <2>2. trips[t].assignment = trips[u].assignment
    BY <2>1 DEF Candidates, OneActivePerBus
  <2>3. QED
    BY <2>2 DEF Candidates, OneTripPerAssignment
<1>2. QED
  BY <1>1, BusInvariant, TypeCorrect, OneTripInvariant, PTL

\* And start keeps the promise of its 409, but for what others wrote in the middle of it:
\* the trip it inserts is the first in progress of its driver.
THEOREM StartsFree == Spec => StartsOnlyFreeDriver
<1> DEFINE Free ==
      \A t, u \in TIds :
        LET a == trips'[t].assignment
            b == trips[u].assignment
        IN trips[t] = None /\ trips'[t] # None /\ InProgress(u)
                /\ assignments[b].driver = assignments[a].driver =>
             \E w \in Workers : /\ job'[w] # job[w]
                                /\ missed[w] \cap ({"row", "trip"} \X {a, b}) # {}
<1>1. ASSUME TypeOK, AllKnown, TripKeepsAssignment, [Next]_vars PROVE [Free]_vars
  <2>1. CASE trips' = trips
    BY <2>1
  <2>2. ASSUME NEW some \in SUBSET TIds, Closes(some) PROVE Free
    BY <1>1, <2>2 DEF Closes, InProgress
  <2>3. ASSUME NEW w \in Workers, StartInsert(w), tripSeq + 1 \in TIds, job[w].a \in AIds,
               Starts(tripSeq + 1, job[w].a)
        PROVE  Free
    <3>1. SUFFICES ASSUME NEW t \in TIds, NEW u \in TIds, trips[t] = None, trips'[t] # None,
                          InProgress(u),
                          assignments[trips[u].assignment].driver =
                            assignments[trips'[t].assignment].driver
                   PROVE  \E v \in Workers :
                            /\ job'[v] # job[v]
                            /\ missed[v] \cap ({"row", "trip"} \X
                                  {trips'[t].assignment, trips[u].assignment}) # {}
      OBVIOUS
    <3>2. PICK a \in AIds : a = job[w].a
      BY <2>3
    <3>3. trips'[t].assignment = a /\ assignments[a] # None
      BY <1>1, <2>3, <3>1, <3>2 DEF Starts, TypeOK
    <3>4. DriverOn(assignments, trips, assignments[a].driver, u)
      BY <1>1, <3>1, <3>3 DEF DriverOn, InProgress, TripKeepsAssignment
    <3>5. job[w].at = "startInsert" /\ StartLooked(assignments, trips, job[w], missed[w])
      BY <1>1, <2>3 DEF StartInsert, AllKnown, Known
    <3>6. \/ <<"row", a>> \in missed[w]
          \/ <<"row", trips[u].assignment>> \in missed[w]
          \/ <<"trip", trips[u].assignment>> \in missed[w]
      <4>1. <<"row", a>> \in missed[w] \/ Fresh(assignments, job[w], missed[w])
        BY <3>2, <3>3 DEF Fresh
      <4>2. QED
        BY <3>2, <3>4, <3>5, <4>1 DEF StartLooked
    <3>7. job'[w] # job[w]
      BY <1>1, <2>3, <3>5 DEF StartInsert, Finish, Idle, TypeOK
    <3>8. QED
      BY <3>3, <3>6, <3>7
  <2>4. QED
    BY <1>1, <2>1, <2>2, <2>3, TripStep
<1>2. QED
  BY <1>1, TypeCorrect, KnownInvariant, TripInvariant, PTL DEF Spec, StartsOnlyFreeDriver

-----------------------------------------------------------------------------
\* The 409 of DELETE /buses/:id is kept, but for an assignment that was written between
\* the look of remove and its UPDATE.
THEOREM RemovalKept == Spec => DeletedOnlyUnused
<1> DEFINE Removes ==
      \A bus \in deleted' \ deleted, a \in AIds :
        IsActive(a) /\ assignments[a].bus = bus =>
            \E w \in Workers : job'[w] # job[w] /\ <<"row", a>> \in missed[w]
<1>1. ASSUME TypeOK, AllKnown, [Next]_vars PROVE [Removes]_vars
  <2>1. CASE deleted' = deleted
    BY <2>1
  <2>2. ASSUME NEW w \in Workers, RemoveBusWrite(w) PROVE Removes
    <3>1. /\ job[w].at = "removeWrite" /\ deleted' = deleted \cup {job[w].bus}
          /\ job'[w] # job[w]
      BY <1>1, <2>2 DEF RemoveBusWrite, Finish, Idle, TypeOK
    <3>2. \A a \in AIds : BusHas(assignments, job[w].bus, a) => <<"row", a>> \in missed[w]
      BY <1>1, <3>1 DEF AllKnown, Known, RemoveLooked
    <3>3. QED
      BY <3>1, <3>2 DEF BusHas, IsActive
  <2>3. QED
    BY <1>1, <2>1, <2>2
       DEF Next, Step, rows, vars, CreateBegin, CreateCheck, CreateInsert, UpdateBegin,
           UpdateCheck, UpdateWrite, RemoveBusCheck, StartPick, StartCheck, StartInsert,
           DeactivateAssignment, DeleteAssignment, EndTrip, AutoClose
<1>2. QED
  BY <1>1, TypeCorrect, KnownInvariant, PTL DEF Spec, DeletedOnlyUnused

\* And a deleted bus gets no assignment it did not have, by no create and no update, but
\* from one that read the bus before it was deleted.
THEOREM DeletedStays == Spec => DeletedGetsNone
<1> DEFINE Gets ==
      \A a \in AIds :
        assignments'[a] # None /\ assignments'[a].bus \in deleted' =>
            \/ assignments[a] # None /\ assignments[a].bus = assignments'[a].bus
            \/ \E w \in Workers : /\ job'[w] # job[w]
                                  /\ <<"bus", assignments'[a].bus>> \in missed[w]
<1>1. ASSUME TypeOK, AllKnown, [Next]_vars PROVE [Gets]_vars
  <2>1. CASE Keeps
    BY <2>1 DEF Keeps
  <2>2. ASSUME NEW w \in Workers, NEW c \in AIds, NEW row \in Assignment, Writes(w, c, row)
        PROVE  Gets
    <3>1. /\ assignments'[c] = row /\ deleted' = deleted /\ job'[w] # job[w]
          /\ \A b \in AIds \ {c} : assignments'[b] = assignments[b]
      BY <1>1, <2>2 DEF Writes, TypeOK
    <3>2. BusRead(deleted, job[w], missed[w])
      BY <1>1 DEF AllKnown, Known
    <3>3. row.bus \in deleted =>
            \/ assignments[c] # None /\ assignments[c].bus = row.bus
            \/ <<"bus", row.bus>> \in missed[w]
      <4>1. CASE job[w].at = "createInsert" /\ row = job[w].row
        BY <3>2, <4>1 DEF BusRead
      <4>2. CASE /\ job[w].at = "updateWrite" /\ assignments[c] # None
                 /\ job[w].patch \in Patch /\ row = Patched(assignments[c], job[w].patch)
        <5>1. assignments[c] \in Assignment
          BY <1>1, <4>2 DEF TypeOK
        <5>2. row.bus = assignments[c].bus \/ row.bus = job[w].patch.bus
          BY <4>2, <5>1, PatchedFields
        <5>3. QED
          BY <3>2, <4>2, <5>2 DEF BusRead
      <4>3. QED
        BY <2>2, <4>1, <4>2 DEF Writes
    <3>4. QED
      BY <3>1, <3>3
  <2>3. QED
    BY <1>1, <2>1, <2>2, WriteStep
<1>2. QED
  BY <1>1, TypeCorrect, KnownInvariant, PTL DEF Spec, DeletedGetsNone

\* Both: a bus is deleted while it is free, and nothing is planned on it again, for any
\* number of requests at once.
THEOREM DeletedIsFree == Spec => DeletedBusIsFree
  BY RemovalKept, DeletedStays DEF DeletedBusIsFree

=============================================================================
