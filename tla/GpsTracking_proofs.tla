------------------------- MODULE GpsTracking_proofs -------------------------
(***************************************************************************)
(* Proofs about GpsTracking, for any number of pings, buses, stops and     *)
(* upsets: the types, that what is shown is stored, that what is stored is *)
(* announced, that offline means old, that a bus notifies the parents of a *)
(* stop once, and that transactions wait for each other in a circle only   *)
(* where stops tie.                                                        *)
(***************************************************************************)
EXTENDS GpsTracking, WellFoundedInduction, TLAPS

-----------------------------------------------------------------------------
\* What is known of a ping.

Open == {"resolved", "logged", "upserted"}
Sent == {"committed", "fanout"}

\* While a ping records arrivals it goes on in the order of the stops; it has entries of the
\* index for what has arrived and, when that is taken, for the next stop.
Ordered(p) ==
    /\ p.next = 0 => p.todo = {} /\ ~p.entered
    /\ p.next # 0 => p.next \in p.todo /\ \A y \in p.todo : Place[p.next] <= Place[y]
    /\ p.entered => p.next \in p.mine
    /\ p.mine \subseteq p.arrived \cup (IF p.entered THEN {p.next} ELSE {})
    /\ \A x \in p.mine, y \in p.todo : Place[x] <= Place[y]

\* Before it looks for stops it has none.  While it does, and unless an error was swallowed,
\* what has arrived is an entry of the index, its own or a committed one.  Afterwards, what
\* has arrived is recorded, or its COMMIT rolled back.
JobOK(p) ==
    /\ p.at # "idle" => trips[p.trip] \in Trip
    /\ p.at \notin {"idle", "resolved"} => p.stamp \in Stamps
    /\ p.at \in Open => /\ p.todo = {} /\ p.next = 0 /\ ~p.entered
                       /\ p.mine = {} /\ p.arrived = {} /\ ~p.aborted
    /\ p.at = "detecting" =>
        /\ Ordered(p)
        /\ p.aborted => p.todo = {} /\ p.mine = {}
        /\ ~p.aborted => \A s \in p.arrived : s \in p.mine \/ <<p.trip, s>> \in events
    /\ p.at \in Sent =>
        /\ p.todo = {} /\ p.mine \subseteq p.arrived
        /\ p.aborted => p.stamp \in lost
        /\ ~p.aborted => \A s \in p.arrived : <<p.trip, s>> \in events

\* The stops a ping whose transaction is whole may yet notify, from the statement that
\* selects them on.
Claim(p) ==
    IF p.at \in {"detecting"} \cup Sent /\ ~p.aborted THEN p.todo \cup p.arrived ELSE {}

\* No ping of this bus has notified the parents of them and is stored.
Unsaid(p) == \A s \in Claim(p) : notified[p.bus][<<p.trip, s>>] \subseteq lost

Locks(p) == p.at \in {"upserted", "detecting"} /\ ~p.aborted

\* Two pings of one bus: one of them at a time has its row, and they do not claim one stop.
Apart(p, q) ==
    p.bus = q.bus => /\ ~(Locks(p) /\ Locks(q))
                     /\ p.trip = q.trip => Claim(p) \cap Claim(q) = {}

Both(p, q) == p.at # "idle" /\ q.at # "idle" => Apart(p, q)

JobsInv ==
    \A w \in Workers :
        /\ JobOK(job[w]) /\ Unsaid(job[w])
        /\ \A v \in Workers \ {w} : Both(job[w], job[v])

\* The rows the job has locked are those of silent buses, and no ping has them.
SweepOK ==
    /\ \A b \in sweep.mine : live[b] # None /\ live[b].old
    /\ \A w \in Workers : Locks(job[w]) => job[w].bus \notin sweep.mine

\* Of a stop that is not recorded, only pings that were rolled back have notified anybody.
SaidOnce ==
    NotifiedOnce /\ \A b \in Buses, v \in Visits : v \in events \/ notified[b][v] \subseteq lost

Inv ==
    /\ TypeOK /\ JobsInv /\ SweepOK /\ SaidOnce
    /\ ShownIsStored /\ ArrivalAnnounced /\ OfflineMeansOld

-----------------------------------------------------------------------------
\* Lemmas about the data.

\* The fields of a ping.
LEMMA PingFields ==
    ASSUME NEW p \in Ping
    PROVE  /\ p.at \in {"resolved", "logged", "upserted", "detecting", "committed", "fanout"}
           /\ p.bus \in Buses /\ p.trip \in TIds /\ p.stamp \in {0} \cup Stamps
           /\ p.todo \in SUBSET Stops /\ p.next \in {0} \cup Stops /\ p.entered \in BOOLEAN
           /\ p.mine \in SUBSET Stops /\ p.arrived \in SUBSET Stops /\ p.aborted \in BOOLEAN
  BY DEF Ping

\* Whoever is not idle has a ping.
LEMMA PingOf ==
    ASSUME TypeOK, NEW w \in Workers
    PROVE  /\ job[w] \in Ping \cup {Idle}
           /\ job[w].at # "idle" <=> job[w] \in Ping
<1>1. PICK p \in Ping \cup {Idle} : p = job[w]
  BY DEF TypeOK
<1>2. Idle.at = "idle" /\ \A q \in Ping : q.at # "idle"
  BY PingFields DEF Idle
<1>3. QED
  BY <1>1, <1>2

\* The counter of upsets stays within its bound.
LEMMA UpsetOf ==
    ASSUME TypeOK, Upset
    PROVE  upsets' \in 0..MaxUpsets
  BY BoundAssumption DEF TypeOK, Upset

\* A set of numbers has a least one.
LEMMA LeastOf ==
    ASSUME NEW S \in SUBSET Nat, S # {}
    PROVE  \E x \in S : \A y \in S : x <= y
<1> DEFINE R == OpToRel(<, Nat)
<1>1. IsWellFoundedOn(R, Nat)
  BY NatLessThanWellFounded
<1>2. \A x, y \in Nat : y < x => <<y, x>> \in R
  BY DEF OpToRel
<1> HIDE DEF R
<1>3. PICK x \in S : \A y \in S : ~(<<y, x>> \in R)
  BY <1>1, WFMin, Zenon
<1>4. ASSUME NEW y \in S PROVE x <= y
  <2>1. x \in Nat /\ y \in Nat
    OBVIOUS
  <2>2. ~(y < x)
    BY <1>2, <1>3, <2>1, Zenon
  <2>3. QED
    BY <2>1, <2>2
<1>5. QED
  BY <1>4

\* The next stop is one of those to be recorded, and none of them comes before it.
LEMMA FirstsOf ==
    ASSUME NEW todo \in SUBSET Stops, NEW s \in Firsts(todo)
    PROVE  /\ s \in {0} \cup Stops
           /\ s = 0 => todo = {}
           /\ s # 0 => s \in todo /\ \A x \in todo : Place[s] <= Place[x]
<1>1. 0 \notin Stops
  BY BoundAssumption DEF Stops
<1>2. QED
  BY <1>1 DEF Firsts

-----------------------------------------------------------------------------
\* Lemmas about the jobs.

\* One worker moves on; the rows of trips stay, and no event and no loss is taken back.
LEMMA JobsKept ==
    ASSUME TypeOK, JobsInv, NEW w \in Workers, NEW p \in Ping \cup {Idle},
           job' = [job EXCEPT ![w] = p],
           events \subseteq events', lost \subseteq lost',
           \A t \in TIds : trips[t] \in Trip => trips'[t] \in Trip,
           JobOK(p)', Unsaid(p)',
           \A v \in Workers \ {w} : Both(p, job[v]),
           \A v \in Workers \ {w} : \A s \in Claim(job[v]) :
               notified'[job[v].bus][<<job[v].trip, s>>] \subseteq lost'
    PROVE  JobsInv'
<1>1. job \in [Workers -> Ping \cup {Idle}]
  BY DEF TypeOK
<1>2. SUFFICES ASSUME NEW v \in Workers
               PROVE  /\ JobOK(job[v])' /\ Unsaid(job[v])'
                      /\ \A u \in Workers \ {v} : Both(job[v], job[u])'
  BY DEF JobsInv
<1>3. CASE v = w
  <2>1. job'[v] = p
    BY <1>1, <1>3
  <2>2. \A u \in Workers \ {v} : job'[u] = job[u]
    BY <1>1, <1>3
  <2>3. JobOK(job[v])' /\ Unsaid(job[v])'
    BY <2>1 DEF JobOK, Unsaid
  <2>4. QED
    BY <1>3, <2>1, <2>2, <2>3
<1>4. CASE v # w
  <2>1. PICK q \in Ping \cup {Idle} : q = job[v] /\ q = job'[v]
    BY <1>1, <1>4
  <2>2. q.at # "idle" => q \in Ping
    BY DEF Idle
  <2>3. JobOK(q) /\ Unsaid(q)
    BY <2>1 DEF JobsInv
  <2>4. JobOK(q)'
    BY <2>2, <2>3, PingFields DEF JobOK, Sent
  <2>5. Unsaid(q)'
    BY <1>4, <2>1 DEF Unsaid
  <2>6. \A u \in Workers \ {v} : Both(job[v], job[u])'
    <3> SUFFICES ASSUME NEW u \in Workers \ {v} PROVE Both(job'[v], job'[u])
      OBVIOUS
    <3>1. CASE u = w
      <4>1. Both(p, q) /\ job'[u] = p
        BY <1>1, <1>4, <2>1, <3>1
      <4>2. Both(q, p)
        BY <4>1 DEF Both, Apart
      <4>3. QED
        BY <2>1, <4>1, <4>2
    <3>2. CASE u # w
      BY <1>1, <2>1, <3>2 DEF JobsInv
    <3>3. QED
      BY <3>1, <3>2
  <2>7. JobOK(job[v])' /\ Unsaid(job[v])'
    BY <2>1, <2>4, <2>5 DEF JobOK, Unsaid
  <2>8. QED
    BY <2>6, <2>7
<1>5. QED
  BY <1>3, <1>4

\* The locks of the others and of the job stay apart from those of whoever moves on.
LEMMA SweepKept ==
    ASSUME TypeOK, SweepOK, NEW w \in Workers, NEW p \in Ping \cup {Idle},
           job' = [job EXCEPT ![w] = p], sweep' = sweep,
           \A b \in sweep.mine : live'[b] = live[b],
           Locks(p) => p.bus \notin sweep.mine
    PROVE  SweepOK'
<1>1. \A b \in sweep'.mine : live'[b] # None /\ live'[b].old
  BY DEF SweepOK
<1>2. ASSUME NEW v \in Workers, Locks(job'[v]) PROVE job'[v].bus \notin sweep'.mine
  <2>1. CASE v = w
    BY <1>2, <2>1 DEF TypeOK
  <2>2. CASE v # w
    <3>1. job'[v] = job[v]
      BY <2>2 DEF TypeOK
    <3>2. QED
      BY <1>2, <3>1 DEF SweepOK, Locks
  <2>3. QED
    BY <2>1, <2>2
<1>3. QED
  BY <1>1, <1>2 DEF SweepOK, Locks

\* One worker moves on, in memory or with rows nobody sees yet.
LEMMA OnlyJob ==
    ASSUME Inv, NEW w \in Workers, NEW p \in Ping \cup {Idle},
           job' = [job EXCEPT ![w] = p],
           UNCHANGED <<roadVars, trips, dbVars, edit, sweep, outVars, seenVars>>,
           clock' \in 0..MaxPings, upsets' \in 0..MaxUpsets, job[w].at # "committed",
           JobOK(p), Unsaid(p), \A v \in Workers \ {w} : Both(p, job[v]),
           Locks(p) => p.bus \notin sweep.mine
    PROVE  Inv'
<1>1. TypeOK'
  BY DEF Inv, TypeOK, roadVars, dbVars, outVars, seenVars
<1>2. JobOK(p)' /\ Unsaid(p)'
  BY DEF JobOK, Unsaid, dbVars, outVars, seenVars
<1>3. JobsInv'
  <2>1. \A v \in Workers : \A s \in Claim(job[v]) :
            notified[job[v].bus][<<job[v].trip, s>>] \subseteq lost
    BY DEF Inv, JobsInv, Unsaid
  <2>2. QED
    BY <1>2, <2>1, JobsKept DEF Inv, dbVars, outVars, seenVars
<1>4. SweepOK'
  BY SweepKept DEF Inv, dbVars
<1>5. SaidOnce' /\ ShownIsStored' /\ OfflineMeansOld'
  BY DEF Inv, SaidOnce, NotifiedOnce, ShownIsStored, LiveHasLog, AnnouncedIsRecorded,
         OfflineMeansOld, dbVars, outVars, seenVars
<1>6. ArrivalAnnounced'
  <2> SUFFICES ASSUME NEW v \in events
               PROVE  \/ announced[v] # {} \/ v \in cut
                      \/ \E u \in Workers : /\ job'[u].at = "committed"
                                            /\ job'[u].trip = v[1]
                                            /\ v[2] \in job'[u].mine \cap job'[u].arrived
    BY DEF ArrivalAnnounced, dbVars, outVars, seenVars
  <2>1. \A u \in Workers : job[u].at = "committed" => job'[u] = job[u]
    BY DEF Inv, TypeOK
  <2>2. \/ announced[v] # {} \/ v \in cut
        \/ \E u \in Workers : /\ job[u].at = "committed" /\ job[u].trip = v[1]
                              /\ v[2] \in job[u].mine \cap job[u].arrived
    BY DEF Inv, ArrivalAnnounced
  <2>3. QED
    BY <2>1, <2>2
<1>7. QED
  BY <1>1, <1>3, <1>4, <1>5, <1>6 DEF Inv

\* A ping goes on recording arrivals, and claims no more than before.
LEMMA Detects ==
    ASSUME Inv, NEW w \in Workers, NEW old \in Ping, old = job[w], old.at = "detecting",
           NEW p \in Ping, p.at = "detecting", p.bus = old.bus, p.trip = old.trip,
           old.aborted => p.aborted, JobOK(p), Claim(p) \subseteq Claim(old),
           job' = [job EXCEPT ![w] = p], upsets' \in 0..MaxUpsets,
           UNCHANGED <<roadVars, trips, dbVars, clock, edit, sweep, outVars, seenVars>>
    PROVE  Inv'
<1>1. Unsaid(old) /\ \A v \in Workers \ {w} : Both(old, job[v])
  BY DEF Inv, JobsInv
<1>2. Unsaid(p)
  BY <1>1 DEF Unsaid
<1>3. Locks(p) => Locks(old)
  BY PingFields DEF Locks
<1>4. \A v \in Workers \ {w} : Both(p, job[v])
  BY <1>1, <1>3 DEF Both, Apart
<1>5. Locks(p) => p.bus \notin sweep.mine
  BY <1>3 DEF Inv, SweepOK
<1>6. QED
  BY <1>2, <1>4, <1>5, OnlyJob DEF Inv, TypeOK

\* An INSERT returned.
LEMMA ArrivedOf ==
    ASSUME NEW old \in Ping, old.at = "detecting", JobOK(old), old.next # 0,
           old.next \in old.mine \/ <<old.trip, old.next>> \in events,
           NEW p \in Arrived(old)
    PROVE  /\ p \in Ping /\ p.at = "detecting" /\ p.bus = old.bus /\ p.trip = old.trip
           /\ p.aborted = old.aborted /\ JobOK(p) /\ Claim(p) \subseteq Claim(old)
<1>1. PICK s \in Firsts(old.todo \ {old.next}) :
        p = [old EXCEPT !.arrived = @ \cup {old.next}, !.todo = @ \ {old.next},
                        !.next = s, !.entered = FALSE]
  BY DEF Arrived
<1>2. PICK todo \in SUBSET Stops, arrived \in SUBSET Stops :
        todo = old.todo \ {old.next} /\ arrived = old.arrived \cup {old.next}
  BY PingFields
<1>3. /\ s \in {0} \cup Stops /\ (s = 0 => todo = {})
      /\ s # 0 => s \in todo /\ \A x \in todo : Place[s] <= Place[x]
  BY <1>1, <1>2, FirstsOf
<1>4. p = [old EXCEPT !.arrived = arrived, !.todo = todo, !.next = s, !.entered = FALSE]
  BY <1>1, <1>2
<1>5. /\ p \in Ping /\ p.at = "detecting" /\ p.bus = old.bus /\ p.trip = old.trip
      /\ p.stamp = old.stamp /\ p.todo = todo /\ p.next = s /\ p.entered = FALSE
      /\ p.mine = old.mine /\ p.arrived = arrived /\ p.aborted = old.aborted
  BY <1>3, <1>4, PingFields DEF Ping
<1>6. Ordered(old)
  BY DEF JobOK
<1>7. old.mine \subseteq arrived
  BY <1>2, <1>6 DEF Ordered
<1>8. \A x \in old.mine, y \in todo : Place[x] <= Place[y]
  BY <1>2, <1>6 DEF Ordered
<1>9. Ordered(p)
  BY <1>3, <1>5, <1>7, <1>8 DEF Ordered
<1>10. JobOK(p)
  BY <1>2, <1>5, <1>6, <1>9 DEF JobOK, Open, Sent, Ordered
<1>11. Claim(p) \subseteq Claim(old)
  BY <1>2, <1>5, <1>6, PingFields DEF Claim, Ordered
<1>12. QED
  BY <1>5, <1>10, <1>11

\* An error was swallowed: the ping claims nothing any more.
LEMMA SwallowedOf ==
    ASSUME NEW old \in Ping, old.at = "detecting", JobOK(old), NEW p, p = Swallowed(old)
    PROVE  /\ p \in Ping /\ p.at = "detecting" /\ p.bus = old.bus /\ p.trip = old.trip
           /\ p.aborted /\ JobOK(p) /\ Claim(p) = {}
<1>1. /\ p \in Ping /\ p.at = "detecting" /\ p.bus = old.bus /\ p.trip = old.trip
      /\ p.stamp = old.stamp /\ p.todo = {} /\ p.next = 0 /\ p.entered = FALSE
      /\ p.mine = {} /\ p.arrived = old.arrived /\ p.aborted = TRUE
  BY DEF Swallowed, Ping
<1>2. Ordered(p)
  BY <1>1 DEF Ordered
<1>3. QED
  BY <1>1, <1>2 DEF JobOK, Claim, Open, Sent

-----------------------------------------------------------------------------
\* Every step of a ping.

\* The trip is resolved.
LEMMA ResolveStep ==
    ASSUME Inv, NEW w \in Workers, Resolve(w)
    PROVE  Inv'
<1>1. PICK bus \in Buses : \E trip \in Candidates(bus) :
        job' = [job EXCEPT ![w] =
                  [at |-> "resolved", bus |-> bus, trip |-> trip, stamp |-> 0,
                   todo |-> {}, next |-> 0, entered |-> FALSE,
                   mine |-> {}, arrived |-> {}, aborted |-> FALSE]]
  BY DEF Resolve
<1>2. PICK trip \in Candidates(bus) :
        job' = [job EXCEPT ![w] =
                  [at |-> "resolved", bus |-> bus, trip |-> trip, stamp |-> 0,
                   todo |-> {}, next |-> 0, entered |-> FALSE,
                   mine |-> {}, arrived |-> {}, aborted |-> FALSE]]
  BY <1>1
<1>3. PICK p : p = [at |-> "resolved", bus |-> bus, trip |-> trip, stamp |-> 0,
                    todo |-> {}, next |-> 0, entered |-> FALSE,
                    mine |-> {}, arrived |-> {}, aborted |-> FALSE]
  OBVIOUS
<1>4. trip \in TIds /\ trips[trip] \in Trip
  BY DEF Inv, TypeOK, Candidates, InProgress
<1>5. p \in Ping
  BY <1>3, <1>4 DEF Ping
<1>6. JobOK(p) /\ Unsaid(p) /\ \A v \in Workers \ {w} : Both(p, job[v])
  BY <1>3, <1>4 DEF JobOK, Unsaid, Both, Apart, Locks, Claim, Open, Sent
<1>7. ~Locks(p) /\ job[w].at # "committed"
  BY <1>3 DEF Locks, Resolve, Idle
<1>8. QED
  BY <1>2, <1>3, <1>5, <1>6, <1>7, OnlyJob DEF Resolve, Inv, TypeOK

\* The log is written.
LEMMA InsertLogStep ==
    ASSUME Inv, NEW w \in Workers, InsertLog(w)
    PROVE  Inv'
<1>1. PICK old \in Ping : old = job[w]
  BY PingOf DEF Inv, InsertLog
<1>2. PICK now \in Stamps : now = clock + 1 /\ clock' = now /\ now \in 0..MaxPings
  BY BoundAssumption DEF InsertLog, Inv, TypeOK, Stamps
<1>3. PICK p : p = [old EXCEPT !.at = "logged", !.stamp = now]
  OBVIOUS
<1>4. /\ p \in Ping /\ p.at = "logged" /\ p.stamp = now /\ p.bus = old.bus
      /\ p.trip = old.trip /\ p.todo = old.todo /\ p.next = old.next
      /\ p.entered = old.entered /\ p.mine = old.mine
      /\ p.arrived = old.arrived /\ p.aborted = old.aborted
  BY <1>3 DEF Ping
<1>5. job' = [job EXCEPT ![w] = p]
  BY <1>1, <1>2, <1>3 DEF InsertLog, Inv, TypeOK
<1>6. JobOK(p)
  BY <1>1, <1>4 DEF InsertLog, Inv, JobsInv, JobOK, Open, Sent
<1>7. Unsaid(p) /\ \A v \in Workers \ {w} : Both(p, job[v])
  BY <1>4 DEF Unsaid, Both, Apart, Locks, Claim, Sent
<1>8. ~Locks(p) /\ job[w].at # "committed" /\ upsets' \in 0..MaxUpsets
  BY <1>4 DEF Locks, InsertLog, Inv, TypeOK
<1>9. QED
  BY <1>2, <1>4, <1>5, <1>6, <1>7, <1>8, OnlyJob DEF InsertLog

\* The row of the bus is taken when nobody has it, neither a ping nor the job.
LEMMA UpsertLiveStep ==
    ASSUME Inv, NEW w \in Workers, UpsertLive(w)
    PROVE  Inv'
<1>1. PICK old \in Ping : old = job[w]
  BY PingOf DEF Inv, UpsertLive
<1>2. PICK p : p = [old EXCEPT !.at = "upserted"]
  OBVIOUS
<1>3. /\ p \in Ping /\ p.at = "upserted" /\ p.stamp = old.stamp /\ p.bus = old.bus
      /\ p.trip = old.trip /\ p.todo = old.todo /\ p.next = old.next
      /\ p.entered = old.entered /\ p.mine = old.mine
      /\ p.arrived = old.arrived /\ p.aborted = old.aborted
  BY <1>2 DEF Ping
<1>4. job' = [job EXCEPT ![w] = p]
  BY <1>1, <1>2 DEF UpsertLive
<1>5. JobOK(p)
  BY <1>1, <1>3 DEF UpsertLive, Inv, JobsInv, JobOK, Open, Sent
<1>6. Unsaid(p)
  BY <1>3 DEF Unsaid, Claim, Sent
<1>7. job[w].at = "logged" /\ \A x \in Agents : ~WaitsFor(w, x)
  BY DEF UpsertLive, Waits
<1>8. ASSUME NEW v \in Workers \ {w} PROVE Both(p, job[v])
  <2>1. ~(Locks(job[v]) /\ job[v].bus = p.bus)
    BY <1>1, <1>3, <1>7 DEF WaitsFor, HoldsRow, Locks, Agents
  <2>2. Claim(p) = {}
    BY <1>3 DEF Claim, Sent
  <2>3. QED
    BY <2>1, <2>2 DEF Both, Apart
<1>9. p.bus \notin sweep.mine
  BY <1>1, <1>3, <1>7 DEF WaitsFor, Agents
<1>10. QED
  BY <1>3, <1>4, <1>5, <1>6, <1>7, <1>8, <1>9, OnlyJob DEF UpsertLive, Inv, TypeOK

\* Stops are selected that are not recorded yet.  Nobody else has the row of the bus, and
\* what other pings of it claim is recorded.
LEMMA SelectStopsStep ==
    ASSUME Inv, NEW w \in Workers, SelectStops(w)
    PROVE  Inv'
<1>1. PICK old \in Ping : old = job[w]
  BY PingOf DEF Inv, SelectStops
<1>2. PICK todo \in SUBSET {x \in stops : <<old.trip, x>> \notin events} : \E s \in Firsts(todo) :
        job' = [job EXCEPT ![w].at = "detecting", ![w].todo = todo, ![w].next = s]
  BY <1>1 DEF SelectStops
<1>3. PICK s \in Firsts(todo) :
        job' = [job EXCEPT ![w].at = "detecting", ![w].todo = todo, ![w].next = s]
  BY <1>2
<1>4. PICK p : p = [old EXCEPT !.at = "detecting", !.todo = todo, !.next = s]
  OBVIOUS
<1>5. /\ todo \in SUBSET Stops /\ \A x \in todo : <<old.trip, x>> \notin events
      /\ s \in {0} \cup Stops /\ (s = 0 => todo = {})
      /\ s # 0 => s \in todo /\ \A x \in todo : Place[s] <= Place[x]
  <2>1. todo \in SUBSET Stops /\ \A x \in todo : <<old.trip, x>> \notin events
    BY <1>2 DEF Inv, TypeOK
  <2>2. QED
    BY <1>3, <2>1, FirstsOf
<1>6. /\ p \in Ping /\ p.at = "detecting" /\ p.stamp = old.stamp /\ p.bus = old.bus
      /\ p.trip = old.trip /\ p.todo = todo /\ p.next = s /\ p.entered = old.entered
      /\ p.mine = old.mine /\ p.arrived = old.arrived /\ p.aborted = old.aborted
  BY <1>4, <1>5 DEF Ping
<1>7. job' = [job EXCEPT ![w] = p]
  BY <1>1, <1>3, <1>4 DEF Inv, TypeOK
<1>8. /\ old.at = "upserted" /\ JobOK(old) /\ ~p.entered /\ p.mine = {} /\ p.arrived = {}
      /\ ~p.aborted
  BY <1>1, <1>6 DEF SelectStops, Inv, JobsInv, JobOK, Open
<1>9. JobOK(p)
  BY <1>5, <1>6, <1>8 DEF JobOK, Ordered, Open, Sent
<1>10. Claim(p) = todo
  BY <1>6, <1>8 DEF Claim
<1>11. Unsaid(p)
  <2> SUFFICES ASSUME NEW x \in todo PROVE notified[p.bus][<<p.trip, x>>] \subseteq lost
    BY <1>10 DEF Unsaid
  <2>1. p.bus \in Buses /\ <<p.trip, x>> \in Visits /\ <<p.trip, x>> \notin events
    BY <1>5, <1>6, PingFields DEF Visits
  <2>2. QED
    BY <2>1 DEF Inv, SaidOnce
<1>12. ASSUME NEW v \in Workers \ {w} PROVE Both(p, job[v])
  <2>1. PICK q : q = job[v]
    OBVIOUS
  <2>2. Both(old, q) /\ JobOK(q)
    BY <1>1, <2>1 DEF Inv, JobsInv
  <2>3. ASSUME q.at # "idle", p.bus = q.bus PROVE ~Locks(q)
    BY <1>1, <1>6, <1>8, <2>2, <2>3 DEF Both, Apart, Locks
  <2>4. ASSUME q.at # "idle", p.bus = q.bus, p.trip = q.trip
        PROVE  Claim(p) \cap Claim(q) = {}
    <3>1. q.at # "detecting" \/ q.aborted
      BY <2>3, <2>4 DEF Locks
    <3>2. \A x \in Claim(q) : <<p.trip, x>> \in events
      BY <2>2, <2>4, <3>1 DEF Claim, JobOK
    <3>3. QED
      BY <1>5, <1>6, <1>10, <3>2
  <2>5. QED
    BY <2>1, <2>3, <2>4 DEF Both, Apart
<1>13. p.bus \notin sweep.mine /\ job[w].at # "committed"
  BY <1>1, <1>6, <1>8 DEF Inv, SweepOK, Locks
<1>14. QED
  BY <1>6, <1>7, <1>9, <1>11, <1>12, <1>13, OnlyJob DEF SelectStops, Inv, TypeOK

\* An arrival is inserted, or found recorded.
LEMMA InsertArrivalStep ==
    ASSUME Inv, NEW w \in Workers, InsertArrival(w)
    PROVE  Inv'
<1>1. PICK old \in Ping : old = job[w]
  BY PingOf DEF Inv, InsertArrival
<1>2. old.at = "detecting" /\ old.next # 0 /\ ~old.entered /\ JobOK(old) /\ Ordered(old)
  BY <1>1 DEF InsertArrival, Inv, JobsInv, JobOK
<1>3. upsets' \in 0..MaxUpsets
  BY DEF InsertArrival, Inv, TypeOK
<1>4. CASE <<old.trip, old.next>> \in events
  <2>1. PICK p \in Arrived(old) : job' = [job EXCEPT ![w] = p]
    BY <1>1, <1>4 DEF InsertArrival
  <2>2. /\ p \in Ping /\ p.at = "detecting" /\ p.bus = old.bus /\ p.trip = old.trip
        /\ old.aborted => p.aborted
        /\ JobOK(p) /\ Claim(p) \subseteq Claim(old)
    BY <1>2, <1>4, <2>1, ArrivedOf
  <2>3. UNCHANGED <<roadVars, trips, dbVars, clock, edit, sweep, outVars, seenVars>>
    BY DEF InsertArrival
  <2>4. QED
    BY <1>1, <1>2, <1>3, <2>1, <2>2, <2>3, Detects
<1>5. CASE <<old.trip, old.next>> \notin events
  <2>1. PICK mine \in SUBSET Stops : mine = old.mine \cup {old.next}
    BY <1>2, PingFields DEF Ordered
  <2>2. PICK p : p = [old EXCEPT !.entered = TRUE, !.mine = mine]
    OBVIOUS
  <2>3. /\ p \in Ping /\ p.at = "detecting" /\ p.stamp = old.stamp /\ p.bus = old.bus
        /\ p.trip = old.trip /\ p.todo = old.todo /\ p.next = old.next /\ p.entered
        /\ p.mine = mine /\ p.arrived = old.arrived /\ p.aborted = old.aborted
    BY <1>2, <2>2 DEF Ping
  <2>4. job' = [job EXCEPT ![w] = p]
    BY <1>1, <1>5, <2>1, <2>2 DEF InsertArrival, Inv, TypeOK
  <2>5. Ordered(p)
    BY <1>2, <2>1, <2>3 DEF Ordered
  <2>6. JobOK(p)
    BY <1>2, <2>1, <2>3, <2>5 DEF JobOK, Ordered, Open, Sent
  <2>7. Claim(p) = Claim(old)
    BY <1>2, <2>3 DEF Claim
  <2>8. QED
    BY <1>1, <1>2, <1>3, <2>3, <2>4, <2>6, <2>7, Detects DEF InsertArrival
<1>6. QED
  BY <1>4, <1>5

\* Its foreign key holds, or fails into the catch.
LEMMA CheckStopStep ==
    ASSUME Inv, NEW w \in Workers, CheckStop(w)
    PROVE  Inv'
<1>1. PICK old \in Ping : old = job[w]
  BY PingOf DEF Inv, CheckStop
<1>2. /\ old.at = "detecting" /\ old.entered /\ JobOK(old)
      /\ old.next # 0 /\ old.next \in old.mine
  BY <1>1 DEF CheckStop, Inv, JobsInv, JobOK, Ordered
<1>3. upsets' \in 0..MaxUpsets
  BY DEF CheckStop, Inv, TypeOK
<1>4. CASE old.next \in stops
  <2>1. PICK p \in Arrived(old) : job' = [job EXCEPT ![w] = p]
    BY <1>1, <1>4 DEF CheckStop
  <2>2. /\ p \in Ping /\ p.at = "detecting" /\ p.bus = old.bus /\ p.trip = old.trip
        /\ old.aborted => p.aborted
        /\ JobOK(p) /\ Claim(p) \subseteq Claim(old)
    BY <1>2, <2>1, ArrivedOf
  <2>3. UNCHANGED <<roadVars, trips, dbVars, clock, edit, sweep, outVars, seenVars>>
    BY DEF CheckStop
  <2>4. QED
    BY <1>1, <1>2, <1>3, <2>1, <2>2, <2>3, Detects
<1>5. CASE old.next \notin stops
  <2>1. PICK p : p = Swallowed(old)
    OBVIOUS
  <2>2. job' = [job EXCEPT ![w] = p]
    BY <1>1, <1>5, <2>1 DEF CheckStop, Swallowed, Inv, TypeOK
  <2>3. QED
    BY <1>1, <1>2, <1>3, <2>1, <2>2, SwallowedOf, Detects DEF CheckStop
<1>6. QED
  BY <1>4, <1>5

\* It fails for another reason.
LEMMA InsertThrowsStep ==
    ASSUME Inv, NEW w \in Workers, InsertThrows(w), upsets' \in 0..MaxUpsets
    PROVE  Inv'
<1>1. PICK old \in Ping : old = job[w]
  BY PingOf DEF Inv, InsertThrows
<1>2. old.at = "detecting" /\ JobOK(old)
  BY <1>1 DEF InsertThrows, Inv, JobsInv
<1>3. PICK p : p = Swallowed(old)
  OBVIOUS
<1>4. job' = [job EXCEPT ![w] = p]
  BY <1>1, <1>3 DEF InsertThrows, Swallowed, Inv, TypeOK
<1>5. QED
  BY <1>1, <1>2, <1>3, <1>4, SwallowedOf, Detects DEF InsertThrows

\* The transaction is rolled back.
LEMMA FailStep ==
    ASSUME Inv, NEW w \in Workers, Fail(w)
    PROVE  Inv'
<1>1. /\ JobOK(Idle) /\ Unsaid(Idle) /\ \A v \in Workers \ {w} : Both(Idle, job[v])
      /\ ~Locks(Idle)
  BY DEF JobOK, Unsaid, Claim, Both, Locks, Idle, Open, Sent
<1>2. job[w].at # "committed"
  BY DEF Fail
<1>3. QED
  BY <1>1, <1>2, OnlyJob DEF Fail, Inv, TypeOK

\* What the COMMIT of a ping makes visible.
LEMMA StoredOf ==
    ASSUME Inv, NEW old \in Ping, trips[old.trip] \in Trip, old.stamp \in Stamps, Stored(old)
    PROVE  /\ logs' \subseteq Log /\ live' \in [Buses -> Live \cup {None}]
           /\ events' \subseteq Visits /\ trips' \in [TIds -> Trip \cup {None}]
           /\ \A t \in TIds : trips[t] \in Trip => trips'[t] \in Trip
           /\ events \subseteq events' /\ \A s \in old.mine : <<old.trip, s>> \in events'
           /\ \A v \in events' : v \in events \/ (v[1] = old.trip /\ v[2] \in old.mine)
           /\ \A b \in Buses \ {old.bus} : live'[b] = live[b]
           /\ LiveHasLog' /\ OfflineMeansOld'
<1>1. old.bus \in Buses /\ old.trip \in TIds /\ old.mine \in SUBSET Stops
  BY PingFields
<1>2. PICK fix \in Live, row \in Log :
        /\ fix = [trip |-> old.trip, at |-> old.stamp, status |-> "ok", old |-> FALSE]
        /\ row = [trip |-> old.trip, bus |-> old.bus, at |-> old.stamp]
  BY <1>1 DEF Live, Log
<1>3. PICK new \in SUBSET Visits : new = {<<old.trip, s>> : s \in old.mine}
  <2>1. \A s \in old.mine : <<old.trip, s>> \in Visits
    BY <1>1 DEF Visits
  <2>2. {<<old.trip, s>> : s \in old.mine} \in SUBSET Visits
    BY <2>1
  <2>3. QED
    BY <2>2
<1>4. PICK trip \in Trip : trip = [trips[old.trip] EXCEPT !.silent = FALSE]
  <2>1. PICK was \in Trip : was = trips[old.trip]
    OBVIOUS
  <2>2. [was EXCEPT !.silent = FALSE] \in Trip
    BY DEF Trip
  <2>3. QED
    BY <2>1, <2>2
<1>5. /\ logs' = logs \cup {row} /\ live' = [live EXCEPT ![old.bus] = fix]
      /\ events' = events \cup new /\ trips' = [trips EXCEPT ![old.trip] = trip]
  BY <1>2, <1>3, <1>4 DEF Stored
<1>6. /\ logs' \subseteq Log /\ live' \in [Buses -> Live \cup {None}]
      /\ events' \subseteq Visits /\ trips' \in [TIds -> Trip \cup {None}]
      /\ \A t \in TIds : trips[t] \in Trip => trips'[t] \in Trip
      /\ \A b \in Buses \ {old.bus} : live'[b] = live[b]
  BY <1>1, <1>5 DEF Inv, TypeOK
<1>7. /\ events \subseteq events' /\ \A s \in old.mine : <<old.trip, s>> \in events'
      /\ \A v \in events' : v \in events \/ (v[1] = old.trip /\ v[2] \in old.mine)
  BY <1>3, <1>5
<1>8. LiveHasLog' /\ OfflineMeansOld'
  <2> SUFFICES ASSUME NEW b \in Buses, live'[b] # None
               PROVE  /\ [trip |-> live'[b].trip, bus |-> b, at |-> live'[b].at] \in logs'
                      /\ live'[b].status = "offline" => live'[b].old
    BY DEF LiveHasLog, OfflineMeansOld
  <2>1. CASE b = old.bus
    <3>1. live'[b] = fix
      BY <1>5, <2>1 DEF Inv, TypeOK
    <3>2. QED
      BY <1>2, <1>5, <2>1, <3>1
  <2>2. CASE b # old.bus
    <3>1. live'[b] = live[b]
      BY <1>6, <2>2
    <3>2. QED
      BY <1>5, <3>1 DEF Inv, ShownIsStored, LiveHasLog, OfflineMeansOld
  <2>3. QED
    BY <2>1, <2>2
<1>9. QED
  BY <1>6, <1>7, <1>8

\* A whole transaction commits, and its ping either goes on to its broadcasts or is cut off.
LEMMA StoresStep ==
    ASSUME Inv, NEW w \in Workers, NEW old \in Ping, old = job[w], old.at = "detecting",
           ~old.aborted, Stored(old), NEW p \in Ping \cup {Idle},
           job' = [job EXCEPT ![w] = p], upsets' \in 0..MaxUpsets,
           UNCHANGED <<roadVars, clock, edit, sweep, outVars, lost>>,
           cut \subseteq cut', cut' \subseteq Visits, JobOK(p)', Claim(p) \subseteq Claim(old),
           p.at # "idle" => p.bus = old.bus /\ p.trip = old.trip, ~Locks(p),
           \A v \in events' :
              (v[1] = old.trip /\ v[2] \in old.mine) =>
                 \/ v \in cut'
                 \/ p.at = "committed" /\ p.trip = v[1] /\ v[2] \in p.mine \cap p.arrived
    PROVE  Inv'
<1>1. /\ JobOK(old) /\ Unsaid(old) /\ \A v \in Workers \ {w} : Both(old, job[v])
      /\ trips[old.trip] \in Trip /\ old.stamp \in Stamps /\ Locks(old)
  BY DEF Inv, JobsInv, JobOK, Locks
<1>2. /\ logs' \subseteq Log /\ live' \in [Buses -> Live \cup {None}]
      /\ events' \subseteq Visits /\ trips' \in [TIds -> Trip \cup {None}]
      /\ \A t \in TIds : trips[t] \in Trip => trips'[t] \in Trip
      /\ events \subseteq events'
      /\ \A v \in events' : v \in events \/ (v[1] = old.trip /\ v[2] \in old.mine)
      /\ \A b \in Buses \ {old.bus} : live'[b] = live[b]
      /\ LiveHasLog' /\ OfflineMeansOld'
  BY <1>1, StoredOf
<1>3. TypeOK'
  BY <1>2 DEF Inv, TypeOK, roadVars, outVars
<1>4. JobsInv'
  <2>1. Unsaid(p)'
    <3>1. ASSUME NEW s \in Claim(p) PROVE notified'[p.bus][<<p.trip, s>>] \subseteq lost'
      <4>1. p.at # "idle" /\ s \in Claim(old)
        BY <3>1 DEF Claim, Sent
      <4>2. QED
        BY <1>1, <4>1 DEF Unsaid, outVars
    <3>2. QED
      BY <3>1 DEF Unsaid
  <2>2. \A v \in Workers \ {w} : Both(p, job[v])
    BY <1>1 DEF Both, Apart
  <2>3. \A v \in Workers : \A s \in Claim(job[v]) :
          notified'[job[v].bus][<<job[v].trip, s>>] \subseteq lost'
    BY DEF Inv, JobsInv, Unsaid, outVars
  <2>4. QED
    BY <1>2, <2>1, <2>2, <2>3, JobsKept DEF Inv
<1>5. SweepOK'
  <2>1. old.bus \notin sweep.mine
    BY <1>1 DEF Inv, SweepOK
  <2>2. \A b \in sweep.mine : b \in Buses
    BY DEF Inv, TypeOK, Sweep
  <2>3. QED
    BY <1>2, <2>1, <2>2, SweepKept DEF Inv
<1>6. SaidOnce' /\ AnnouncedIsRecorded'
  BY <1>2 DEF Inv, SaidOnce, NotifiedOnce, ShownIsStored, AnnouncedIsRecorded, outVars
<1>7. ArrivalAnnounced'
  <2> SUFFICES ASSUME NEW v \in events'
               PROVE  \/ announced[v] # {} \/ v \in cut'
                      \/ \E u \in Workers : /\ job'[u].at = "committed"
                                            /\ job'[u].trip = v[1]
                                            /\ v[2] \in job'[u].mine \cap job'[u].arrived
    BY DEF ArrivalAnnounced, outVars
  <2>1. job'[w] = p /\ \A u \in Workers : job[u].at = "committed" => job'[u] = job[u]
    BY DEF Inv, TypeOK
  <2>2. CASE v[1] = old.trip /\ v[2] \in old.mine
    BY <2>1, <2>2
  <2>3. CASE v \in events
    <3>1. \/ announced[v] # {} \/ v \in cut
          \/ \E u \in Workers : /\ job[u].at = "committed" /\ job[u].trip = v[1]
                                /\ v[2] \in job[u].mine \cap job[u].arrived
      BY <2>3 DEF Inv, ArrivalAnnounced
    <3>2. QED
      BY <2>1, <3>1
  <2>4. QED
    BY <1>2, <2>2, <2>3
<1>8. QED
  BY <1>2, <1>3, <1>4, <1>5, <1>6, <1>7 DEF Inv, ShownIsStored

\* COMMIT: the log, the position and the arrivals become visible together, or none do.
LEMMA CommitStep ==
    ASSUME Inv, NEW w \in Workers, Commit(w)
    PROVE  Inv'
<1>1. PICK old \in Ping : old = job[w]
  BY PingOf DEF Inv, Commit
<1>2. /\ old.at = "detecting" /\ old.next = 0 /\ JobOK(old) /\ Ordered(old)
      /\ trips[old.trip] \in Trip /\ old.stamp \in Stamps
      /\ old.todo = {} /\ old.mine \subseteq old.arrived
  BY <1>1 DEF Commit, Inv, JobsInv, JobOK, Ordered
<1>3. PICK p : p = [old EXCEPT !.at = "committed"]
  OBVIOUS
<1>4. /\ p \in Ping /\ p.at = "committed" /\ p.bus = old.bus /\ p.trip = old.trip
      /\ p.stamp = old.stamp /\ p.todo = old.todo /\ p.next = old.next
      /\ p.entered = old.entered /\ p.arrived = old.arrived
      /\ p.mine = old.mine /\ p.aborted = old.aborted
  BY <1>2, <1>3 DEF Ping
<1>5. job' = [job EXCEPT ![w] = p] /\ upsets' \in 0..MaxUpsets
  BY <1>1, <1>3 DEF Commit, Inv, TypeOK
<1>6. UNCHANGED <<roadVars, clock, edit, sweep, outVars, cut>>
  BY DEF Commit
<1>7. Claim(p) = Claim(old) /\ ~Locks(p)
  BY <1>2, <1>4 DEF Claim, Sent, Locks
<1>8. CASE old.aborted
  <2>1. lost' = lost \cup {old.stamp} /\ UNCHANGED <<trips, dbVars>>
    BY <1>1, <1>8 DEF Commit
  <2>2. TypeOK'
    BY <1>2, <1>4, <1>5, <1>6, <2>1 DEF Inv, TypeOK, roadVars, dbVars, outVars
  <2>3. JobOK(p)'
    BY <1>2, <1>4, <1>8, <2>1 DEF JobOK, Open, Sent
  <2>4. Claim(p) = {}
    BY <1>4, <1>8 DEF Claim
  <2>5. Unsaid(p)' /\ \A v \in Workers \ {w} : Both(p, job[v])
    BY <1>7, <2>4 DEF Unsaid, Both, Apart
  <2>6. JobsInv'
    <3>1. \A v \in Workers : \A s \in Claim(job[v]) :
            notified'[job[v].bus][<<job[v].trip, s>>] \subseteq lost'
      BY <1>6, <2>1 DEF Inv, JobsInv, Unsaid, outVars
    <3>2. QED
      BY <1>4, <1>5, <2>1, <2>3, <2>5, <3>1, JobsKept DEF Inv, dbVars
  <2>7. SweepOK'
    BY <1>4, <1>5, <1>6, <1>7, <2>1, SweepKept DEF Inv, dbVars
  <2>8. SaidOnce'
    BY <1>6, <2>1 DEF Inv, SaidOnce, NotifiedOnce, dbVars, outVars
  <2>9. ShownIsStored' /\ OfflineMeansOld'
    BY <1>6, <2>1 DEF Inv, ShownIsStored, LiveHasLog, AnnouncedIsRecorded, OfflineMeansOld,
                      dbVars, outVars
  <2>10. ArrivalAnnounced'
    <3>1. \A u \in Workers : job[u].at = "committed" => job'[u] = job[u]
      BY <1>1, <1>2, <1>5 DEF Inv, TypeOK
    <3>2. QED
      BY <1>6, <2>1, <3>1 DEF Inv, ArrivalAnnounced, dbVars, outVars
  <2>11. QED
    BY <2>2, <2>6, <2>7, <2>8, <2>9, <2>10 DEF Inv
<1>9. CASE ~old.aborted
  <2>1. Stored(old) /\ lost' = lost
    BY <1>1, <1>9 DEF Commit
  <2>2. /\ \A t \in TIds : trips[t] \in Trip => trips'[t] \in Trip
        /\ events \subseteq events' /\ \A s \in old.mine : <<old.trip, s>> \in events'
    BY <1>2, <2>1, StoredOf
  <2>3. \A s \in old.arrived : <<old.trip, s>> \in events'
    BY <1>2, <1>9, <2>2 DEF JobOK
  <2>4. JobOK(p)'
    BY <1>2, <1>4, <1>9, <2>2, <2>3, PingFields DEF JobOK, Open, Sent
  <2>5. cut \subseteq cut' /\ cut' \subseteq Visits
    BY <1>6 DEF Inv, TypeOK
  <2>6. /\ p \in Ping \cup {Idle} /\ Claim(p) \subseteq Claim(old)
        /\ p.at # "idle" => p.bus = old.bus /\ p.trip = old.trip
        /\ UNCHANGED <<roadVars, clock, edit, sweep, outVars, lost>>
    BY <1>4, <1>6, <1>7, <2>1
  <2>7. \A v \in events' : (v[1] = old.trip /\ v[2] \in old.mine) =>
            \/ v \in cut'
            \/ p.at = "committed" /\ p.trip = v[1] /\ v[2] \in p.mine \cap p.arrived
    BY <1>2, <1>4
  <2>8. old = job[w] /\ old.at = "detecting" /\ ~old.aborted /\ Stored(old) /\ ~Locks(p)
    BY <1>1, <1>2, <1>7, <1>9, <2>1
  <2>9. QED
    BY <1>5, <2>4, <2>5, <2>6, <2>7, <2>8, StoresStep
<1>10. QED
  BY <1>8, <1>9

\* The COMMIT is done, but the ping gets an error.
LEMMA LoseCommitStep ==
    ASSUME Inv, NEW w \in Workers, LoseCommit(w)
    PROVE  Inv'
<1>1. PICK old \in Ping : old = job[w]
  BY PingOf DEF Inv, LoseCommit
<1>2. old.at = "detecting" /\ ~old.aborted /\ Stored(old)
  BY <1>1 DEF LoseCommit
<1>3. upsets' \in 0..MaxUpsets
  BY UpsetOf DEF LoseCommit, Inv
<1>4. cut' = cut \cup {<<old.trip, s>> : s \in old.mine}
  BY <1>1 DEF LoseCommit
<1>5. \A s \in old.mine : <<old.trip, s>> \in Visits
  BY PingFields DEF Visits
<1>6. cut \subseteq cut' /\ cut' \subseteq Visits
  BY <1>4, <1>5 DEF Inv, TypeOK
<1>7. JobOK(Idle)' /\ Claim(Idle) = {} /\ ~Locks(Idle) /\ Idle.at = "idle"
  BY DEF JobOK, Claim, Locks, Idle, Open, Sent
<1>8. \A v \in events' : (v[1] = old.trip /\ v[2] \in old.mine) => v \in cut'
  <2>1. events' \subseteq Visits
    <3>1. trips[old.trip] \in Trip /\ old.stamp \in Stamps
      BY <1>1, <1>2 DEF Inv, JobsInv, JobOK
    <3>2. QED
      BY <1>2, <3>1, StoredOf
  <2>2. \A v \in Visits : v = <<v[1], v[2]>>
    BY DEF Visits
  <2>3. QED
    BY <1>4, <2>1, <2>2
<1>9. QED
  BY <1>1, <1>2, <1>3, <1>6, <1>7, <1>8, StoresStep DEF LoseCommit

\* The answer and the broadcasts.
LEMMA ReplyStep ==
    ASSUME Inv, NEW w \in Workers, Reply(w)
    PROVE  Inv'
<1>1. PICK old \in Ping : old = job[w]
  BY PingOf DEF Inv, Reply
<1>2. /\ old.at = "committed" /\ JobOK(old) /\ Unsaid(old) /\ old.stamp \in Stamps
      /\ \A v \in Workers \ {w} : Both(old, job[v])
  BY <1>1 DEF Reply, Inv, JobsInv, JobOK
<1>3. PICK s : s = [old EXCEPT !.at = "fanout"]
  OBVIOUS
<1>4. /\ s \in Ping /\ s.at = "fanout" /\ s.bus = old.bus /\ s.trip = old.trip
      /\ s.stamp = old.stamp /\ s.todo = old.todo /\ s.next = old.next
      /\ s.entered = old.entered /\ s.arrived = old.arrived
      /\ s.mine = old.mine /\ s.aborted = old.aborted
  BY <1>3 DEF Ping
<1>5. PICK p \in Ping \cup {Idle} : p = IF old.arrived = {} THEN Idle ELSE s
  BY <1>4
<1>6. /\ job' = [job EXCEPT ![w] = p] /\ acked' = acked \cup {old.stamp}
      /\ announced' = Told(announced, old.stamp, old.trip, old.arrived)
      /\ UNCHANGED <<roadVars, trips, dbVars, clock, edit, sweep, notified, seenVars, upsets>>
  BY <1>1, <1>3, <1>5 DEF Reply, Inv, TypeOK
<1>7. JobOK(p) /\ Unsaid(p) /\ (\A v \in Workers \ {w} : Both(p, job[v])) /\ ~Locks(p)
  <2>1. CASE old.arrived = {}
    BY <1>5, <2>1 DEF JobOK, Unsaid, Claim, Both, Locks, Idle, Open, Sent
  <2>2. CASE old.arrived # {}
    <3>1. Claim(s) = Claim(old) /\ ~Locks(s)
      BY <1>2, <1>4 DEF Claim, Sent, Locks
    <3>2. JobOK(s)
      BY <1>2, <1>4 DEF JobOK, Open, Sent
    <3>3. QED
      BY <1>2, <1>4, <1>5, <2>2, <3>1, <3>2 DEF Unsaid, Both, Apart
  <2>3. QED
    BY <2>1, <2>2
<1>8. /\ announced' \in [Visits -> SUBSET Stamps]
      /\ \A v \in Visits :
            announced'[v] = IF v[1] = old.trip /\ v[2] \in old.arrived
                              THEN announced[v] \cup {old.stamp} ELSE announced[v]
  <2>1. announced \in [Visits -> SUBSET Stamps]
    BY DEF Inv, TypeOK
  <2>2. PICK tally : tally = Told(announced, old.stamp, old.trip, old.arrived)
    OBVIOUS
  <2>3. /\ tally \in [Visits -> SUBSET Stamps]
        /\ \A v \in Visits :
              tally[v] = IF v[1] = old.trip /\ v[2] \in old.arrived
                           THEN announced[v] \cup {old.stamp} ELSE announced[v]
    BY <1>2, <2>1, <2>2 DEF Told
  <2>4. QED
    BY <1>6, <2>2, <2>3
<1>9. TypeOK'
  BY <1>2, <1>6, <1>8 DEF Inv, TypeOK, roadVars, dbVars, seenVars
<1>10. JobsInv'
  <2>1. JobOK(p)' /\ Unsaid(p)'
    BY <1>6, <1>7 DEF JobOK, Unsaid, dbVars, seenVars
  <2>2. \A v \in Workers : \A x \in Claim(job[v]) :
            notified'[job[v].bus][<<job[v].trip, x>>] \subseteq lost'
    BY <1>6 DEF Inv, JobsInv, Unsaid, seenVars
  <2>3. QED
    BY <1>6, <1>7, <2>1, <2>2, JobsKept DEF Inv, dbVars, seenVars
<1>11. SweepOK'
  BY <1>6, <1>7, SweepKept DEF Inv, dbVars
<1>12. AnnouncedIsRecorded'
  <2>1. ASSUME NEW v \in Visits PROVE announced'[v] \subseteq lost \/ v \in events
    <3>1. announced[v] \subseteq lost \/ v \in events
      BY DEF Inv, ShownIsStored, AnnouncedIsRecorded
    <3>2. ASSUME v[1] = old.trip, v[2] \in old.arrived PROVE old.stamp \in lost \/ v \in events
      <4>1. v = <<old.trip, v[2]>>
        BY <3>2 DEF Visits
      <4>2. QED
        BY <1>2, <3>2, <4>1 DEF JobOK, Sent
    <3>3. QED
      BY <1>8, <3>1, <3>2
  <2>2. QED
    BY <1>6, <2>1 DEF AnnouncedIsRecorded, dbVars, seenVars
<1>13. ArrivalAnnounced'
  <2> SUFFICES ASSUME NEW v \in events
               PROVE  \/ announced'[v] # {} \/ v \in cut
                      \/ \E u \in Workers : /\ job'[u].at = "committed"
                                            /\ job'[u].trip = v[1]
                                            /\ v[2] \in job'[u].mine \cap job'[u].arrived
    BY <1>6 DEF ArrivalAnnounced, dbVars, seenVars
  <2>1. \/ announced[v] # {} \/ v \in cut
        \/ \E u \in Workers : /\ job[u].at = "committed" /\ job[u].trip = v[1]
                              /\ v[2] \in job[u].mine \cap job[u].arrived
    BY DEF Inv, ArrivalAnnounced
  <2>2. v \in Visits
    BY DEF Inv, TypeOK
  <2>3. \A u \in Workers \ {w} : job'[u] = job[u]
    BY <1>6 DEF Inv, TypeOK
  <2>4. QED
    BY <1>1, <1>8, <2>1, <2>2, <2>3
<1>14. SaidOnce' /\ LiveHasLog' /\ OfflineMeansOld'
  BY <1>6 DEF Inv, SaidOnce, NotifiedOnce, ShownIsStored, LiveHasLog, OfflineMeansOld,
              dbVars, seenVars
<1>15. QED
  BY <1>9, <1>10, <1>11, <1>12, <1>13, <1>14 DEF Inv, ShownIsStored

\* The parents are notified: of what only this ping claims, or in vain.
LEMMA FanOutStep ==
    ASSUME Inv, NEW w \in Workers, FanOut(w)
    PROVE  Inv'
<1>1. PICK old \in Ping : old = job[w]
  BY PingOf DEF Inv, FanOut
<1>2. /\ old.at = "fanout" /\ JobOK(old) /\ Unsaid(old) /\ old.bus \in Buses
      /\ old.stamp \in Stamps /\ \A v \in Workers \ {w} : Both(old, job[v])
  BY <1>1, PingFields DEF FanOut, Inv, JobsInv, JobOK
<1>3. PICK tally : tally = Told(notified[old.bus], old.stamp, old.trip, old.arrived)
  OBVIOUS
<1>4. /\ notified' \in {notified, [notified EXCEPT ![old.bus] = tally]}
      /\ job' = [job EXCEPT ![w] = Idle]
      /\ UNCHANGED <<roadVars, trips, dbVars, clock, edit, sweep, acked, announced, seenVars,
                     upsets>>
  BY <1>1, <1>3 DEF FanOut
<1>5. /\ notified \in [Buses -> [Visits -> SUBSET Stamps]]
      /\ notified[old.bus] \in [Visits -> SUBSET Stamps]
  BY <1>2 DEF Inv, TypeOK
<1>6. /\ tally \in [Visits -> SUBSET Stamps]
      /\ \A v \in Visits : tally[v] = IF v[1] = old.trip /\ v[2] \in old.arrived
                                        THEN notified[old.bus][v] \cup {old.stamp}
                                        ELSE notified[old.bus][v]
  BY <1>2, <1>3, <1>5 DEF Told
<1>7. /\ notified' \in [Buses -> [Visits -> SUBSET Stamps]]
      /\ \A b \in Buses, v \in Visits :
            \/ notified'[b][v] = notified[b][v]
            \/ /\ b = old.bus /\ v[1] = old.trip /\ v[2] \in old.arrived
               /\ notified'[b][v] = notified[b][v] \cup {old.stamp}
  BY <1>4, <1>5, <1>6
<1>8. TypeOK'
  BY <1>4, <1>7 DEF Inv, TypeOK, roadVars, dbVars, seenVars
<1>9. SaidOnce'
  <2> SUFFICES ASSUME NEW b \in Buses, NEW v \in Visits
               PROVE  /\ \A m, n \in notified'[b][v] \ lost : m = n
                      /\ v \in events \/ notified'[b][v] \subseteq lost
    BY <1>4 DEF SaidOnce, NotifiedOnce, dbVars, seenVars
  <2>1. /\ \A m, n \in notified[b][v] \ lost : m = n
        /\ v \in events \/ notified[b][v] \subseteq lost
    BY DEF Inv, SaidOnce, NotifiedOnce
  <2>2. CASE notified'[b][v] = notified[b][v]
    BY <2>1, <2>2
  <2>3. CASE /\ b = old.bus /\ v[1] = old.trip /\ v[2] \in old.arrived
             /\ notified'[b][v] = notified[b][v] \cup {old.stamp}
    <3>1. v = <<old.trip, v[2]>>
      BY <2>3 DEF Visits
    <3>2. CASE old.aborted
      BY <1>2, <2>1, <2>3, <3>2 DEF JobOK, Sent
    <3>3. CASE ~old.aborted
      <4>1. v[2] \in Claim(old)
        BY <1>2, <2>3, <3>3 DEF Claim, Sent
      <4>2. v \in events
        BY <1>2, <2>3, <3>1, <3>3 DEF JobOK, Sent
      <4>3. notified[b][v] \subseteq lost
        BY <1>2, <2>3, <3>1, <4>1 DEF Unsaid
      <4>4. QED
        BY <2>3, <4>2, <4>3
    <3>4. QED
      BY <3>2, <3>3
  <2>4. QED
    BY <1>7, <2>2, <2>3
<1>10. JobOK(Idle) /\ JobOK(Idle)' /\ Claim(Idle) = {} /\ ~Locks(Idle) /\ Idle.at = "idle"
  BY DEF JobOK, Claim, Locks, Idle, Open, Sent
<1>11. JobsInv'
  <2>1. Unsaid(Idle)' /\ \A v \in Workers \ {w} : Both(Idle, job[v])
    BY <1>10 DEF Unsaid, Both
  <2>2. ASSUME NEW v \in Workers \ {w}, NEW s \in Claim(job[v])
        PROVE  notified'[job[v].bus][<<job[v].trip, s>>] \subseteq lost'
    <3>1. PICK q \in Ping : q = job[v]
      BY <2>2, PingOf DEF Claim, Sent, Inv
    <3>2. Unsaid(q) /\ Both(old, q) /\ s \in Claim(q)
      BY <1>2, <2>2, <3>1 DEF Inv, JobsInv
    <3>3. q.bus \in Buses /\ <<q.trip, s>> \in Visits /\ q.at # "idle"
      BY <3>2, PingFields DEF Visits, Claim
    <3>4. notified[q.bus][<<q.trip, s>>] \subseteq lost
      BY <3>2 DEF Unsaid
    <3>5. CASE old.aborted
      <4>1. old.stamp \in lost
        BY <1>2, <3>5 DEF JobOK, Sent
      <4>2. QED
        BY <1>4, <1>7, <3>1, <3>3, <3>4, <4>1 DEF seenVars
    <3>6. CASE ~old.aborted
      <4>1. ~(q.bus = old.bus /\ q.trip = old.trip /\ s \in old.arrived)
        BY <1>2, <3>2, <3>3, <3>6 DEF Both, Apart, Claim, Sent
      <4>2. QED
        <5>1. notified'[q.bus][<<q.trip, s>>] = notified[q.bus][<<q.trip, s>>]
          BY <1>7, <3>3, <4>1
        <5>2. QED
          BY <1>4, <3>1, <3>4, <5>1 DEF seenVars
    <3>7. QED
      BY <3>5, <3>6
  <2>3. QED
    BY <1>4, <1>10, <2>1, <2>2, JobsKept DEF Inv, dbVars, seenVars
<1>12. SweepOK'
  BY <1>4, <1>10, SweepKept DEF Inv, dbVars
<1>13. ShownIsStored' /\ OfflineMeansOld'
  BY <1>4 DEF Inv, ShownIsStored, LiveHasLog, AnnouncedIsRecorded, OfflineMeansOld, dbVars,
              seenVars
<1>14. ArrivalAnnounced'
  <2>1. \A u \in Workers : job[u].at = "committed" => job'[u] = job[u]
    BY <1>1, <1>2, <1>4 DEF Inv, TypeOK
  <2>2. QED
    BY <1>4, <2>1 DEF Inv, ArrivalAnnounced, dbVars, seenVars
<1>15. QED
  BY <1>8, <1>9, <1>11, <1>12, <1>13, <1>14 DEF Inv

-----------------------------------------------------------------------------
\* Every step around the pings.

\* No ping moves.
LEMMA JobsStay ==
    ASSUME Inv, UNCHANGED <<job, events, lost, notified>>,
           \A t \in TIds : trips[t] \in Trip => trips'[t] \in Trip
    PROVE  JobsInv'
<1> SUFFICES ASSUME NEW w \in Workers
             PROVE  /\ JobOK(job[w])' /\ Unsaid(job[w])'
                    /\ \A v \in Workers \ {w} : Both(job[w], job[v])'
  BY DEF JobsInv
<1>1. PICK p \in Ping \cup {Idle} : p = job[w] /\ p = job'[w]
  BY DEF Inv, TypeOK
<1>2. JobOK(p) /\ Unsaid(p) /\ \A v \in Workers \ {w} : Both(p, job[v])
  BY <1>1 DEF Inv, JobsInv
<1>3. p.at # "idle" => p.trip \in TIds
  BY PingFields DEF Idle
<1>4. JobOK(p)' /\ Unsaid(p)'
  BY <1>2, <1>3 DEF JobOK, Unsaid
<1>5. JobOK(job[w])' /\ Unsaid(job[w])'
  BY <1>1, <1>4 DEF JobOK, Unsaid
<1>6. QED
  BY <1>1, <1>2, <1>5

\* A trip starts, ends or falls silent: a row stays a row.
LEMMA TripsStep ==
    ASSUME Inv, \/ StartTrip \/ AutoClose
                \/ \E t \in TIds : EndTrip(t) \/ Age30m(t)
    PROVE  Inv'
<1>1. UNCHANGED <<roadVars, dbVars, clock, job, edit, sweep, outVars, seenVars, upsets>>
  BY DEF StartTrip, AutoClose, EndTrip, Age30m
<1>2. /\ trips' \in [TIds -> Trip \cup {None}]
      /\ \A t \in TIds : trips[t] \in Trip => trips'[t] \in Trip
  <2>0. trips \in [TIds -> Trip \cup {None}]
    BY DEF Inv, TypeOK
  <2>1. CASE StartTrip
    <3>1. PICK t \in TIds, a \in Assignments :
            trips' = [trips EXCEPT ![t] =
                        [assignment |-> a, status |-> "in_progress", silent |-> FALSE]]
      BY <2>1 DEF StartTrip
    <3>2. [assignment |-> a, status |-> "in_progress", silent |-> FALSE] \in Trip
      BY DEF Trip
    <3>3. QED
      BY <2>0, <3>1, <3>2
  <2>2. CASE AutoClose
    <3>1. \A t \in Trip : [t EXCEPT !.status = "completed"] \in Trip
      BY DEF Trip
    <3>2. trips' = [t \in TIds |-> IF Stale(t) THEN [trips[t] EXCEPT !.status = "completed"]
                                              ELSE trips[t]]
      BY <2>2 DEF AutoClose
    <3>3. \A t \in TIds : Stale(t) => trips[t] \in Trip
      BY <2>0 DEF Stale, InProgress
    <3>4. \A t \in TIds : \/ trips'[t] = trips[t]
                          \/ trips[t] \in Trip /\ trips'[t] \in Trip
      <4> SUFFICES ASSUME NEW t \in TIds
                   PROVE  \/ trips'[t] = trips[t]
                          \/ trips[t] \in Trip /\ trips'[t] \in Trip
        OBVIOUS
      <4>1. PICK row : row = trips[t]
        OBVIOUS
      <4>2. trips'[t] = IF Stale(t) THEN [row EXCEPT !.status = "completed"] ELSE row
        BY <3>2, <4>1
      <4>3. QED
        BY <3>1, <3>3, <4>1, <4>2
    <3>5. QED
      BY <2>0, <3>2, <3>4
  <2>3. CASE \E t \in TIds : EndTrip(t) \/ Age30m(t)
    <3>1. PICK t \in TIds : EndTrip(t) \/ Age30m(t)
      BY <2>3
    <3>2. PICK old \in Trip : old = trips[t]
      BY <2>0, <3>1 DEF EndTrip, Age30m, InProgress
    <3>3. PICK new \in Trip : trips' = [trips EXCEPT ![t] = new]
      <4>1. [old EXCEPT !.status = "completed"] \in Trip /\ [old EXCEPT !.silent = TRUE] \in Trip
        BY DEF Trip
      <4>2. \/ trips' = [trips EXCEPT ![t] = [old EXCEPT !.status = "completed"]]
            \/ trips' = [trips EXCEPT ![t] = [old EXCEPT !.silent = TRUE]]
        BY <3>1, <3>2 DEF EndTrip, Age30m
      <4>3. QED
        BY <4>1, <4>2
    <3>4. QED
      BY <2>0, <3>3
  <2>4. QED
    BY <2>1, <2>2, <2>3
<1>3. TypeOK' /\ JobsInv'
  BY <1>1, <1>2, JobsStay DEF Inv, TypeOK, roadVars, dbVars, outVars, seenVars
<1>4. SweepOK' /\ SaidOnce' /\ ShownIsStored' /\ ArrivalAnnounced' /\ OfflineMeansOld'
  BY <1>1 DEF Inv, SweepOK, SaidOnce, NotifiedOnce, ShownIsStored, LiveHasLog,
              AnnouncedIsRecorded, ArrivalAnnounced, OfflineMeansOld, dbVars, outVars, seenVars
<1>5. QED
  BY <1>3, <1>4 DEF Inv

\* What bus_live_status says of a bus grows old, or is marked offline when it has.
LEMMA LiveStep ==
    ASSUME Inv, GpsOffEnd \/ \E b \in Buses : Age30s(b)
    PROVE  Inv'
<1>1. UNCHANGED <<roadVars, trips, logs, events, clock, job, edit, outVars, seenVars, upsets>>
  BY DEF GpsOffEnd, Age30s
<1>2. live \in [Buses -> Live \cup {None}] /\ sweep.mine \subseteq Buses
  BY DEF Inv, TypeOK, Sweep
<1>3. /\ live' \in [Buses -> Live \cup {None}]
      /\ sweep' = sweep \/ sweep' = NoSweep
      /\ \A b \in Buses :
            \/ live'[b] = live[b]
            \/ /\ live[b] # None /\ live'[b] # None
               /\ live'[b].trip = live[b].trip /\ live'[b].at = live[b].at /\ live'[b].old
  <2>1. \A l \in Live :
          /\ [l EXCEPT !.status = "offline"] \in Live /\ [l EXCEPT !.old = TRUE] \in Live
          /\ [l EXCEPT !.status = "offline"].trip = l.trip
          /\ [l EXCEPT !.status = "offline"].at = l.at
          /\ [l EXCEPT !.status = "offline"].old = l.old
          /\ [l EXCEPT !.old = TRUE].trip = l.trip
          /\ [l EXCEPT !.old = TRUE].at = l.at /\ [l EXCEPT !.old = TRUE].old
    BY DEF Live
  <2>2. \A l \in Live : l # None
    BY NoneAssumption
  <2>3. CASE GpsOffEnd
    <3>1. PICK dark \in SUBSET Buses :
            /\ \A b \in dark : live[b] # None /\ live[b].old
            /\ live' = [b \in Buses |-> IF b \in dark THEN [live[b] EXCEPT !.status = "offline"]
                                                     ELSE live[b]]
      BY <1>2, <2>3 DEF GpsOffEnd, Inv, SweepOK
    <3>2. ASSUME NEW b \in Buses
          PROVE  /\ live'[b] \in Live \cup {None}
                 /\ \/ live'[b] = live[b]
                    \/ /\ live[b] # None /\ live'[b] # None
                       /\ live'[b].trip = live[b].trip
                       /\ live'[b].at = live[b].at /\ live'[b].old
      <4>1. PICK l \in Live \cup {None} : l = live[b]
        BY <1>2
      <4>2. live'[b] = IF b \in dark THEN [l EXCEPT !.status = "offline"] ELSE l
        BY <3>1, <4>1
      <4>3. b \in dark => l \in Live /\ l # None /\ l.old
        BY <3>1, <4>1
      <4>4. QED
        BY <2>1, <2>2, <4>1, <4>2, <4>3
    <3>3. live' \in [Buses -> Live \cup {None}] /\ sweep' = NoSweep
      BY <2>3, <3>1, <3>2 DEF GpsOffEnd
    <3>4. QED
      BY <3>2, <3>3
  <2>4. CASE \E b \in Buses : Age30s(b)
    <3>1. PICK b \in Buses : Age30s(b)
      BY <2>4
    <3>2. PICK l \in Live : l = live[b] /\ l # None
      BY <1>2, <3>1 DEF Age30s
    <3>3. live' = [live EXCEPT ![b] = [l EXCEPT !.old = TRUE]] /\ sweep' = sweep
      BY <3>1, <3>2 DEF Age30s
    <3>4. PICK new \in Live : new = [l EXCEPT !.old = TRUE] /\ new.trip = l.trip
                                /\ new.at = l.at /\ new.old
      BY <2>1
    <3>5. QED
      BY <1>2, <2>2, <3>2, <3>3, <3>4
  <2>5. QED
    BY <2>3, <2>4
<1>4. TypeOK'
  BY <1>1, <1>3 DEF Inv, TypeOK, Sweep, NoSweep, roadVars, outVars, seenVars
<1>5. JobsInv'
  BY <1>1, JobsStay DEF outVars, seenVars
<1>6. SaidOnce' /\ AnnouncedIsRecorded' /\ ArrivalAnnounced'
  BY <1>1 DEF Inv, SaidOnce, NotifiedOnce, ShownIsStored, AnnouncedIsRecorded, ArrivalAnnounced,
              outVars, seenVars
<1>7. LiveHasLog' /\ OfflineMeansOld'
  BY <1>1, <1>3 DEF Inv, ShownIsStored, LiveHasLog, OfflineMeansOld
<1>8. SweepOK'
  BY <1>1, <1>2, <1>3 DEF Inv, SweepOK, NoSweep
<1>9. QED
  BY <1>4, <1>5, <1>6, <1>7, <1>8 DEF Inv, ShownIsStored

\* The job selects its rows, and locks those it finds silent when nobody has them.
LEMMA SweepStep ==
    ASSUME Inv, GpsOffSelect \/ \E b \in Buses : GpsOffRow(b)
    PROVE  Inv'
<1>1. UNCHANGED <<roadVars, trips, dbVars, clock, job, edit, outVars, seenVars, upsets>>
  BY DEF GpsOffSelect, GpsOffRow
<1>2. PICK old \in Sweep : old = sweep
  BY DEF Inv, TypeOK
<1>3. old.todo \in SUBSET Buses /\ old.mine \in SUBSET Buses
  BY DEF Sweep
<1>4. /\ sweep' \in Sweep
      /\ \A b \in sweep'.mine : \/ b \in sweep.mine
                                \/ Dark(b) /\ \A w \in Workers : ~HoldsRow(w, b)
  <2>1. CASE GpsOffSelect
    <3>1. PICK todo \in SUBSET Buses : todo = {b \in Buses : Dark(b)}
      OBVIOUS
    <3>2. sweep' = [old EXCEPT !.todo = todo]
      BY <1>2, <2>1, <3>1 DEF GpsOffSelect
    <3>3. QED
      BY <1>2, <3>1, <3>2 DEF Sweep
  <2>2. CASE \E b \in Buses : GpsOffRow(b)
    <3>1. PICK b \in Buses : GpsOffRow(b)
      BY <2>2
    <3>2. PICK mine : mine = IF Dark(b) THEN old.mine \cup {b} ELSE old.mine
      OBVIOUS
    <3>3. sweep' = [todo |-> old.todo \ {b}, mine |-> mine]
      BY <1>2, <3>1, <3>2 DEF GpsOffRow
    <3>4. mine \in SUBSET Buses /\ (old.todo \ {b}) \in SUBSET Buses
      BY <1>3, <3>2
    <3>5. sweep' \in Sweep /\ sweep'.mine = mine
      BY <3>3, <3>4 DEF Sweep
    <3>6. \A w \in Workers : ~HoldsRow(w, b)
      BY <3>1 DEF GpsOffRow
    <3>7. QED
      BY <1>2, <3>2, <3>5, <3>6
  <2>3. QED
    BY <2>1, <2>2
<1>5. TypeOK' /\ JobsInv'
  BY <1>1, <1>4, JobsStay DEF Inv, TypeOK, roadVars, dbVars, outVars, seenVars
<1>6. SweepOK'
  <2>1. ASSUME NEW b \in sweep'.mine
        PROVE  /\ live[b] # None /\ live[b].old
               /\ \A w \in Workers : ~(Locks(job[w]) /\ job[w].bus = b)
    <3>1. CASE b \in sweep.mine
      BY <3>1 DEF Inv, SweepOK
    <3>2. CASE Dark(b) /\ \A w \in Workers : ~HoldsRow(w, b)
      BY <3>2 DEF Dark, HoldsRow, Locks
    <3>3. QED
      BY <1>4, <3>1, <3>2
  <2>2. QED
    BY <1>1, <2>1 DEF SweepOK, Locks, dbVars
<1>7. SaidOnce' /\ ShownIsStored' /\ ArrivalAnnounced' /\ OfflineMeansOld'
  BY <1>1 DEF Inv, SaidOnce, NotifiedOnce, ShownIsStored, LiveHasLog, AnnouncedIsRecorded,
              ArrivalAnnounced, OfflineMeansOld, dbVars, outVars, seenVars
<1>8. QED
  BY <1>5, <1>6, <1>7 DEF Inv

\* The stops of the route are edited, or an assignment changes its bus: no ping looks.
LEMMA RoadStep ==
    ASSUME Inv, \/ AddStop \/ ReplaceStops \/ CommitStops \/ RefuseStops \/ StopsFail
                \/ (\E s \in Stops : DeleteStop(s)) \/ (\E a \in Assignments : Rebind(a))
    PROVE  Inv'
<1>1. UNCHANGED <<trips, dbVars, clock, job, sweep, outVars, seenVars>>
  BY DEF AddStop, ReplaceStops, CommitStops, RefuseStops, StopsFail, DeleteStop, Rebind
<1>2. upsets' \in 0..MaxUpsets
  BY UpsetOf DEF Inv, TypeOK, AddStop, ReplaceStops, CommitStops, RefuseStops, StopsFail,
                 DeleteStop, Rebind
<1>3. busOf' \in [Assignments -> Buses \cup {None}]
  BY DEF Inv, TypeOK, AddStop, ReplaceStops, CommitStops, RefuseStops, StopsFail, DeleteStop,
         Rebind, roadVars
<1>4. PICK old \in Edit : old = edit
  BY DEF Inv, TypeOK
<1>5. /\ old.todo \in SUBSET Stops /\ old.gone \in SUBSET Stops
      /\ stopSeq \in 0..MaxStops /\ stops \subseteq Stops /\ MaxStops \in Nat
  BY BoundAssumption DEF Inv, TypeOK, Edit
<1>6. edit' \in Edit /\ stops' \subseteq Stops /\ stopSeq' \in 0..MaxStops
  <2>1. CASE AddStop
    BY <1>4, <1>5, <2>1 DEF AddStop, Stops
  <2>2. CASE ReplaceStops
    <3>1. edit' = [at |-> "deleting", todo |-> stops, gone |-> {}]
      BY <2>2 DEF ReplaceStops
    <3>2. QED
      BY <1>5, <2>2, <3>1 DEF ReplaceStops, Edit, roadVars
  <2>3. CASE CommitStops
    <3>1. PICK n \in 0..(MaxStops - stopSeq) :
            /\ stops' = (stops \ edit.gone) \cup ((stopSeq + 1)..(stopSeq + n))
            /\ stopSeq' = stopSeq + n
      BY <2>3 DEF CommitStops
    <3>2. stopSeq' \in 0..MaxStops /\ (stopSeq + 1)..(stopSeq + n) \subseteq Stops
      BY <1>5, <3>1 DEF Stops
    <3>3. edit' \in Edit
      BY <2>3 DEF CommitStops, NoEdit, Edit
    <3>4. QED
      BY <1>5, <3>1, <3>2, <3>3
  <2>4. CASE RefuseStops \/ StopsFail
    BY <1>5, <2>4 DEF RefuseStops, StopsFail, NoEdit, Edit, roadVars
  <2>5. CASE \E s \in Stops : DeleteStop(s)
    <3>1. PICK s \in Stops : DeleteStop(s)
      BY <2>5
    <3>2. PICK todo \in SUBSET Stops, gone \in SUBSET Stops :
            todo = old.todo \ {s} /\ gone = old.gone \cup {s}
      BY <1>5
    <3>3. edit' = [old EXCEPT !.todo = todo, !.gone = gone]
      BY <1>4, <3>1, <3>2 DEF DeleteStop
    <3>4. edit' \in Edit
      BY <3>3 DEF Edit
    <3>5. QED
      BY <1>5, <3>1, <3>4 DEF DeleteStop, roadVars
  <2>6. CASE \E a \in Assignments : Rebind(a)
    BY <1>4, <1>5, <2>6 DEF Rebind
  <2>7. QED
    BY <2>1, <2>2, <2>3, <2>4, <2>5, <2>6
<1>7. TypeOK' /\ JobsInv'
  BY <1>1, <1>2, <1>3, <1>6, JobsStay DEF Inv, TypeOK, dbVars, outVars, seenVars
<1>8. SweepOK' /\ SaidOnce' /\ ShownIsStored' /\ ArrivalAnnounced' /\ OfflineMeansOld'
  BY <1>1 DEF Inv, SweepOK, SaidOnce, NotifiedOnce, ShownIsStored, LiveHasLog,
              AnnouncedIsRecorded, ArrivalAnnounced, OfflineMeansOld, dbVars, outVars, seenVars
<1>9. QED
  BY <1>7, <1>8 DEF Inv

\* The process dies, and what its pings have committed is cut off from the broadcasts.
LEMMA CrashStep ==
    ASSUME Inv, Crash
    PROVE  Inv'
<1>1. /\ job' = [w \in Workers |-> Idle] /\ edit' = NoEdit /\ sweep' = NoSweep
      /\ UNCHANGED <<roadVars, trips, dbVars, clock, outVars, lost>>
  BY DEF Crash
<1>2. cut' = cut \cup {v \in Visits : \E w \in Workers :
                          job[w].at = "committed" /\ v[1] = job[w].trip /\ v[2] \in job[w].mine}
  BY DEF Crash
<1>3. upsets' \in 0..MaxUpsets
  BY UpsetOf DEF Inv, Crash
<1>4. cut \subseteq cut' /\ cut' \subseteq Visits
  BY <1>2 DEF Inv, TypeOK
<1>5. TypeOK'
  BY <1>1, <1>3, <1>4 DEF Inv, TypeOK, NoEdit, Edit, NoSweep, Sweep, roadVars, dbVars, outVars
<1>6. JobsInv' /\ SweepOK'
  <2>1. JobOK(Idle)' /\ Unsaid(Idle)' /\ ~Locks(Idle) /\ Idle.at = "idle"
    BY DEF JobOK, Unsaid, Claim, Locks, Idle, Open, Sent
  <2>2. \A w \in Workers : job'[w] = Idle
    BY <1>1
  <2>3. \A w \in Workers : JobOK(job[w])' /\ Unsaid(job[w])'
    BY <2>1, <2>2 DEF JobOK, Unsaid
  <2>4. QED
    BY <1>1, <2>1, <2>2, <2>3 DEF JobsInv, SweepOK, Both, Locks, NoSweep
<1>7. ArrivalAnnounced'
  <2> SUFFICES ASSUME NEW v \in events PROVE announced[v] # {} \/ v \in cut'
    BY <1>1 DEF ArrivalAnnounced, dbVars, outVars
  <2>1. v \in Visits
    BY DEF Inv, TypeOK
  <2>2. \/ announced[v] # {} \/ v \in cut
        \/ \E u \in Workers : /\ job[u].at = "committed" /\ job[u].trip = v[1]
                              /\ v[2] \in job[u].mine \cap job[u].arrived
    BY DEF Inv, ArrivalAnnounced
  <2>3. QED
    BY <1>2, <2>1, <2>2
<1>8. SaidOnce' /\ ShownIsStored' /\ OfflineMeansOld'
  BY <1>1 DEF Inv, SaidOnce, NotifiedOnce, ShownIsStored, LiveHasLog, AnnouncedIsRecorded,
              OfflineMeansOld, dbVars, outVars
<1>9. QED
  BY <1>5, <1>6, <1>7, <1>8 DEF Inv

-----------------------------------------------------------------------------
\* The theorems.

\* Every state has the invariant.
LEMMA GpsInvariant == Spec => []Inv
<1>1. Init => Inv
  <2> SUFFICES ASSUME Init PROVE Inv
    OBVIOUS
  <2>1. TypeOK
    BY BoundAssumption DEF Init, TypeOK, Stops, NoEdit, Edit, NoSweep, Sweep
  <2>2. \A w \in Workers : job[w] = Idle
    BY DEF Init
  <2>3. JobOK(Idle) /\ Unsaid(Idle) /\ ~Locks(Idle)
    BY DEF JobOK, Unsaid, Claim, Locks, Idle, Open, Sent
  <2>4. JobsInv
    BY <2>2, <2>3 DEF JobsInv, Both, Idle
  <2>5. SweepOK
    BY <2>2, <2>3 DEF Init, SweepOK, NoSweep
  <2>6. SaidOnce /\ ShownIsStored /\ ArrivalAnnounced /\ OfflineMeansOld
    BY DEF Init, SaidOnce, NotifiedOnce, ShownIsStored, LiveHasLog, AnnouncedIsRecorded,
           ArrivalAnnounced, OfflineMeansOld
  <2>7. QED
    BY <2>1, <2>4, <2>5, <2>6 DEF Inv
<1>2. Inv /\ [Next]_vars => Inv'
  <2> SUFFICES ASSUME Inv, [Next]_vars PROVE Inv'
    OBVIOUS
  <2>1. ASSUME NEW w \in Workers, Victim(w) \/ InsertFails(w) PROVE Inv'
    <3>1. InsertThrows(w) /\ upsets' \in 0..MaxUpsets
      BY <2>1, UpsetOf DEF Victim, InsertFails, Inv, TypeOK
    <3>2. QED
      BY <3>1, InsertThrowsStep
  <2>2. CASE \E w \in Workers :
               Resolve(w) \/ Handle(w) \/ InsertFails(w) \/ LoseCommit(w) \/ Fail(w)
    BY <2>1, <2>2, ResolveStep, InsertLogStep, UpsertLiveStep, SelectStopsStep,
       InsertArrivalStep, CheckStopStep, CommitStep, LoseCommitStep, ReplyStep, FanOutStep,
       FailStep DEF Handle
  <2>3. CASE StartTrip \/ AutoClose \/ \E t \in TIds : EndTrip(t) \/ Age30m(t)
    BY <2>3, TripsStep
  <2>4. CASE GpsOffSelect \/ Sweeping \/ \E b \in Buses : Age30s(b)
    BY <2>4, LiveStep, SweepStep DEF Sweeping
  <2>5. CASE \/ AddStop \/ ReplaceStops \/ Editing \/ StopsFail
             \/ \E a \in Assignments : Rebind(a)
    BY <2>5, RoadStep DEF Editing
  <2>6. CASE Crash
    BY <2>6, CrashStep
  <2>7. CASE UNCHANGED vars
    <3>1. JobsInv'
      BY <2>7, JobsStay DEF vars, dbVars, outVars, seenVars
    <3>2. QED
      BY <2>7, <3>1 DEF vars, roadVars, dbVars, outVars, seenVars, Inv, TypeOK, SweepOK,
            SaidOnce, NotifiedOnce, ShownIsStored, LiveHasLog, AnnouncedIsRecorded,
            ArrivalAnnounced, OfflineMeansOld
  <2>8. QED
    BY <2>2, <2>3, <2>4, <2>5, <2>6, <2>7 DEF Next
<1>3. QED
  BY <1>1, <1>2, PTL DEF Spec

\* Every variable of the tracking keeps its type.
THEOREM TypeCorrect == Spec => []TypeOK
<1>1. Inv => TypeOK
  BY DEF Inv
<1>2. QED
  BY <1>1, GpsInvariant, PTL

\* What clients see of a bus, on the map or as an event, is in the database, but for the
\* arrivals of pings whose COMMIT rolled back: for any number of pings, of buses, of edits of
\* the stops and of errors, of whatever kind, that the empty catch swallows.
THEOREM ShownStored == Spec => []ShownIsStored
<1>1. Inv => ShownIsStored
  BY DEF Inv
<1>2. QED
  BY <1>1, GpsInvariant, PTL

\* A recorded arrival was broadcast or is about to be, unless the process died or the answer
\* to COMMIT was lost between the two.
THEOREM RecordedAnnounced == Spec => []ArrivalAnnounced
<1>1. Inv => ArrivalAnnounced
  BY DEF Inv
<1>2. QED
  BY <1>1, GpsInvariant, PTL

\* A bus that is shown offline has been silent for 30 seconds, however the job's UPDATE and
\* the pings fall.
THEOREM OfflineIsOld == Spec => []OfflineMeansOld
<1>1. Inv => OfflineMeansOld
  BY DEF Inv
<1>2. QED
  BY <1>1, GpsInvariant, PTL

\* At most one stored ping of a bus notifies the parents of a stop of a trip, for any number
\* of them at the same time: only pings that were rolled back under an error can repeat it.
THEOREM NotifiesOnce == Spec => []NotifiedOnce
<1>1. Inv => NotifiedOnce
  BY DEF Inv, SaidOnce
<1>2. QED
  BY <1>1, GpsInvariant, PTL

\* Where no two of a group that wait for the entry of a stop tie, somebody waits for nobody
\* in it: whoever is in a state that never waits, or waits for replaceStops; else, of those
\* who wait for the entry of a stop, the one that is the furthest along the route; else the
\* GPS-offline job, or if it is not there anybody, because no ping holds a row.
LEMMA NobodyInTheWay ==
    ASSUME Inv, NEW group \in SUBSET (Agents \ {Editor}), group # {},
           \A x, y \in group \ {Sweeper} :
              WaitsFor(x, y) /\ 0 \notin {job[x].next, job[y].next}
                => Place[job[x].next] # Place[job[y].next]
    PROVE  \E x \in group : \A y \in group : ~WaitsFor(x, y)
<1> DEFINE AtStops(w) == /\ w \in Workers /\ job[w].at = "detecting" /\ job[w].next # 0
                         /\ ~job[w].entered
<1>1. /\ Editor \notin group /\ \A x \in group : x \in Workers \/ x = Sweeper
      /\ Sweeper \notin Workers /\ Editor \notin Workers /\ Sweeper # Editor
  BY AgentAssumption DEF Agents, Sweeper, Editor
<1>2. \A w \in Workers : JobOK(job[w]) /\ (job[w].at # "idle" => job[w] \in Ping)
  BY PingOf DEF Inv, JobsInv
<1>3. \A w \in Workers : job[w].at = "detecting" /\ job[w].next # 0 =>
        job[w].next \in Stops /\ Place[job[w].next] \in Stops
  <2> SUFFICES ASSUME NEW w \in Workers, job[w].at = "detecting", job[w].next # 0
               PROVE  job[w].next \in Stops /\ Place[job[w].next] \in Stops
    OBVIOUS
  <2>1. job[w].next \in Stops
    BY <1>2, PingFields
  <2>2. QED
    BY <2>1, PlaceAssumption
<1>4. ASSUME NEW w \in group, w \in Workers, ~AtStops(w), job[w].at # "logged"
      PROVE  \A y \in group : ~WaitsFor(w, y)
  BY <1>1, <1>4 DEF WaitsFor
<1>5. CASE \E w \in group : w \in Workers /\ ~AtStops(w) /\ job[w].at # "logged"
  BY <1>4, <1>5
<1>6. CASE /\ \A w \in group : w \in Workers => AtStops(w) \/ job[w].at = "logged"
           /\ \A w \in group : ~AtStops(w)
  <2>1. \A w \in group : w \in Workers => job[w].at = "logged"
    BY <1>6
  <2>2. \A b : \A y \in group : ~(y \in Workers /\ HoldsRow(y, b))
    BY <2>1 DEF HoldsRow
  <2>3. CASE Sweeper \in group
    <3>1. \A y \in group : ~WaitsFor(Sweeper, y)
      BY <1>1, <2>2 DEF WaitsFor
    <3>2. QED
      BY <2>3, <3>1
  <2>4. CASE Sweeper \notin group
    <3>1. \A x, y \in group : ~WaitsFor(x, y)
      BY <1>1, <2>1, <2>2, <2>4 DEF WaitsFor
    <3>2. QED
      BY <3>1
  <2>5. QED
    BY <2>3, <2>4
<1>7. CASE /\ \A w \in group : w \in Workers => AtStops(w) \/ job[w].at = "logged"
           /\ \E w \in group : AtStops(w)
  <2>1. \A w \in group : AtStops(w) => Place[job[w].next] \in 1..MaxStops
    BY <1>3 DEF Stops
  <2>2. PICK left : left = {MaxStops - Place[job[w].next] : w \in {x \in group : AtStops(x)}}
    OBVIOUS
  <2>3. left \in SUBSET Nat /\ left # {}
    <3>1. \A w \in group : AtStops(w) => MaxStops - Place[job[w].next] \in Nat
      BY <2>1, BoundAssumption
    <3>2. QED
      BY <1>7, <2>2, <3>1
  <2>4. PICK least \in left : \A n \in left : least <= n
    BY <2>3, LeastOf
  <2>5. PICK w \in group : AtStops(w) /\ least = MaxStops - Place[job[w].next]
    BY <2>2
  <2>6. ASSUME NEW y \in group, WaitsFor(w, y) PROVE FALSE
    <3>1. /\ y \in Workers \ {w} /\ job[y].at = "detecting" /\ job[w].next \in job[y].mine
      BY <1>1, <2>5, <2>6 DEF WaitsFor, HoldsEvent
    <3>2. AtStops(y)
      BY <1>7, <3>1
    <3>3. Ordered(job[y])
      BY <1>2, <3>1 DEF JobOK
    <3>4. Place[job[w].next] <= Place[job[y].next]
      BY <3>1, <3>2, <3>3 DEF Ordered
    <3>5. MaxStops - Place[job[y].next] \in left
      BY <2>2, <3>2
    <3>6. Place[job[y].next] <= Place[job[w].next]
      BY <2>1, <2>4, <2>5, <3>2, <3>5, BoundAssumption
    <3>7. Place[job[y].next] = Place[job[w].next]
      BY <2>1, <2>5, <3>2, <3>4, <3>6
    <3>8. w \in group \ {Sweeper} /\ y \in group \ {Sweeper}
      BY <1>1, <2>5, <3>1
    <3>9. QED
      BY <2>5, <2>6, <3>2, <3>7, <3>8
  <2>7. QED
    BY <2>6
<1>8. QED
  BY <1>5, <1>6, <1>7

\* No group of pings, with the GPS-offline job, waits in a circle unless two of its stops
\* tie, for any number of pings, buses and stops.
THEOREM NoDeadlock == Spec => []NoWaitCycle
<1>1. Inv => NoWaitCycle
  BY NobodyInTheWay DEF NoWaitCycle
<1>2. QED
  BY <1>1, GpsInvariant, PTL

=============================================================================
