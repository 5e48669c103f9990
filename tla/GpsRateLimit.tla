---------------------------- MODULE GpsRateLimit ----------------------------
(***************************************************************************)
(* The per-process GPS rate limiter (middleware/gpsRateLimit): a           *)
(* JavaScript Map from bus to the time of its last accepted ping, capped   *)
(* at MAX_KEYS entries.  A Map iterates in the order in which its keys     *)
(* were first set; setting a key again keeps its place.                    *)
(***************************************************************************)
EXTENDS Naturals, Sequences

CONSTANTS
    Buses,
    MinInterval,  \* MIN_INTERVAL_MS, in ticks of the clock
    MaxKeys,      \* MAX_KEYS
    MaxTime,      \* bound: how long the process is watched
    None

ASSUME LimitAssumption ==
    /\ MinInterval \in Nat /\ MaxKeys \in Nat \ {0} /\ MaxTime \in Nat
    /\ None \notin Nat \cup {"next", "400"}

VARIABLES
    lastSeen,  \* the Map: its entries in iteration order
    now,       \* Date.now()
    accepted,  \* when each bus was last let through, None if never
    answer     \* the last ping: what it met and what it got

vars == <<lastSeen, now, accepted, answer>>

Times == 0..MaxTime
Entry == [bus : Buses, at : Times]
Quiet == [bus |-> None, since |-> None, known |-> FALSE, status |-> None]

\* The types of the state; the Map never outgrows MAX_KEYS, and no bus has two entries
\* in it.
TypeOK ==
    /\ lastSeen \in Seq(Entry) /\ Len(lastSeen) <= MaxKeys
    /\ \A i, j \in DOMAIN lastSeen : lastSeen[i].bus = lastSeen[j].bus => i = j
    /\ now \in Times
    /\ accepted \in [Buses -> Times \cup {None}]
    /\ answer \in {Quiet} \cup
         [bus : Buses, since : Times \cup {None}, known : BOOLEAN, status : {"next", "400"}]

Init ==
    /\ lastSeen = <<>>
    /\ now = 0
    /\ accepted = [b \in Buses |-> None]
    /\ answer = Quiet

Places(bus) == {i \in DOMAIN lastSeen : lastSeen[i].bus = bus}

\* lastSeen.get(busId) is too recent.
TooSoon(bus) == \E i \in Places(bus) : now - lastSeen[i].at < MinInterval

\* Mutant of Put: it leaves an entry alone.
PutOnce(bus) ==
    IF Places(bus) = {} THEN Append(lastSeen, [bus |-> bus, at |-> now]) ELSE lastSeen

\* lastSeen.set(busId, now)
Put(bus) ==
    IF Places(bus) = {}
      THEN Append(lastSeen, [bus |-> bus, at |-> now])
      ELSE [i \in DOMAIN lastSeen |->
              IF i \in Places(bus) THEN [bus |-> bus, at |-> now] ELSE lastSeen[i]]

\* Mutant of Evict: one entry too late.
EvictLate(map) ==
    IF Len(map) <= MaxKeys + 1 THEN map ELSE SubSeq(map, Len(map) - MaxKeys, Len(map))

\* evictIfNeeded: the entries set first go first.
Evict(map) ==
    IF Len(map) <= MaxKeys THEN map ELSE SubSeq(map, Len(map) - MaxKeys + 1, Len(map))

\* How long ago the bus was let through.
Since(bus) == IF accepted[bus] = None THEN None ELSE now - accepted[bus]

Accept(bus) ==
    /\ ~TooSoon(bus)
    /\ lastSeen' = Evict(Put(bus))
    /\ accepted' = [accepted EXCEPT ![bus] = now]
    /\ answer' = [bus |-> bus, since |-> Since(bus), known |-> Places(bus) # {},
                  status |-> "next"]
    /\ UNCHANGED now

\* ApiError.badRequest
Reject(bus) ==
    /\ TooSoon(bus)
    /\ answer' = [bus |-> bus, since |-> Since(bus), known |-> Places(bus) # {},
                  status |-> "400"]
    /\ UNCHANGED <<lastSeen, now, accepted>>

Tick ==
    /\ now < MaxTime
    /\ now' = now + 1
    /\ UNCHANGED <<lastSeen, accepted, answer>>

\* A new process starts with an empty Map; the buses go on sending.
Restart ==
    /\ lastSeen' = <<>>
    /\ UNCHANGED <<now, accepted, answer>>

Next == Tick \/ Restart \/ \E bus \in Buses : Accept(bus) \/ Reject(bus)

Spec == Init /\ [][Next]_vars

-----------------------------------------------------------------------------
\* Properties.

\* A ping is never refused once MIN_INTERVAL_MS have passed since the last one
\* that was let through: refused pings do not push the next slot back, and what
\* eviction or a restart forgets only lets more through.
NeverTooStrict ==
    answer.status = "400" => answer.since # None /\ answer.since < MinInterval

\* A ping comes through early only after a restart, or when pings of other buses
\* pushed its bus out of a full Map (which happens to the bus that was seen first,
\* not to the one heard of least recently).
EarlyOnlyIfForgotten ==
    answer.status = "next" /\ answer.known => answer.since >= MinInterval

\* What is let through keeps the pace, and what keeps the pace is let through.
PaceKept == NeverTooStrict /\ EarlyOnlyIfForgotten

=============================================================================
