----------------------- MODULE GpsRateLimit_proofs --------------------------
(***************************************************************************)
(* Proofs about GpsRateLimit, for any number of buses, any size of the     *)
(* Map and any interval: the Map stays a map within its bound, and the     *)
(* limiter keeps the pace, neither too strict nor too lax.                 *)
(***************************************************************************)
EXTENDS GpsRateLimit, SequenceTheorems, TLAPS

\* A sequence of entries that is a map: no bus has two of them.
IsMap(map) == \A i, j \in DOMAIN map : map[i].bus = map[j].bus => i = j

\* What an entry says is when its bus was last let through, and no later than now.
Remembers(map, times) ==
    \A i \in DOMAIN map : /\ times[map[i].bus] = map[i].at
                          /\ map[i].at <= now

\* Setting a key writes the entry of its bus, or a new one at the end.
LEMMA PutKeeps ==
    ASSUME TypeOK, NEW bus \in Buses
    PROVE  /\ Put(bus) \in Seq(Entry) /\ IsMap(Put(bus)) /\ Len(Put(bus)) <= MaxKeys + 1
           /\ \A i \in DOMAIN Put(bus) :
                \/ Put(bus)[i] = [bus |-> bus, at |-> now]
                \/ /\ i \in DOMAIN lastSeen /\ Put(bus)[i] = lastSeen[i]
                   /\ lastSeen[i].bus # bus
<1> DEFINE new == [bus |-> bus, at |-> now]
<1>0. /\ new \in Entry /\ new.bus = bus /\ Len(lastSeen) \in Nat
      /\ DOMAIN lastSeen = 1..Len(lastSeen) /\ MaxKeys \in Nat
      /\ lastSeen \in Seq(Entry) /\ Len(lastSeen) <= MaxKeys
      /\ \A i, j \in DOMAIN lastSeen : lastSeen[i].bus = lastSeen[j].bus => i = j
  BY LimitAssumption DEF TypeOK, Entry
<1>1. CASE Places(bus) = {}
  <2>1. Put(bus) = Append(lastSeen, new)
    BY <1>1 DEF Put
  <2>2. \A i \in DOMAIN lastSeen : lastSeen[i].bus # bus
    BY <1>1 DEF Places
  <2> HIDE DEF new
  <2>3. /\ Append(lastSeen, new) \in Seq(Entry)
        /\ Len(Append(lastSeen, new)) = Len(lastSeen) + 1
        /\ \A i \in 1..Len(lastSeen) : Append(lastSeen, new)[i] = lastSeen[i]
        /\ Append(lastSeen, new)[Len(lastSeen) + 1] = new
    BY <1>0, AppendProperties
  <2>4. DOMAIN Append(lastSeen, new) = 1 .. Len(lastSeen) + 1
    BY <2>3, LenProperties
  <2>5. IsMap(Append(lastSeen, new))
    BY <1>0, <2>2, <2>3, <2>4 DEF IsMap
  <2>6. \A i \in DOMAIN Append(lastSeen, new) :
          \/ Append(lastSeen, new)[i] = new
          \/ i \in DOMAIN lastSeen /\ Append(lastSeen, new)[i] = lastSeen[i]
    BY <1>0, <2>3, <2>4
  <2>7. QED
    BY <1>0, <2>1, <2>2, <2>3, <2>5, <2>6 DEF new
<1>2. CASE Places(bus) # {}
  <2> DEFINE map == [i \in DOMAIN lastSeen |-> IF i \in Places(bus) THEN new ELSE lastSeen[i]]
  <2>1. Put(bus) = map
    BY <1>2 DEF Put
  <2>2. \A i \in DOMAIN lastSeen : i \in Places(bus) <=> lastSeen[i].bus = bus
    BY DEF Places
  <2> HIDE DEF new
  <2>3. /\ map \in [1..Len(lastSeen) -> Entry]
        /\ DOMAIN map = DOMAIN lastSeen
        /\ \A i \in DOMAIN lastSeen : map[i].bus = lastSeen[i].bus
    BY <1>0, <2>2
  <2>4. map \in Seq(Entry) /\ Len(map) = Len(lastSeen)
    BY <1>0, <2>3, SeqDef, LenProperties
  <2>5. IsMap(map)
    BY <1>0, <2>3 DEF IsMap
  <2>6. \A i \in DOMAIN map :
          \/ map[i] = new
          \/ i \in DOMAIN lastSeen /\ map[i] = lastSeen[i] /\ lastSeen[i].bus # bus
    BY <2>2
  <2> HIDE DEF map
  <2>7. QED
    BY <1>0, <2>1, <2>4, <2>5, <2>6 DEF new
<1>3. QED
  BY <1>1, <1>2

\* Eviction drops entries at the front and changes none.
LEMMA EvictKeeps ==
    ASSUME NEW map \in Seq(Entry), IsMap(map), Len(map) <= MaxKeys + 1
    PROVE  /\ Evict(map) \in Seq(Entry) /\ IsMap(Evict(map)) /\ Len(Evict(map)) <= MaxKeys
           /\ \A i \in DOMAIN Evict(map) :
                \E j \in DOMAIN map : Evict(map)[i] = map[j]
<1>0. Len(map) \in Nat /\ DOMAIN map = 1..Len(map) /\ MaxKeys \in Nat \ {0}
  BY LenProperties, LimitAssumption
<1>1. CASE Len(map) <= MaxKeys
  BY <1>1 DEF Evict
<1>2. CASE ~(Len(map) <= MaxKeys)
  <2> DEFINE rest == SubSeq(map, 2, Len(map))
  <2>1. Len(map) = MaxKeys + 1
    <3> DEFINE n == Len(map)
    <3>1. n \in Nat /\ n <= MaxKeys + 1 /\ ~(n <= MaxKeys)
      BY <1>0, <1>2
    <3> HIDE DEF n
    <3>2. n = MaxKeys + 1
      BY <1>0, <3>1
    <3>3. QED
      BY <3>2 DEF n
  <2>2. Evict(map) = rest
    BY <1>0, <1>2, <2>1 DEF Evict
  <2>3. /\ rest \in Seq(Entry) /\ Len(rest) = MaxKeys
        /\ \A i \in 1..MaxKeys : rest[i] = map[i + 1]
    BY <1>0, <2>1, SubSeqProperties
  <2>4. DOMAIN rest = 1..MaxKeys
    BY <2>3, LenProperties
  <2> HIDE DEF rest
  <2>5. \A i \in 1..MaxKeys : i + 1 \in DOMAIN map
    BY <1>0, <2>1
  <2>6. IsMap(rest)
    <3> SUFFICES ASSUME NEW i \in 1..MaxKeys, NEW j \in 1..MaxKeys, rest[i].bus = rest[j].bus
                 PROVE  i = j
      BY <2>4 DEF IsMap
    <3>1. map[i + 1].bus = map[j + 1].bus
      BY <2>3
    <3>2. i + 1 = j + 1
      BY <2>5, <3>1 DEF IsMap
    <3>3. QED
      BY <1>0, <3>2
  <2>7. QED
    BY <1>0, <2>2, <2>3, <2>4, <2>5, <2>6
<1>3. QED
  BY <1>1, <1>2

\* The invariant: what the Map says is true, and so was the last answer.
PaceInv ==
    /\ Remembers(lastSeen, accepted)
    /\ \A b \in Buses : accepted[b] # None => accepted[b] <= now
    /\ PaceKept

\* Types and pace are kept by every step.
LEMMA PaceInvariant == Spec => [](TypeOK /\ PaceInv)
<1>1. Init => TypeOK /\ PaceInv
  <2> SUFFICES ASSUME Init PROVE TypeOK /\ PaceInv
    OBVIOUS
  <2>1. lastSeen \in Seq(Entry) /\ Len(lastSeen) = 0 /\ DOMAIN lastSeen = {}
    BY EmptySeq DEF Init
  <2>2. TypeOK
    BY <2>1, LimitAssumption DEF Init, TypeOK, Times
  <2>3. QED
    BY <2>1, <2>2, LimitAssumption
    DEF Init, PaceInv, Remembers, PaceKept, NeverTooStrict, EarlyOnlyIfForgotten, Quiet
<1>2. TypeOK /\ PaceInv /\ [Next]_vars => TypeOK' /\ PaceInv'
  <2> SUFFICES ASSUME TypeOK, PaceInv, [Next]_vars PROVE TypeOK' /\ PaceInv'
    OBVIOUS
  <2>0. /\ now \in Nat /\ MaxTime \in Nat /\ MinInterval \in Nat /\ None \notin Nat
        /\ \A i \in DOMAIN lastSeen : lastSeen[i].bus \in Buses /\ lastSeen[i].at \in Nat
    <3>1. \A i \in DOMAIN lastSeen : lastSeen[i] \in Entry
      BY ElementOfSeq, LenProperties DEF TypeOK
    <3>2. QED
      BY <3>1, LimitAssumption DEF TypeOK, Times, Entry
  <2>1. CASE Tick
    BY <2>0, <2>1
    DEF Tick, TypeOK, Times, PaceInv, Remembers, PaceKept, NeverTooStrict,
        EarlyOnlyIfForgotten
  <2>2. CASE Restart
    BY <2>2, LimitAssumption
    DEF Restart, TypeOK, PaceInv, Remembers, PaceKept, NeverTooStrict, EarlyOnlyIfForgotten
  <2>3. ASSUME NEW bus \in Buses, Accept(bus) PROVE TypeOK' /\ PaceInv'
    <3>1. /\ lastSeen' = Evict(Put(bus)) /\ accepted' = [accepted EXCEPT ![bus] = now]
          /\ now' = now
      BY <2>3 DEF Accept
    <3>2. /\ lastSeen' \in Seq(Entry) /\ IsMap(lastSeen') /\ Len(lastSeen') <= MaxKeys
          /\ \A i \in DOMAIN lastSeen' : \E j \in DOMAIN Put(bus) : lastSeen'[i] = Put(bus)[j]
      BY <3>1, PutKeeps, EvictKeeps
    <3>3. \A j \in DOMAIN Put(bus) : /\ accepted'[Put(bus)[j].bus] = Put(bus)[j].at
                                     /\ Put(bus)[j].at <= now
      BY <2>0, <3>1, PutKeeps DEF TypeOK, PaceInv, Remembers
    <3>4. Remembers(lastSeen, accepted)'
      BY <3>1, <3>2, <3>3 DEF Remembers
    <3>5. Since(bus) \in Times \cup {None}
      BY <2>0 DEF Since, TypeOK, Times, PaceInv
    <3>6. /\ answer' \in [bus : Buses, since : Times \cup {None}, known : BOOLEAN,
                          status : {"next", "400"}]
          /\ answer'.status = "next" /\ answer'.since = Since(bus)
          /\ answer'.known = (Places(bus) # {})
      BY <2>3, <3>5 DEF Accept
    <3>7. TypeOK'
      BY <2>0, <3>1, <3>2, <3>6 DEF TypeOK, IsMap, Times
    <3>8. Places(bus) # {} => Since(bus) >= MinInterval
      BY <2>0, <2>3 DEF Accept, TooSoon, Places, Since, PaceInv, Remembers
    <3>9. PaceKept'
      BY <3>6, <3>8 DEF PaceKept, NeverTooStrict, EarlyOnlyIfForgotten
    <3>10. \A b \in Buses : accepted'[b] # None => accepted'[b] <= now'
      BY <2>0, <3>1 DEF TypeOK, PaceInv
    <3>11. QED
      BY <3>4, <3>7, <3>9, <3>10 DEF PaceInv
  <2>4. ASSUME NEW bus \in Buses, Reject(bus) PROVE TypeOK' /\ PaceInv'
    <3>1. UNCHANGED <<lastSeen, accepted, now>>
      BY <2>4 DEF Reject
    <3>2. Since(bus) \in Times \cup {None}
      BY <2>0 DEF Since, TypeOK, Times, PaceInv
    <3>3. /\ answer' \in [bus : Buses, since : Times \cup {None}, known : BOOLEAN,
                          status : {"next", "400"}]
          /\ answer'.status = "400" /\ answer'.since = Since(bus)
      BY <2>4, <3>2 DEF Reject
    <3>4. Since(bus) # None /\ Since(bus) < MinInterval
      BY <2>0, <2>4 DEF Reject, TooSoon, Places, Since, PaceInv, Remembers
    <3>5. TypeOK'
      BY <3>1, <3>3 DEF TypeOK
    <3>6. QED
      BY <3>1, <3>3, <3>4, <3>5
      DEF PaceInv, Remembers, PaceKept, NeverTooStrict, EarlyOnlyIfForgotten
  <2>5. CASE UNCHANGED vars
    BY <2>5
    DEF vars, TypeOK, PaceInv, Remembers, PaceKept, NeverTooStrict, EarlyOnlyIfForgotten
  <2>6. QED
    BY <2>1, <2>2, <2>3, <2>4, <2>5 DEF Next
<1>3. QED
  BY <1>1, <1>2, PTL DEF Spec

\* The Map stays within MAX_KEYS, with one entry per bus, whatever the traffic.
THEOREM TypeCorrect == Spec => []TypeOK
  BY PaceInvariant, PTL

\* A ping is refused only within MIN_INTERVAL_MS of the last one let through, and comes
\* through within it only when the Map has forgotten its bus.
THEOREM PaceIsKept == Spec => []PaceKept
<1>1. PaceInv => PaceKept
  BY DEF PaceInv
<1>2. QED
  BY <1>1, PaceInvariant, PTL

=============================================================================
