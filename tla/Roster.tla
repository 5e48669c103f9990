------------------------------- MODULE Roster -------------------------------
(***************************************************************************)
(* Rows that are looked for and then inserted, without a unique index      *)
(* behind the look: one plate number of busService, compared without       *)
(* regard to case, and the routes of one child of childrenService          *)
(* (child_routes).                                                         *)
(***************************************************************************)
EXTENDS Pool

CONSTANT Routes

VARIABLES
    plate,   \* the live buses with the plate number in the seed's spelling and in others,
             \* and whether a deleted bus has it in the seed's
    links,   \* rows of child_routes of the child, per route
    raced    \* history: what two requests, or a request and a seed, added at a time, and
             \* the plate number when a seed found no bus for the spelling alone

rosterVars == <<plate, links, raced>>

Spellings == {"seed", "other"}

RosterJob ==
         [at : {"bus.insert"}, spelt : Spellings]
    \cup [at : {"link.connect", "link.find", "link.commit"}, route : Routes]

RosterTypeOK ==
    /\ plate \in [Spellings -> Nat] \X BOOLEAN
    /\ links \in [Routes -> Nat]
    /\ raced \subseteq Routes \cup {"plate"}

RosterInit ==
    /\ plate = <<[s \in Spellings |-> 0], FALSE>>
    /\ links = [r \in Routes |-> 0]
    /\ raced = {}

Buses == plate[1]
LiveBuses == Buses["seed"] + Buses["other"]

-----------------------------------------------------------------------------
\* A request has looked, and what it will add is not to be seen yet; or a seed has.
AddsBus(w) == job[w].at = "bus.insert"
AddsLink(w, r) == job[w].at = "link.commit" /\ job[w].route = r
SeedsBus(w) == job[w].at = "seed.commit" /\ job[w].bus
SeedsLink(w, r) == job[w].at = "seed.commit" /\ job[w].link = r

Raced(key, together) == raced' = IF together THEN raced \cup {key} ELSE raced

-----------------------------------------------------------------------------
\* busService.create, and update with a plate number: the look for a live bus that has
\* it; a 409 changes nothing.
BusFind(w) ==
    /\ LiveBuses = 0
    /\ \E s \in Spellings : Arrive(w, [at |-> "bus.insert", spelt |-> s])
    /\ Raced("plate", \E v \in Workers : AddsBus(v) \/ SeedsBus(v))
    /\ UNCHANGED <<plate, links>>

\* The INSERT, or the UPDATE of a bus that had another plate number.
BusInsert(w) ==
    /\ Query(w, "bus.insert", Idle)
    /\ plate' = <<[Buses EXCEPT ![job[w].spelt] = @ + 1], plate[2]>>
    /\ UNCHANGED <<links, raced>>

\* update gives a bus another plate number.
BusRename(s) ==
    /\ Buses[s] > 0 /\ Free
    /\ plate' = <<[Buses EXCEPT ![s] = @ - 1], plate[2]>>
    /\ UNCHANGED <<links, raced, poolVars>>

\* remove, of a bus without active assignments
BusRemove(s) ==
    /\ Buses[s] > 0 /\ Free
    /\ plate' = <<[Buses EXCEPT ![s] = @ - 1], plate[2] \/ s = "seed">>
    /\ UNCHANGED <<links, raced, poolVars>>

-----------------------------------------------------------------------------
\* childrenService.assignRoute: the child, the route and the stops are looked up.
LinkChecks(w) ==
    /\ \E r \in Routes : Arrive(w, [at |-> "link.connect", route |-> r])
    /\ UNCHANGED rosterVars

LinkConnect(w) ==
    /\ Connect(w, "link.connect", "link.find")
    /\ UNCHANGED rosterVars

\* The look for the pair, which aborts with 409, and the INSERT.
LinkFind(w) ==
    /\ job[w].at = "link.find"
    /\ LET r == job[w].route
       IN IF links[r] > 0 THEN Abort(w) /\ UNCHANGED raced
            ELSE /\ Statement(w, "link.find", [job[w] EXCEPT !.at = "link.commit"])
                 /\ Raced(r, \E v \in Workers : AddsLink(v, r) \/ SeedsLink(v, r))
    /\ UNCHANGED <<plate, links>>

LinkCommit(w) ==
    /\ job[w].at = "link.commit"
    /\ links' = [links EXCEPT ![job[w].route] = @ + 1]
    /\ Release(w, Idle)
    /\ UNCHANGED <<plate, raced>>

\* unassignRoute, which both routers end in, deletes one row.
Unlink(r) ==
    /\ links[r] > 0 /\ Free
    /\ links' = [links EXCEPT ![r] = @ - 1]
    /\ UNCHANGED <<plate, raced, poolVars>>

=============================================================================
