-------------------------------- MODULE Seed --------------------------------
(***************************************************************************)
(* migrations/seed.js, as POST /dev/seed runs it inside the API: one       *)
(* transaction that makes what it does not find.  It begins with an upsert *)
(* of every role, which makes a second seed wait; nothing else waits for   *)
(* what it finds missing.                                                  *)
(***************************************************************************)
EXTENDS Accounts, Roster

CONSTANTS
    SeedEmail, SeedRole,   \* an account of the demo organizations, and its role
    SeedRoute,             \* the route a demo child is put on
    NoRoute

ASSUME SeedAssumption ==
    SeedEmail \in Emails /\ SeedRole \in Roles /\ SeedRoute \in Routes /\ NoRoute \notin Routes

SeedJob ==
         [at : {"seed.connect", "seed.roles", "seed.users"}, req : Requests]
    \cup [at : {"seed.rows", "seed.commit"}, req : Requests,
          emails : SUBSET Emails, granted : SUBSET (Emails \X Roles),
          bus : BOOLEAN, link : Routes \cup {NoRoute}]

\* seedSafe looks at the schema and hashes the password.
SeedBegin(w) ==
    /\ Arrive(w, [at |-> "seed.connect", req |-> seq + 1])
    /\ UNCHANGED <<accountVars, rosterVars>>

SeedConnect(w) ==
    /\ Connect(w, "seed.connect", "seed.roles")
    /\ UNCHANGED <<accountVars, rosterVars>>

\* Mutant of SeedRoles: roles that exist are left alone (ON CONFLICT DO NOTHING), and
\* nothing makes a second seed wait.
SeedRolesUnlocked(w) ==
    /\ Statement(w, "seed.roles", [job[w] EXCEPT !.at = "seed.users"])
    /\ UNCHANGED <<accountVars, rosterVars>>

\* upsertRole, for every role
SeedRoles(w) ==
    /\ ~Waits(w)
    /\ Statement(w, "seed.roles", [job[w] EXCEPT !.at = "seed.users"])
    /\ UNCHANGED <<accountVars, rosterVars>>

\* ensureUser, which also finds a deleted account
NewAccounts == {e \in {SeedEmail} : users[e] = "none"}

\* grantRole, ON CONFLICT DO NOTHING
NewGrants ==
    {g \in {<<SeedEmail, SeedRole>>} : SeedRole \notin RolesOf(userRoles[SeedEmail])}

SeedUsers(w) ==
    /\ job[w].at = "seed.users" /\ ~Waits(w)
    /\ Statement(w, "seed.users",
         [at |-> "seed.rows", req |-> job[w].req,
          emails |-> NewAccounts, granted |-> NewGrants, bus |-> FALSE, link |-> NoRoute])
    /\ mixed' = IF WritingRoles(w, SeedEmail) THEN mixed \cup {SeedEmail} ELSE mixed
    /\ UNCHANGED <<users, roleRows, userRoles, wish, rosterVars>>

\* ensureBus asks for the plate number as it is spelt here, deleted buses included.
FindsNoBus == Buses["seed"] = 0 /\ ~plate[2]

\* ensureChildRoute asks for any route of the child.
FindsNoLink == \A r \in Routes : links[r] = 0

SeedRows(w) ==
    /\ job[w].at = "seed.rows"
    /\ LET near == FindsNoBus /\ (Buses["other"] > 0 \/ \E v \in Workers : AddsBus(v))
           met  == FindsNoLink /\ \E v \in Workers : AddsLink(v, SeedRoute)
       IN /\ Statement(w, "seed.rows",
               [job[w] EXCEPT !.at = "seed.commit", !.bus = FindsNoBus,
                              !.link = IF FindsNoLink THEN SeedRoute ELSE NoRoute])
          /\ raced' = raced \cup (IF near THEN {"plate"} ELSE {})
                            \cup (IF met THEN {SeedRoute} ELSE {})
    /\ UNCHANGED <<accountVars, plate, links>>

SeedCommit(w) ==
    /\ job[w].at = "seed.commit"
    /\ LET s == job[w]
           granted == {g[2] : g \in s.granted}
       IN /\ users' = [e \in Emails |-> IF e \in s.emails THEN "live" ELSE users[e]]
          /\ roleRows' = Roles
          /\ userRoles' = [userRoles EXCEPT ![SeedEmail] = @ \cup Rows(granted, s.req)]
          /\ wish' = [wish EXCEPT ![SeedEmail] = @ \cup granted]
          /\ plate' = IF s.bus THEN <<[Buses EXCEPT !["seed"] = @ + 1], plate[2]>> ELSE plate
          /\ links' = [r \in Routes |-> links[r] + (IF s.link = r THEN 1 ELSE 0)]
    /\ Release(w, Idle)
    /\ UNCHANGED <<mixed, raced>>

=============================================================================
