--------------------------- MODULE Office_proofs ----------------------------
(***************************************************************************)
(* Proofs about Office, for any number of requests, connections, accounts, *)
(* roles and routes: the types, that accounts keep roles somebody wanted   *)
(* for them, and that doubles come only from races.                        *)
(***************************************************************************)
EXTENDS Office, FiniteSetTheorems, TLAPS

-----------------------------------------------------------------------------
\* The requests, by their steps.

Short == [at : {"create.connect", "create.insert", "create.roles", "create.readback",
                "register.connect", "register.insert", "register.role", "register.commit",
                "update.connect", "update.snapshot"},
          req : Requests, email : Emails, roles : SUBSET Roles]
Long == [at : {"update.delete", "update.insert", "update.commit"},
         req : Requests, email : Emails, roles : SUBSET Roles,
         gone : SUBSET (Roles \X Requests)]
Last == [at : {"answer"}]
BusJob == [at : {"bus.insert"}, spelt : Spellings]
LinkJob == [at : {"link.connect", "link.find", "link.commit"}, route : Routes]
SeedShort == [at : {"seed.connect", "seed.roles", "seed.users"}, req : Requests]
SeedLong == [at : {"seed.rows", "seed.commit"}, req : Requests,
             emails : SUBSET Emails, granted : SUBSET (Emails \X Roles),
             bus : BOOLEAN, link : Routes \cup {NoRoute}]

Jobs == {Idle} \cup AccountJob \cup RosterJob \cup SeedJob

Updates == {"update.connect", "update.snapshot", "update.delete", "update.insert",
            "update.commit"}
Seeding == {"seed.users", "seed.rows", "seed.commit"}

\* The steps in which a request has a transaction open.
Inside ==
    {"create.insert", "create.roles", "create.readback",
     "register.insert", "register.role", "register.commit",
     "update.snapshot", "update.delete", "update.insert", "update.commit",
     "link.find", "link.commit", "seed.roles", "seed.users", "seed.rows", "seed.commit"}

\* A step has its fields.
LEMMA JobFields ==
    ASSUME NEW j \in Jobs
    PROVE  /\ j.at \in {"create.connect", "create.insert", "create.roles", "create.readback",
                        "register.connect", "register.insert", "register.role",
                        "register.commit", "update.connect", "update.snapshot"} => j \in Short
           /\ j.at \in {"update.delete", "update.insert", "update.commit"} => j \in Long
           /\ j.at = "bus.insert" => j \in BusJob
           /\ j.at \in {"link.connect", "link.find", "link.commit"} => j \in LinkJob
           /\ j.at \in {"seed.connect", "seed.roles", "seed.users"} => j \in SeedShort
           /\ j.at \in {"seed.rows", "seed.commit"} => j \in SeedLong
           /\ j.at = "idle" => j = Idle
  BY DEF Jobs, AccountJob, RosterJob, SeedJob, Idle, Short, Long, BusJob, LinkJob,
         SeedShort, SeedLong

\* Every kind of step is one of a request.
LEMMA KindsOf ==
    /\ Idle \in Jobs /\ Short \subseteq Jobs /\ Long \subseteq Jobs /\ Last \subseteq Jobs
    /\ BusJob \subseteq Jobs /\ LinkJob \subseteq Jobs /\ SeedShort \subseteq Jobs
    /\ SeedLong \subseteq Jobs
  BY DEF Jobs, AccountJob, RosterJob, SeedJob, Short, Long, Last, BusJob, LinkJob,
         SeedShort, SeedLong

-----------------------------------------------------------------------------
\* What a request, at its step, has written and is about to.

\* Inserted, and whether it writes roles of an account, as operators of the step.
InsertedBy(j) ==
    IF j.at \in {"create.roles", "create.readback", "register.role", "register.commit"}
      THEN {j.email}
      ELSE IF j.at \in {"seed.rows", "seed.commit"} THEN j.emails ELSE {}

Updating(j, e) == j.at \in Updates /\ j.email = e

Granting(j, e) ==
    \/ j.at \in {"create.readback", "register.commit"} /\ j.email = e
    \/ j.at \in {"seed.rows", "seed.commit"} /\ j.granted # {} /\ e = SeedEmail

AddingBus(j) == j.at = "bus.insert" \/ (j.at = "seed.commit" /\ j.bus)

AddingLink(j, r) ==
    \/ j.at = "link.commit" /\ j.route = r
    \/ j.at = "seed.commit" /\ j.link = r

\* What a request knows.  An account it updates has a row, one it has inserted has not; and
\* unless two requests write the roles of the account, those an update has found are there.
\* The seed grants its role to an account it makes.
JobOK(j) ==
    /\ j \in Short \cup Long => j.roles # {}
    /\ j.at \in Updates => users[j.email] # "none"
    /\ j \in Long /\ j.email \notin mixed => j.gone = userRoles[j.email]
    /\ \A e \in InsertedBy(j) : users[e] = "none"
    /\ j \in SeedLong =>
        /\ j.emails \subseteq {SeedEmail} /\ j.granted \subseteq {<<SeedEmail, SeedRole>>}
        /\ SeedEmail \in j.emails => j.granted # {}
        /\ SeedEmail \in j.emails \/ users[SeedEmail] # "none"
    /\ AddingBus(j) => LiveBuses = 0 \/ "plate" \in raced
    /\ \A r \in Routes : AddingLink(j, r) => links[r] = 0 \/ r \in raced

\* What two requests do not both do: insert one account; update its roles while the other
\* writes them; seed; add a bus or a link, unless they are known to race.
Apart(j, k) ==
    /\ InsertedBy(j) \cap InsertedBy(k) = {}
    /\ \A e \in Emails \ mixed : Updating(j, e) => ~Updating(k, e) /\ ~Granting(k, e)
    /\ ~(j.at \in Seeding /\ k.at \in Seeding)
    /\ AddingBus(j) /\ AddingBus(k) => "plate" \in raced
    /\ \A r \in Routes : AddingLink(j, r) /\ AddingLink(k, r) => r \in raced

JobsInv ==
    \A w \in Workers :
        JobOK(job[w]) /\ \A v \in Workers \ {w} : Apart(job[w], job[v]) /\ Apart(job[v], job[w])

\* A connection belongs to a transaction.
ConnInv == IsFiniteSet(conn) /\ \A w \in conn : job[w].at \in Inside

DataInv ==
    /\ RolesKept /\ DoublesOnlyInRace
    /\ \A e \in Emails : users[e] = "none" => userRoles[e] = {}

Inv == TypeOK /\ ConnInv /\ JobsInv /\ DataInv

-----------------------------------------------------------------------------
\* One request goes on.

\* What its step makes of the connections.
ConnStep(w, k) ==
    \/ conn' = conn \cup {w} /\ Free /\ k.at \in Inside
    \/ conn' = conn \ {w}
    \/ conn' = conn /\ (w \in conn => k.at \in Inside)

\* Whatever the data become, the requests and their connections are in order if this one
\* is, alone and with the others, and the others still know what they knew.
LEMMA Moves ==
    ASSUME TypeOK, ConnInv, JobsInv, NEW w \in Workers, NEW k \in Jobs,
           job' = [job EXCEPT ![w] = k], ConnStep(w, k), seq' \in 0..MaxRequests,
           AccountsTypeOK', RosterTypeOK',
           mixed \subseteq mixed', raced \subseteq raced',
           JobOK(k)', \A v \in Workers \ {w} : \A q : q = job[v] => JobOK(q)',
           \A v \in Workers \ {w} : \A q : q = job[v] => (Apart(k, q) /\ Apart(q, k))'
    PROVE  TypeOK' /\ ConnInv' /\ JobsInv'
<1>1. /\ job \in [Workers -> Jobs] /\ job' \in [Workers -> Jobs] /\ job'[w] = k
      /\ \A v \in Workers \ {w} : job'[v] = job[v]
  BY DEF TypeOK, Jobs
<1>2. conn \subseteq Workers /\ Cardinality(conn) <= PoolMax /\ IsFiniteSet(conn)
  BY DEF TypeOK, ConnInv
<1>3. conn' \subseteq Workers /\ IsFiniteSet(conn') /\ Cardinality(conn') <= PoolMax
  <2>1. Cardinality(conn) \in Nat /\ PoolMax \in Nat
    BY <1>2, FS_CardinalityType, PoolAssumption
  <2>2. CASE conn' = conn \cup {w} /\ Free
    <3>1. /\ IsFiniteSet(conn \cup {w})
          /\ Cardinality(conn \cup {w}) = IF w \in conn THEN Cardinality(conn)
                                                      ELSE Cardinality(conn) + 1
      BY <1>2, FS_AddElement
    <3>2. Cardinality(conn) + 1 <= PoolMax
      BY <2>1, <2>2 DEF Free
    <3>3. QED
      BY <1>2, <2>1, <2>2, <3>1, <3>2
  <2>3. CASE conn' = conn \ {w}
    BY <1>2, <2>1, <2>3, FS_RemoveElement
  <2>4. CASE conn' = conn
    BY <1>2, <2>4
  <2>5. QED
    BY <2>2, <2>3, <2>4 DEF ConnStep
<1>4. ConnInv'
  BY <1>1, <1>2, <1>3 DEF ConnInv, ConnStep
<1>5. conn' \subseteq {v \in Workers : job'[v] # Idle}
  BY <1>3, <1>4 DEF ConnInv, Inside, Idle
<1>6. TypeOK'
  BY <1>1, <1>3, <1>5 DEF TypeOK, Jobs
<1>7. JobsInv'
  <2> SUFFICES ASSUME NEW v \in Workers
               PROVE  /\ JobOK(job[v])'
                      /\ \A u \in Workers \ {v} : (Apart(job[v], job[u]) /\ Apart(job[u], job[v]))'
    BY DEF JobsInv
  <2>1. PICK q : q = job'[v]
    OBVIOUS
  <2>2. JobOK(q)'
    BY <1>1, <2>1
  <2>3. JobOK(job[v])'
    BY <2>1, <2>2 DEF JobOK
  <2>4. ASSUME NEW u \in Workers \ {v}
        PROVE  (Apart(job[v], job[u]) /\ Apart(job[u], job[v]))'
    <3>1. PICK p : p = job'[u]
      OBVIOUS
    <3>2. (Apart(p, q) /\ Apart(q, p))'
      <4>1. CASE v = w \/ u = w
        BY <1>1, <2>1, <3>1, <4>1
      <4>2. CASE v # w /\ u # w
        <5>1. Apart(p, q) /\ Apart(q, p)
          BY <1>1, <2>1, <3>1, <4>2 DEF JobsInv
        <5>2. QED
          BY <5>1 DEF Apart
      <4>3. QED
        BY <4>1, <4>2
    <3>3. QED
      BY <2>1, <3>1, <3>2 DEF Apart
  <2>5. QED
    BY <2>3, <2>4
<1>8. QED
  BY <1>4, <1>6, <1>7

\* The data stay as they are, but for what is noted of races.
LEMMA OnlyJob ==
    ASSUME Inv, NEW w \in Workers, NEW k \in Jobs,
           job' = [job EXCEPT ![w] = k], ConnStep(w, k), seq' \in 0..MaxRequests,
           UNCHANGED <<users, roleRows, userRoles, wish, plate, links>>,
           mixed \subseteq mixed', mixed' \subseteq Emails,
           raced \subseteq raced', raced' \subseteq Routes \cup {"plate"},
           JobOK(k)', \A v \in Workers \ {w} : \A q : q = job[v] => (Apart(k, q) /\ Apart(q, k))'
    PROVE  Inv'
<1>1. AccountsTypeOK' /\ RosterTypeOK'
  BY DEF Inv, TypeOK, AccountsTypeOK, RosterTypeOK
<1>2. \A q : JobOK(q) => JobOK(q)'
  BY DEF JobOK, LiveBuses, Buses
<1>3. \A v \in Workers \ {w} : \A q : q = job[v] => JobOK(q)'
  BY <1>2 DEF Inv, JobsInv
<1>4. DataInv'
  BY DEF Inv, DataInv, RolesKept, AccountsHaveRoles, RolesAsWished, DoublesOnlyInRace,
         LiveBuses, Buses
<1>5. QED
  BY <1>1, <1>3, <1>4, Moves DEF Inv

\* A request that claims no more than before stays apart from the others; it may write the
\* roles of an account it has inserted, and seed when nobody else does.
LEMMA GoesOn ==
    ASSUME Inv, NEW w \in Workers, NEW old \in Jobs, old = job[w], NEW k \in Jobs,
           job' = [job EXCEPT ![w] = k], ConnStep(w, k), seq' \in 0..MaxRequests,
           UNCHANGED <<accountVars, rosterVars>>,
           JobOK(k), InsertedBy(k) \subseteq InsertedBy(old),
           \A e : Updating(k, e) => Updating(old, e),
           \A e : Granting(k, e) => Granting(old, e) \/ e \in InsertedBy(k),
           k.at \in Seeding =>
               old.at \in Seeding \/ \A v \in Workers \ {w} : job[v].at \notin Seeding,
           AddingBus(k) => AddingBus(old), \A r : AddingLink(k, r) => AddingLink(old, r)
    PROVE  Inv'
<1>1. ASSUME NEW q, Apart(old, q), Apart(q, old), JobOK(q),
             k.at \in Seeding => old.at \in Seeding \/ q.at \notin Seeding
      PROVE  Apart(k, q) /\ Apart(q, k)
  <2>1. \A e : e \in InsertedBy(k) => ~Updating(q, e)
    BY <1>1 DEF JobOK, Updating
  <2>2. \A e : Updating(k, e) => e \notin InsertedBy(k)
    BY DEF JobOK, Updating
  <2>3. QED
    BY <1>1, <2>1, <2>2 DEF Apart
<1>2. \A v \in Workers \ {w} : \A q : q = job[v] => Apart(k, q) /\ Apart(q, k)
  BY <1>1 DEF Inv, JobsInv
<1>3. JobOK(k)'
  BY DEF JobOK, LiveBuses, Buses, accountVars, rosterVars
<1>4. \A p, q : Apart(p, q) => Apart(p, q)'
  BY DEF Apart, accountVars, rosterVars
<1>5. mixed \subseteq Emails /\ raced \subseteq Routes \cup {"plate"}
  BY DEF Inv, TypeOK, AccountsTypeOK, RosterTypeOK
<1>6. QED
  BY <1>2, <1>3, <1>4, <1>5, OnlyJob DEF accountVars, rosterVars

\* A request that ends, or has only to answer, claims nothing.
LEMMA Ends ==
    ASSUME Inv, NEW w \in Workers, NEW k \in {Idle} \cup Last,
           job' = [job EXCEPT ![w] = k], conn' = conn \ {w} \/ (conn' = conn /\ w \notin conn),
           seq' = seq, UNCHANGED <<accountVars, rosterVars>>
    PROVE  Inv'
<1>1. PICK old \in Jobs : old = job[w]
  BY DEF Inv, TypeOK, Jobs
<1>2. k \in Jobs /\ k.at \in {"idle", "answer"} /\ k \notin Short \cup Long \cup SeedLong
  BY KindsOf DEF Idle, Last, Short, Long, SeedLong
<1>3. /\ JobOK(k) /\ InsertedBy(k) = {} /\ \A e : ~Updating(k, e) /\ ~Granting(k, e)
      /\ k.at \notin Seeding /\ ~AddingBus(k) /\ \A r : ~AddingLink(k, r)
  BY <1>2 DEF JobOK, InsertedBy, Updating, Updates, Granting, Seeding, AddingBus, AddingLink
<1>4. ConnStep(w, k) /\ seq' \in 0..MaxRequests
  BY DEF ConnStep, Inv, TypeOK
<1>5. QED
  BY <1>1, <1>2, <1>3, <1>4, GoesOn

\* A request that ends with an error.
LEMMA AbortStep ==
    ASSUME Inv, NEW w \in Workers, Abort(w), UNCHANGED <<accountVars, rosterVars>>
    PROVE  Inv'
  BY Ends DEF Abort, Release

\* A worker outside a transaction has no connection.
LEMMA NoConn ==
    ASSUME Inv, NEW w \in Workers, job[w].at \notin Inside
    PROVE  w \notin conn
  BY DEF Inv, ConnInv

\* A request that arrives.
LEMMA Arrives ==
    ASSUME Inv, NEW w \in Workers, NEW k \in Jobs, Arrive(w, k)
    PROVE  /\ job' = [job EXCEPT ![w] = k] /\ ConnStep(w, k)
           /\ seq' \in 0..MaxRequests /\ seq + 1 \in Requests
<1>1. w \notin conn
  BY NoConn DEF Arrive, Idle, Inside
<1>2. QED
  BY <1>1, PoolAssumption DEF Arrive, ConnStep, Inv, TypeOK, Requests

\* A step of an account's chain leads to the next.
LEMMA ShortTo ==
    ASSUME NEW old \in Short,
           NEW to \in {"create.connect", "create.insert", "create.roles", "create.readback",
                "register.connect", "register.insert", "register.role", "register.commit",
                "update.connect", "update.snapshot"},
           NEW k, k = [old EXCEPT !.at = to]
    PROVE  /\ k \in Short /\ k \in Jobs /\ k \notin Long /\ k \notin SeedLong /\ k.at = to
           /\ k.req = old.req /\ k.email = old.email /\ k.roles = old.roles
<1>1. k \in Short /\ k.at = to /\ k.req = old.req /\ k.email = old.email /\ k.roles = old.roles
  BY DEF Short
<1>2. k \notin Long /\ k \notin SeedLong
  BY <1>1 DEF Long, SeedLong
<1>3. QED
  BY <1>1, <1>2, KindsOf

-----------------------------------------------------------------------------
\* Accounts.

\* The first steps of an account's chain claim nothing, but for an update.
LEMMA AccountConnectStep ==
    ASSUME Inv, NEW w \in Workers, UNCHANGED rosterVars,
           CreateConnect(w) \/ RegisterConnect(w) \/ UpdateConnect(w)
    PROVE  Inv'
<1>1. PICK old \in Short : old = job[w]
  BY JobFields DEF Inv, TypeOK, Jobs, CreateConnect, RegisterConnect, UpdateConnect, Connect
<1>2. PICK to \in {"create.insert", "register.insert", "update.snapshot"} :
        /\ job' = [job EXCEPT ![w].at = to] /\ conn' = conn \cup {w} /\ Free /\ seq' = seq
        /\ to = "update.snapshot" <=> old.at = "update.connect"
        /\ UNCHANGED accountVars
  BY <1>1 DEF CreateConnect, RegisterConnect, UpdateConnect, Connect
<1>3. PICK k : k = [old EXCEPT !.at = to]
  OBVIOUS
<1>4. /\ k \in Short /\ k \in Jobs /\ k \notin Long /\ k \notin SeedLong /\ k.at = to
      /\ k.req = old.req /\ k.email = old.email /\ k.roles = old.roles
  BY <1>3, ShortTo
<1>5. job' = [job EXCEPT ![w] = k] /\ ConnStep(w, k) /\ seq' \in 0..MaxRequests
  BY <1>1, <1>2, <1>3, <1>4 DEF ConnStep, Inside, Inv, TypeOK
<1>6. JobOK(old)
  BY <1>1 DEF Inv, JobsInv
<1>7. JobOK(k)
  BY <1>2, <1>4, <1>6 DEF JobOK, InsertedBy, AddingBus, AddingLink, Updates
<1>8. /\ InsertedBy(k) = {} /\ \A e : ~Granting(k, e)
      /\ k.at \notin Seeding /\ ~AddingBus(k) /\ \A r : ~AddingLink(k, r)
      /\ \A e : Updating(k, e) => Updating(old, e)
  BY <1>2, <1>4 DEF InsertedBy, Granting, Seeding, AddingBus, AddingLink, Updating, Updates
<1>9. QED
  BY <1>1, <1>2, <1>4, <1>5, <1>7, <1>8, GoesOn, KindsOf

\* createUser, registerOrgAndAdmin and registerParent have found no account.
LEMMA AccountFindStep ==
    ASSUME Inv, NEW w \in Workers, UNCHANGED rosterVars, CreateFind(w) \/ RegisterFind(w)
    PROVE  Inv'
<1>1. PICK e \in Emails, roles \in (SUBSET Roles) \ {{}},
           at \in {"create.connect", "register.connect"} :
        Arrive(w, [at |-> at, req |-> seq + 1, email |-> e, roles |-> roles])
  <2>1. CASE CreateFind(w)
    BY <2>1 DEF CreateFind
  <2>2. CASE RegisterFind(w)
    <3>1. PICK e \in Emails, r \in {"admin", "parent"} :
            Arrive(w, [at |-> "register.connect", req |-> seq + 1, email |-> e, roles |-> {r}])
      BY <2>2 DEF RegisterFind
    <3>2. {r} \in (SUBSET Roles) \ {{}}
      BY RolesAssumption
    <3>3. QED
      BY <3>1, <3>2
  <2>3. QED
    BY <2>1, <2>2
<1>2. PICK k : k = [at |-> at, req |-> seq + 1, email |-> e, roles |-> roles]
  OBVIOUS
<1>3. seq + 1 \in Requests
  BY <1>1, PoolAssumption DEF Arrive, Inv, TypeOK, Requests
<1>4. /\ k \in Short /\ k \notin Long /\ k \notin SeedLong /\ k.at = at /\ k.roles # {}
      /\ k \in Jobs
  <2>1. k \in Short /\ k.at = at /\ k.roles # {}
    BY <1>2, <1>3 DEF Short
  <2>2. k \notin Long /\ k \notin SeedLong
    BY <2>1 DEF Long, SeedLong
  <2>3. QED
    BY <2>1, <2>2, KindsOf
<1>5. job' = [job EXCEPT ![w] = k] /\ ConnStep(w, k) /\ seq' \in 0..MaxRequests
  BY <1>1, <1>2, <1>4, Arrives
<1>6. /\ JobOK(k) /\ InsertedBy(k) = {} /\ \A x : ~Granting(k, x) /\ ~Updating(k, x)
      /\ k.at \notin Seeding /\ ~AddingBus(k) /\ \A r : ~AddingLink(k, r)
  BY <1>4 DEF JobOK, InsertedBy, Granting, Seeding, AddingBus, AddingLink, Updating, Updates
<1>7. UNCHANGED accountVars /\ job[w] \in Jobs
  BY DEF CreateFind, RegisterFind, Inv, TypeOK, Jobs
<1>8. QED
  BY <1>4, <1>5, <1>6, <1>7, GoesOn

\* Inserted and Granted, in the terms of these proofs.
LEMMA InsertedOf ==
    \A v \in Workers : Inserted(v) = InsertedBy(job[v])
  BY DEF Inserted, InsertedBy, At

\* The row of users is inserted, by one request at a time.
LEMMA AccountInsertStep ==
    ASSUME Inv, NEW w \in Workers, UNCHANGED rosterVars, CreateInsert(w) \/ RegisterInsert(w)
    PROVE  Inv'
<1>1. PICK old \in Short : old = job[w]
  BY JobFields DEF Inv, TypeOK, Jobs, CreateInsert, RegisterInsert
<1>2. UNCHANGED accountVars /\ ~Waits(w)
  BY DEF CreateInsert, RegisterInsert
<1>3. CASE Abort(w)
  BY <1>2, <1>3, AbortStep
<1>4. CASE ~Abort(w)
  <2>1. PICK to \in {"create.roles", "register.role"} :
          /\ users[old.email] = "none" /\ w \in conn
          /\ job' = [job EXCEPT ![w] = [old EXCEPT !.at = to]] /\ conn' = conn /\ seq' = seq
    BY <1>1, <1>4 DEF CreateInsert, RegisterInsert, Statement
  <2>2. PICK k : k = [old EXCEPT !.at = to]
    OBVIOUS
  <2>3. /\ k \in Short /\ k \in Jobs /\ k \notin Long /\ k \notin SeedLong /\ k.at = to
        /\ k.req = old.req /\ k.email = old.email /\ k.roles = old.roles
    BY <2>2, ShortTo
  <2>4. job' = [job EXCEPT ![w] = k] /\ ConnStep(w, k) /\ seq' \in 0..MaxRequests
    BY <2>1, <2>2, <2>3 DEF ConnStep, Inside, Inv, TypeOK
  <2>5. JobOK(k)
    <3>1. JobOK(old)
      BY <1>1 DEF Inv, JobsInv
    <3>2. QED
      BY <2>1, <2>3, <3>1 DEF JobOK, InsertedBy, AddingBus, AddingLink, Updates
  <2>6. ASSUME NEW v \in Workers \ {w}, NEW q, q = job[v] PROVE Apart(k, q) /\ Apart(q, k)
    <3>1. old.email \notin InsertedBy(q)
      BY <1>1, <1>2, <2>1, <2>6, InsertedOf DEF CreateInsert, RegisterInsert, Waits, Blocks
    <3>2. /\ InsertedBy(k) = {old.email} /\ \A e : ~Updating(k, e) /\ ~Granting(k, e)
          /\ k.at \notin Seeding /\ ~AddingBus(k) /\ \A r : ~AddingLink(k, r)
      BY <2>3 DEF InsertedBy, Updating, Updates, Granting, Seeding, AddingBus, AddingLink
    <3>3. QED
      BY <3>1, <3>2 DEF Apart
  <2>7. JobOK(k)' /\ \A p, q : Apart(p, q) => Apart(p, q)'
    BY <1>2, <2>5 DEF JobOK, Apart, LiveBuses, Buses, accountVars, rosterVars
  <2>8. mixed \subseteq Emails /\ raced \subseteq Routes \cup {"plate"}
    BY DEF Inv, TypeOK, AccountsTypeOK, RosterTypeOK
  <2>9. QED
    BY <1>2, <2>3, <2>4, <2>6, <2>7, <2>8, OnlyJob DEF accountVars, rosterVars
<1>5. QED
  BY <1>3, <1>4

\* createUser inserts the rows of user_roles, a registration upserts the role first.
LEMMA AccountRolesStep ==
    ASSUME Inv, NEW w \in Workers, UNCHANGED rosterVars, CreateRoles(w) \/ RegisterRole(w)
    PROVE  Inv'
<1>1. PICK old \in Short : old = job[w]
  BY JobFields DEF Inv, TypeOK, Jobs, CreateRoles, RegisterRole, Statement
<1>2. UNCHANGED accountVars
  BY DEF CreateRoles, RegisterRole
<1>3. CASE Abort(w)
  BY <1>2, <1>3, AbortStep
<1>4. CASE ~Abort(w)
  <2>1. PICK to \in {"create.readback", "register.commit"} :
          /\ w \in conn /\ old.at \in {"create.roles", "register.role"}
          /\ job' = [job EXCEPT ![w] = [old EXCEPT !.at = to]] /\ conn' = conn /\ seq' = seq
    BY <1>1, <1>4 DEF CreateRoles, RegisterRole, Statement
  <2>2. PICK k : k = [old EXCEPT !.at = to]
    OBVIOUS
  <2>3. /\ k \in Short /\ k \in Jobs /\ k \notin Long /\ k \notin SeedLong /\ k.at = to
        /\ k.req = old.req /\ k.email = old.email /\ k.roles = old.roles
    BY <2>2, ShortTo
  <2>4. job' = [job EXCEPT ![w] = k] /\ ConnStep(w, k) /\ seq' \in 0..MaxRequests
    BY <2>1, <2>2, <2>3 DEF ConnStep, Inside, Inv, TypeOK
  <2>5. InsertedBy(k) = {old.email} /\ InsertedBy(old) = {old.email}
    BY <2>1, <2>3 DEF InsertedBy
  <2>6. JobOK(k)
    <3>1. JobOK(old)
      BY <1>1 DEF Inv, JobsInv
    <3>2. QED
      BY <2>3, <2>5, <3>1 DEF JobOK, AddingBus, AddingLink, Updates
  <2>7. /\ \A e : ~Updating(k, e) /\ (Granting(k, e) => e \in InsertedBy(k))
        /\ k.at \notin Seeding /\ ~AddingBus(k) /\ \A r : ~AddingLink(k, r)
    BY <2>3, <2>5 DEF Updating, Updates, Granting, Seeding, AddingBus, AddingLink
  <2>8. QED
    BY <1>1, <1>2, <2>3, <2>4, <2>5, <2>6, <2>7, GoesOn, KindsOf
<1>5. QED
  BY <1>3, <1>4

\* getUserById does not see the account: it is not committed, and no other is.
LEMMA CreateReadBackStep ==
    ASSUME Inv, NEW w \in Workers, UNCHANGED rosterVars, CreateReadBack(w)
    PROVE  Inv'
<1>1. users[job[w].email] = "none"
  BY DEF Inv, JobsInv, JobOK, InsertedBy, CreateReadBack
<1>2. QED
  BY <1>1, Ends DEF CreateReadBack, Release

\* A role is what was written of it.
LEMMA RolesOfRows ==
    ASSUME NEW roles, NEW req
    PROVE  /\ RolesOf(Rows(roles, req)) = roles
           /\ Rows(roles, req) = {} => roles = {}
           /\ \A rows : RolesOf(rows \cup Rows(roles, req)) = RolesOf(rows) \cup roles
<1>1. \A r \in roles : <<r, req>> \in Rows(roles, req) /\ <<r, req>>[1] = r
  BY DEF Rows
<1>2. \A row \in Rows(roles, req) : row[1] \in roles
  BY DEF Rows
<1>3. RolesOf({}) = {}
  BY DEF RolesOf
<1>4. ASSUME NEW rows PROVE RolesOf(rows \cup Rows(roles, req)) = RolesOf(rows) \cup roles
  <2>1. \A x : x \in RolesOf(rows \cup Rows(roles, req)) => x \in RolesOf(rows) \cup roles
    BY <1>2 DEF RolesOf
  <2>2. \A x \in roles : x \in RolesOf(rows \cup Rows(roles, req))
    BY <1>1 DEF RolesOf
  <2>3. RolesOf(rows) \subseteq RolesOf(rows \cup Rows(roles, req))
    BY DEF RolesOf
  <2>4. QED
    BY <2>1, <2>2, <2>3
<1>5. RolesOf(Rows(roles, req)) = roles
  <2>1. {} \cup Rows(roles, req) = Rows(roles, req)
    OBVIOUS
  <2>2. QED
    BY <1>3, <1>4, <2>1
<1>6. QED
  BY <1>1, <1>4, <1>5

\* A request that has come so far, and what is left of it.
LEMMA AnswerLeft ==
    ASSUME NEW k, k \in {Idle} \cup Last
    PROVE  /\ k \in Jobs /\ k \notin Short \cup Long \cup SeedLong /\ k.at \in {"idle", "answer"}
           /\ InsertedBy(k) = {} /\ \A e : ~Updating(k, e) /\ ~Granting(k, e)
           /\ k.at \notin Seeding /\ ~AddingBus(k) /\ \A r : ~AddingLink(k, r)
           /\ JobOK(k) /\ JobOK(k)' /\ \A q : (Apart(k, q) /\ Apart(q, k))'
<1>1. k \in Jobs /\ k.at \in {"idle", "answer"} /\ k \notin Short \cup Long \cup SeedLong
  BY KindsOf DEF Idle, Last, Short, Long, SeedLong
<1>2. /\ InsertedBy(k) = {} /\ \A e : ~Updating(k, e) /\ ~Granting(k, e)
      /\ k.at \notin Seeding /\ ~AddingBus(k) /\ \A r : ~AddingLink(k, r)
  BY <1>1 DEF InsertedBy, Updating, Updates, Granting, Seeding, AddingBus, AddingLink
<1>3. k.at \notin Updates
  BY <1>1 DEF Updates
<1>4. JobOK(k) /\ JobOK(k)' /\ \A q : (Apart(k, q) /\ Apart(q, k))'
  BY <1>1, <1>2, <1>3 DEF JobOK, Apart
<1>5. QED
  BY <1>1, <1>2, <1>4

\* A request still knows what it knew when the accounts it updates or inserts and what it
\* adds have stayed.
LEMMA StillOK ==
    ASSUME NEW q \in Jobs, JobOK(q), mixed' = mixed, raced \subseteq raced',
           \A x \in Emails : users[x] # "none" => users'[x] # "none",
           \A x \in Emails : x \in InsertedBy(q) => users'[x] = users[x],
           \A x \in Emails \ mixed : Updating(q, x) => userRoles'[x] = userRoles[x],
           AddingBus(q) => LiveBuses' = LiveBuses \/ "plate" \in raced',
           \A r \in Routes : AddingLink(q, r) => links'[r] = links[r] \/ r \in raced'
    PROVE  JobOK(q)'
<1>1. /\ q.at \in Updates => q \in Short \/ q \in Long
      /\ q \in Long => q.at \in Updates
  BY JobFields DEF Updates, Long
<1>2. q.at \in Updates => q.email \in Emails
  BY <1>1 DEF Short, Long
<1>3. InsertedBy(q) \subseteq Emails
  <2>1. /\ q.at \in {"create.roles", "create.readback", "register.role",
                     "register.commit"} => q.email \in Emails
        /\ q.at \in {"seed.rows", "seed.commit"} => q.emails \subseteq Emails
    BY JobFields DEF Short, SeedLong
  <2>2. QED
    BY <2>1 DEF InsertedBy
<1>4. q.at \in Updates => users'[q.email] # "none"
  BY <1>2 DEF JobOK
<1>5. q \in Long /\ q.email \notin mixed' => q.gone = userRoles'[q.email]
  BY <1>1, <1>2 DEF JobOK, Updating
<1>6. \A x \in InsertedBy(q) : users'[x] = "none"
  BY <1>3 DEF JobOK
<1>7. users[SeedEmail] # "none" => users'[SeedEmail] # "none"
  BY SeedAssumption
<1>8. AddingBus(q) => LiveBuses' = 0 \/ "plate" \in raced'
  BY DEF JobOK
<1>9. \A r \in Routes : AddingLink(q, r) => links'[r] = 0 \/ r \in raced'
  BY DEF JobOK
<1>10. QED
  BY <1>4, <1>5, <1>6, <1>7, <1>8, <1>9 DEF JobOK

\* A registration commits: nobody else has written what it commits.
LEMMA RegisterCommitStep ==
    ASSUME Inv, NEW w \in Workers, UNCHANGED rosterVars, RegisterCommit(w)
    PROVE  Inv'
<1>1. PICK old \in Short : old = job[w]
  BY JobFields DEF Inv, TypeOK, Jobs, RegisterCommit
<1>2. PICK k : k = [at |-> "answer"]
  OBVIOUS
<1>3. k \in {Idle} \cup Last /\ old.at = "register.commit"
  BY <1>1, <1>2 DEF Last, RegisterCommit
<1>4. job' = [job EXCEPT ![w] = k] /\ ConnStep(w, k) /\ seq' \in 0..MaxRequests
  BY <1>2 DEF RegisterCommit, Release, ConnStep, Inv, TypeOK
<1>5. PICK e \in Emails : e = old.email
  BY DEF Short
<1>6. PICK req \in Requests, roles \in SUBSET Roles : req = old.req /\ roles = old.roles
  BY DEF Short
<1>7. /\ users' = [users EXCEPT ![e] = "live"] /\ mixed' = mixed
      /\ roleRows' = roleRows \cup roles /\ wish' = [wish EXCEPT ![e] = roles]
      /\ userRoles' = [userRoles EXCEPT ![e] = Rows(roles, req)]
  BY <1>1, <1>5, <1>6 DEF RegisterCommit, KeepAccount
<1>8. Rows(roles, req) \in SUBSET (Roles \X Requests)
  BY DEF Rows
<1>9. AccountsTypeOK' /\ RosterTypeOK'
  BY <1>7, <1>8 DEF Inv, TypeOK, AccountsTypeOK, RosterTypeOK, rosterVars
<1>10. users[e] = "none" /\ roles # {} /\ InsertedBy(old) = {e}
  <2>1. JobOK(old)
    BY <1>1 DEF Inv, JobsInv
  <2>2. QED
    BY <1>3, <1>5, <1>6, <2>1 DEF JobOK, InsertedBy
<1>11. ASSUME NEW v \in Workers \ {w}, NEW q, q = job[v] PROVE JobOK(q)'
  <2>1. q \in Jobs /\ JobOK(q) /\ e \notin InsertedBy(q)
    BY <1>1, <1>10, <1>11 DEF Inv, TypeOK, Jobs, JobsInv, Apart
  <2>2. \A x \in Emails : x # e => users'[x] = users[x] /\ userRoles'[x] = userRoles[x]
    BY <1>7 DEF Inv, TypeOK, AccountsTypeOK
  <2>3. users'[e] = "live" /\ ~Updating(q, e)
    BY <1>7, <1>10, <2>1 DEF Inv, TypeOK, AccountsTypeOK, JobOK, Updating
  <2>4. QED
    BY <1>7, <2>1, <2>2, <2>3, StillOK DEF rosterVars, LiveBuses, Buses
<1>12. DataInv'
  <2>1. RolesOf(Rows(roles, req)) = roles /\ Rows(roles, req) # {}
    BY <1>10, RolesOfRows
  <2>2. RolesKept'
    BY <1>7, <2>1 DEF Inv, TypeOK, AccountsTypeOK, DataInv, RolesKept, AccountsHaveRoles,
                       RolesAsWished
  <2>3. DoublesOnlyInRace'
    BY DEF Inv, DataInv, DoublesOnlyInRace, LiveBuses, Buses, rosterVars
  <2>4. QED
    BY <1>7, <2>2, <2>3 DEF Inv, TypeOK, AccountsTypeOK, DataInv
<1>13. /\ k \in Jobs /\ JobOK(k)'
       /\ \A v \in Workers \ {w} : \A q : q = job[v] => (Apart(k, q) /\ Apart(q, k))'
  BY <1>3, AnswerLeft
<1>14. mixed \subseteq mixed' /\ raced \subseteq raced'
  BY <1>7 DEF rosterVars
<1>15. TypeOK /\ ConnInv /\ JobsInv
  BY DEF Inv
<1>16. \A v \in Workers \ {w} : \A q : q = job[v] => JobOK(q)'
  BY <1>11
<1>17. TypeOK' /\ ConnInv' /\ JobsInv'
  BY <1>4, <1>9, <1>13, <1>14, <1>15, <1>16, Moves
<1>18. QED
  BY <1>12, <1>17 DEF Inv

\* updateUser: who writes the roles of the account already is noted.
LEMMA WritingOf ==
    ASSUME Inv, NEW w \in Workers, NEW v \in Workers \ {w}, NEW q, q = job[v],
           NEW e, Updating(q, e) \/ Granting(q, e)
    PROVE  WritingRoles(w, e)
<1>1. q \in Jobs /\ JobOK(q)
  BY DEF Inv, TypeOK, Jobs, JobsInv
<1>2. CASE Updating(q, e)
  BY <1>2 DEF Updating, Updates, WritingRoles, At
<1>3. CASE q.at \in {"create.readback", "register.commit"} /\ q.email = e
  <2>1. q \in Short /\ q.roles # {}
    BY <1>1, <1>3, JobFields DEF JobOK
  <2>2. PICK r \in q.roles : TRUE
    BY <2>1
  <2>3. <<e, r>> \in Granted(v) /\ <<e, r>>[1] = e
    BY <1>3, <2>2 DEF Granted, At
  <2>4. QED
    BY <2>3 DEF WritingRoles
<1>4. CASE q.at \in {"seed.rows", "seed.commit"} /\ q.granted # {} /\ e = SeedEmail
  <2>1. q \in SeedLong
    BY <1>1, <1>4, JobFields
  <2>2. PICK g \in q.granted : g = <<SeedEmail, SeedRole>>
    BY <1>1, <1>4, <2>1 DEF JobOK
  <2>3. g \in Granted(v) /\ g[1] = e
    BY <1>4, <2>2 DEF Granted, At
  <2>4. QED
    BY <2>3 DEF WritingRoles
<1>5. QED
  BY <1>2, <1>3, <1>4 DEF Granting

LEMMA UpdateFindStep ==
    ASSUME Inv, NEW w \in Workers, UNCHANGED rosterVars, UpdateFind(w)
    PROVE  Inv'
<1>1. PICK e \in Emails, roles \in (SUBSET Roles) \ {{}} :
        /\ users[e] = "live"
        /\ Arrive(w, [at |-> "update.connect", req |-> seq + 1, email |-> e, roles |-> roles])
        /\ mixed' = IF WritingRoles(w, e) THEN mixed \cup {e} ELSE mixed
  BY DEF UpdateFind
<1>2. PICK k : k = [at |-> "update.connect", req |-> seq + 1, email |-> e, roles |-> roles]
  OBVIOUS
<1>3. seq + 1 \in Requests
  BY <1>1, PoolAssumption DEF Arrive, Inv, TypeOK, Requests
<1>4. k \in Short /\ k.at = "update.connect" /\ k.email = e /\ k.roles # {}
  BY <1>2, <1>3 DEF Short
<1>5. k \in Jobs /\ k \notin Long /\ k \notin SeedLong
  BY <1>4, KindsOf DEF Long, SeedLong
<1>6. job' = [job EXCEPT ![w] = k] /\ ConnStep(w, k) /\ seq' \in 0..MaxRequests
  BY <1>1, <1>2, <1>5, Arrives
<1>7. /\ InsertedBy(k) = {} /\ \A x : ~Granting(k, x) /\ (Updating(k, x) => x = e)
      /\ k.at \notin Seeding /\ ~AddingBus(k) /\ \A r : ~AddingLink(k, r)
  BY <1>4 DEF InsertedBy, Granting, Seeding, AddingBus, AddingLink, Updating, Updates
<1>8. UNCHANGED <<users, roleRows, userRoles, wish, plate, links, raced>>
  BY DEF UpdateFind, rosterVars
<1>9. JobOK(k)'
  BY <1>1, <1>4, <1>5, <1>7, <1>8 DEF JobOK
<1>10. ASSUME NEW v \in Workers \ {w}, NEW q, q = job[v] PROVE (Apart(k, q) /\ Apart(q, k))'
  <2>1. e \notin mixed' => ~Updating(q, e) /\ ~Granting(q, e)
    BY <1>1, <1>10, WritingOf
  <2>2. QED
    BY <1>7, <2>1 DEF Apart
<1>11. /\ mixed \subseteq mixed' /\ mixed' \subseteq Emails
       /\ raced \subseteq raced' /\ raced' \subseteq Routes \cup {"plate"}
  BY <1>1, <1>8 DEF Inv, TypeOK, AccountsTypeOK, RosterTypeOK
<1>12. QED
  BY <1>5, <1>6, <1>8, <1>9, <1>10, <1>11, OnlyJob

\* A step of an update of whose account the old roles are known.
LEMMA LongTo ==
    ASSUME NEW k, NEW req \in Requests, NEW e \in Emails, NEW roles \in SUBSET Roles,
           NEW gone \in SUBSET (Roles \X Requests),
           NEW to \in {"update.delete", "update.insert", "update.commit"},
           k = [at |-> to, req |-> req, email |-> e, roles |-> roles, gone |-> gone]
    PROVE  /\ k \in Long /\ k \in Jobs /\ k \notin Short /\ k \notin SeedLong
           /\ k.at = to /\ k.email = e /\ k.roles = roles /\ k.gone = gone
           /\ InsertedBy(k) = {} /\ \A x : Updating(k, x) <=> x = e
           /\ \A x : ~Granting(k, x)
           /\ k.at \notin Seeding /\ ~AddingBus(k) /\ \A r : ~AddingLink(k, r)
<1>1. k \in Long /\ k.at = to /\ k.email = e /\ k.roles = roles /\ k.gone = gone
  BY DEF Long
<1>2. k \in Jobs /\ k \notin Short /\ k \notin SeedLong
  BY <1>1, KindsOf DEF Short, SeedLong
<1>3. /\ InsertedBy(k) = {} /\ \A x : Updating(k, x) <=> x = e
      /\ \A x : ~Granting(k, x)
      /\ k.at \notin Seeding /\ ~AddingBus(k) /\ \A r : ~AddingLink(k, r)
  BY <1>1 DEF InsertedBy, Updating, Updates, Granting, Seeding, AddingBus, AddingLink
<1>4. QED
  BY <1>1, <1>2, <1>3

\* The DELETE starts, is done, and the INSERTs are.
LEMMA UpdateStep ==
    ASSUME Inv, NEW w \in Workers, UNCHANGED rosterVars,
           UpdateSnapshot(w) \/ UpdateDelete(w) \/ UpdateInsert(w)
    PROVE  Inv'
<1>1. PICK old \in Jobs : old = job[w]
  BY DEF Inv, TypeOK, Jobs
<1>2. /\ old.at \in {"update.snapshot", "update.delete", "update.insert"}
      /\ UNCHANGED accountVars
  BY <1>1 DEF UpdateSnapshot, UpdateDelete, UpdateInsert
<1>3. JobOK(old)
  BY <1>1 DEF Inv, JobsInv
<1>4. old \in Short \/ old \in Long
  BY <1>2, JobFields
<1>5. PICK req \in Requests : req = old.req
  BY <1>4 DEF Short, Long
<1>6. PICK e \in Emails : e = old.email
  BY <1>4 DEF Short, Long
<1>7. PICK roles \in SUBSET Roles : roles = old.roles
  BY <1>4 DEF Short, Long
<1>8. users[e] # "none" /\ roles # {} /\ Updating(old, e)
  BY <1>2, <1>3, <1>4, <1>6, <1>7 DEF JobOK, Updating, Updates
<1>9. userRoles[e] \in SUBSET (Roles \X Requests)
  BY DEF Inv, TypeOK, AccountsTypeOK
<1>10. ASSUME NEW gone \in SUBSET (Roles \X Requests), e \notin mixed => gone = userRoles[e],
              NEW to \in {"update.delete", "update.insert", "update.commit"}, w \in conn,
              NEW k, k = [at |-> to, req |-> req, email |-> e, roles |-> roles, gone |-> gone],
              job' = [job EXCEPT ![w] = k], conn' = conn, seq' = seq
       PROVE  Inv'
  <2>1. /\ k \in Long /\ k \in Jobs /\ k \notin Short /\ k \notin SeedLong
        /\ k.at = to /\ k.email = e /\ k.roles = roles /\ k.gone = gone
        /\ InsertedBy(k) = {} /\ \A x : Updating(k, x) <=> x = e
        /\ \A x : ~Granting(k, x)
        /\ k.at \notin Seeding /\ ~AddingBus(k) /\ \A r : ~AddingLink(k, r)
    BY <1>10, LongTo
  <2>2. JobOK(k)
    BY <1>8, <1>10, <2>1 DEF JobOK
  <2>3. ConnStep(w, k) /\ seq' \in 0..MaxRequests
    BY <1>10, <2>1 DEF ConnStep, Inside, Inv, TypeOK
  <2>4. QED
    BY <1>1, <1>2, <1>8, <1>10, <2>1, <2>2, <2>3, GoesOn
<1>11. CASE UpdateSnapshot(w)
  <2>1. PICK k : k = [at |-> "update.delete", req |-> req, email |-> e, roles |-> roles,
                      gone |-> userRoles[e]]
    OBVIOUS
  <2>2. w \in conn /\ job' = [job EXCEPT ![w] = k] /\ conn' = conn /\ seq' = seq
    BY <1>1, <1>5, <1>6, <1>7, <1>11, <2>1 DEF UpdateSnapshot, Statement
  <2>3. QED
    BY <1>9, <1>10, <2>1, <2>2
<1>12. CASE UpdateDelete(w) \/ UpdateInsert(w)
  <2>1. old \in Long
    BY <1>1, <1>12, JobFields DEF UpdateDelete, UpdateInsert
  <2>2. PICK gone \in SUBSET (Roles \X Requests) : gone = old.gone
    BY <2>1 DEF Long
  <2>3. e \notin mixed => gone = userRoles[e]
    BY <1>3, <1>6, <2>1, <2>2 DEF JobOK
  <2>4. CASE UpdateDelete(w)
    <3>1. PICK left \in SUBSET (Roles \X Requests) : left = gone \cap userRoles[e]
      OBVIOUS
    <3>2. PICK k : k = [at |-> "update.insert", req |-> req, email |-> e, roles |-> roles,
                        gone |-> left]
      OBVIOUS
    <3>3. k = [old EXCEPT !.at = "update.insert", !.gone = left]
      <4>1. PICK m : m = [old EXCEPT !.at = "update.insert"]
        OBVIOUS
      <4>2. m = [at |-> "update.insert", req |-> req, email |-> e, roles |-> roles,
                 gone |-> gone]
        BY <1>5, <1>6, <1>7, <2>1, <2>2, <4>1 DEF Long
      <4>3. k = [m EXCEPT !.gone = left]
        BY <3>2, <4>2
      <4>4. QED
        BY <4>1, <4>3
    <3>4. old.gone \cap userRoles[old.email] = left
      BY <1>6, <2>2, <3>1
    <3>5. w \in conn /\ job' = [job EXCEPT ![w] = k] /\ conn' = conn /\ seq' = seq
      BY <1>1, <2>4, <3>3, <3>4 DEF UpdateDelete, Statement
    <3>6. e \notin mixed => left = userRoles[e]
      BY <2>3, <3>1
    <3>7. QED
      BY <1>10, <3>2, <3>5, <3>6
  <2>5. CASE UpdateInsert(w) /\ ~Abort(w)
    <3>1. PICK k : k = [at |-> "update.commit", req |-> req, email |-> e, roles |-> roles,
                        gone |-> gone]
      OBVIOUS
    <3>2. k = [old EXCEPT !.at = "update.commit"]
      BY <1>5, <1>6, <1>7, <2>1, <2>2, <3>1 DEF Long
    <3>3. w \in conn /\ job' = [job EXCEPT ![w] = k] /\ conn' = conn /\ seq' = seq
      BY <1>1, <2>5, <3>2 DEF UpdateInsert, Statement
    <3>4. QED
      BY <1>10, <2>3, <3>1, <3>3
  <2>6. CASE Abort(w)
    BY <1>2, <2>6, AbortStep
  <2>7. QED
    BY <1>12, <2>4, <2>5, <2>6
<1>13. QED
  BY <1>11, <1>12

\* An update commits: of an account nobody else writes, the new roles are all there is.
LEMMA UpdateCommitStep ==
    ASSUME Inv, NEW w \in Workers, UNCHANGED rosterVars, UpdateCommit(w)
    PROVE  Inv'
<1>1. PICK old \in Long : old = job[w]
  BY JobFields DEF Inv, TypeOK, Jobs, UpdateCommit
<1>2. PICK k : k = [at |-> "answer"]
  OBVIOUS
<1>3. k \in {Idle} \cup Last /\ old.at = "update.commit"
  BY <1>1, <1>2 DEF Last, UpdateCommit
<1>4. job' = [job EXCEPT ![w] = k] /\ ConnStep(w, k) /\ seq' \in 0..MaxRequests
  BY <1>2 DEF UpdateCommit, Release, ConnStep, Inv, TypeOK
<1>5. PICK e \in Emails : e = old.email
  BY DEF Long
<1>6. PICK req \in Requests : req = old.req
  BY DEF Long
<1>7. PICK roles \in SUBSET Roles : roles = old.roles
  BY DEF Long
<1>8. PICK gone \in SUBSET (Roles \X Requests) : gone = old.gone
  BY DEF Long
<1>9. PICK made \in SUBSET (Roles \X Requests) : made = Rows(roles, req)
  <2>1. Rows(roles, req) \in SUBSET (Roles \X Requests)
    BY DEF Rows
  <2>2. QED
    BY <2>1
<1>10. /\ UNCHANGED <<users, roleRows, mixed>> /\ wish' = [wish EXCEPT ![e] = roles]
       /\ userRoles' = [userRoles EXCEPT ![e] = (userRoles[e] \ gone) \cup made]
  BY <1>1, <1>5, <1>6, <1>7, <1>8, <1>9 DEF UpdateCommit
<1>11. AccountsTypeOK' /\ RosterTypeOK'
  <2>1. (userRoles[e] \ gone) \cup made \in SUBSET (Roles \X Requests)
    BY DEF Inv, TypeOK, AccountsTypeOK
  <2>2. QED
    BY <1>10, <2>1 DEF Inv, TypeOK, AccountsTypeOK, RosterTypeOK, rosterVars
<1>12. /\ users[e] # "none" /\ roles # {} /\ Updating(old, e)
       /\ e \notin mixed => gone = userRoles[e]
  <2>1. JobOK(old)
    BY <1>1 DEF Inv, JobsInv
  <2>2. QED
    BY <1>3, <1>5, <1>7, <1>8, <2>1 DEF JobOK, Updating, Updates
<1>13. /\ \A x \in Emails : x # e => userRoles'[x] = userRoles[x] /\ wish'[x] = wish[x]
       /\ userRoles'[e] = (userRoles[e] \ gone) \cup made /\ wish'[e] = roles
  BY <1>10 DEF Inv, TypeOK, AccountsTypeOK
<1>14. ASSUME NEW v \in Workers \ {w}, NEW q, q = job[v] PROVE JobOK(q)'
  <2>1. q \in Jobs /\ JobOK(q) /\ (e \notin mixed => ~Updating(q, e))
    BY <1>1, <1>12, <1>14 DEF Inv, TypeOK, Jobs, JobsInv, Apart
  <2>2. QED
    BY <1>10, <1>13, <2>1, StillOK DEF rosterVars, LiveBuses, Buses
<1>15. DataInv'
  <2>1. made # {} /\ RolesOf(made) = roles
    BY <1>9, <1>12, RolesOfRows
  <2>2. AccountsHaveRoles'
    BY <1>10, <1>13, <2>1 DEF Inv, DataInv, RolesKept, AccountsHaveRoles
  <2>3. RolesAsWished'
    <3>1. ASSUME e \notin mixed PROVE userRoles'[e] = made
      BY <1>12, <1>13, <3>1
    <3>2. QED
      BY <1>10, <1>13, <2>1, <3>1 DEF Inv, DataInv, RolesKept, RolesAsWished
  <2>4. DoublesOnlyInRace'
    BY DEF Inv, DataInv, DoublesOnlyInRace, LiveBuses, Buses, rosterVars
  <2>5. QED
    BY <1>10, <1>12, <1>13, <2>2, <2>3, <2>4 DEF Inv, DataInv, RolesKept
<1>16. /\ k \in Jobs /\ JobOK(k)'
       /\ \A v \in Workers \ {w} : \A q : q = job[v] => (Apart(k, q) /\ Apart(q, k))'
  BY <1>3, AnswerLeft
<1>17. mixed \subseteq mixed' /\ raced \subseteq raced'
  BY <1>10 DEF rosterVars
<1>18. TypeOK /\ ConnInv /\ JobsInv
  BY DEF Inv
<1>19. \A v \in Workers \ {w} : \A q : q = job[v] => JobOK(q)'
  BY <1>14
<1>20. TypeOK' /\ ConnInv' /\ JobsInv'
  BY <1>4, <1>11, <1>16, <1>17, <1>18, <1>19, Moves
<1>21. QED
  BY <1>15, <1>20 DEF Inv

\* No request goes on, and those that have begun still know what they knew.
LEMMA Stays ==
    ASSUME TypeOK, ConnInv, JobsInv, UNCHANGED <<poolVars, mixed, raced>>,
           AccountsTypeOK', RosterTypeOK',
           \A v \in Workers : \A q : q = job[v] => JobOK(q)'
    PROVE  TypeOK' /\ ConnInv' /\ JobsInv'
<1>1. job' = job /\ conn' = conn /\ seq' = seq /\ mixed' = mixed /\ raced' = raced
  BY DEF poolVars
<1>2. TypeOK' /\ ConnInv'
  BY <1>1 DEF TypeOK, ConnInv
<1>3. \A p, q : Apart(p, q) => Apart(p, q)'
  BY <1>1 DEF Apart
<1>4. ASSUME NEW v \in Workers PROVE JobOK(job[v])'
  <2>1. PICK q : q = job[v]
    OBVIOUS
  <2>2. JobOK(q)'
    BY <2>1
  <2>3. q = job'[v]
    BY <1>1, <2>1
  <2>4. QED
    BY <2>2, <2>3 DEF JobOK
<1>5. ASSUME NEW v \in Workers, NEW u \in Workers \ {v}
      PROVE  (Apart(job[v], job[u]) /\ Apart(job[u], job[v]))'
  <2>1. Apart(job[v], job[u]) /\ Apart(job[u], job[v])
    BY DEF JobsInv
  <2>2. QED
    BY <1>1, <2>1 DEF Apart
<1>6. QED
  BY <1>2, <1>4, <1>5 DEF JobsInv

LEMMA DeleteUserStep ==
    ASSUME Inv, NEW e \in Emails, DeleteUser(e), UNCHANGED rosterVars
    PROVE  Inv'
<1>1. /\ users[e] = "live" /\ users' = [users EXCEPT ![e] = "deleted"]
      /\ UNCHANGED <<roleRows, userRoles, wish, mixed, poolVars, plate, links, raced>>
  BY DEF DeleteUser, rosterVars
<1>2. AccountsTypeOK' /\ RosterTypeOK'
  BY <1>1 DEF Inv, TypeOK, AccountsTypeOK, RosterTypeOK
<1>3. users'[e] = "deleted" /\ \A x \in Emails : x # e => users'[x] = users[x]
  BY <1>1 DEF Inv, TypeOK, AccountsTypeOK
<1>4. ASSUME NEW v \in Workers, NEW q, q = job[v] PROVE JobOK(q)'
  <2>1. q \in Jobs /\ JobOK(q)
    BY <1>4 DEF Inv, TypeOK, Jobs, JobsInv
  <2>2. e \notin InsertedBy(q)
    BY <1>1, <2>1 DEF JobOK
  <2>3. QED
    BY <1>1, <1>3, <2>1, <2>2, StillOK DEF LiveBuses, Buses
<1>5. DataInv'
  BY <1>1, <1>3 DEF Inv, DataInv, RolesKept, AccountsHaveRoles, RolesAsWished,
                    DoublesOnlyInRace, LiveBuses, Buses
<1>6. \A v \in Workers : \A q : q = job[v] => JobOK(q)'
  BY <1>4
<1>7. QED
  BY <1>1, <1>2, <1>5, <1>6, Stays DEF Inv

\* The last statement of a registration or an update.
LEMMA AnswerStep ==
    ASSUME Inv, NEW w \in Workers, UNCHANGED rosterVars, Answer(w)
    PROVE  Inv'
<1>1. w \notin conn
  BY NoConn DEF Answer, Query, Inside
<1>2. QED
  BY <1>1, Ends DEF Answer, Query

-----------------------------------------------------------------------------
\* The seed.

LEMMA SeedBeginStep ==
    ASSUME Inv, NEW w \in Workers, SeedBegin(w)
    PROVE  Inv'
<1>1. PICK k : k = [at |-> "seed.connect", req |-> seq + 1]
  OBVIOUS
<1>2. Arrive(w, k) /\ UNCHANGED <<accountVars, rosterVars>> /\ job[w] \in Jobs
  BY <1>1 DEF SeedBegin, Inv, TypeOK, Jobs
<1>3. seq + 1 \in Requests
  BY <1>2, PoolAssumption DEF Arrive, Inv, TypeOK, Requests
<1>4. k \in SeedShort /\ k.at = "seed.connect"
  BY <1>1, <1>3 DEF SeedShort
<1>5. k \in Jobs /\ k \notin Short /\ k \notin Long /\ k \notin SeedLong
  BY <1>4, KindsOf DEF Short, Long, SeedLong
<1>6. job' = [job EXCEPT ![w] = k] /\ ConnStep(w, k) /\ seq' \in 0..MaxRequests
  BY <1>2, <1>5, Arrives
<1>7. /\ InsertedBy(k) = {} /\ \A e : ~Updating(k, e) /\ ~Granting(k, e)
      /\ k.at \notin Seeding /\ ~AddingBus(k) /\ \A r : ~AddingLink(k, r)
  BY <1>4 DEF InsertedBy, Updating, Updates, Granting, Seeding, AddingBus, AddingLink
<1>8. JobOK(k)
  BY <1>4, <1>5, <1>7 DEF JobOK, Updates
<1>9. QED
  BY <1>2, <1>5, <1>6, <1>7, <1>8, GoesOn

\* The seed has a connection, and has upserted every role: another that had would make it
\* wait.
LEMMA SeedFirstStep ==
    ASSUME Inv, NEW w \in Workers, SeedConnect(w) \/ SeedRoles(w)
    PROVE  Inv'
<1>1. PICK old \in SeedShort : old = job[w]
  BY JobFields DEF Inv, TypeOK, Jobs, SeedConnect, SeedRoles, Connect, Statement
<1>2. PICK to \in {"seed.roles", "seed.users"} :
        /\ job' = [job EXCEPT ![w] = [old EXCEPT !.at = to]] /\ seq' = seq
        /\ (conn' = conn \cup {w} /\ Free) \/ (conn' = conn /\ w \in conn)
        /\ to = "seed.users" => old.at = "seed.roles" /\ w \in conn /\ ~Waits(w)
        /\ UNCHANGED <<accountVars, rosterVars>>
  BY <1>1 DEF SeedConnect, SeedRoles, Connect, Statement
<1>3. PICK k : k = [old EXCEPT !.at = to]
  OBVIOUS
<1>4. k \in SeedShort /\ k.at = to
  BY <1>3 DEF SeedShort
<1>5. k \in Jobs /\ old \in Jobs /\ k \notin Short /\ k \notin Long /\ k \notin SeedLong
  BY <1>4, KindsOf DEF Short, Long, SeedLong
<1>6. job' = [job EXCEPT ![w] = k] /\ ConnStep(w, k) /\ seq' \in 0..MaxRequests
  BY <1>2, <1>3, <1>4 DEF ConnStep, Inside, Inv, TypeOK
<1>7. /\ InsertedBy(k) = {} /\ \A e : ~Updating(k, e) /\ ~Granting(k, e)
      /\ ~AddingBus(k) /\ \A r : ~AddingLink(k, r) /\ k.at \notin Updates
  BY <1>4 DEF InsertedBy, Updating, Updates, Granting, AddingBus, AddingLink
<1>8. JobOK(k)
  BY <1>5, <1>7 DEF JobOK
<1>9. ASSUME k.at \in Seeding, NEW v \in Workers \ {w} PROVE job[v].at \notin Seeding
  <2>1. job[w].at = "seed.roles" /\ w \in conn /\ ~Waits(w)
    BY <1>1, <1>2, <1>4, <1>9 DEF Seeding
  <2>2. Referenced(v) = {}
    BY <2>1 DEF Waits, Blocks
  <2>3. job[v].at \in Seeding => Upserted(v) = Roles
    BY DEF Seeding, Upserted, At
  <2>4. QED
    BY <2>2, <2>3, RolesAssumption DEF Referenced
<1>10. QED
  BY <1>1, <1>2, <1>5, <1>6, <1>7, <1>8, <1>9, GoesOn

\* What a seed has made and will add.
LEMMA SeedFacts ==
    ASSUME NEW k \in SeedLong
    PROVE  /\ k \in Jobs /\ k \notin Short /\ k \notin Long
           /\ InsertedBy(k) = k.emails /\ \A e : ~Updating(k, e)
           /\ \A e : Granting(k, e) <=> k.granted # {} /\ e = SeedEmail
           /\ k.at \in Seeding /\ k.at \notin Updates
           /\ AddingBus(k) <=> k.at = "seed.commit" /\ k.bus
           /\ \A r : AddingLink(k, r) <=> k.at = "seed.commit" /\ k.link = r
<1>1. k.at \in {"seed.rows", "seed.commit"}
  BY DEF SeedLong
<1>2. k \in Jobs /\ k \notin Short /\ k \notin Long
  BY <1>1, KindsOf DEF Short, Long
<1>3. /\ InsertedBy(k) = k.emails /\ \A e : ~Updating(k, e)
      /\ \A e : Granting(k, e) <=> k.granted # {} /\ e = SeedEmail
      /\ k.at \in Seeding /\ k.at \notin Updates
  BY <1>1 DEF InsertedBy, Updating, Updates, Granting, Seeding
<1>4. /\ AddingBus(k) <=> k.at = "seed.commit" /\ k.bus
      /\ \A r : AddingLink(k, r) <=> k.at = "seed.commit" /\ k.link = r
  BY <1>1 DEF AddingBus, AddingLink
<1>5. QED
  BY <1>2, <1>3, <1>4

\* The seed makes its account and grants its role: no other account is being made.
LEMMA SeedUsersStep ==
    ASSUME Inv, NEW w \in Workers, SeedUsers(w)
    PROVE  Inv'
<1>1. PICK old \in SeedShort : old = job[w]
  BY JobFields DEF Inv, TypeOK, Jobs, SeedUsers
<1>2. PICK req \in Requests : req = old.req
  BY DEF SeedShort
<1>3. PICK emails \in SUBSET {SeedEmail} : emails = NewAccounts
  BY DEF NewAccounts
<1>4. PICK granted \in SUBSET {<<SeedEmail, SeedRole>>} : granted = NewGrants
  BY DEF NewGrants
<1>5. PICK k : k = [at |-> "seed.rows", req |-> req, emails |-> emails, granted |-> granted,
                    bus |-> FALSE, link |-> NoRoute]
  OBVIOUS
<1>6. /\ k \in SeedLong /\ k \in Jobs /\ k \notin Short /\ k \notin Long
      /\ k.at = "seed.rows" /\ k.emails = emails /\ k.granted = granted
      /\ InsertedBy(k) = emails /\ \A e : ~Updating(k, e)
      /\ \A e : Granting(k, e) <=> granted # {} /\ e = SeedEmail
      /\ k.at \in Seeding /\ k.at \notin Updates
      /\ ~AddingBus(k) /\ \A r : ~AddingLink(k, r)
  <2>1. emails \in SUBSET Emails /\ granted \in SUBSET (Emails \X Roles)
    BY SeedAssumption
  <2>2. k \in SeedLong /\ k.at = "seed.rows" /\ k.emails = emails /\ k.granted = granted
    BY <1>5, <2>1 DEF SeedLong
  <2>3. QED
    BY <2>2, SeedFacts
<1>7. /\ old.at = "seed.users" /\ ~Waits(w) /\ w \in conn
      /\ job' = [job EXCEPT ![w] = k] /\ conn' = conn /\ seq' = seq
      /\ mixed' = IF WritingRoles(w, SeedEmail) THEN mixed \cup {SeedEmail} ELSE mixed
      /\ UNCHANGED <<users, roleRows, userRoles, wish, plate, links, raced>>
  BY <1>1, <1>2, <1>3, <1>4, <1>5 DEF SeedUsers, Statement, rosterVars
<1>8. ConnStep(w, k) /\ seq' \in 0..MaxRequests
  BY <1>6, <1>7 DEF ConnStep, Inside, Inv, TypeOK
<1>9. /\ SeedEmail \in emails <=> users[SeedEmail] = "none"
      /\ users[SeedEmail] = "none" => granted # {}
  <2>1. SeedEmail \in emails <=> users[SeedEmail] = "none"
    BY <1>3 DEF NewAccounts
  <2>2. ASSUME users[SeedEmail] = "none" PROVE granted # {}
    <3>1. userRoles[SeedEmail] = {}
      BY <2>2, SeedAssumption DEF Inv, DataInv
    <3>2. SeedRole \notin RolesOf(userRoles[SeedEmail])
      BY <3>1 DEF RolesOf
    <3>3. QED
      BY <1>4, <3>2 DEF NewGrants
  <2>3. QED
    BY <2>1, <2>2
<1>10. JobOK(k)'
  BY <1>6, <1>7, <1>9 DEF JobOK
<1>11. ASSUME NEW v \in Workers \ {w}, NEW q, q = job[v] PROVE (Apart(k, q) /\ Apart(q, k))'
  <2>1. InsertedBy(q) = {}
    BY <1>1, <1>7, <1>11, InsertedOf DEF Waits, Blocks
  <2>2. SeedEmail \notin mixed' => ~Updating(q, SeedEmail)
    BY <1>7, <1>11, WritingOf
  <2>3. q.at \notin Seeding
    BY <1>1, <1>7, <1>11 DEF Inv, JobsInv, Apart, Seeding
  <2>4. QED
    BY <1>6, <2>1, <2>2, <2>3 DEF Apart
<1>12. /\ mixed \subseteq mixed' /\ mixed' \subseteq Emails
       /\ raced \subseteq raced' /\ raced' \subseteq Routes \cup {"plate"}
  BY <1>7, SeedAssumption DEF Inv, TypeOK, AccountsTypeOK, RosterTypeOK
<1>13. QED
  BY <1>6, <1>7, <1>8, <1>10, <1>11, <1>12, OnlyJob

\* How many live buses have the plate number when those with one spelling change.
LEMMA PlateTo ==
    ASSUME RosterTypeOK, NEW s \in Spellings, NEW n \in Nat, NEW b \in BOOLEAN,
           plate' = <<[Buses EXCEPT ![s] = n], b>>
    PROVE  /\ plate' \in [Spellings -> Nat] \X BOOLEAN
           /\ LiveBuses \in Nat /\ LiveBuses' = (LiveBuses - Buses[s]) + n
<1>1. Buses \in [Spellings -> Nat]
  BY DEF RosterTypeOK, Buses
<1>2. PICK more : more = [Buses EXCEPT ![s] = n]
  OBVIOUS
<1>3. more \in [Spellings -> Nat] /\ more[s] = n /\ \A t \in Spellings \ {s} : more[t] = Buses[t]
  BY <1>1, <1>2
<1>4. plate' = <<more, b>>
  BY <1>2
<1>5. Buses' = more
  BY <1>4 DEF Buses
<1>6. Buses["seed"] \in Nat /\ Buses["other"] \in Nat /\ s \in {"seed", "other"}
  BY <1>1 DEF Spellings
<1>7. LiveBuses' = (LiveBuses - Buses[s]) + n
  BY <1>3, <1>5, <1>6 DEF LiveBuses, Spellings
<1>8. QED
  BY <1>3, <1>4, <1>6, <1>7 DEF LiveBuses

\* The seed looks for the bus and the link, and adds what it does not find; who is about
\* to add the same is noted, and so is a bus it does not see for its spelling.
LEMMA SeedRowsStep ==
    ASSUME Inv, NEW w \in Workers, SeedRows(w)
    PROVE  Inv'
<1>1. PICK old \in SeedLong : old = job[w]
  BY JobFields DEF Inv, TypeOK, Jobs, SeedRows
<1>2. PICK bus \in BOOLEAN : bus = FindsNoBus
  BY DEF FindsNoBus
<1>3. PICK link \in Routes \cup {NoRoute} : link = (IF FindsNoLink THEN SeedRoute ELSE NoRoute)
  BY SeedAssumption
<1>4. PICK k : k = [old EXCEPT !.at = "seed.commit", !.bus = bus, !.link = link]
  OBVIOUS
<1>5. /\ k \in SeedLong /\ k.at = "seed.commit" /\ k.bus = bus /\ k.link = link
      /\ k.emails = old.emails /\ k.granted = old.granted
  BY <1>4 DEF SeedLong
<1>6. /\ k \in Jobs /\ k \notin Short /\ k \notin Long /\ k.at \in Seeding
      /\ k.at \notin Updates /\ InsertedBy(k) = InsertedBy(old)
      /\ \A e : ~Updating(k, e) /\ (Granting(k, e) <=> Granting(old, e))
      /\ AddingBus(k) <=> FindsNoBus
      /\ \A r \in Routes : AddingLink(k, r) <=> FindsNoLink /\ r = SeedRoute
  <2>1. /\ k \in Jobs /\ k \notin Short /\ k \notin Long /\ k.at \in Seeding
        /\ k.at \notin Updates /\ InsertedBy(k) = InsertedBy(old)
        /\ \A e : ~Updating(k, e) /\ (Granting(k, e) <=> Granting(old, e))
    BY <1>5, SeedFacts
  <2>2. AddingBus(k) <=> FindsNoBus
    BY <1>2, <1>5 DEF AddingBus
  <2>3. \A r \in Routes : AddingLink(k, r) <=> FindsNoLink /\ r = SeedRoute
    BY <1>3, <1>5, SeedAssumption DEF AddingLink
  <2>4. QED
    BY <2>1, <2>2, <2>3
<1>7. /\ old.at = "seed.rows" /\ w \in conn
      /\ job' = [job EXCEPT ![w] = k] /\ conn' = conn /\ seq' = seq
      /\ UNCHANGED <<users, roleRows, userRoles, wish, mixed, plate, links>>
  BY <1>1, <1>2, <1>3, <1>4 DEF SeedRows, Statement, accountVars
<1>8. /\ raced \subseteq raced' /\ raced' \subseteq raced \cup {"plate", SeedRoute}
      /\ FindsNoBus /\ (Buses["other"] > 0 \/ \E v \in Workers : AddsBus(v))
         => "plate" \in raced'
      /\ FindsNoLink /\ (\E v \in Workers : AddsLink(v, SeedRoute)) => SeedRoute \in raced'
  BY DEF SeedRows
<1>9. ConnStep(w, k) /\ seq' \in 0..MaxRequests
  BY <1>5, <1>7 DEF ConnStep, Inside, Inv, TypeOK
<1>10. JobOK(k)'
  <2>1. JobOK(old)
    BY <1>1 DEF Inv, JobsInv
  <2>2. FindsNoBus => LiveBuses' = 0 \/ "plate" \in raced'
    <3>1. FindsNoBus => Buses["seed"] = 0
      BY DEF FindsNoBus
    <3>2. Buses["other"] \in Nat
      BY DEF Inv, TypeOK, RosterTypeOK, Buses, Spellings
    <3>3. LiveBuses' = LiveBuses
      BY <1>7 DEF LiveBuses, Buses
    <3>4. QED
      BY <1>8, <3>1, <3>2, <3>3 DEF LiveBuses
  <2>3. FindsNoLink => links'[SeedRoute] = 0
    BY <1>7, SeedAssumption DEF FindsNoLink
  <2>4. /\ \A e \in InsertedBy(k) : users'[e] = "none"
        /\ k.emails \subseteq {SeedEmail} /\ k.granted \subseteq {<<SeedEmail, SeedRole>>}
        /\ SeedEmail \in k.emails => k.granted # {}
        /\ SeedEmail \in k.emails \/ users'[SeedEmail] # "none"
    BY <1>5, <1>6, <1>7, <2>1 DEF JobOK
  <2>5. QED
    BY <1>6, <2>2, <2>3, <2>4 DEF JobOK
<1>11. ASSUME NEW v \in Workers \ {w}, NEW q, q = job[v] PROVE (Apart(k, q) /\ Apart(q, k))'
  <2>1. Apart(old, q) /\ Apart(q, old)
    BY <1>1, <1>11 DEF Inv, JobsInv
  <2>2. q.at \notin Seeding
    BY <1>7, <2>1 DEF Apart, Seeding
  <2>3. AddingBus(k) /\ AddingBus(q) => "plate" \in raced'
    BY <1>6, <1>8, <1>11, <2>2 DEF AddingBus, AddsBus, Seeding
  <2>4. \A r \in Routes : AddingLink(k, r) /\ AddingLink(q, r) => r \in raced'
    BY <1>6, <1>8, <1>11, <2>2 DEF AddingLink, AddsLink, Seeding
  <2>5. QED
    BY <1>6, <1>7, <2>1, <2>2, <2>3, <2>4 DEF Apart
<1>12. /\ mixed \subseteq mixed' /\ mixed' \subseteq Emails
       /\ raced' \subseteq Routes \cup {"plate"}
  BY <1>7, <1>8, SeedAssumption DEF Inv, TypeOK, AccountsTypeOK, RosterTypeOK
<1>13. QED
  BY <1>6, <1>7, <1>8, <1>9, <1>10, <1>11, <1>12, OnlyJob

\* The seed commits: it has waited for whoever made its account, and nobody has been told
\* of it since.
LEMMA SeedCommitStep ==
    ASSUME Inv, NEW w \in Workers, SeedCommit(w)
    PROVE  Inv'
<1>1. PICK old \in SeedLong : old = job[w]
  BY JobFields DEF Inv, TypeOK, Jobs, SeedCommit
<1>2. old.at = "seed.commit" /\ JobOK(old)
  BY <1>1 DEF SeedCommit, Inv, JobsInv
<1>3. PICK req \in Requests : req = old.req
  BY DEF SeedLong
<1>4. PICK emails \in SUBSET {SeedEmail} : emails = old.emails
  BY <1>2 DEF JobOK
<1>5. PICK grants \in SUBSET {<<SeedEmail, SeedRole>>} : grants = old.granted
  BY <1>2 DEF JobOK
<1>6. PICK granted \in SUBSET {SeedRole} :
        granted = {g[2] : g \in grants} /\ (granted = {} <=> grants = {})
  <2>1. {g[2] : g \in grants} \in SUBSET {SeedRole}
    OBVIOUS
  <2>2. {g[2] : g \in grants} = {} <=> grants = {}
    OBVIOUS
  <2>3. QED
    BY <2>1, <2>2
<1>7. PICK made \in SUBSET (Roles \X Requests) : made = Rows(granted, req)
  <2>1. Rows(granted, req) \in SUBSET (Roles \X Requests)
    BY SeedAssumption DEF Rows
  <2>2. QED
    BY <2>1
<1>8. /\ users' = [e \in Emails |-> IF e \in emails THEN "live" ELSE users[e]]
      /\ roleRows' = Roles
      /\ userRoles' = [userRoles EXCEPT ![SeedEmail] = userRoles[SeedEmail] \cup made]
      /\ wish' = [wish EXCEPT ![SeedEmail] = wish[SeedEmail] \cup granted]
      /\ mixed' = mixed /\ raced' = raced
  BY <1>1, <1>3, <1>4, <1>5, <1>6, <1>7 DEF SeedCommit
<1>9. /\ plate' = IF old.bus THEN <<[Buses EXCEPT !["seed"] = Buses["seed"] + 1], plate[2]>>
                            ELSE plate
      /\ links' = [r \in Routes |-> links[r] + (IF old.link = r THEN 1 ELSE 0)]
  BY <1>1 DEF SeedCommit
<1>10. /\ job' = [job EXCEPT ![w] = Idle] /\ ConnStep(w, Idle) /\ seq' \in 0..MaxRequests
  BY DEF SeedCommit, Release, ConnStep, Inv, TypeOK
<1>11. /\ \A x \in Emails \ {SeedEmail} :
            users'[x] = users[x] /\ userRoles'[x] = userRoles[x] /\ wish'[x] = wish[x]
       /\ users'[SeedEmail] = IF SeedEmail \in emails THEN "live" ELSE users[SeedEmail]
       /\ userRoles'[SeedEmail] = userRoles[SeedEmail] \cup made
       /\ wish'[SeedEmail] = wish[SeedEmail] \cup granted
  BY <1>8, SeedAssumption DEF Inv, TypeOK, AccountsTypeOK
<1>12. /\ Buses \in [Spellings -> Nat] /\ plate[2] \in BOOLEAN /\ plate = <<Buses, plate[2]>>
       /\ links \in [Routes -> Nat]
  BY DEF Inv, TypeOK, RosterTypeOK, Buses
<1>13. /\ plate' \in [Spellings -> Nat] \X BOOLEAN
       /\ LiveBuses \in Nat /\ LiveBuses' = LiveBuses + (IF old.bus THEN 1 ELSE 0)
  <2>1. Buses["seed"] \in Nat /\ "seed" \in Spellings /\ plate[2] \in BOOLEAN
    BY <1>12 DEF Spellings
  <2>2. RosterTypeOK
    BY DEF Inv, TypeOK
  <2>3. CASE old.bus
    <3>1. PICK n \in Nat : n = Buses["seed"] + 1
      BY <2>1
    <3>2. PICK b \in BOOLEAN : b = plate[2]
      BY <2>1
    <3>3. plate' = <<[Buses EXCEPT !["seed"] = n], b>>
      BY <1>9, <2>3, <3>1, <3>2
    <3>4. /\ plate' \in [Spellings -> Nat] \X BOOLEAN
          /\ LiveBuses \in Nat /\ LiveBuses' = (LiveBuses - Buses["seed"]) + n
      BY <2>1, <2>2, <3>3, PlateTo
    <3>5. QED
      BY <2>1, <2>3, <3>1, <3>4
  <2>4. CASE ~old.bus
    <3>1. plate' = plate
      BY <1>9, <2>4
    <3>2. LiveBuses \in Nat
      BY <1>12 DEF LiveBuses, Spellings
    <3>3. LiveBuses' = LiveBuses
      BY <3>1 DEF LiveBuses, Buses
    <3>4. QED
      BY <2>4, <3>1, <3>2, <3>3, <2>2 DEF RosterTypeOK
  <2>5. QED
    BY <2>3, <2>4
<1>14. /\ links' \in [Routes -> Nat]
       /\ \A r \in Routes : links'[r] = links[r] + (IF old.link = r THEN 1 ELSE 0)
  BY <1>9, <1>12
<1>15. AccountsTypeOK' /\ RosterTypeOK'
  <2>1. users' \in [Emails -> {"none", "live", "deleted"}]
    BY <1>8 DEF Inv, TypeOK, AccountsTypeOK
  <2>2. userRoles' \in [Emails -> SUBSET (Roles \X Requests)]
    <3>1. userRoles[SeedEmail] \cup made \in SUBSET (Roles \X Requests)
      BY SeedAssumption DEF Inv, TypeOK, AccountsTypeOK
    <3>2. QED
      BY <1>8, <3>1 DEF Inv, TypeOK, AccountsTypeOK
  <2>3. wish' \in [Emails -> SUBSET Roles]
    <3>1. wish[SeedEmail] \cup granted \in SUBSET Roles
      BY SeedAssumption DEF Inv, TypeOK, AccountsTypeOK
    <3>2. QED
      BY <1>8, <3>1 DEF Inv, TypeOK, AccountsTypeOK
  <2>4. QED
    BY <1>8, <1>13, <1>14, <2>1, <2>2, <2>3 DEF Inv, TypeOK, AccountsTypeOK, RosterTypeOK
<1>16. /\ InsertedBy(old) = emails /\ (grants # {} => Granting(old, SeedEmail))
       /\ AddingBus(old) <=> old.bus
       /\ \A r \in Routes : AddingLink(old, r) <=> old.link = r
  BY <1>2, <1>4, <1>5, SeedFacts
<1>17. ASSUME NEW v \in Workers \ {w}, NEW q, q = job[v] PROVE JobOK(q)'
  <2>1. q \in Jobs /\ JobOK(q) /\ Apart(old, q) /\ Apart(q, old)
    BY <1>1, <1>17 DEF Inv, TypeOK, Jobs, JobsInv
  <2>2. SeedEmail \notin mixed /\ Updating(q, SeedEmail)
          => userRoles'[SeedEmail] = userRoles[SeedEmail]
    <3>1. SeedEmail \notin mixed /\ Updating(q, SeedEmail) => granted = {}
      BY <1>6, <1>16, <2>1, SeedAssumption DEF Apart
    <3>2. granted = {} => made = {}
      BY <1>7 DEF Rows
    <3>3. QED
      BY <1>11, <3>1, <3>2
  <2>3. \A x \in Emails : x \in InsertedBy(q) => users'[x] = users[x]
    BY <1>11, <1>16, <2>1 DEF Apart
  <2>4. \A x \in Emails : users[x] # "none" => users'[x] # "none"
    BY <1>11
  <2>5. AddingBus(q) => LiveBuses' = LiveBuses \/ "plate" \in raced'
    BY <1>8, <1>13, <1>16, <2>1 DEF Apart
  <2>6. \A r \in Routes : AddingLink(q, r) => links'[r] = links[r] \/ r \in raced'
    <3>1. ASSUME NEW r \in Routes, AddingLink(q, r), old.link # r PROVE links'[r] = links[r]
      BY <1>12, <1>14, <3>1
    <3>2. QED
      BY <1>8, <1>16, <2>1, <3>1 DEF Apart
  <2>7. \A x \in Emails \ mixed : Updating(q, x) => userRoles'[x] = userRoles[x]
    BY <1>11, <2>2
  <2>8. QED
    BY <1>8, <2>1, <2>3, <2>4, <2>5, <2>6, <2>7, StillOK
<1>18. DataInv'
  <2>1. RolesOf(userRoles[SeedEmail] \cup made) = RolesOf(userRoles[SeedEmail]) \cup granted
    BY <1>7, RolesOfRows
  <2>2. SeedEmail \in emails => made # {}
    <3>1. SeedEmail \in emails => granted # {}
      BY <1>2, <1>4, <1>5, <1>6 DEF JobOK
    <3>2. QED
      BY <1>7, <3>1, RolesOfRows
  <2>3. users'[SeedEmail] # "none"
    BY <1>2, <1>4, <1>11 DEF JobOK
  <2>4. AccountsHaveRoles'
    BY <1>11, <2>2 DEF Inv, DataInv, RolesKept, AccountsHaveRoles
  <2>5. RolesAsWished'
    BY <1>8, <1>11, <2>1 DEF Inv, DataInv, RolesKept, RolesAsWished
  <2>6. \A e \in Emails : users'[e] = "none" => userRoles'[e] = {}
    BY <1>11, <2>3 DEF Inv, DataInv
  <2>7. LiveBuses' > 1 => "plate" \in raced'
    BY <1>2, <1>8, <1>13, <1>16 DEF JobOK, Inv, DataInv, DoublesOnlyInRace
  <2>8. \A r \in Routes \ raced' : links'[r] <= 1
    <3>1. \A r \in Routes \ raced : old.link = r => links[r] = 0
      BY <1>2, <1>16 DEF JobOK
    <3>2. QED
      BY <1>8, <1>12, <1>14, <3>1 DEF Inv, DataInv, DoublesOnlyInRace
  <2>9. QED
    BY <2>4, <2>5, <2>6, <2>7, <2>8 DEF DataInv, RolesKept, DoublesOnlyInRace
<1>19. /\ Idle \in Jobs /\ JobOK(Idle)'
       /\ \A v \in Workers \ {w} : \A q : q = job[v] => (Apart(Idle, q) /\ Apart(q, Idle))'
  BY AnswerLeft
<1>20. mixed \subseteq mixed' /\ raced \subseteq raced'
  BY <1>8
<1>21. TypeOK /\ ConnInv /\ JobsInv
  BY DEF Inv
<1>22. \A v \in Workers \ {w} : \A q : q = job[v] => JobOK(q)'
  BY <1>17
<1>23. TypeOK' /\ ConnInv' /\ JobsInv'
  BY <1>10, <1>15, <1>19, <1>20, <1>21, <1>22, Moves
<1>24. QED
  BY <1>18, <1>23 DEF Inv

-----------------------------------------------------------------------------
\* Buses and the routes of a child.

\* A request that has looked for the plate number, and found no live bus.
LEMMA BusFindStep ==
    ASSUME Inv, NEW w \in Workers, UNCHANGED accountVars, BusFind(w)
    PROVE  Inv'
<1>1. PICK s \in Spellings : Arrive(w, [at |-> "bus.insert", spelt |-> s])
  BY DEF BusFind
<1>2. PICK k : k = [at |-> "bus.insert", spelt |-> s]
  OBVIOUS
<1>3. k \in BusJob /\ k.at = "bus.insert"
  BY <1>2 DEF BusJob
<1>4. k \in Jobs /\ k \notin Short /\ k \notin Long /\ k \notin SeedLong
  BY <1>3, KindsOf DEF Short, Long, SeedLong
<1>5. job' = [job EXCEPT ![w] = k] /\ ConnStep(w, k) /\ seq' \in 0..MaxRequests
  BY <1>1, <1>2, <1>4, Arrives
<1>6. /\ InsertedBy(k) = {} /\ \A e : ~Updating(k, e) /\ ~Granting(k, e)
      /\ k.at \notin Seeding /\ k.at \notin Updates /\ \A r : ~AddingLink(k, r)
  BY <1>3 DEF InsertedBy, Updating, Updates, Granting, Seeding, AddingLink
<1>7. /\ LiveBuses = 0 /\ UNCHANGED <<users, roleRows, userRoles, wish, mixed, plate, links>>
      /\ raced \subseteq raced' /\ raced' \subseteq raced \cup {"plate"}
      /\ (\E v \in Workers : AddsBus(v) \/ SeedsBus(v)) => "plate" \in raced'
  BY DEF BusFind, Raced, accountVars
<1>8. LiveBuses' = 0
  BY <1>7 DEF LiveBuses, Buses
<1>9. JobOK(k)'
  BY <1>4, <1>6, <1>8 DEF JobOK
<1>10. ASSUME NEW v \in Workers \ {w}, NEW q, q = job[v] PROVE (Apart(k, q) /\ Apart(q, k))'
  <2>1. AddingBus(q) => "plate" \in raced'
    BY <1>7, <1>10 DEF AddingBus, AddsBus, SeedsBus
  <2>2. QED
    BY <1>6, <2>1 DEF Apart
<1>11. /\ mixed \subseteq mixed' /\ mixed' \subseteq Emails
       /\ raced' \subseteq Routes \cup {"plate"}
  BY <1>7 DEF Inv, TypeOK, AccountsTypeOK, RosterTypeOK
<1>12. QED
  BY <1>4, <1>5, <1>7, <1>9, <1>10, <1>11, OnlyJob

\* The plate number, when the others still know what they knew.
LEMMA PlateData ==
    ASSUME Inv, UNCHANGED <<accountVars, links, raced>>, LiveBuses' > 1 => "plate" \in raced
    PROVE  DataInv'
  BY DEF Inv, DataInv, RolesKept, AccountsHaveRoles, RolesAsWished, DoublesOnlyInRace,
         accountVars

\* The bus is inserted: unless requests race, there is none, and nobody else adds one.
LEMMA BusInsertStep ==
    ASSUME Inv, NEW w \in Workers, UNCHANGED accountVars, BusInsert(w)
    PROVE  Inv'
<1>1. PICK old \in BusJob : old = job[w]
  BY JobFields DEF Inv, TypeOK, Jobs, BusInsert, Query
<1>2. PICK s \in Spellings : s = old.spelt
  BY DEF BusJob
<1>3. old.at = "bus.insert" /\ AddingBus(old)
  BY DEF BusJob, AddingBus
<1>4. JobOK(old)
  BY <1>1 DEF Inv, JobsInv
<1>5. LiveBuses = 0 \/ "plate" \in raced
  BY <1>3, <1>4 DEF JobOK
<1>6. /\ job' = [job EXCEPT ![w] = Idle] /\ conn' = conn /\ seq' = seq
      /\ plate' = <<[Buses EXCEPT ![s] = Buses[s] + 1], plate[2]>>
      /\ UNCHANGED <<links, raced>>
  BY <1>1, <1>2 DEF BusInsert, Query
<1>7. w \notin conn
  BY <1>1, <1>3, NoConn DEF Inside
<1>8. ConnStep(w, Idle) /\ seq' \in 0..MaxRequests
  BY <1>6, <1>7 DEF ConnStep, Inv, TypeOK
<1>9. RosterTypeOK /\ Buses[s] \in Nat /\ plate[2] \in BOOLEAN
  BY DEF Inv, TypeOK, RosterTypeOK, Buses
<1>10. /\ plate' \in [Spellings -> Nat] \X BOOLEAN /\ LiveBuses \in Nat
       /\ LiveBuses' = LiveBuses + 1
  <2>1. PICK n \in Nat : n = Buses[s] + 1
    BY <1>9
  <2>2. PICK b \in BOOLEAN : b = plate[2]
    BY <1>9
  <2>3. plate' = <<[Buses EXCEPT ![s] = n], b>>
    BY <1>6, <2>1, <2>2
  <2>4. /\ plate' \in [Spellings -> Nat] \X BOOLEAN
        /\ LiveBuses \in Nat /\ LiveBuses' = (LiveBuses - Buses[s]) + n
    BY <1>9, <2>3, PlateTo
  <2>5. QED
    BY <1>9, <2>1, <2>4
<1>11. AccountsTypeOK' /\ RosterTypeOK'
  BY <1>6, <1>10 DEF Inv, TypeOK, AccountsTypeOK, RosterTypeOK, accountVars
<1>12. ASSUME NEW v \in Workers \ {w}, NEW q, q = job[v] PROVE JobOK(q)'
  <2>1. q \in Jobs /\ JobOK(q) /\ (AddingBus(q) => "plate" \in raced')
    BY <1>1, <1>3, <1>6, <1>12 DEF Inv, TypeOK, Jobs, JobsInv, Apart
  <2>2. QED
    BY <1>6, <2>1, StillOK DEF accountVars
<1>13. DataInv'
  BY <1>5, <1>6, <1>10, PlateData
<1>14. /\ Idle \in Jobs /\ JobOK(Idle)'
       /\ \A v \in Workers \ {w} : \A q : q = job[v] => (Apart(Idle, q) /\ Apart(q, Idle))'
  BY AnswerLeft
<1>15. mixed \subseteq mixed' /\ raced \subseteq raced'
  BY <1>6 DEF accountVars
<1>16. TypeOK /\ ConnInv /\ JobsInv
  BY DEF Inv
<1>17. \A v \in Workers \ {w} : \A q : q = job[v] => JobOK(q)'
  BY <1>12
<1>18. TypeOK' /\ ConnInv' /\ JobsInv'
  BY <1>6, <1>8, <1>11, <1>14, <1>15, <1>16, <1>17, Moves
<1>19. QED
  BY <1>13, <1>18 DEF Inv

\* A bus is given another plate number, or removed.
LEMMA BusAwayStep ==
    ASSUME Inv, NEW s \in Spellings, UNCHANGED accountVars, BusRename(s) \/ BusRemove(s)
    PROVE  Inv'
<1>1. RosterTypeOK /\ Buses[s] \in Nat /\ plate[2] \in BOOLEAN
  BY DEF Inv, TypeOK, RosterTypeOK, Buses
<1>2. PICK n \in Nat : n = Buses[s] - 1 /\ Buses[s] > 0
  BY <1>1 DEF BusRename, BusRemove
<1>3. PICK b \in BOOLEAN : plate' = <<[Buses EXCEPT ![s] = n], b>>
  <2>1. CASE BusRename(s)
    BY <1>1, <1>2, <2>1 DEF BusRename
  <2>2. CASE BusRemove(s)
    <3>1. PICK b \in BOOLEAN : b = (plate[2] \/ s = "seed")
      OBVIOUS
    <3>2. plate' = <<[Buses EXCEPT ![s] = n], b>>
      BY <1>2, <2>2, <3>1 DEF BusRemove
    <3>3. QED
      BY <3>2
  <2>3. QED
    BY <2>1, <2>2
<1>4. UNCHANGED <<poolVars, links, raced, mixed>>
  BY DEF BusRename, BusRemove, accountVars
<1>5. /\ plate' \in [Spellings -> Nat] \X BOOLEAN
      /\ LiveBuses \in Nat /\ LiveBuses' = (LiveBuses - Buses[s]) + n
  BY <1>1, <1>3, PlateTo
<1>6. LiveBuses' < LiveBuses
  BY <1>1, <1>2, <1>5
<1>7. Buses[s] <= LiveBuses
  BY DEF Inv, TypeOK, RosterTypeOK, Buses, LiveBuses, Spellings
<1>8. AccountsTypeOK' /\ RosterTypeOK'
  BY <1>4, <1>5 DEF Inv, TypeOK, AccountsTypeOK, RosterTypeOK, accountVars
<1>9. ASSUME NEW v \in Workers, NEW q, q = job[v] PROVE JobOK(q)'
  <2>1. q \in Jobs /\ JobOK(q)
    BY <1>9 DEF Inv, TypeOK, Jobs, JobsInv
  <2>2. AddingBus(q) => "plate" \in raced
    BY <1>1, <1>2, <1>5, <1>7, <2>1 DEF JobOK
  <2>3. QED
    BY <1>4, <2>1, <2>2, StillOK DEF accountVars
<1>10. DataInv'
  <2>1. LiveBuses' > 1 => "plate" \in raced
    BY <1>1, <1>2, <1>5 DEF Inv, DataInv, DoublesOnlyInRace
  <2>2. QED
    BY <1>4, <2>1, PlateData
<1>11. \A v \in Workers : \A q : q = job[v] => JobOK(q)'
  BY <1>9
<1>12. QED
  BY <1>4, <1>8, <1>10, <1>11, Stays DEF Inv

\* A request of the route chain goes on, or a new one arrives.
LEMMA LinkFacts ==
    ASSUME NEW k \in LinkJob
    PROVE  /\ k \in Jobs /\ k \notin Short /\ k \notin Long /\ k \notin SeedLong
           /\ k.route \in Routes /\ InsertedBy(k) = {}
           /\ \A e : ~Updating(k, e) /\ ~Granting(k, e)
           /\ k.at \notin Seeding /\ k.at \notin Updates /\ ~AddingBus(k)
           /\ \A r : AddingLink(k, r) <=> k.at = "link.commit" /\ k.route = r
<1>1. k.at \in {"link.connect", "link.find", "link.commit"} /\ k.route \in Routes
  BY DEF LinkJob
<1>2. k \in Jobs /\ k \notin Short /\ k \notin Long /\ k \notin SeedLong
  BY <1>1, KindsOf DEF Short, Long, SeedLong
<1>3. /\ InsertedBy(k) = {} /\ \A e : ~Updating(k, e) /\ ~Granting(k, e)
      /\ k.at \notin Seeding /\ k.at \notin Updates /\ ~AddingBus(k)
      /\ \A r : AddingLink(k, r) <=> k.at = "link.commit" /\ k.route = r
  BY <1>1 DEF InsertedBy, Updating, Updates, Granting, Seeding, AddingBus, AddingLink
<1>4. QED
  BY <1>1, <1>2, <1>3

LEMMA LinkFirstStep ==
    ASSUME Inv, NEW w \in Workers, UNCHANGED accountVars, LinkChecks(w) \/ LinkConnect(w)
    PROVE  Inv'
<1>1. UNCHANGED rosterVars
  BY DEF LinkChecks, LinkConnect
<1>2. PICK old \in Jobs : old = job[w]
  BY DEF Inv, TypeOK, Jobs
<1>3. PICK k \in LinkJob :
        /\ k.at \in {"link.connect", "link.find"}
        /\ job' = [job EXCEPT ![w] = k] /\ ConnStep(w, k) /\ seq' \in 0..MaxRequests
  <2>1. CASE LinkChecks(w)
    <3>1. PICK r \in Routes : Arrive(w, [at |-> "link.connect", route |-> r])
      BY <2>1 DEF LinkChecks
    <3>2. PICK k : k = [at |-> "link.connect", route |-> r]
      OBVIOUS
    <3>3. k \in LinkJob /\ k.at = "link.connect"
      BY <3>2 DEF LinkJob
    <3>4. job' = [job EXCEPT ![w] = k] /\ ConnStep(w, k) /\ seq' \in 0..MaxRequests
      BY <3>1, <3>2, <3>3, LinkFacts, Arrives
    <3>5. QED
      BY <3>3, <3>4
  <2>2. CASE LinkConnect(w)
    <3>1. old \in LinkJob
      BY <1>2, <2>2, JobFields DEF LinkConnect, Connect
    <3>2. PICK k : k = [old EXCEPT !.at = "link.find"]
      OBVIOUS
    <3>3. k \in LinkJob /\ k.at = "link.find"
      BY <3>1, <3>2 DEF LinkJob
    <3>4. job' = [job EXCEPT ![w] = k] /\ conn' = conn \cup {w} /\ Free /\ seq' = seq
      BY <1>2, <2>2, <3>2 DEF LinkConnect, Connect
    <3>5. ConnStep(w, k) /\ seq' \in 0..MaxRequests
      BY <3>3, <3>4 DEF ConnStep, Inside, Inv, TypeOK
    <3>6. QED
      BY <3>3, <3>4, <3>5
  <2>3. QED
    BY <2>1, <2>2
<1>4. /\ k \in Jobs /\ k \notin Short /\ k \notin Long /\ k \notin SeedLong
      /\ InsertedBy(k) = {} /\ \A e : ~Updating(k, e) /\ ~Granting(k, e)
      /\ k.at \notin Seeding /\ k.at \notin Updates /\ ~AddingBus(k)
      /\ \A r : ~AddingLink(k, r)
  BY <1>3, LinkFacts
<1>5. JobOK(k)
  BY <1>4 DEF JobOK
<1>6. QED
  BY <1>1, <1>2, <1>3, <1>4, <1>5, GoesOn

\* The route is not the child's yet; who is about to make it so too is noted.
LEMMA LinkFindStep ==
    ASSUME Inv, NEW w \in Workers, UNCHANGED accountVars, LinkFind(w)
    PROVE  Inv'
<1>1. PICK old \in LinkJob : old = job[w]
  BY JobFields DEF Inv, TypeOK, Jobs, LinkFind
<1>2. PICK r \in Routes : r = old.route
  BY DEF LinkJob
<1>3. CASE links[r] > 0
  <2>1. Abort(w) /\ UNCHANGED <<accountVars, rosterVars>>
    BY <1>1, <1>2, <1>3 DEF LinkFind, rosterVars
  <2>2. QED
    BY <2>1, AbortStep
<1>4. CASE ~(links[r] > 0)
  <2>1. PICK k : k = [old EXCEPT !.at = "link.commit"]
    OBVIOUS
  <2>2. k \in LinkJob /\ k.at = "link.commit" /\ k.route = r
    BY <1>2, <2>1 DEF LinkJob
  <2>3. /\ w \in conn /\ job' = [job EXCEPT ![w] = k] /\ conn' = conn /\ seq' = seq
        /\ UNCHANGED <<users, roleRows, userRoles, wish, mixed, plate, links>>
        /\ raced \subseteq raced' /\ raced' \subseteq raced \cup {r}
        /\ (\E v \in Workers : AddsLink(v, r) \/ SeedsLink(v, r)) => r \in raced'
    BY <1>1, <1>2, <1>4, <2>1 DEF LinkFind, Statement, Raced, accountVars
  <2>4. ConnStep(w, k) /\ seq' \in 0..MaxRequests
    BY <2>2, <2>3 DEF ConnStep, Inside, Inv, TypeOK
  <2>5. /\ k \in Jobs /\ k \notin Short /\ k \notin Long /\ k \notin SeedLong
        /\ InsertedBy(k) = {} /\ \A e : ~Updating(k, e) /\ ~Granting(k, e)
        /\ k.at \notin Seeding /\ k.at \notin Updates /\ ~AddingBus(k)
        /\ \A x : AddingLink(k, x) <=> x = r
    BY <2>2, LinkFacts
  <2>6. links'[r] = 0
    BY <1>4, <2>3 DEF Inv, TypeOK, RosterTypeOK
  <2>7. JobOK(k)'
    BY <2>5, <2>6 DEF JobOK
  <2>8. ASSUME NEW v \in Workers \ {w}, NEW q, q = job[v] PROVE (Apart(k, q) /\ Apart(q, k))'
    <3>1. AddingLink(q, r) => r \in raced'
      BY <2>3, <2>8 DEF AddingLink, AddsLink, SeedsLink
    <3>2. QED
      BY <2>5, <3>1 DEF Apart
  <2>9. /\ mixed \subseteq mixed' /\ mixed' \subseteq Emails
        /\ raced' \subseteq Routes \cup {"plate"}
    BY <2>3 DEF Inv, TypeOK, AccountsTypeOK, RosterTypeOK
  <2>10. QED
    BY <2>3, <2>4, <2>5, <2>7, <2>8, <2>9, OnlyJob
<1>5. QED
  BY <1>3, <1>4

\* The routes of the child, when the others still know what they knew.
LEMMA LinksData ==
    ASSUME Inv, UNCHANGED <<accountVars, plate, raced>>,
           \A r \in Routes \ raced : links'[r] <= 1
    PROVE  DataInv'
  BY DEF Inv, DataInv, RolesKept, AccountsHaveRoles, RolesAsWished, DoublesOnlyInRace,
         accountVars, LiveBuses, Buses

\* The row is inserted: unless requests race, there is none, and nobody else adds one.
LEMMA LinkCommitStep ==
    ASSUME Inv, NEW w \in Workers, UNCHANGED accountVars, LinkCommit(w)
    PROVE  Inv'
<1>1. PICK old \in LinkJob : old = job[w]
  BY JobFields DEF Inv, TypeOK, Jobs, LinkCommit
<1>2. PICK r \in Routes : r = old.route
  BY DEF LinkJob
<1>3. /\ old.at = "link.commit" /\ links' = [links EXCEPT ![r] = links[r] + 1]
      /\ job' = [job EXCEPT ![w] = Idle] /\ conn' = conn \ {w} /\ seq' = seq
      /\ UNCHANGED <<plate, raced>>
  BY <1>1, <1>2 DEF LinkCommit, Release
<1>4. AddingLink(old, r) /\ (links[r] = 0 \/ r \in raced)
  <2>1. AddingLink(old, r) /\ JobOK(old)
    BY <1>1, <1>2, <1>3 DEF AddingLink, Inv, JobsInv
  <2>2. QED
    BY <2>1 DEF JobOK
<1>5. links \in [Routes -> Nat]
  BY DEF Inv, TypeOK, RosterTypeOK
<1>6. /\ links' \in [Routes -> Nat] /\ links'[r] = links[r] + 1
      /\ \A x \in Routes \ {r} : links'[x] = links[x]
  BY <1>3, <1>5
<1>7. AccountsTypeOK' /\ RosterTypeOK'
  BY <1>3, <1>6 DEF Inv, TypeOK, AccountsTypeOK, RosterTypeOK, accountVars
<1>8. ConnStep(w, Idle) /\ seq' \in 0..MaxRequests
  BY <1>3 DEF ConnStep, Inv, TypeOK
<1>9. ASSUME NEW v \in Workers \ {w}, NEW q, q = job[v] PROVE JobOK(q)'
  <2>1. q \in Jobs /\ JobOK(q) /\ (AddingLink(q, r) => r \in raced)
    BY <1>1, <1>4, <1>9 DEF Inv, TypeOK, Jobs, JobsInv, Apart
  <2>2. \A x \in Routes : AddingLink(q, x) => links'[x] = links[x] \/ x \in raced'
    BY <1>3, <1>6, <2>1
  <2>3. QED
    BY <1>3, <2>1, <2>2, StillOK DEF accountVars, LiveBuses, Buses
<1>10. DataInv'
  <2>1. \A x \in Routes \ raced : links'[x] <= 1
    BY <1>4, <1>5, <1>6 DEF Inv, DataInv, DoublesOnlyInRace
  <2>2. QED
    BY <1>3, <2>1, LinksData
<1>11. /\ Idle \in Jobs /\ JobOK(Idle)'
       /\ \A v \in Workers \ {w} : \A q : q = job[v] => (Apart(Idle, q) /\ Apart(q, Idle))'
  BY AnswerLeft
<1>12. mixed \subseteq mixed' /\ raced \subseteq raced'
  BY <1>3 DEF accountVars
<1>13. TypeOK /\ ConnInv /\ JobsInv
  BY DEF Inv
<1>14. \A v \in Workers \ {w} : \A q : q = job[v] => JobOK(q)'
  BY <1>9
<1>15. TypeOK' /\ ConnInv' /\ JobsInv'
  BY <1>3, <1>7, <1>8, <1>11, <1>12, <1>13, <1>14, Moves
<1>16. QED
  BY <1>10, <1>15 DEF Inv

LEMMA UnlinkStep ==
    ASSUME Inv, NEW r \in Routes, UNCHANGED accountVars, Unlink(r)
    PROVE  Inv'
<1>1. links \in [Routes -> Nat]
  BY DEF Inv, TypeOK, RosterTypeOK
<1>2. /\ links[r] > 0 /\ links' = [links EXCEPT ![r] = links[r] - 1]
      /\ UNCHANGED <<poolVars, plate, raced, mixed>>
  BY DEF Unlink, accountVars
<1>3. /\ links' \in [Routes -> Nat] /\ links'[r] = links[r] - 1
      /\ \A x \in Routes \ {r} : links'[x] = links[x]
  BY <1>1, <1>2
<1>4. AccountsTypeOK' /\ RosterTypeOK'
  BY <1>2, <1>3 DEF Inv, TypeOK, AccountsTypeOK, RosterTypeOK, accountVars
<1>5. ASSUME NEW v \in Workers, NEW q, q = job[v] PROVE JobOK(q)'
  <2>1. q \in Jobs /\ JobOK(q)
    BY <1>5 DEF Inv, TypeOK, Jobs, JobsInv
  <2>2. AddingLink(q, r) => r \in raced
    BY <1>1, <1>2, <2>1 DEF JobOK
  <2>3. \A x \in Routes : AddingLink(q, x) => links'[x] = links[x] \/ x \in raced'
    BY <1>2, <1>3, <2>2
  <2>4. QED
    BY <1>2, <2>1, <2>3, StillOK DEF accountVars, LiveBuses, Buses
<1>6. DataInv'
  <2>1. \A x \in Routes \ raced : links'[x] <= 1
    BY <1>1, <1>2, <1>3 DEF Inv, DataInv, DoublesOnlyInRace
  <2>2. QED
    BY <1>2, <2>1, LinksData
<1>7. \A v \in Workers : \A q : q = job[v] => JobOK(q)'
  BY <1>5
<1>8. QED
  BY <1>2, <1>4, <1>6, <1>7, Stays DEF Inv

-----------------------------------------------------------------------------
\* The invariant, and what it shows.

LEMMA InitInv ==
    ASSUME Init
    PROVE  Inv
<1>1. /\ job = [w \in Workers |-> Idle] /\ conn = {} /\ seq = 0
      /\ users = [e \in Emails |-> "none"] /\ roleRows \subseteq Roles
      /\ userRoles = [e \in Emails |-> {}] /\ wish = [e \in Emails |-> {}] /\ mixed = {}
      /\ plate = <<[s \in Spellings |-> 0], FALSE>> /\ links = [r \in Routes |-> 0]
      /\ raced = {}
  BY RolesAssumption DEF Init, PoolInit, AccountsInit, RosterInit
<1>2. IsFiniteSet({}) /\ Cardinality({}) = 0
  BY FS_EmptySet
<1>3. AccountsTypeOK
  BY <1>1 DEF AccountsTypeOK
<1>4. RosterTypeOK
  <2>1. PICK none \in [Spellings -> Nat] : none = [s \in Spellings |-> 0]
    OBVIOUS
  <2>2. plate = <<none, FALSE>>
    BY <1>1, <2>1
  <2>3. plate \in [Spellings -> Nat] \X BOOLEAN
    BY <2>2
  <2>4. QED
    BY <1>1, <2>3 DEF RosterTypeOK
<1>5. TypeOK
  BY <1>1, <1>2, <1>3, <1>4, PoolAssumption DEF TypeOK
<1>6. ConnInv
  BY <1>1, <1>2 DEF ConnInv
<1>7. JobsInv
  <2>1. /\ JobOK(Idle) /\ InsertedBy(Idle) = {} /\ \A e : ~Updating(Idle, e)
        /\ Idle.at \notin Seeding /\ ~AddingBus(Idle) /\ \A r : ~AddingLink(Idle, r)
    BY AnswerLeft
  <2>2. Apart(Idle, Idle)
    BY <2>1 DEF Apart
  <2>3. \A w \in Workers : job[w] = Idle
    BY <1>1
  <2>4. QED
    BY <2>1, <2>2, <2>3 DEF JobsInv
<1>8. DataInv
  <2>1. RolesOf({}) = {}
    BY DEF RolesOf
  <2>2. RolesKept
    BY <1>1, <2>1 DEF RolesKept, AccountsHaveRoles, RolesAsWished
  <2>3. plate[1] = [s \in Spellings |-> 0]
    BY <1>1
  <2>4. Buses["seed"] = 0 /\ Buses["other"] = 0
    BY <2>3 DEF Buses, Spellings
  <2>5. DoublesOnlyInRace
    BY <1>1, <2>4 DEF DoublesOnlyInRace, LiveBuses
  <2>6. QED
    BY <1>1, <2>2, <2>5 DEF DataInv
<1>9. QED
  BY <1>5, <1>6, <1>7, <1>8 DEF Inv

\* Nothing happens.
LEMMA Stutters ==
    ASSUME Inv, UNCHANGED vars
    PROVE  Inv'
<1>1. UNCHANGED <<poolVars, accountVars, rosterVars>>
  BY DEF vars
<1>2. AccountsTypeOK' /\ RosterTypeOK'
  BY <1>1 DEF Inv, TypeOK, AccountsTypeOK, RosterTypeOK, accountVars, rosterVars
<1>3. \A q : JobOK(q) => JobOK(q)'
  BY <1>1 DEF JobOK, LiveBuses, Buses, accountVars, rosterVars
<1>4. \A v \in Workers : \A q : q = job[v] => JobOK(q)'
  BY <1>3 DEF Inv, JobsInv
<1>5. DataInv'
  BY <1>1 DEF Inv, DataInv, RolesKept, AccountsHaveRoles, RolesAsWished, DoublesOnlyInRace,
              LiveBuses, Buses, accountVars, rosterVars
<1>6. TypeOK' /\ ConnInv' /\ JobsInv'
  BY <1>1, <1>2, <1>4, Stays DEF Inv, accountVars, rosterVars
<1>7. QED
  BY <1>5, <1>6 DEF Inv

\* The next step of a request.
LEMMA StepStep ==
    ASSUME Inv, NEW w \in Workers, Step(w)
    PROVE  Inv'
<1>1. CASE /\ UNCHANGED rosterVars
           /\ \/ CreateConnect(w) \/ CreateInsert(w) \/ CreateRoles(w) \/ CreateReadBack(w)
              \/ RegisterConnect(w) \/ RegisterInsert(w) \/ RegisterRole(w) \/ RegisterCommit(w)
              \/ UpdateConnect(w) \/ UpdateSnapshot(w) \/ UpdateDelete(w)
              \/ UpdateInsert(w) \/ UpdateCommit(w)
              \/ Answer(w)
  BY <1>1, AccountConnectStep, AccountInsertStep, AccountRolesStep, CreateReadBackStep,
     RegisterCommitStep, UpdateStep, UpdateCommitStep, AnswerStep
<1>2. CASE /\ UNCHANGED accountVars
           /\ BusInsert(w) \/ LinkConnect(w) \/ LinkFind(w) \/ LinkCommit(w)
  BY <1>2, BusInsertStep, LinkFirstStep, LinkFindStep, LinkCommitStep
<1>3. CASE SeedConnect(w) \/ SeedRoles(w) \/ SeedUsers(w) \/ SeedRows(w) \/ SeedCommit(w)
  BY <1>3, SeedFirstStep, SeedUsersStep, SeedRowsStep, SeedCommitStep
<1>4. QED
  BY <1>1, <1>2, <1>3 DEF Step

LEMMA NextInv ==
    ASSUME Inv, Next
    PROVE  Inv'
<1>1. ASSUME NEW w \in Workers, Request(w) PROVE Inv'
  BY <1>1, AccountFindStep, UpdateFindStep, BusFindStep, LinkFirstStep, SeedBeginStep
     DEF Request
<1>2. ASSUME NEW w \in Workers, Timeout(w) \/ Victim(w) \/ Fail(w) PROVE Inv'
  BY <1>2, AbortStep DEF Timeout, Victim, Fail, dataVars
<1>3. ASSUME Single PROVE Inv'
  BY <1>3, DeleteUserStep, BusAwayStep, UnlinkStep DEF Single
<1>4. QED
  BY <1>1, <1>2, <1>3, StepStep DEF Next

LEMMA Invariant == Spec => []Inv
<1>1. Init => Inv
  BY InitInv
<1>2. Inv /\ [Next]_vars => Inv'
  BY NextInv, Stutters
<1>3. QED
  BY <1>1, <1>2, PTL DEF Spec

\* Every request is at a step of its own with the fields of that step, no more connections
\* are taken than the pool has, and only transactions have one.
THEOREM TypeCorrect == Spec => []TypeOK
<1>1. Inv => TypeOK
  BY DEF Inv
<1>2. QED
  BY <1>1, Invariant, PTL

\* However updateUser, deleteUser, the registrations and the seed fail, race and wait for
\* one another, a live account has roles, and unless two requests wrote them at the same
\* time they are those it was last given.
THEOREM RolesAreKept == Spec => []RolesKept
<1>1. Inv => RolesKept
  BY DEF Inv, DataInv
<1>2. QED
  BY <1>1, Invariant, PTL

\* Two live buses have one plate number, and the child is twice on one route, only when
\* requests, or a request and a seed, added them at the same time.
THEOREM DoublesNeedRace == Spec => []DoublesOnlyInRace
<1>1. Inv => DoublesOnlyInRace
  BY DEF Inv, DataInv
<1>2. QED
  BY <1>1, Invariant, PTL

=============================================================================
