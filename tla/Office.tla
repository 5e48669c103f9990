------------------------------- MODULE Office -------------------------------
(***************************************************************************)
(* The office's side of the API at work on one pool of connections:        *)
(* accounts, registrations, buses, the routes of children and the seed.    *)
(***************************************************************************)
EXTENDS Seed

vars == <<poolVars, accountVars, rosterVars>>
dataVars == <<accountVars, rosterVars>>

TypeOK ==
    /\ job \in [Workers -> {Idle} \cup AccountJob \cup RosterJob \cup SeedJob]
    /\ conn \subseteq {w \in Workers : job[w] # Idle} /\ Cardinality(conn) <= PoolMax
    /\ seq \in 0..MaxRequests
    /\ AccountsTypeOK
    /\ RosterTypeOK

Init == PoolInit /\ AccountsInit /\ RosterInit

-----------------------------------------------------------------------------
\* Every next step of the request a worker is in the middle of.
Step(w) ==
    \/ /\ UNCHANGED rosterVars
       /\ \/ CreateConnect(w) \/ CreateInsert(w) \/ CreateRoles(w) \/ CreateReadBack(w)
          \/ RegisterConnect(w) \/ RegisterInsert(w) \/ RegisterRole(w) \/ RegisterCommit(w)
          \/ UpdateConnect(w) \/ UpdateSnapshot(w) \/ UpdateDelete(w)
          \/ UpdateInsert(w) \/ UpdateCommit(w)
          \/ Answer(w)
    \/ /\ UNCHANGED accountVars
       /\ BusInsert(w) \/ LinkConnect(w) \/ LinkFind(w) \/ LinkCommit(w)
    \/ SeedConnect(w) \/ SeedRoles(w) \/ SeedUsers(w) \/ SeedRows(w) \/ SeedCommit(w)

\* The next statement needs a connection of the pool.
NeedsConnection(w) ==
    job[w].at \in {"create.connect", "create.readback", "register.connect", "update.connect",
                   "link.connect", "seed.connect", "bus.insert", "answer"}

\* Mutant of Timeout: no connectionTimeoutMillis, whose default is to wait for ever.
TimeoutNever(w) == NeedsConnection(w) /\ ~Free /\ UNCHANGED vars

\* connectionTimeoutMillis has passed without one.
Timeout(w) == NeedsConnection(w) /\ ~Free /\ Abort(w) /\ UNCHANGED dataVars

\* Two transactions wait for each other, and PostgreSQL ends one.
Victim(w) ==
    /\ \E v \in Workers : Blocks(v, w) /\ Blocks(w, v)
    /\ Abort(w)
    /\ UNCHANGED dataVars

\* A statement fails: the database is away, or the connection is lost.
Fail(w) == Abort(w) /\ UNCHANGED dataVars

Request(w) ==
    \/ (CreateFind(w) \/ RegisterFind(w) \/ UpdateFind(w)) /\ UNCHANGED rosterVars
    \/ (BusFind(w) \/ LinkChecks(w)) /\ UNCHANGED accountVars
    \/ SeedBegin(w)

\* Requests of one statement, or whose earlier ones only look.
Single ==
    \/ \E e \in Emails : DeleteUser(e) /\ UNCHANGED rosterVars
    \/ /\ UNCHANGED accountVars
       /\ \/ \E s \in Spellings : BusRename(s) \/ BusRemove(s)
          \/ \E r \in Routes : Unlink(r)

Next ==
    \/ \E w \in Workers : Request(w) \/ Step(w) \/ Timeout(w) \/ Victim(w) \/ Fail(w)
    \/ Single

Spec == Init /\ [][Next]_vars

\* The driver runs what it is given, the timer of the pool fires, and so does the
\* deadlock detector.
FairSpec ==
    /\ Spec
    /\ \A w \in Workers : WF_vars(Step(w)) /\ WF_vars(Timeout(w)) /\ WF_vars(Victim(w))

-----------------------------------------------------------------------------
\* Every request is answered in the end, also when each of PG_POOL_MAX createUsers has
\* a connection and asks for a second, and when transactions wait for each other.
Answered == \A w \in Workers : (job[w] # Idle) ~> (job[w] = Idle)

\* updateUser, however it fails and whatever races it, never leaves a live account
\* without a role.
AccountsHaveRoles == \A e \in Emails : users[e] = "live" => userRoles[e] # {}

\* An account has the roles it was last given, and others only after two requests wrote
\* them at the same time: a failed update has changed nothing.
RolesAsWished == \A e \in Emails \ mixed : RolesOf(userRoles[e]) = wish[e]

\* However role updates fail and race, an account keeps roles somebody wanted for it.
RolesKept == AccountsHaveRoles /\ RolesAsWished

\* Two live buses with one plate number, or two rows that put the child on one route,
\* come only from requests at the same time, or from the seed's own spelling: two
\* seeds never make them.
DoublesOnlyInRace ==
    /\ LiveBuses > 1 => "plate" \in raced
    /\ \A r \in Routes \ raced : links[r] <= 1

\* What POST /users promises: once the user is read back, the account is there.
CreatedIsKept ==
    [][\A w \in Workers : CreateReadBack(w) => users'[job[w].email] = "live"]_vars

=============================================================================
