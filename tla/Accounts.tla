------------------------------ MODULE Accounts ------------------------------
(***************************************************************************)
(* Accounts and their roles (userService, and the registrations of         *)
(* authService).  An account is known by its e-mail address, which has a   *)
(* unique index.  What a transaction has written is in its worker's job    *)
(* until it commits, because no other statement sees it before; the locks  *)
(* it holds until then follow from what it has written.                    *)
(***************************************************************************)
EXTENDS Pool

CONSTANTS Emails, Roles

ASSUME RolesAssumption == {"admin", "parent"} \subseteq Roles

VARIABLES
    users,      \* rows of users: "none", "live" or "deleted" (deleted_at)
    roleRows,   \* rows of roles
    userRoles,  \* rows of user_roles: a role, and the request that inserted the row
    wish,       \* history: the roles the account was last given
    mixed       \* history: accounts whose roles two requests wrote at the same time

accountVars == <<users, roleRows, userRoles, wish, mixed>>

AccountJob ==
         [at : {"create.connect", "create.insert", "create.roles", "create.readback",
                "register.connect", "register.insert", "register.role", "register.commit",
                "update.connect", "update.snapshot"},
          req : Requests, email : Emails, roles : SUBSET Roles]
    \cup [at : {"update.delete", "update.insert", "update.commit"},
          req : Requests, email : Emails, roles : SUBSET Roles,
          gone : SUBSET (Roles \X Requests)]
    \cup [at : {"answer"}]

AccountsTypeOK ==
    /\ users \in [Emails -> {"none", "live", "deleted"}]
    /\ roleRows \subseteq Roles
    /\ userRoles \in [Emails -> SUBSET (Roles \X Requests)]
    /\ wish \in [Emails -> SUBSET Roles]
    /\ mixed \subseteq Emails

AccountsInit ==
    /\ users = [e \in Emails |-> "none"]
    /\ roleRows \in {{}, {"parent"}}   \* before and after somebody else's registration
    /\ userRoles = [e \in Emails |-> {}]
    /\ wish = [e \in Emails |-> {}]
    /\ mixed = {}

-----------------------------------------------------------------------------
Rows(roles, req) == {<<r, req>> : r \in roles}
RolesOf(rows) == {row[1] : row \in rows}

At(w, steps) == job[w].at \in steps

\* What the open transaction of a worker has written: e-mails into the unique index,
\* roles upserted, and the rows of user_roles (account, role) inserted and deleted.
Inserted(w) ==
    IF At(w, {"create.roles", "create.readback", "register.role", "register.commit"})
      THEN {job[w].email}
      ELSE IF At(w, {"seed.rows", "seed.commit"}) THEN job[w].emails ELSE {}

Upserted(w) ==
    IF At(w, {"register.commit"}) THEN job[w].roles
      ELSE IF At(w, {"seed.users", "seed.rows", "seed.commit"}) THEN Roles ELSE {}

Granted(w) ==
    IF At(w, {"create.readback", "register.commit", "update.commit"})
      THEN {job[w].email} \X job[w].roles
      ELSE IF At(w, {"seed.rows", "seed.commit"}) THEN job[w].granted ELSE {}

Revoked(w) ==
    IF At(w, {"update.insert", "update.commit"})
      THEN {job[w].email} \X RolesOf(job[w].gone) ELSE {}

\* The roles a transaction's rows of user_roles refer to are locked by the foreign key,
\* and only an upsert of the role waits for that.
Referenced(w) == Upserted(w) \cup {grant[2] : grant \in Granted(w)}

\* Somebody else is in the middle of writing the roles of e.
WritingRoles(w, e) ==
    \E v \in Workers \ {w} :
        \/ /\ At(v, {"update.connect", "update.snapshot", "update.delete",
                     "update.insert", "update.commit"})
           /\ job[v].email = e
        \/ e \in {grant[1] : grant \in Granted(v)}

-----------------------------------------------------------------------------
\* The next statement of w waits for the transaction of v.
Blocks(v, w) ==
    LET at == job[w].at
    IN /\ v # w /\ w \in conn
       /\ \/ /\ at \in {"create.insert", "register.insert"}
             /\ job[w].email \in Inserted(v)
          \/ at = "create.roles" /\ job[w].roles \cap Upserted(v) # {}
          \/ at = "register.role" /\ job[w].roles \cap Referenced(v) # {}
          \/ /\ at = "update.delete"
             /\ ({job[w].email} \X RolesOf(job[w].gone)) \cap Revoked(v) # {}
          \/ /\ at = "update.insert"
             /\ \/ job[w].roles \cap Upserted(v) # {}
                \/ ({job[w].email} \X job[w].roles) \cap (Granted(v) \cup Revoked(v)) # {}
          \/ at = "seed.roles" /\ Referenced(v) # {}
          \/ at = "seed.users" /\ (Inserted(v) # {} \/ Revoked(v) # {})

Waits(w) == \E v \in Workers : Blocks(v, w)

-----------------------------------------------------------------------------
\* createUser.

\* The look for the e-mail, and the hash; a 409 changes nothing.
CreateFind(w) ==
    /\ \E e \in Emails, roles \in (SUBSET Roles) \ {{}} :
        /\ users[e] = "none"
        /\ Arrive(w, [at |-> "create.connect", req |-> seq + 1, email |-> e, roles |-> roles])
    /\ UNCHANGED accountVars

CreateConnect(w) ==
    /\ Connect(w, "create.connect", "create.insert")
    /\ UNCHANGED accountVars

\* The row of users; an e-mail that has a row by now aborts.
CreateInsert(w) ==
    /\ job[w].at = "create.insert" /\ ~Waits(w)
    /\ IF users[job[w].email] = "none"
         THEN Statement(w, "create.insert", [job[w] EXCEPT !.at = "create.roles"])
         ELSE Abort(w)
    /\ UNCHANGED accountVars

\* The rows of user_roles; an unknown role aborts with 400.
CreateRoles(w) ==
    /\ job[w].at = "create.roles" /\ ~Waits(w)
    /\ IF job[w].roles \subseteq roleRows
         THEN Statement(w, "create.roles", [job[w] EXCEPT !.at = "create.readback"])
         ELSE Abort(w)
    /\ UNCHANGED accountVars

\* What COMMIT makes of a transaction that has inserted an account.
KeepAccount(w) ==
    /\ users' = [users EXCEPT ![job[w].email] = "live"]
    /\ roleRows' = roleRows \cup job[w].roles
    /\ userRoles' = [userRoles EXCEPT ![job[w].email] = Rows(job[w].roles, job[w].req)]
    /\ wish' = [wish EXCEPT ![job[w].email] = job[w].roles]
    /\ UNCHANGED mixed

\* getUserById, on a second connection, which sees what is committed.  A 404 thrown
\* there rolls the transaction back.
CreateReadBack(w) ==
    /\ job[w].at = "create.readback" /\ Free
    /\ IF users[job[w].email] = "live" THEN KeepAccount(w) ELSE UNCHANGED accountVars
    /\ Release(w, Idle)

-----------------------------------------------------------------------------
\* registerOrgAndAdmin and registerParent: the one makes an admin, the other a parent.

RegisterFind(w) ==
    /\ \E e \in Emails, r \in {"admin", "parent"} :
        /\ users[e] = "none"
        /\ Arrive(w, [at |-> "register.connect", req |-> seq + 1, email |-> e, roles |-> {r}])
    /\ UNCHANGED accountVars

RegisterConnect(w) ==
    /\ Connect(w, "register.connect", "register.insert")
    /\ UNCHANGED accountVars

\* The row of users, and before it that of organizations.
RegisterInsert(w) ==
    /\ job[w].at = "register.insert" /\ ~Waits(w)
    /\ IF users[job[w].email] = "none"
         THEN Statement(w, "register.insert", [job[w] EXCEPT !.at = "register.role"])
         ELSE Abort(w)
    /\ UNCHANGED accountVars

\* ensureRole, and the row of user_roles
RegisterRole(w) ==
    /\ ~Waits(w)
    /\ Statement(w, "register.role", [job[w] EXCEPT !.at = "register.commit"])
    /\ UNCHANGED accountVars

\* COMMIT; buildAuthPayload has still to store a refresh token.
RegisterCommit(w) ==
    /\ job[w].at = "register.commit"
    /\ KeepAccount(w)
    /\ Release(w, [at |-> "answer"])

-----------------------------------------------------------------------------
\* updateUser, with roles; a PATCH without them writes nothing that is modelled.

\* getUserById, and the UPDATE of the other fields.
UpdateFind(w) ==
    /\ \E e \in Emails, roles \in (SUBSET Roles) \ {{}} :
        /\ users[e] = "live"
        /\ Arrive(w, [at |-> "update.connect", req |-> seq + 1, email |-> e, roles |-> roles])
        /\ mixed' = IF WritingRoles(w, e) THEN mixed \cup {e} ELSE mixed
    /\ UNCHANGED <<users, roleRows, userRoles, wish>>

UpdateConnect(w) ==
    /\ Connect(w, "update.connect", "update.snapshot")
    /\ UNCHANGED accountVars

\* The DELETE starts: these are the rows it sees.
UpdateSnapshot(w) ==
    /\ job[w].at = "update.snapshot"
    /\ Statement(w, "update.snapshot",
                 [at |-> "update.delete", req |-> job[w].req, email |-> job[w].email,
                  roles |-> job[w].roles, gone |-> userRoles[job[w].email]])
    /\ UNCHANGED accountVars

\* Mutant of UpdateDelete: it runs on a pool connection, and is not rolled back.
UpdateDeleteOutside(w) ==
    /\ job[w].at = "update.delete" /\ ~Waits(w)
    /\ userRoles' = [userRoles EXCEPT ![job[w].email] = @ \ job[w].gone]
    /\ Statement(w, "update.delete", [job[w] EXCEPT !.at = "update.insert"])
    /\ UNCHANGED <<users, roleRows, wish, mixed>>

\* It waits for the rows another transaction has deleted, and finds them gone when
\* that one has committed; rows inserted meanwhile it does not see.
UpdateDelete(w) ==
    /\ job[w].at = "update.delete" /\ ~Waits(w)
    /\ Statement(w, "update.delete",
                 [job[w] EXCEPT !.at = "update.insert",
                                !.gone = @ \cap userRoles[job[w].email]])
    /\ UNCHANGED accountVars

\* The INSERTs: a role without a row in roles aborts with 400, and a role the account
\* has kept or been given meanwhile with a violation of the primary key.
UpdateInsert(w) ==
    /\ job[w].at = "update.insert" /\ ~Waits(w)
    /\ LET left == RolesOf(userRoles[job[w].email] \ job[w].gone)
       IN IF job[w].roles \subseteq roleRows /\ job[w].roles \cap left = {}
            THEN Statement(w, "update.insert", [job[w] EXCEPT !.at = "update.commit"])
            ELSE Abort(w)
    /\ UNCHANGED accountVars

\* COMMIT; the user is read once more for the answer.
UpdateCommit(w) ==
    /\ job[w].at = "update.commit"
    /\ LET e == job[w].email
       IN /\ userRoles' = [userRoles EXCEPT ![e] =
                             (@ \ job[w].gone) \cup Rows(job[w].roles, job[w].req)]
          /\ wish' = [wish EXCEPT ![e] = job[w].roles]
    /\ Release(w, [at |-> "answer"])
    /\ UNCHANGED <<users, roleRows, mixed>>

\* deleteUser
DeleteUser(e) ==
    /\ users[e] = "live" /\ Free
    /\ users' = [users EXCEPT ![e] = "deleted"]
    /\ UNCHANGED <<roleRows, userRoles, wish, mixed, poolVars>>

\* The last statement of a registration or an update: a refresh token, the user.
Answer(w) ==
    /\ Query(w, "answer", Idle)
    /\ UNCHANGED accountVars

=============================================================================
