--------------------------- MODULE RefreshTokens ----------------------------
(***************************************************************************)
(* The refresh tokens of one user (refreshTokenService, and the calls of   *)
(* authService that reach it).  Each statement commits on its own: what    *)
(* the code calls an atomic rotation is a read, an insert and an update    *)
(* with anything in between.  A client may present a token it was given    *)
(* any number of times, also while an earlier request of its is unanswered *)
(* or after that request was lost with the process.                        *)
(***************************************************************************)
EXTENDS Naturals

CONSTANTS
    Workers,     \* requests the API serves at the same time
    MaxTokens,   \* bound: tokens ever issued
    MaxCrashes,  \* bound: deaths of the process
    None

Ids == 1..MaxTokens

ASSUME BoundAssumption == MaxTokens \in Nat /\ MaxCrashes \in Nat

VARIABLES
    tokens,   \* refresh_tokens, None where there is no row
    seq,      \* tokens issued so far
    given,    \* the tokens whose raw value a client has received
    deleted,  \* the user has deleted_at set
    job,      \* the rotation each worker is in the middle of
    uses,     \* rotations of each token answered with a new one, up to 2
    tainted,  \* tokens that existed when a replay was found, and what they became
    raced,    \* tokens that met another request in the middle of rotating them
    crashes   \* deaths of the process so far

\* What only the properties look at.
history == <<uses, tainted, raced>>
vars == <<tokens, seq, given, deleted, job, history, crashes>>

\* session: the token of the login the row descends from; parent: the token it
\* replaces.  Neither is a column; replacedBy is.
Token == [revoked : BOOLEAN, expired : BOOLEAN, replacedBy : Ids \cup {None},
          parent : Ids \cup {None}, session : Ids]

ASSUME NoneAssumption == None \notin Ids /\ None \notin Token

Idle == [at |-> "idle"]
Job == {Idle} \cup [at : {"replayed", "valid"}, old : Ids]
              \cup [at : {"issued", "rotated"}, old : Ids, new : Ids]

TypeOK ==
    /\ tokens \in [Ids -> Token \cup {None}]
    /\ seq \in 0..MaxTokens
    /\ given \subseteq Ids /\ tainted \subseteq Ids /\ raced \subseteq Ids
    /\ deleted \in BOOLEAN
    /\ job \in [Workers -> Job]
    /\ uses \in [Ids -> 0..2]
    /\ crashes \in 0..MaxCrashes

Init ==
    /\ tokens = [i \in Ids |-> None]
    /\ seq = 0 /\ given = {} /\ tainted = {} /\ raced = {} /\ deleted = FALSE
    /\ job = [w \in Workers |-> Idle]
    /\ uses = [i \in Ids |-> 0]
    /\ crashes = 0

-----------------------------------------------------------------------------
Stored(i) == tokens[i] # None
Live(i) == Stored(i) /\ ~tokens[i].revoked

\* Some request has found i valid and not revoked it yet.
Rotating(i) == \E w \in Workers : job[w].at \in {"valid", "issued"} /\ job[w].old = i

\* issueRefreshToken
Insert(parent, session) ==
    /\ seq < MaxTokens
    /\ seq' = seq + 1
    /\ tokens' = [tokens EXCEPT ![seq + 1] =
                    [revoked |-> FALSE, expired |-> FALSE, replacedBy |-> None,
                     parent |-> parent, session |-> session]]

\* authService.login and the registrations: a new session.
Login ==
    /\ ~deleted
    /\ Insert(None, seq + 1)
    /\ given' = given \cup {seq + 1}
    /\ UNCHANGED <<deleted, job, history, crashes>>

\* Mutant of Read: revoked_at is not looked at.
ReadUnchecked(w) ==
    /\ job[w] = Idle
    /\ \E i \in given :
        /\ ~tokens[i].expired
        /\ job' = [job EXCEPT ![w] = [at |-> "valid", old |-> i]]
        /\ raced' = IF Rotating(i) THEN raced \cup {i} ELSE raced
    /\ UNCHANGED <<tokens, seq, given, deleted, uses, tainted, crashes>>

\* Mutant of Read: an expired token is kept apart and never refused.
ReadExpired(w) ==
    /\ job[w] = Idle
    /\ \E i \in given :
        job' = [job EXCEPT ![w] =
                  [at |-> IF tokens[i].revoked THEN "replayed"
                          ELSE IF tokens[i].expired THEN "expired" ELSE "valid", old |-> i]]
    /\ UNCHANGED <<tokens, seq, given, deleted, history, crashes>>

\* rotateRefreshToken reads the row; an expired one is refused.
Read(w) ==
    /\ job[w] = Idle
    /\ \E i \in given :
        /\ tokens[i].revoked \/ ~tokens[i].expired
        /\ job' = [job EXCEPT ![w] =
                     [at |-> IF tokens[i].revoked THEN "replayed" ELSE "valid", old |-> i]]
        /\ raced' = IF Rotating(i) THEN raced \cup {i} ELSE raced
    /\ UNCHANGED <<tokens, seq, given, deleted, uses, tainted, crashes>>

\* Mutant of RevokeFamily: only the presented token is revoked.
RevokePresented(w) ==
    /\ job[w].at = "replayed"
    /\ tokens' = [tokens EXCEPT ![job[w].old].revoked = TRUE]
    /\ tainted' = {i \in Ids : Stored(i)}
    /\ raced' = raced \cup {i \in Ids : Rotating(i)}
    /\ job' = [job EXCEPT ![w] = Idle]
    /\ UNCHANGED <<seq, given, deleted, uses, crashes>>

\* A revoked token was presented: every token of the user is revoked, 401.
RevokeFamily(w) ==
    /\ job[w].at = "replayed"
    /\ tokens' = [i \in Ids |-> IF Live(i) THEN [tokens[i] EXCEPT !.revoked = TRUE]
                                           ELSE tokens[i]]
    /\ tainted' = {i \in Ids : Stored(i)}
    /\ raced' = raced \cup {i \in Ids : Rotating(i)}
    /\ job' = [job EXCEPT ![w] = Idle]
    /\ UNCHANGED <<seq, given, deleted, uses, crashes>>

Issue(w) ==
    /\ job[w].at = "valid"
    /\ LET old == job[w].old
       IN /\ Insert(old, tokens[old].session)
          /\ job' = [job EXCEPT ![w] = [at |-> "issued", old |-> old, new |-> seq + 1]]
          /\ tainted' = IF old \in tainted THEN tainted \cup {seq + 1} ELSE tainted
    /\ UNCHANGED <<given, deleted, uses, raced, crashes>>

\* Mutants of RevokeOld: it links without revoking, or takes the latest token for
\* the replacement.
LinkOnly(w) ==
    /\ job[w].at = "issued"
    /\ tokens' = [tokens EXCEPT ![job[w].old].replacedBy = job[w].new]
    /\ job' = [job EXCEPT ![w].at = "rotated"]
    /\ UNCHANGED <<seq, given, deleted, history, crashes>>

LinkLatest(w) ==
    /\ job[w].at = "issued"
    /\ tokens' = [tokens EXCEPT ![job[w].old].revoked = TRUE,
                                ![job[w].old].replacedBy = seq]
    /\ job' = [job EXCEPT ![w].at = "rotated"]
    /\ UNCHANGED <<seq, given, deleted, history, crashes>>

\* The replacement is looked up by its hash, then the presented row is updated,
\* whatever became of it since it was read.
RevokeOld(w) ==
    /\ job[w].at = "issued"
    /\ tokens' = [tokens EXCEPT ![job[w].old] =
                    [@ EXCEPT !.revoked = TRUE, !.replacedBy = job[w].new]]
    /\ job' = [job EXCEPT ![w].at = "rotated"]
    /\ UNCHANGED <<seq, given, deleted, history, crashes>>

\* authService.refresh reads the user and answers; 401 if it is deleted.
Reply(w) ==
    /\ job[w].at = "rotated"
    /\ IF deleted
         THEN UNCHANGED <<given, uses>>
         ELSE /\ given' = given \cup {job[w].new}
              /\ uses' = [uses EXCEPT ![job[w].old] = IF @ < 2 THEN @ + 1 ELSE 2]
    /\ job' = [job EXCEPT ![w] = Idle]
    /\ UNCHANGED <<tokens, seq, deleted, tainted, raced, crashes>>

\* revokeRefreshToken
Logout ==
    /\ \E i \in given : tokens' = [tokens EXCEPT ![i].revoked = TRUE]
    /\ UNCHANGED <<seq, given, deleted, job, history, crashes>>

\* Nobody asks whether a revoked token, or one no client holds, is expired as well.
Expire(i) ==
    /\ i \in given /\ Live(i) /\ ~tokens[i].expired
    /\ tokens' = [tokens EXCEPT ![i].expired = TRUE]
    /\ UNCHANGED <<seq, given, deleted, job, history, crashes>>

\* userService.deleteUser
DeleteUser ==
    /\ deleted' = TRUE
    /\ UNCHANGED <<tokens, seq, given, job, history, crashes>>

\* The process dies: a token that was issued and not answered is nobody's.
Crash ==
    /\ crashes < MaxCrashes
    /\ crashes' = crashes + 1
    /\ job' = [w \in Workers |-> Idle]
    /\ UNCHANGED <<tokens, seq, given, deleted, history>>

Next ==
    \/ Login \/ Logout \/ DeleteUser \/ Crash
    \/ \E w \in Workers :
        Read(w) \/ RevokeFamily(w) \/ Issue(w) \/ RevokeOld(w) \/ Reply(w)
    \/ \E i \in Ids : Expire(i)

Spec == Init /\ [][Next]_vars

-----------------------------------------------------------------------------
\* Properties.

\* A client that holds a new token holds no usable predecessor of it: the old
\* row is revoked before refresh answers, in every interleaving and crash.
OldRevokedFirst ==
    \A i \in given : tokens[i].parent # None => ~Live(tokens[i].parent)

\* replaced_by always leads to a token issued in exchange for this very one.
LinkIsOwn ==
    \A i \in Ids :
        Stored(i) /\ tokens[i].replacedBy # None =>
            Stored(tokens[i].replacedBy) /\ tokens[tokens[i].replacedBy].parent = i

\* Whoever rotates a token at the same time, and wherever the process dies, the chain
\* of the session can be followed and only its end used.
RotationKept == OldRevokedFirst /\ LinkIsOwn

\* Only two requests that rotate a token at the same time get two new tokens for
\* it: a repeated, delayed or retried request, or one after a crash, does not.
UsedTwiceOnlyInRace == \A i \in Ids : uses[i] > 1 => i \in raced

\* Some rotation of the session met another request.
RacedSession(session) ==
    \E i \in raced : tokens[i].session = session

\* Without such a race a session never has two usable tokens in the hands of its
\* client, so whoever steals one cuts the other off and is found out.
OneLivePerSession ==
    \A i, j \in given :
        Live(i) /\ Live(j) /\ tokens[i].session = tokens[j].session =>
            i = j \/ RacedSession(tokens[i].session)

\* "If a revoked token is replayed, all refresh tokens for that user are
\* revoked": neither a token of that moment nor one it is exchanged for is
\* usable afterwards, unless its exchange was under way.
ReplayEndsSessions ==
    \A i \in tainted : Live(i) => RacedSession(tokens[i].session)

\* How a client sees a token: usable is what refresh would not refuse.
Standing(i) ==
    IF i \notin given THEN "none"
    ELSE IF Live(i) /\ ~tokens[i].expired THEN "usable" ELSE "dead"

\* The four statements of a rotation, repeated, overlapping and cut off by crashes,
\* give the client what Sessions promises: one new token for each it gives up, in the
\* same session, the old one useless before the new one arrives, and never back.
Line == INSTANCE Sessions WITH
    standing <- [i \in Ids |-> Standing(i)],
    session <- [i \in Ids |-> IF i \in given THEN tokens[i].session ELSE None],
    uses <- uses,
    forked <- raced

SessionsKept == Line!Spec

=============================================================================
