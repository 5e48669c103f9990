-------------------------------- MODULE Pool --------------------------------
(***************************************************************************)
(* The requests the API is serving and the connections they use           *)
(* (config/db).  query() borrows a connection for one statement;           *)
(* withTransaction() keeps one from BEGIN to COMMIT or ROLLBACK, and a     *)
(* query() made meanwhile borrows a second.  A request that gets none      *)
(* within connectionTimeoutMillis meets an error.                          *)
(***************************************************************************)
EXTENDS Naturals, FiniteSets

CONSTANTS
    Workers,      \* requests the API serves at the same time
    PoolMax,      \* PG_POOL_MAX
    MaxRequests   \* bound: requests ever made

ASSUME PoolAssumption == PoolMax \in Nat \ {0} /\ MaxRequests \in Nat

VARIABLES
    job,   \* the request each worker is in the middle of, and its next step
    conn,  \* workers whose transaction has a connection
    seq    \* requests made so far

poolVars == <<job, conn, seq>>

Idle == [at |-> "idle"]
Requests == 1..MaxRequests

\* A statement, or a BEGIN, can have a connection.
Free == Cardinality(conn) < PoolMax

PoolInit ==
    /\ job = [w \in Workers |-> Idle]
    /\ conn = {}
    /\ seq = 0

\* A request arrives, and its first statement runs.
Arrive(w, request) ==
    /\ job[w] = Idle /\ seq < MaxRequests /\ Free
    /\ seq' = seq + 1
    /\ job' = [job EXCEPT ![w] = request]
    /\ UNCHANGED conn

\* A statement outside a transaction, or on a second connection of one.
Query(w, from, to) ==
    /\ job[w].at = from /\ Free
    /\ job' = [job EXCEPT ![w] = to]
    /\ UNCHANGED <<conn, seq>>

\* pool.connect() and BEGIN
Connect(w, from, to) ==
    /\ job[w].at = from /\ Free
    /\ conn' = conn \cup {w}
    /\ job' = [job EXCEPT ![w].at = to]
    /\ UNCHANGED seq

\* A statement of the worker's transaction.
Statement(w, from, to) ==
    /\ job[w].at = from /\ w \in conn
    /\ job' = [job EXCEPT ![w] = to]
    /\ UNCHANGED <<conn, seq>>

\* Mutant of Release: no client.release() in a finally.
ReleaseNone(w, to) ==
    /\ job' = [job EXCEPT ![w] = to]
    /\ UNCHANGED <<conn, seq>>

\* COMMIT or ROLLBACK, client.release(), and what the handler does next.
Release(w, to) ==
    /\ conn' = conn \ {w}
    /\ job' = [job EXCEPT ![w] = to]
    /\ UNCHANGED seq

\* The request ends with an error; an open transaction is rolled back.
Abort(w) == job[w] # Idle /\ Release(w, Idle)

=============================================================================
