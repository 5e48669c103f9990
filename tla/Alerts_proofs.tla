---------------------------- MODULE Alerts_proofs ---------------------------
(***************************************************************************)
(* Proofs about Alerts, for any numbers of requests, managers, callers,    *)
(* trips, children and rows: the types, the refinement of AlertLifecycle   *)
(* by both tables, and that the parents of whoever is on board are told.   *)
(***************************************************************************)
EXTENDS Alerts, FiniteSetTheorems, TLAPS

\* What the job of a worker holds, by the point the worker is at.
LEMMA JobFields ==
    ASSUME NEW j \in Job
    PROVE  /\ j.at = "delete" => j.id \in AIds
           /\ j.at = "inserted" => j.user \in Callers /\ j.trip \in Trips \cup {None}
           /\ j.at \in {"stored", "audience", "told"} => j.sos \in SIds
           /\ j.at \in {"audience", "told"} => j.to \in SUBSET Users
  BY DEF Job, Idle

\* The UPDATEs of both services make rows of rows, whatever columns these have besides.
LEMMA UpdatedType ==
    ASSUME NEW u \in Managers
    PROVE  /\ \A row \in Row : Acknowledged(row, u) \in Row /\ Resolved(row, u) \in Row
           /\ \A row \in Call : Acknowledged(row, u) \in Call /\ Resolved(row, u) \in Call
  BY DEF Row, Call, Status, Acknowledged, Resolved, FirstOf

\* The rows the code writes, and the ones it has not written yet.
LEMMA RowTypes == NoRow \in Row /\ NewRow \in Row /\ NoCall \in Call
  BY DEF Row, Call, Status, NoRow, NewRow, NoCall

\* The rows one run of the delay job inserts have the numbers that follow.
LEMMA LateNumbers ==
    ASSUME TypeOK, NEW late \in SUBSET running
    PROVE  Cardinality(late) \in Nat
  BY BoundAssumption, FS_Subset, FS_CardinalityType DEF TypeOK

\* The parents of whoever has boarded are users.
LEMMA ParentsAreUsers ==
    ASSUME NEW t PROVE Parents(t) \in SUBSET Users
  BY DEF Parents, Users

\* Every variable keeps its type: rows stay rows of their table, and a worker only
\* holds what its request needs at the point it is at.
THEOREM TypeCorrect == Spec => []TypeOK
<1>1. Init => TypeOK
  BY BoundAssumption, RowTypes DEF Init, TypeOK, AIds, SIds, Job
<1>2. TypeOK /\ [Next]_vars => TypeOK'
  <2> SUFFICES ASSUME TypeOK, [Next]_vars PROVE TypeOK'
    OBVIOUS
  <2> USE DEF TypeOK
  <2>0. Idle \in Job
    BY DEF Job
  <2>1. CASE CreateAlert
    BY <2>1, RowTypes, BoundAssumption DEF CreateAlert, riders, fanout, AIds
  <2>2. CASE DelayJob
    <3>1. PICK late \in SUBSET running :
            /\ alertSeq + Cardinality(late) <= MaxAlerts
            /\ alertSeq' = alertSeq + Cardinality(late)
            /\ alerts' = [i \in AIds |-> IF i \in alertSeq + 1 .. alertSeq + Cardinality(late)
                                           THEN NewRow ELSE alerts[i]]
      BY <2>2 DEF DelayJob
    <3>2. alerts' \in [AIds -> Row] /\ alertSeq' \in 0..MaxAlerts
      BY <3>1, LateNumbers, RowTypes, BoundAssumption
    <3>3. QED
      BY <2>2, <3>2 DEF DelayJob, riders, fanout
  <2>3. CASE Crash
    BY <2>3, <2>0, BoundAssumption DEF Crash, tables, riders, fanout
  <2>4. ASSUME NEW u \in Managers, NEW i \in AIds, AckAlert(i, u) \/ ResolveAlert(i, u)
        PROVE  TypeOK'
    <3>1. alerts' \in [AIds -> Row]
      BY <2>4, UpdatedType DEF AckAlert, ResolveAlert
    <3>2. QED
      BY <2>4, <3>1 DEF AckAlert, ResolveAlert, riders, fanout
  <2>5. ASSUME NEW u \in Managers, NEW s \in SIds, AckSos(s, u) \/ ResolveSos(s, u)
        PROVE  TypeOK'
    <3>1. sos' \in [SIds -> Call]
      BY <2>5, UpdatedType DEF AckSos, ResolveSos
    <3>2. QED
      BY <2>5, <3>1 DEF AckSos, ResolveSos, riders, fanout
  <2>6. ASSUME NEW t \in Trips, EndTrip(t) PROVE TypeOK'
    BY <2>6 DEF EndTrip, tables, fanout
  <2>7. ASSUME NEW t \in Trips, NEW c \in Children, Checkin(t, c) PROVE TypeOK'
    <3>1. aboard' \in [SIds -> SUBSET Children]
      BY <2>7 DEF Checkin
    <3>2. boarded' \subseteq Trips \X Children /\ onBoard' \subseteq boarded'
      BY <2>7 DEF Checkin
    <3>3. QED
      BY <2>7, <3>1, <3>2 DEF Checkin, tables
  <2>8. ASSUME NEW w \in Workers, RemoveFind(w) PROVE TypeOK'
    <3>1. PICK i \in AIds : job' = [job EXCEPT ![w] = [at |-> "delete", id |-> i]]
      BY <2>8 DEF RemoveFind
    <3>2. [at |-> "delete", id |-> i] \in Job
      BY DEF Job
    <3>3. QED
      BY <2>8, <3>1, <3>2 DEF RemoveFind, tables, riders, fanout
  <2>9. ASSUME NEW w \in Workers, RemoveDelete(w) PROVE TypeOK'
    <3>1. [NoRow EXCEPT !.status = "removed"] \in Row
      BY DEF NoRow, Row, Status
    <3>2. QED
      BY <2>9, <2>0, <3>1 DEF RemoveDelete, riders, fanout
  <2>10. ASSUME NEW w \in Workers, SosInsert(w) PROVE TypeOK'
    <3>1. PICK u \in Callers, t \in Trips \cup {None} :
            job' = [job EXCEPT ![w] = [at |-> "inserted", user |-> u, trip |-> t]]
      BY <2>10 DEF SosInsert
    <3>2. [at |-> "inserted", user |-> u, trip |-> t] \in Job
      BY DEF Job
    <3>3. QED
      BY <2>10, <3>1, <3>2 DEF SosInsert, tables, riders, fanout
  <2>11. ASSUME NEW w \in Workers, SosCommit(w) PROVE TypeOK'
    <3>1. /\ job[w].user \in Callers /\ job[w].trip \in Trips \cup {None}
          /\ sosSeq + 1 \in SIds /\ alertSeq + 1 \in AIds
      BY <2>11, JobFields, BoundAssumption DEF SosCommit, SIds, AIds
    <3>2. [user |-> job[w].user, trip |-> job[w].trip, status |-> "active",
           ackBy |-> None, resBy |-> None] \in Call
      BY <3>1 DEF Call, Status
    <3>3. [at |-> "stored", sos |-> sosSeq + 1] \in Job
      BY <3>1 DEF Job
    <3>4. /\ sos' \in [SIds -> Call] /\ alerts' \in [AIds -> Row]
          /\ sosSeq' \in 0..MaxSos /\ alertSeq' \in 0..MaxAlerts
      BY <2>11, <3>1, <3>2, RowTypes, BoundAssumption DEF SosCommit
    <3>5. job' \in [Workers -> Job] /\ aboard' \in [SIds -> SUBSET Children]
      BY <2>11, <3>1, <3>3 DEF SosCommit
    <3>6. QED
      BY <2>11, <3>4, <3>5 DEF SosCommit, riders
  <2>12. ASSUME NEW w \in Workers, SosAudience(w) PROVE TypeOK'
    <3> DEFINE s  == job[w].sos
               to == (Managers \cup Parents(sos[s].trip)) \ {sos[s].user}
    <3>1. s \in SIds /\ to \in SUBSET Users
      BY <2>12, JobFields, ParentsAreUsers DEF SosAudience, Users
    <3>2. [at |-> "audience", sos |-> s, to |-> to] \in Job
      BY <3>1 DEF Job
    <3>3. job' = [job EXCEPT ![w] = [at |-> "audience", sos |-> s, to |-> to]]
      BY <2>12 DEF SosAudience
    <3>4. QED
      BY <2>12, <3>2, <3>3 DEF SosAudience, tables, riders, fanout
  <2>13. ASSUME NEW w \in Workers, SosNotify(w) PROVE TypeOK'
    <3>1. job[w].sos \in SIds /\ job[w].to \in SUBSET Users
      BY <2>13, JobFields DEF SosNotify
    <3>2. [job[w] EXCEPT !.at = "told"] \in Job
      BY <2>13 DEF SosNotify, Job, Idle
    <3>3. QED
      BY <2>13, <3>1, <3>2 DEF SosNotify, tables, riders
  <2>14. ASSUME NEW w \in Workers, SosAnnounce(w) PROVE TypeOK'
    <3>1. job[w].sos \in SIds
      BY <2>14, JobFields DEF SosAnnounce
    <3>2. QED
      BY <2>14, <2>0, <3>1 DEF SosAnnounce, tables, riders
  <2>15. ASSUME NEW w \in Workers, Fail(w) PROVE TypeOK'
    <3>1. CASE job[w].at \in {"delete", "inserted"}
      BY <2>15, <2>0, <3>1 DEF Fail, tables, riders, fanout
    <3>2. CASE job[w].at \in {"stored", "audience"}
      <4> DEFINE j == [at |-> "told", sos |-> job[w].sos,
                       to |-> IF job[w].at = "stored" THEN {} ELSE job[w].to]
      <4>1. job[w].sos \in SIds /\ (job[w].at = "audience" => job[w].to \in SUBSET Users)
        BY <3>2, JobFields
      <4>2. j \in Job
        BY <3>2, <4>1 DEF Job
      <4>3. job' = [job EXCEPT ![w] = j] /\ failed' = failed \cup {job[w].sos}
        BY <2>15, <3>2 DEF Fail
      <4>4. QED
        BY <2>15, <3>2, <4>1, <4>2, <4>3 DEF Fail, tables, riders
    <3>3. QED
      BY <2>15, <3>1, <3>2 DEF Fail
  <2>16. CASE UNCHANGED vars
    BY <2>16 DEF vars, tables, riders, fanout
  <2>17. QED
    BY <2>1, <2>2, <2>3, <2>4, <2>5, <2>6, <2>7, <2>8, <2>9, <2>10, <2>11, <2>12, <2>13,
       <2>14, <2>15, <2>16 DEF Next, Handle
<1>3. QED
  BY <1>1, <1>2, PTL DEF Spec

-----------------------------------------------------------------------------
\* The refinement.  An alert that nobody has touched has no audit, one that was
\* acknowledged or resolved has an acknowledgement, and rows are raised in order.

Audited(row) ==
    /\ row.status \in {"none", "active", "removed"} => row.ackBy = None /\ row.resBy = None
    /\ row.status \in {"acknowledged", "resolved"} => row.ackBy # None

AuditInv ==
    /\ \A i \in AIds : Audited(alerts[i]) /\ (i > alertSeq => alerts[i].status = "none")
    /\ \A s \in SIds : Audited(sos[s]) /\ (s > sosSeq => sos[s].status = "none")
    /\ \A w \in Workers : job[w].at = "delete" => alerts[job[w].id].status # "none"

\* What an UPDATE makes of the columns the lifecycle is about.
LEMMA UpdatedColumns ==
    ASSUME NEW row \in Row \cup Call, NEW u \in Managers, Audited(row)
    PROVE  /\ Acknowledged(row, u).status = "acknowledged"
           /\ Acknowledged(row, u).resBy = row.resBy
           /\ Resolved(row, u).status = "resolved"
           /\ Resolved(row, u).resBy = u
           /\ row.status = "active" => /\ Acknowledged(row, u).ackBy = u
                                       /\ Resolved(row, u).ackBy = u
           /\ row.status \in {"acknowledged", "resolved"} =>
                /\ Acknowledged(row, u).ackBy = row.ackBy
                /\ Resolved(row, u).ackBy = row.ackBy
  BY DEF Row, Call, Status, Acknowledged, Resolved, FirstOf, Audited

\* A row that is stored stays audited under both UPDATEs.
LEMMA UpdatedAudit ==
    ASSUME NEW row \in Row \cup Call, NEW u \in Managers, Audited(row), Stored(row)
    PROVE  Audited(Acknowledged(row, u)) /\ Audited(Resolved(row, u))
  <1>1. u # None
    BY NoneAssumption DEF Users
  <1>2. row.status \in {"active", "acknowledged", "resolved"}
    BY DEF Row, Call, Status, Stored
  <1>3. QED
    BY <1>1, <1>2, UpdatedColumns DEF Audited

\* So are the rows that were never written, were just written, or are deleted.
LEMMA FreshAudit ==
    /\ Audited(NoRow) /\ Audited(NewRow) /\ Audited(NoCall)
    /\ Audited([NoRow EXCEPT !.status = "removed"])
    /\ NewRow.status = "active" /\ NoRow.status = "none" /\ NoCall.status = "none"
  BY DEF Audited, NoRow, NewRow, NoCall

\* AuditInv holds throughout: what RemoveFind saw is still a row or was one, and new
\* rows get the next numbers.
LEMMA AuditInvariant == Spec => [](TypeOK /\ AuditInv)
<1>1. Init => AuditInv
  BY FreshAudit, BoundAssumption DEF Init, AuditInv, Idle
<1>2. TypeOK /\ AuditInv /\ [Next]_vars => AuditInv'
  <2> SUFFICES ASSUME TypeOK, AuditInv, [Next]_vars PROVE AuditInv'
    OBVIOUS
  <2> USE DEF AuditInv
  <2>0. /\ \A i \in AIds : alerts[i] \in Row
        /\ \A s \in SIds : sos[s] \in Call
        /\ alertSeq \in Nat /\ sosSeq \in Nat
        /\ \A w \in Workers : job[w] \in Job
    BY BoundAssumption DEF TypeOK
  <2>1. CASE CreateAlert
    BY <2>0, <2>1, FreshAudit, BoundAssumption, JobFields DEF CreateAlert, TypeOK, AIds
  <2>2. CASE DelayJob
    <3>1. PICK late \in SUBSET running :
            /\ alertSeq' = alertSeq + Cardinality(late)
            /\ alerts' = [i \in AIds |-> IF i \in alertSeq + 1 .. alertSeq + Cardinality(late)
                                           THEN NewRow ELSE alerts[i]]
            /\ UNCHANGED <<sos, sosSeq, job>>
      BY <2>2 DEF DelayJob
    <3>2. Cardinality(late) \in Nat
      BY LateNumbers
    <3>3. QED
      BY <2>0, <3>1, <3>2, FreshAudit, BoundAssumption, JobFields DEF AIds
  <2>3. CASE Crash
    BY <2>3 DEF Crash, tables, Idle
  <2>4. ASSUME NEW u \in Managers, NEW i \in AIds, AckAlert(i, u) \/ ResolveAlert(i, u)
        PROVE  AuditInv'
    <3>1. PICK row : /\ row = Acknowledged(alerts[i], u) \/ row = Resolved(alerts[i], u)
                     /\ Stored(alerts[i]) /\ alerts' = [alerts EXCEPT ![i] = row]
                     /\ UNCHANGED <<alertSeq, sos, sosSeq, job>>
      BY <2>4 DEF AckAlert, ResolveAlert
    <3>2. Audited(row) /\ row.status # "none"
      BY <2>0, <3>1, UpdatedAudit, UpdatedColumns
    <3>3. i <= alertSeq
      BY <2>0, <3>1 DEF Stored, AIds
    <3>4. QED
      BY <2>0, <3>1, <3>2, <3>3, JobFields DEF TypeOK, AIds
  <2>5. ASSUME NEW u \in Managers, NEW s \in SIds, AckSos(s, u) \/ ResolveSos(s, u)
        PROVE  AuditInv'
    <3>1. PICK row : /\ row = Acknowledged(sos[s], u) \/ row = Resolved(sos[s], u)
                     /\ Stored(sos[s]) /\ sos' = [sos EXCEPT ![s] = row]
                     /\ UNCHANGED <<alerts, alertSeq, sosSeq, job>>
      BY <2>5 DEF AckSos, ResolveSos
    <3>2. Audited(row)
      BY <2>0, <3>1, UpdatedAudit
    <3>3. s <= sosSeq
      BY <2>0, <3>1 DEF Stored, SIds
    <3>4. QED
      BY <2>0, <3>1, <3>2, <3>3 DEF TypeOK, SIds
  <2>6. CASE \E t \in Trips : EndTrip(t) \/ \E c \in Children : Checkin(t, c)
    BY <2>6 DEF EndTrip, Checkin, tables
  <2>7. ASSUME NEW w \in Workers, RemoveFind(w) PROVE AuditInv'
    BY <2>7 DEF RemoveFind, tables, TypeOK, Stored
  <2>8. ASSUME NEW w \in Workers, RemoveDelete(w) PROVE AuditInv'
    <3> DEFINE gone == [NoRow EXCEPT !.status = "removed"]
    <3>1. job[w].id \in AIds /\ job[w].id <= alertSeq
      BY <2>0, <2>8, JobFields DEF RemoveDelete, AIds
    <3>2. gone.status = "removed" /\ Audited(gone)
      BY FreshAudit DEF NoRow
    <3>3. /\ alerts' = [alerts EXCEPT ![job[w].id] = gone]
          /\ job' = [job EXCEPT ![w] = Idle]
          /\ UNCHANGED <<alertSeq, sos, sosSeq>>
      BY <2>8 DEF RemoveDelete
    <3> HIDE DEF gone
    <3>4. \A i \in AIds : /\ Audited(alerts'[i])
                          /\ i > alertSeq' => alerts'[i].status = "none"
                          /\ alerts[i].status # "none" => alerts'[i].status # "none"
      BY <2>0, <3>1, <3>2, <3>3 DEF TypeOK, AIds
    <3>5. \A v \in Workers : job'[v].at = "delete" => job'[v] = job[v]
      BY <3>3 DEF TypeOK, Idle
    <3>6. QED
      BY <2>0, <3>3, <3>4, <3>5, JobFields
  <2>9. ASSUME NEW w \in Workers, SosCommit(w) PROVE AuditInv'
    <3> DEFINE call == [user |-> job[w].user, trip |-> job[w].trip, status |-> "active",
                        ackBy |-> None, resBy |-> None]
    <3>1. sosSeq + 1 \in SIds /\ alertSeq + 1 \in AIds
      BY <2>0, <2>9, BoundAssumption DEF SosCommit, SIds, AIds
    <3>2. Audited(call)
      BY DEF Audited
    <3>3. /\ sos' = [sos EXCEPT ![sosSeq + 1] = call] /\ sosSeq' = sosSeq + 1
          /\ alerts' = [alerts EXCEPT ![alertSeq + 1] = NewRow] /\ alertSeq' = alertSeq + 1
          /\ job' = [job EXCEPT ![w] = [at |-> "stored", sos |-> sosSeq + 1]]
      BY <2>9 DEF SosCommit
    <3>4. \A v \in Workers : job'[v].at = "delete" => job'[v] = job[v]
      BY <3>3 DEF TypeOK
    <3>5. \A i \in AIds : /\ Audited(alerts'[i]) /\ (i > alertSeq' => alerts'[i].status = "none")
                          /\ alerts[i].status # "none" => alerts'[i].status # "none"
      BY <2>0, <3>1, <3>3, FreshAudit DEF TypeOK, AIds
    <3>6. \A s \in SIds : Audited(sos'[s]) /\ (s > sosSeq' => sos'[s].status = "none")
      BY <2>0, <3>1, <3>2, <3>3 DEF TypeOK, SIds
    <3>7. QED
      BY <2>0, <3>4, <3>5, <3>6, JobFields
  <2>10. ASSUME NEW w \in Workers,
                \/ SosInsert(w) \/ SosAudience(w) \/ SosNotify(w) \/ SosAnnounce(w) \/ Fail(w)
         PROVE  AuditInv'
    <3>1. UNCHANGED tables
      BY <2>10 DEF SosInsert, SosAudience, SosNotify, SosAnnounce, Fail
    <3>2. \E j : j.at # "delete" /\ job' = [job EXCEPT ![w] = j]
      <4>1. CASE SosInsert(w)
        BY <4>1 DEF SosInsert
      <4>2. CASE SosAudience(w)
        BY <4>2 DEF SosAudience
      <4>3. CASE SosNotify(w)
        <5> DEFINE j == [job[w] EXCEPT !.at = "told"]
        <5>1. job[w] = [at |-> "audience", sos |-> job[w].sos, to |-> job[w].to]
          BY <2>0, <4>3 DEF SosNotify, Job, Idle
        <5>2. j.at = "told"
          BY <5>1
        <5>3. job' = [job EXCEPT ![w] = j]
          BY <4>3 DEF SosNotify
        <5>4. QED
          BY <5>2, <5>3
      <4>4. CASE SosAnnounce(w)
        BY <4>4 DEF SosAnnounce, Idle
      <4>5. CASE Fail(w)
        BY <4>5 DEF Fail, Idle
      <4>6. QED
        BY <2>10, <4>1, <4>2, <4>3, <4>4, <4>5
    <3>3. \A v \in Workers : job'[v].at = "delete" => job'[v] = job[v]
      BY <3>2 DEF TypeOK
    <3>4. QED
      BY <3>1, <3>3 DEF tables
  <2>11. CASE UNCHANGED vars
    BY <2>11 DEF vars, tables
  <2>12. QED
    BY <2>1, <2>2, <2>3, <2>4, <2>5, <2>6, <2>7, <2>8, <2>9, <2>10, <2>11 DEF Next, Handle
<1>3. QED
  BY <1>1, <1>2, TypeCorrect, PTL DEF Spec

\* The three columns of a table of which one row is written.
LEMMA OneRowWritten ==
    ASSUME NEW I, NEW f, DOMAIN f = I, NEW i \in I, NEW row, NEW g, g = [f EXCEPT ![i] = row]
    PROVE  /\ [j \in I |-> g[j].status] = [[j \in I |-> f[j].status] EXCEPT ![i] = row.status]
           /\ [j \in I |-> g[j].ackBy] = [[j \in I |-> f[j].ackBy] EXCEPT ![i] = row.ackBy]
           /\ [j \in I |-> g[j].resBy] = [[j \in I |-> f[j].resBy] EXCEPT ![i] = row.resBy]
  OBVIOUS

\* The three columns of a table to which active rows are added where there was none.
LEMMA RowsAdded ==
    ASSUME NEW I, NEW f, DOMAIN f = I, NEW g, DOMAIN g = I, NEW new \in SUBSET I,
           \A i \in I \ new : g[i] = f[i],
           \A i \in new : /\ f[i].status = "none" /\ f[i].ackBy = None /\ f[i].resBy = None
                          /\ g[i].status = "active" /\ g[i].ackBy = None /\ g[i].resBy = None
    PROVE  /\ [j \in I |-> g[j].status] = [j \in I |-> IF j \in new THEN "active"
                                                       ELSE [k \in I |-> f[k].status][j]]
           /\ [j \in I |-> g[j].ackBy] = [j \in I |-> f[j].ackBy]
           /\ [j \in I |-> g[j].resBy] = [j \in I |-> f[j].resBy]
  OBVIOUS

\* A step of Alerts is a step of the lifecycle of alerts, or none.
LEMMA AlertStep ==
    ASSUME TypeOK, AuditInv, [Next]_vars
    PROVE  [AlertFeed!Next]_AlertFeed!vars
<1>0. /\ DOMAIN alerts = AIds /\ \A i \in AIds : alerts[i] \in Row /\ Audited(alerts[i])
      /\ alertSeq \in Nat /\ \A w \in Workers : job[w] \in Job
  BY BoundAssumption DEF TypeOK, AuditInv
<1>1. ASSUME UNCHANGED alerts PROVE UNCHANGED AlertFeed!vars
  BY <1>1 DEF AlertFeed!vars
<1>2. ASSUME NEW new \in SUBSET AIds, alerts' \in [AIds -> Row],
             \A i \in new : alerts[i].status = "none" /\ alerts'[i] = NewRow,
             \A i \in AIds \ new : alerts'[i] = alerts[i]
      PROVE  AlertFeed!Next
  <2>1. \A i \in new : alerts[i].ackBy = None /\ alerts[i].resBy = None
    BY <1>0, <1>2 DEF Audited
  <2>2. \A i \in new : /\ alerts'[i].status = "active"
                       /\ alerts'[i].ackBy = None /\ alerts'[i].resBy = None
    BY <1>2 DEF NewRow
  <2>3. DOMAIN alerts' = AIds
    BY <1>2
  <2>4. new \in SUBSET {i \in AIds : [j \in AIds |-> alerts[j].status][i] = "none"}
    BY <1>2
  <2>5. /\ [j \in AIds |-> alerts'[j].status]
              = [j \in AIds |-> IF j \in new THEN "active"
                                ELSE [k \in AIds |-> alerts[k].status][j]]
        /\ [j \in AIds |-> alerts'[j].ackBy] = [j \in AIds |-> alerts[j].ackBy]
        /\ [j \in AIds |-> alerts'[j].resBy] = [j \in AIds |-> alerts[j].resBy]
    BY <1>0, <1>2, <2>1, <2>2, <2>3, RowsAdded
  <2>6. AlertFeed!Raise
    BY <2>4, <2>5 DEF AlertFeed!Raise
  <2>7. QED
    BY <2>6 DEF AlertFeed!Next
<1>3. CASE CreateAlert \/ \E w \in Workers : SosCommit(w)
  <2>1. /\ alertSeq + 1 \in AIds /\ alerts' = [alerts EXCEPT ![alertSeq + 1] = NewRow]
    <3>1. CASE CreateAlert
      BY <1>0, <3>1, BoundAssumption DEF CreateAlert, AIds
    <3>2. ASSUME NEW w \in Workers, SosCommit(w)
          PROVE  alertSeq < MaxAlerts /\ alerts' = [alerts EXCEPT ![alertSeq + 1] = NewRow]
      BY <3>2 DEF SosCommit
    <3>3. QED
      BY <1>0, <1>3, <3>1, <3>2, BoundAssumption DEF AIds
  <2>2. alerts[alertSeq + 1].status = "none"
    BY <1>0, <2>1 DEF AuditInv
  <2>3. QED
    <3> DEFINE new == {alertSeq + 1}
    <3>1. new \in SUBSET AIds /\ \A i \in new : alerts[i].status = "none" /\ alerts'[i] = NewRow
      BY <1>0, <2>1, <2>2
    <3>2. alerts' \in [AIds -> Row] /\ \A i \in AIds \ new : alerts'[i] = alerts[i]
      BY <1>0, <2>1, RowTypes
    <3>3. QED
      BY <1>2, <3>1, <3>2
<1>4. CASE DelayJob
  <2>1. PICK late \in SUBSET running :
          alerts' = [i \in AIds |-> IF i \in alertSeq + 1 .. alertSeq + Cardinality(late)
                                       THEN NewRow ELSE alerts[i]]
    BY <1>4 DEF DelayJob
  <2> DEFINE new == AIds \cap (alertSeq + 1 .. alertSeq + Cardinality(late))
  <2>2. \A i \in new : i > alertSeq /\ alerts'[i] = NewRow
    BY <1>0, <2>1, LateNumbers
  <2>3. \A i \in AIds \ new : alerts'[i] = alerts[i]
    BY <2>1
  <2>4. alerts' \in [AIds -> Row]
    BY <1>0, <2>1, RowTypes
  <2>5. QED
    BY <1>2, <2>2, <2>3, <2>4 DEF AuditInv
<1>5. ASSUME NEW i \in AIds, NEW u \in Managers, AckAlert(i, u)
      PROVE  [AlertFeed!Next]_AlertFeed!vars
  <2> DEFINE row == Acknowledged(alerts[i], u)
  <2>1. alerts' = [alerts EXCEPT ![i] = row] /\ alerts[i].status \in {"active", "acknowledged"}
    BY <1>0, <1>5 DEF AckAlert, Stored, Row, Status
  <2>2. /\ row.status = "acknowledged" /\ row.resBy = alerts[i].resBy
        /\ row.ackBy = IF alerts[i].status = "active" THEN u ELSE alerts[i].ackBy
    BY <1>0, <2>1, UpdatedColumns
  <2> HIDE DEF row
  <2>3. CASE alerts[i].status = "active"
    <3>1. AlertFeed!Acknowledge(i, u)
      BY <1>0, <2>1, <2>2, <2>3, OneRowWritten DEF AlertFeed!Acknowledge
    <3>2. QED
      BY <3>1 DEF AlertFeed!Next
  <2>4. CASE alerts[i].status = "acknowledged"
    BY <1>0, <2>1, <2>2, <2>4, OneRowWritten DEF AlertFeed!vars
  <2>5. QED
    BY <2>1, <2>3, <2>4
<1>6. ASSUME NEW i \in AIds, NEW u \in Managers, ResolveAlert(i, u)
      PROVE  AlertFeed!Next
  <2> DEFINE row == Resolved(alerts[i], u)
  <2>1. /\ alerts' = [alerts EXCEPT ![i] = row]
        /\ alerts[i].status \in {"active", "acknowledged", "resolved"}
    BY <1>0, <1>6 DEF ResolveAlert, Stored, Row, Status
  <2>2. /\ row.status = "resolved" /\ row.resBy = u
        /\ row.ackBy = IF alerts[i].status = "active" THEN u ELSE alerts[i].ackBy
    BY <1>0, <2>1, UpdatedColumns
  <2> HIDE DEF row
  <2>3. AlertFeed!Resolve(i, u)
    BY <1>0, <2>1, <2>2, OneRowWritten DEF AlertFeed!Resolve, AlertFeed!Open
  <2>4. QED
    BY <2>3 DEF AlertFeed!Next
<1>7. ASSUME NEW w \in Workers, RemoveDelete(w)
      PROVE  [AlertFeed!Next]_AlertFeed!vars
  <2> DEFINE i == job[w].id
             gone == [NoRow EXCEPT !.status = "removed"]
  <2>1. i \in AIds /\ alerts' = [alerts EXCEPT ![i] = gone] /\ alerts[i].status # "none"
    BY <1>0, <1>7, JobFields DEF RemoveDelete, AuditInv
  <2>2. gone.status = "removed" /\ gone.ackBy = None /\ gone.resBy = None
    BY DEF NoRow
  <2> HIDE DEF i, gone
  <2>3. CASE alerts[i].status = "removed"
    BY <1>0, <2>1, <2>2, <2>3, OneRowWritten DEF AlertFeed!vars, Audited
  <2>4. CASE alerts[i].status \in {"active", "acknowledged", "resolved"}
    BY <1>0, <2>1, <2>2, <2>4, OneRowWritten
    DEF AlertFeed!Next, AlertFeed!Remove, AlertFeed!Open
  <2>5. QED
    BY <1>0, <2>1, <2>3, <2>4 DEF Row, Status
<1>8. CASE \/ Crash \/ UNCHANGED vars
           \/ \E u \in Managers, s \in SIds : AckSos(s, u) \/ ResolveSos(s, u)
           \/ \E t \in Trips : EndTrip(t) \/ \E c \in Children : Checkin(t, c)
           \/ \E w \in Workers : \/ RemoveFind(w) \/ SosInsert(w) \/ SosAudience(w)
                                  \/ SosNotify(w) \/ SosAnnounce(w) \/ Fail(w)
  <2>1. UNCHANGED alerts
    BY <1>8 DEF Crash, vars, tables, AckSos, ResolveSos, EndTrip, Checkin, RemoveFind,
                SosInsert, SosAudience, SosNotify, SosAnnounce, Fail
  <2>2. QED
    BY <1>1, <2>1
<1>9. QED
  BY <1>3, <1>4, <1>5, <1>6, <1>7, <1>8 DEF Next, Handle

\* A step of Alerts is a step of the lifecycle of SOS calls, or none.
LEMMA SosStep ==
    ASSUME TypeOK, AuditInv, [Next]_vars
    PROVE  [SosFeed!Next]_SosFeed!vars
<1>0. /\ DOMAIN sos = SIds /\ \A s \in SIds : sos[s] \in Call /\ Audited(sos[s])
      /\ sosSeq \in Nat
  BY BoundAssumption DEF TypeOK, AuditInv
<1>1. ASSUME UNCHANGED sos PROVE UNCHANGED SosFeed!vars
  BY <1>1 DEF SosFeed!vars
<1>2. ASSUME NEW w \in Workers, SosCommit(w) PROVE SosFeed!Next
  <2> DEFINE new == {sosSeq + 1}
  <2>1. new \in SUBSET SIds
    BY <1>0, <1>2, BoundAssumption DEF SosCommit, SIds
  <2>2. /\ \A s \in SIds \ new : sos'[s] = sos[s]
        /\ \A s \in new : sos'[s].status = "active" /\ sos'[s].ackBy = None /\ sos'[s].resBy = None
        /\ DOMAIN sos' = SIds
    BY <1>0, <1>2, <2>1 DEF SosCommit
  <2>3. \A s \in new : sos[s].status = "none" /\ sos[s].ackBy = None /\ sos[s].resBy = None
    BY <1>0, <2>1 DEF AuditInv, Audited
  <2>4. new \in SUBSET {s \in SIds : [t \in SIds |-> sos[t].status][s] = "none"}
    BY <2>1, <2>3
  <2> HIDE DEF new
  <2>5. /\ [t \in SIds |-> sos'[t].status]
              = [t \in SIds |-> IF t \in new THEN "active"
                                ELSE [k \in SIds |-> sos[k].status][t]]
        /\ [t \in SIds |-> sos'[t].ackBy] = [t \in SIds |-> sos[t].ackBy]
        /\ [t \in SIds |-> sos'[t].resBy] = [t \in SIds |-> sos[t].resBy]
    BY <1>0, <2>1, <2>2, <2>3, RowsAdded
  <2>6. SosFeed!Raise
    BY <2>4, <2>5 DEF SosFeed!Raise
  <2>7. QED
    BY <2>6 DEF SosFeed!Next
<1>3. ASSUME NEW s \in SIds, NEW u \in Managers, AckSos(s, u)
      PROVE  [SosFeed!Next]_SosFeed!vars
  <2> DEFINE row == Acknowledged(sos[s], u)
  <2>1. sos' = [sos EXCEPT ![s] = row] /\ sos[s].status \in {"active", "acknowledged"}
    BY <1>0, <1>3 DEF AckSos, Stored, Call, Status
  <2>2. /\ row.status = "acknowledged" /\ row.resBy = sos[s].resBy
        /\ row.ackBy = IF sos[s].status = "active" THEN u ELSE sos[s].ackBy
    BY <1>0, <2>1, UpdatedColumns
  <2> HIDE DEF row
  <2>3. CASE sos[s].status = "active"
    <3>1. SosFeed!Acknowledge(s, u)
      BY <1>0, <2>1, <2>2, <2>3, OneRowWritten DEF SosFeed!Acknowledge
    <3>2. QED
      BY <3>1 DEF SosFeed!Next
  <2>4. CASE sos[s].status = "acknowledged"
    BY <1>0, <2>1, <2>2, <2>4, OneRowWritten DEF SosFeed!vars
  <2>5. QED
    BY <2>1, <2>3, <2>4
<1>4. ASSUME NEW s \in SIds, NEW u \in Managers, ResolveSos(s, u)
      PROVE  SosFeed!Next
  <2> DEFINE row == Resolved(sos[s], u)
  <2>1. /\ sos' = [sos EXCEPT ![s] = row]
        /\ sos[s].status \in {"active", "acknowledged", "resolved"}
    BY <1>0, <1>4 DEF ResolveSos, Stored, Call, Status
  <2>2. /\ row.status = "resolved" /\ row.resBy = u
        /\ row.ackBy = IF sos[s].status = "active" THEN u ELSE sos[s].ackBy
    BY <1>0, <2>1, UpdatedColumns
  <2> HIDE DEF row
  <2>3. SosFeed!Resolve(s, u)
    BY <1>0, <2>1, <2>2, OneRowWritten DEF SosFeed!Resolve, SosFeed!Open
  <2>4. QED
    BY <2>3 DEF SosFeed!Next
<1>5. CASE \/ CreateAlert \/ DelayJob \/ Crash \/ UNCHANGED vars
           \/ \E u \in Managers, i \in AIds : AckAlert(i, u) \/ ResolveAlert(i, u)
           \/ \E t \in Trips : EndTrip(t) \/ \E c \in Children : Checkin(t, c)
           \/ \E w \in Workers : \/ RemoveFind(w) \/ RemoveDelete(w) \/ SosInsert(w)
                                  \/ SosAudience(w) \/ SosNotify(w) \/ SosAnnounce(w) \/ Fail(w)
  <2>1. UNCHANGED sos
    BY <1>5 DEF CreateAlert, DelayJob, Crash, vars, tables, AckAlert, ResolveAlert, EndTrip,
                Checkin, RemoveFind, RemoveDelete, SosInsert, SosAudience, SosNotify,
                SosAnnounce, Fail
  <2>2. QED
    BY <1>1, <2>1
<1>6. QED
  BY <1>2, <1>3, <1>4, <1>5 DEF Next, Handle

\* The alerts and the SOS calls both follow AlertLifecycle: each table starts as the
\* lifecycle does, and a step of any request, job or manager is a step of it or none.
THEOREM LifecyclesRefined == Spec => LifecyclesKept
<1>1. Init => AlertFeed!Init /\ SosFeed!Init
  BY DEF Init, AlertFeed!Init, SosFeed!Init, NoRow, NoCall
<1>2. TypeOK /\ AuditInv /\ [Next]_vars => [AlertFeed!Next]_AlertFeed!vars
  BY AlertStep
<1>3. TypeOK /\ AuditInv /\ [Next]_vars => [SosFeed!Next]_SosFeed!vars
  BY SosStep
<1>4. QED
  BY <1>1, <1>2, <1>3, AuditInvariant, PTL
  DEF Spec, LifecyclesKept, AlertFeed!Spec, SosFeed!Spec

-----------------------------------------------------------------------------
\* Whom an SOS is for, and what a worker that is fanning one out has done of it.

Due(s) == {ParentOf[c] : c \in aboard[s]} \ {sos[s].user}

WorkerOK(w) ==
    LET s == job[w].sos IN
    /\ job[w].at \in {"stored", "audience", "told"} => s <= sosSeq
    /\ job[w].at = "stored" => Due(s) \subseteq Parents(sos[s].trip)
    /\ job[w].at = "audience" => Due(s) \subseteq job[w].to
    /\ job[w].at = "told" => s \in failed \/ Due(s) \subseteq notified[s]

FanoutInv ==
    /\ announced \subseteq 1..sosSeq
    /\ \A w \in Workers : WorkerOK(w)
    /\ BoardedParentsTold

\* What a step leaves of the SOS calls that are stored.
CallsKept ==
    /\ sosSeq <= sosSeq' /\ failed \subseteq failed'
    /\ \A t : Parents(t) \subseteq Parents(t)'
    /\ \A s \in 1..sosSeq :
        /\ Due(s)' \subseteq Due(s) /\ sos'[s].trip = sos[s].trip
        /\ Due(s) \subseteq notified[s] => Due(s) \subseteq notified'[s]

\* A step that keeps them does not disturb a worker it does not move, nor what was
\* announced.
LEMMA OthersKept ==
    ASSUME TypeOK, FanoutInv, CallsKept, sosSeq' \in Nat
    PROVE  /\ \A w \in Workers : job'[w] = job[w] => WorkerOK(w)'
           /\ announced' = announced => announced' \subseteq 1..sosSeq' /\ BoardedParentsTold'
<1>0. sosSeq \in Nat /\ SIds = 1..MaxSos /\ MaxSos \in Nat
  BY BoundAssumption DEF TypeOK, SIds
<1>1. ASSUME NEW w \in Workers, job'[w] = job[w] PROVE WorkerOK(w)'
  <2> DEFINE s == job[w].sos
  <2>1. WorkerOK(w) /\ job[w] \in Job
    BY DEF FanoutInv, TypeOK
  <2>2. job[w].at \in {"stored", "audience", "told"} => s \in 1..sosSeq
    BY <1>0, <2>1, JobFields DEF WorkerOK
  <2>3. job'[w].sos = s /\ job'[w].at = job[w].at /\ job'[w].to = job[w].to
    BY <1>1
  <2>4. job[w].at = "stored" => Due(s)' \subseteq Parents(sos[s].trip)'
    BY <2>1, <2>2, <2>3 DEF WorkerOK, CallsKept, Due
  <2>5. job[w].at = "audience" => Due(s)' \subseteq job[w].to
    BY <2>1, <2>2, <2>3 DEF WorkerOK, CallsKept, Due
  <2>6. job[w].at = "told" => s \in failed' \/ Due(s)' \subseteq notified'[s]
    BY <2>1, <2>2, <2>3 DEF WorkerOK, CallsKept, Due
  <2>7. job[w].at \in {"stored", "audience", "told"} => s <= sosSeq'
    BY <1>0, <2>2 DEF CallsKept
  <2>8. QED
    BY <2>3, <2>4, <2>5, <2>6, <2>7 DEF WorkerOK
<1>2. ASSUME announced' = announced PROVE announced' \subseteq 1..sosSeq' /\ BoardedParentsTold'
  BY <1>0, <1>2 DEF FanoutInv, CallsKept, BoardedParentsTold, Due
<1>3. QED
  BY <1>1, <1>2

\* The UPDATEs keep who called and on which trip.
LEMMA CallerKept ==
    ASSUME NEW row \in Call, NEW u \in Managers
    PROVE  /\ Acknowledged(row, u).user = row.user /\ Acknowledged(row, u).trip = row.trip
           /\ Resolved(row, u).user = row.user /\ Resolved(row, u).trip = row.trip
  BY DEF Call, Acknowledged, Resolved

\* Who has boarded stays on the list: no check-in deletes a row.
LEMMA ParentsGrow ==
    ASSUME boarded \subseteq boarded'
    PROVE  \A t : Parents(t) \subseteq Parents(t)'
  BY DEF Parents

\* The invariant behind ParentsTold is kept by every step.
LEMMA FanoutStep ==
    ASSUME TypeOK, TypeOK', FanoutInv, [Next]_vars
    PROVE  FanoutInv'
<1>0. /\ sosSeq \in Nat /\ sosSeq' \in Nat /\ SIds = 1..MaxSos /\ MaxSos \in Nat
      /\ sosSeq <= MaxSos
      /\ DOMAIN sos = SIds /\ DOMAIN aboard = SIds /\ DOMAIN notified = SIds
      /\ DOMAIN job = Workers /\ \A w \in Workers : job[w] \in Job /\ WorkerOK(w)
      /\ \A s \in SIds : sos[s] \in Call
  BY BoundAssumption DEF TypeOK, SIds, FanoutInv
<1>1. ASSUME UNCHANGED <<sos, sosSeq, notified, aboard>>, failed \subseteq failed',
             boarded \subseteq boarded'
      PROVE  CallsKept
  BY <1>0, <1>1, ParentsGrow DEF CallsKept, Due
<1>2. ASSUME CallsKept, UNCHANGED <<job, announced>> PROVE FanoutInv'
  BY <1>0, <1>2, OthersKept DEF FanoutInv
<1>3. ASSUME CallsKept, UNCHANGED announced, NEW w \in Workers, NEW j,
             job' = [job EXCEPT ![w] = j], WorkerOK(w)'
      PROVE  FanoutInv'
  BY <1>0, <1>3, OthersKept DEF FanoutInv
<1>4. ASSUME NEW w \in Workers,
             job'[w].at \notin {"stored", "audience", "told"}
      PROVE  WorkerOK(w)'
  BY <1>4 DEF WorkerOK
<1>5. CASE \/ CreateAlert \/ DelayJob \/ UNCHANGED vars
           \/ \E u \in Managers, i \in AIds : AckAlert(i, u) \/ ResolveAlert(i, u)
           \/ \E t \in Trips : EndTrip(t)
  <2>1. /\ UNCHANGED <<sos, sosSeq, notified, aboard, failed, job, announced>>
        /\ boarded \subseteq boarded'
    BY <1>5 DEF CreateAlert, DelayJob, vars, AckAlert, ResolveAlert, EndTrip,
                tables, riders, fanout
  <2>2. QED
    BY <1>1, <1>2, <2>1
<1>6. ASSUME NEW u \in Managers, NEW s \in SIds, AckSos(s, u) \/ ResolveSos(s, u)
      PROVE  FanoutInv'
  <2>1. PICK row : /\ row = Acknowledged(sos[s], u) \/ row = Resolved(sos[s], u)
                   /\ sos' = [sos EXCEPT ![s] = row]
                   /\ UNCHANGED <<sosSeq, boarded, job, notified, announced, aboard, failed>>
    BY <1>6 DEF AckSos, ResolveSos, riders, fanout
  <2>2. row.user = sos[s].user /\ row.trip = sos[s].trip
    BY <1>0, <2>1, CallerKept
  <2>3. \A t \in SIds : sos'[t].user = sos[t].user /\ sos'[t].trip = sos[t].trip
    BY <1>0, <2>1, <2>2
  <2>4. CallsKept
    BY <1>0, <2>1, <2>3, ParentsGrow DEF CallsKept, Due
  <2>5. QED
    BY <1>2, <2>1, <2>4
<1>7. CASE Crash
  <2>1. UNCHANGED <<sos, sosSeq, notified, aboard, failed, boarded, announced>>
    BY <1>7 DEF Crash, tables, riders, fanout
  <2>2. \A w \in Workers : WorkerOK(w)'
    BY <1>4, <1>7 DEF Crash, Idle
  <2>3. QED
    BY <1>0, <1>1, <2>1, <2>2, OthersKept DEF FanoutInv
<1>8. ASSUME NEW w \in Workers, RemoveFind(w) \/ RemoveDelete(w) \/ SosInsert(w)
      PROVE  FanoutInv'
  <2>1. /\ UNCHANGED <<sos, sosSeq, notified, aboard, failed, boarded, announced>>
        /\ \E j : j.at \in {"delete", "inserted", "idle"} /\ job' = [job EXCEPT ![w] = j]
    BY <1>8 DEF RemoveFind, RemoveDelete, SosInsert, tables, riders, fanout, Idle
  <2>2. job'[w].at \notin {"stored", "audience", "told"}
    BY <1>0, <2>1
  <2>3. QED
    BY <1>1, <1>3, <1>4, <2>1, <2>2
<1>9. ASSUME NEW w \in Workers, SosCommit(w) PROVE FanoutInv'
  <2>0. PICK n : n = sosSeq + 1
    OBVIOUS
  <2> DEFINE row == [user |-> job[w].user, trip |-> job[w].trip, status |-> "active",
                     ackBy |-> None, resBy |-> None]
  <2>1. /\ n \in SIds /\ sosSeq' = n /\ sos' = [sos EXCEPT ![n] = row]
        /\ aboard' = [aboard EXCEPT ![n] =
                        {c \in Children : <<job[w].trip, c>> \in onBoard}]
        /\ job' = [job EXCEPT ![w] = [at |-> "stored", sos |-> n]]
        /\ UNCHANGED <<boarded, notified, announced, failed>>
    BY <1>0, <1>9, <2>0 DEF SosCommit, riders
  <2>2. \A s \in 1..sosSeq : s \in SIds /\ s # n
    BY <1>0, <2>0
  <2>3. /\ \A s \in 1..sosSeq : aboard'[s] = aboard[s] /\ sos'[s] = sos[s]
        /\ aboard'[n] = {c \in Children : <<job[w].trip, c>> \in onBoard} /\ sos'[n] = row
        /\ job'[w] = [at |-> "stored", sos |-> n]
    BY <1>0, <2>1, <2>2
  <2>4. CallsKept
    <3>1. \A s \in 1..sosSeq : Due(s)' \subseteq Due(s) /\ sos'[s].trip = sos[s].trip
      BY <2>3 DEF Due
    <3>2. sosSeq <= sosSeq' /\ UNCHANGED <<failed, boarded, notified>>
      BY <1>0, <2>0, <2>1
    <3>3. QED
      BY <3>1, <3>2, ParentsGrow DEF CallsKept
  <2>5. sos'[n].trip = job[w].trip
    BY <2>3
  <2>6. WorkerOK(w)'
    <3>1. job'[w].at = "stored" /\ job'[w].sos = n /\ n <= sosSeq'
      BY <1>0, <2>1, <2>3
    <3>2. boarded' = boarded /\ onBoard \subseteq boarded
      BY <2>1 DEF TypeOK
    <3>3. \A c \in aboard'[n] : c \in Children /\ <<sos'[n].trip, c>> \in boarded'
      BY <2>3, <2>5, <3>2
    <3>4. Due(n)' \subseteq Parents(sos[n].trip)'
      BY <3>3 DEF Parents, Due
    <3>5. QED
      BY <3>1, <3>4 DEF WorkerOK
  <2>7. QED
    BY <1>3, <2>1, <2>4, <2>6
<1>10. ASSUME NEW w \in Workers, SosAudience(w) PROVE FanoutInv'
  <2> DEFINE s == job[w].sos
             to == (Managers \cup Parents(sos[s].trip)) \ {sos[s].user}
  <2>1. /\ job[w].at = "stored" /\ s \in SIds /\ s <= sosSeq
        /\ Due(s) \subseteq Parents(sos[s].trip)
    BY <1>0, <1>10, JobFields DEF SosAudience, WorkerOK
  <2>2. /\ job' = [job EXCEPT ![w] = [at |-> "audience", sos |-> s, to |-> to]]
        /\ UNCHANGED <<sos, sosSeq, notified, aboard, failed, boarded, announced>>
    BY <1>10 DEF SosAudience, tables, riders, fanout
  <2>3. job'[w].at = "audience" /\ job'[w].sos = s /\ job'[w].to = to
    BY <1>0, <2>2
  <2>4. Due(s) \subseteq to
    BY <2>1 DEF Due
  <2>5. WorkerOK(w)'
    BY <2>1, <2>2, <2>3, <2>4 DEF WorkerOK, Due
  <2>6. QED
    BY <1>1, <1>3, <2>2, <2>5
<1>11. ASSUME NEW w \in Workers, SosNotify(w) PROVE FanoutInv'
  <2> DEFINE j == [job[w] EXCEPT !.at = "told"]
  <2>1. PICK s \in SIds, to \in SUBSET Users : job[w] = [at |-> "audience", sos |-> s, to |-> to]
    BY <1>0, <1>11 DEF SosNotify, Job, Idle
  <2>2. j.at = "told" /\ j.sos = s
    BY <2>1
  <2>3. /\ job' = [job EXCEPT ![w] = j] /\ notified' = [notified EXCEPT ![s] = to]
        /\ UNCHANGED <<sos, sosSeq, aboard, failed, boarded, announced>>
    BY <1>11, <2>1 DEF SosNotify, tables, riders
  <2> HIDE DEF j
  <2>4. s <= sosSeq /\ Due(s) \subseteq to
    BY <1>0, <2>1 DEF WorkerOK
  <2>5. CallsKept
    <3>1. \A t \in SIds : Due(t) \subseteq notified[t] => Due(t) \subseteq notified'[t]
      BY <1>0, <2>3, <2>4
    <3>2. QED
      BY <1>0, <2>3, <3>1, ParentsGrow DEF CallsKept, Due
  <2>6. job'[w] = j /\ notified'[s] = to
    BY <1>0, <2>3
  <2>7. WorkerOK(w)'
    BY <2>2, <2>3, <2>4, <2>6 DEF WorkerOK, Due
  <2>8. QED
    BY <1>3, <2>3, <2>5, <2>7
<1>12. ASSUME NEW w \in Workers, SosAnnounce(w) PROVE FanoutInv'
  <2> DEFINE s == job[w].sos
  <2>1. /\ job[w].at = "told" /\ s \in 1..sosSeq
        /\ s \in failed \/ Due(s) \subseteq notified[s]
    BY <1>0, <1>12, JobFields DEF SosAnnounce, WorkerOK
  <2>2. /\ announced' = announced \cup {s} /\ job' = [job EXCEPT ![w] = Idle]
        /\ UNCHANGED <<sos, sosSeq, notified, aboard, failed, boarded>>
    BY <1>12 DEF SosAnnounce, tables, riders
  <2>3. WorkerOK(w)' /\ \A v \in Workers \ {w} : job'[v] = job[v]
    BY <1>0, <1>4, <2>2 DEF Idle
  <2>4. \A v \in Workers : WorkerOK(v)'
    BY <1>0, <1>1, <2>2, <2>3, OthersKept
  <2>5. announced' \subseteq 1..sosSeq'
    BY <2>1, <2>2 DEF FanoutInv
  <2>6. BoardedParentsTold'
    BY <2>1, <2>2 DEF FanoutInv, BoardedParentsTold, Due
  <2>7. QED
    BY <2>4, <2>5, <2>6 DEF FanoutInv
<1>13. ASSUME NEW w \in Workers, Fail(w) PROVE FanoutInv'
  <2>1. CASE job[w].at \in {"delete", "inserted"}
    <3>1. /\ job' = [job EXCEPT ![w] = Idle]
          /\ UNCHANGED <<sos, sosSeq, notified, aboard, failed, boarded, announced>>
      BY <1>13, <2>1 DEF Fail, tables, riders, fanout
    <3>2. job'[w].at \notin {"stored", "audience", "told"}
      BY <1>0, <3>1 DEF Idle
    <3>3. QED
      BY <1>1, <1>3, <1>4, <3>1, <3>2
  <2>2. CASE job[w].at \in {"stored", "audience"}
    <3> DEFINE s == job[w].sos
               j == [at |-> "told", sos |-> s,
                     to |-> IF job[w].at = "stored" THEN {} ELSE job[w].to]
    <3>1. /\ job' = [job EXCEPT ![w] = j] /\ failed' = failed \cup {s}
          /\ UNCHANGED <<sos, sosSeq, notified, aboard, boarded, announced>>
      BY <1>13, <2>2 DEF Fail, tables, riders
    <3>2. s <= sosSeq
      BY <1>0, <2>2 DEF WorkerOK
    <3>3. job'[w].at = "told" /\ job'[w].sos = s
      BY <1>0, <3>1
    <3>4. WorkerOK(w)'
      BY <3>1, <3>2, <3>3 DEF WorkerOK
    <3>5. QED
      BY <1>1, <1>3, <3>1, <3>4
  <2>3. QED
    BY <1>13, <2>1, <2>2 DEF Fail
<1>14. ASSUME NEW t \in Trips, NEW c \in Children, Checkin(t, c) PROVE FanoutInv'
  <2>1. /\ UNCHANGED <<sos, sosSeq, notified, failed, job, announced>>
        /\ boarded \subseteq boarded'
    BY <1>14 DEF Checkin, tables
  <2>2. \A s \in SIds : aboard'[s] \subseteq aboard[s]
    BY <1>0, <1>14 DEF Checkin
  <2>3. \A s \in SIds : Due(s)' \subseteq Due(s)
    BY <2>1, <2>2 DEF Due
  <2>4. CallsKept
    BY <1>0, <2>1, <2>3, ParentsGrow DEF CallsKept
  <2>5. QED
    BY <1>2, <2>1, <2>4
<1>15. QED
  BY <1>5, <1>6, <1>7, <1>8, <1>9, <1>10, <1>11, <1>12, <1>13, <1>14 DEF Next, Handle

\* A parent whose child is on board when the SOS is stored, and stays so, is told of it
\* before it is announced, whoever checks in, ends the trip or crashes meanwhile.
THEOREM ParentsTold == Spec => []BoardedParentsTold
<1>1. Init => FanoutInv
  BY BoundAssumption DEF Init, FanoutInv, WorkerOK, BoardedParentsTold, Idle
<1>2. TypeOK /\ TypeOK' /\ FanoutInv /\ [Next]_vars => FanoutInv'
  BY FanoutStep
<1>3. FanoutInv => BoardedParentsTold
  BY DEF FanoutInv
<1>4. QED
  BY <1>1, <1>2, <1>3, TypeCorrect, PTL DEF Spec

============================================================================
