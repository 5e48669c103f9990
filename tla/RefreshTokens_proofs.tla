----------------------- MODULE RefreshTokens_proofs -------------------------
(***************************************************************************)
(* Proofs about RefreshTokens, for any number of requests, tokens and      *)
(* crashes: the types, and that the chain of a session can be followed and *)
(* only its end used.                                                      *)
(***************************************************************************)
EXTENDS RefreshTokens, TLAPS

\* What a worker in the middle of a rotation knows of its rows.
JobOK(j) ==
    /\ j.at # "idle" => Stored(j.old)
    /\ j.at \in {"issued", "rotated"} => Stored(j.new) /\ tokens[j.new].parent = j.old
    /\ j.at = "rotated" => tokens[j.old].revoked

\* The rows are those that were numbered, and refer to rows.
RowsOK ==
    /\ \A i \in Ids : Stored(i) <=> i <= seq
    /\ \A i \in Ids : Stored(i) /\ tokens[i].parent # None => Stored(tokens[i].parent)
    /\ \A i \in given : Stored(i)

RotationInv ==
    /\ RowsOK
    /\ \A w \in Workers : JobOK(job[w])
    /\ RotationKept

\* A step deletes no row, makes none valid again and leaves its parent and its session
\* alone.
RowsKept ==
    \A i \in Ids : Stored(i) => /\ Stored(i)' /\ tokens'[i].parent = tokens[i].parent
                                /\ tokens'[i].session = tokens[i].session
                                /\ tokens[i].revoked => tokens'[i].revoked

\* What is in a job, by the point it is at.
LEMMA JobFields ==
    ASSUME NEW j \in Job
    PROVE  /\ j.at # "idle" => j.old \in Ids
           /\ j.at \in {"issued", "rotated"} => j.new \in Ids
  BY DEF Job, Idle

\* Rows that are kept keep what every other worker knows.
LEMMA JobKept ==
    ASSUME TypeOK, RotationInv, RowsKept
    PROVE  \A w \in Workers : job'[w] = job[w] => JobOK(job[w])'
<1>1. \A w \in Workers : job[w] \in Job /\ JobOK(job[w])
  BY DEF TypeOK, RotationInv
<1>2. QED
  BY <1>1, JobFields DEF JobOK, RowsKept

\* A step that inserts nothing keeps the chain when it links only where a link belongs,
\* and gives out only tokens whose predecessor is not usable.
LEMMA ChainKept ==
    ASSUME TypeOK, RotationInv, RowsKept, seq' = seq,
           \A i \in Ids : Stored(i)' => Stored(i),
           \A i \in Ids : Stored(i) =>
                \/ tokens'[i].replacedBy = tokens[i].replacedBy
                \/ /\ tokens'[i].replacedBy \in Ids /\ Stored(tokens'[i].replacedBy)
                   /\ tokens[tokens'[i].replacedBy].parent = i,
           \A i \in given' : \/ i \in given
                             \/ /\ i \in Ids /\ Stored(i) /\ tokens[i].parent \in Ids
                                /\ Stored(tokens[i].parent)
                                /\ tokens[tokens[i].parent].revoked
    PROVE  RowsOK' /\ RotationKept'
<1>0. /\ given \subseteq Ids /\ given' \subseteq Ids
      /\ \A i \in Ids : Stored(i) => /\ tokens[i].parent \in Ids \cup {None}
                                     /\ tokens[i].replacedBy \in Ids \cup {None}
      /\ \A i \in Ids : tokens'[i].parent # None /\ Stored(i) => tokens[i].parent \in Ids
  BY DEF TypeOK, Token, Stored, RowsKept
<1>1. RowsOK'
  BY <1>0 DEF RotationInv, RowsOK, RowsKept
<1>2. OldRevokedFirst'
  <2> SUFFICES ASSUME NEW i \in given', tokens'[i].parent # None
               PROVE  ~Live(tokens[i].parent)'
    BY DEF OldRevokedFirst
  <2>1. Stored(i) /\ i \in Ids
    BY <1>0 DEF RotationInv, RowsOK
  <2> DEFINE p == tokens[i].parent
  <2>2. tokens'[i].parent = p /\ p \in Ids /\ Stored(p)
    BY <1>0, <2>1 DEF RotationInv, RowsOK, RowsKept
  <2>3. tokens[p].revoked
    BY <2>1, <2>2 DEF RotationInv, RotationKept, OldRevokedFirst, Live
  <2> HIDE DEF p
  <2>4. tokens'[p].revoked
    BY <2>2, <2>3 DEF RowsKept
  <2>5. QED
    BY <2>2, <2>4 DEF Live
<1>3. LinkIsOwn'
  <2> SUFFICES ASSUME NEW i \in Ids, Stored(i)', tokens'[i].replacedBy # None
               PROVE  /\ Stored(tokens[i].replacedBy)'
                      /\ tokens'[tokens'[i].replacedBy].parent = i
    BY DEF LinkIsOwn
  <2> DEFINE n == tokens'[i].replacedBy
  <2>1. Stored(i)
    OBVIOUS
  <2>2. n \in Ids /\ Stored(n) /\ tokens[n].parent = i
    BY <1>0, <2>1 DEF RotationInv, RotationKept, LinkIsOwn
  <2>3. tokens'[n] # None /\ tokens'[n].parent = i
    BY <2>2 DEF RowsKept, Stored
  <2>4. QED
    BY <2>3 DEF Stored
<1>4. QED
  BY <1>1, <1>2, <1>3 DEF RotationKept

\* A new row takes the next number; nothing refers to it yet.
LEMMA ChainGrows ==
    ASSUME TypeOK, RotationInv, NEW parent \in Ids \cup {None}, NEW session \in Ids,
           parent # None => Stored(parent), Insert(parent, session),
           \A i \in given' : i \in given \/ (i = seq + 1 /\ parent = None)
    PROVE  /\ tokens' \in [Ids -> Token \cup {None}] /\ seq' \in 0..MaxTokens
           /\ seq + 1 \in Ids /\ ~Stored(seq + 1) /\ tokens'[seq + 1] # None
           /\ tokens'[seq + 1].parent = parent /\ tokens'[seq + 1].session = session
           /\ ~tokens'[seq + 1].revoked
           /\ \A i \in Ids : i # seq + 1 => tokens'[i] = tokens[i]
           /\ RowsKept /\ RowsOK' /\ RotationKept'
<1> DEFINE n == seq + 1
           row == [revoked |-> FALSE, expired |-> FALSE, replacedBy |-> None,
                   parent |-> parent, session |-> session]
<1>0. /\ seq \in Nat /\ MaxTokens \in Nat /\ n \in Ids /\ seq' = n /\ n \in 0..MaxTokens
      /\ tokens' = [tokens EXCEPT ![n] = row] /\ DOMAIN tokens = Ids
  BY BoundAssumption DEF Insert, TypeOK, Ids
<1>1. row \in Token /\ row # None
  <2>1. row \in Token
    BY DEF Token
  <2> HIDE DEF row
  <2>2. QED
    BY <2>1, NoneAssumption
<1>2. ~Stored(n) /\ \A i \in Ids : i # n => tokens'[i] = tokens[i]
  BY <1>0 DEF RotationInv, RowsOK
<1>3. tokens'[n] = row
  BY <1>0
<1>4. /\ row.parent = parent /\ row.session = session
      /\ row.replacedBy = None /\ row.revoked = FALSE
  OBVIOUS
<1> HIDE DEF row
<1>5. tokens' \in [Ids -> Token \cup {None}]
  BY <1>0, <1>1 DEF TypeOK
<1>6. RowsKept
  BY <1>0, <1>2 DEF RowsKept, Stored
<1>7. /\ \A i \in Ids : Stored(i) => /\ tokens[i].parent \in Ids \cup {None}
                                     /\ tokens[i].replacedBy \in Ids \cup {None}
      /\ given \subseteq Ids
  BY DEF TypeOK, Token, Stored
<1>8. RowsOK'
  <2>1. \A i \in Ids : Stored(i)' <=> i <= seq'
    BY <1>0, <1>1, <1>2, <1>3 DEF RotationInv, RowsOK, Stored, Ids
  <2>2. \A i \in Ids : Stored(i)' /\ tokens'[i].parent # None => Stored(tokens[i].parent)'
    BY <1>1, <1>2, <1>3, <1>4, <1>7 DEF RotationInv, RowsOK, Stored
  <2>3. \A i \in given' : Stored(i)'
    BY <1>1, <1>2, <1>3, <1>7 DEF RotationInv, RowsOK, Stored
  <2>4. QED
    BY <2>1, <2>2, <2>3 DEF RowsOK
<1>9. OldRevokedFirst'
  BY <1>2, <1>3, <1>4, <1>7
  DEF RotationInv, RowsOK, RotationKept, OldRevokedFirst, Live, Stored
<1>10. LinkIsOwn'
  BY <1>2, <1>3, <1>4, <1>7
  DEF RotationInv, RotationKept, LinkIsOwn, Stored
<1>11. QED
  BY <1>0, <1>1, <1>2, <1>3, <1>4, <1>5, <1>6, <1>8, <1>9, <1>10 DEF RotationKept, Stored

\* A row that is revoked, expired or linked is still a row, of the same parent and session.
LEMMA WrittenRow ==
    ASSUME NEW row \in Token, NEW n \in Ids
    PROVE  LET revoked == [row EXCEPT !.revoked = TRUE]
               linked  == [row EXCEPT !.revoked = TRUE, !.replacedBy = n]
               expired == [row EXCEPT !.expired = TRUE]
           IN /\ revoked \in Token /\ linked \in Token /\ expired \in Token
              /\ revoked.revoked /\ linked.revoked /\ expired.revoked = row.revoked
              /\ revoked.parent = row.parent /\ linked.parent = row.parent
              /\ expired.parent = row.parent
              /\ revoked.session = row.session /\ linked.session = row.session
              /\ expired.session = row.session
              /\ revoked.replacedBy = row.replacedBy /\ linked.replacedBy = n
              /\ expired.replacedBy = row.replacedBy
  BY DEF Token

\* The invariant is kept by every step.
LEMMA RotationStep ==
    ASSUME TypeOK, RotationInv, [Next]_vars
    PROVE  TypeOK' /\ RotationInv' /\ RowsKept
<1>0. /\ seq \in Nat /\ MaxTokens \in Nat /\ MaxCrashes \in Nat
      /\ DOMAIN tokens = Ids /\ DOMAIN job = Workers /\ given \subseteq Ids
      /\ \A i \in Ids : Stored(i) => /\ tokens[i] \in Token
                                     /\ tokens[i].parent \in Ids \cup {None}
                                     /\ tokens[i].replacedBy \in Ids \cup {None}
      /\ \A w \in Workers : job[w] \in Job /\ JobOK(job[w])
      /\ \A i \in given : Stored(i)
  BY BoundAssumption DEF TypeOK, Token, Stored, RotationInv, RowsOK
<1>1. JobOK(Idle)' /\ Idle \in Job
  BY DEF JobOK, Idle, Job
<1>2. ASSUME UNCHANGED <<tokens, seq>>, given' \subseteq given,
             \A w \in Workers : JobOK(job[w])'
      PROVE  RotationInv' /\ RowsKept
  <2>1. RowsKept
    BY <1>2 DEF RowsKept, Stored
  <2>2. RowsOK' /\ RotationKept'
    BY <1>2, <2>1, ChainKept DEF Stored
  <2>3. QED
    BY <1>2, <2>1, <2>2 DEF RotationInv
<1>3. ASSUME NEW i \in Ids, NEW row \in Token, Stored(i), tokens' = [tokens EXCEPT ![i] = row],
             row.parent = tokens[i].parent, row.session = tokens[i].session,
             tokens[i].revoked => row.revoked,
             \/ row.replacedBy = tokens[i].replacedBy
             \/ /\ row.replacedBy \in Ids /\ Stored(row.replacedBy)
                /\ tokens[row.replacedBy].parent = i,
             UNCHANGED <<seq, given>>
      PROVE  /\ RowsKept /\ RowsOK' /\ RotationKept'
             /\ tokens' \in [Ids -> Token \cup {None}]
  <2>1. row # None
    BY NoneAssumption
  <2>2. tokens'[i] = row /\ \A k \in Ids : k # i => tokens'[k] = tokens[k]
    BY <1>0, <1>3
  <2>3. RowsKept
    BY <1>3, <2>1, <2>2 DEF RowsKept, Stored
  <2>4. \A k \in Ids : Stored(k)' => Stored(k)
    BY <1>3, <2>2 DEF Stored
  <2>5. \A k \in Ids : Stored(k) =>
          \/ tokens'[k].replacedBy = tokens[k].replacedBy
          \/ /\ tokens'[k].replacedBy \in Ids /\ Stored(tokens'[k].replacedBy)
             /\ tokens[tokens'[k].replacedBy].parent = k
    BY <1>3, <2>2
  <2>6. RowsOK' /\ RotationKept'
    BY <1>3, <2>3, <2>4, <2>5, ChainKept
  <2>7. QED
    BY <1>3, <2>3, <2>6 DEF TypeOK
<1>4. CASE Login
  <2>1. PICK n : n = seq + 1
    OBVIOUS
  <2>2. /\ Insert(None, n) /\ given' = given \cup {n}
        /\ UNCHANGED <<deleted, job, history, crashes>>
    BY <1>4, <2>1 DEF Login
  <2>3. n \in Ids
    BY <1>0, <2>1, <2>2 DEF Insert, Ids
  <2>4. /\ tokens' \in [Ids -> Token \cup {None}] /\ seq' \in 0..MaxTokens
        /\ RowsKept /\ RowsOK' /\ RotationKept'
    BY <2>1, <2>2, <2>3, ChainGrows
  <2>5. \A w \in Workers : JobOK(job[w])'
    BY <2>2, <2>4, JobKept
  <2>6. QED
    BY <2>2, <2>3, <2>4, <2>5 DEF TypeOK, RotationInv, history
<1>5. CASE Logout
  <2>1. PICK i \in given : tokens' = [tokens EXCEPT ![i] = [tokens[i] EXCEPT !.revoked = TRUE]]
    BY <1>5 DEF Logout
  <2>2. UNCHANGED <<seq, given, deleted, job, history, crashes>>
    BY <1>5 DEF Logout
  <2> DEFINE row == [tokens[i] EXCEPT !.revoked = TRUE]
  <2>3. i \in Ids /\ Stored(i) /\ tokens[i] \in Token
    BY <1>0
  <2>4. /\ row \in Token /\ row.parent = tokens[i].parent /\ row.revoked
        /\ row.session = tokens[i].session
        /\ row.replacedBy = tokens[i].replacedBy
    BY <2>3, WrittenRow
  <2>5. tokens' = [tokens EXCEPT ![i] = row]
    BY <2>1
  <2> HIDE DEF row
  <2>6. RowsKept /\ RowsOK' /\ RotationKept' /\ tokens' \in [Ids -> Token \cup {None}]
    BY <1>3, <2>2, <2>3, <2>4, <2>5
  <2>7. \A w \in Workers : JobOK(job[w])'
    BY <2>2, <2>6, JobKept
  <2>8. QED
    BY <2>2, <2>6, <2>7 DEF TypeOK, RotationInv, history
<1>6. ASSUME NEW i \in Ids, Expire(i) PROVE TypeOK' /\ RotationInv' /\ RowsKept
  <2> DEFINE row == [tokens[i] EXCEPT !.expired = TRUE]
  <2>1. /\ tokens' = [tokens EXCEPT ![i] = row] /\ Stored(i)
        /\ UNCHANGED <<seq, given, deleted, job, history, crashes>>
    BY <1>6 DEF Expire, Live
  <2>2. /\ row \in Token /\ row.parent = tokens[i].parent
        /\ row.session = tokens[i].session
        /\ row.revoked = tokens[i].revoked /\ row.replacedBy = tokens[i].replacedBy
    BY <1>0, <2>1, WrittenRow
  <2> HIDE DEF row
  <2>3. RowsKept /\ RowsOK' /\ RotationKept' /\ tokens' \in [Ids -> Token \cup {None}]
    BY <1>3, <2>1, <2>2
  <2>4. \A w \in Workers : JobOK(job[w])'
    BY <2>1, <2>3, JobKept
  <2>5. QED
    BY <2>1, <2>3, <2>4 DEF TypeOK, RotationInv, history
<1>7. CASE DeleteUser \/ UNCHANGED vars
  <2>1. /\ UNCHANGED <<tokens, seq, given, job, uses, tainted, raced, crashes>>
        /\ deleted' \in BOOLEAN
    BY <1>7 DEF DeleteUser, vars, history, TypeOK
  <2>2. \A w \in Workers : JobOK(job[w])'
    BY <1>0, <2>1 DEF JobOK, Stored
  <2>3. QED
    BY <1>2, <2>1, <2>2 DEF TypeOK
<1>8. CASE Crash
  <2>1. UNCHANGED <<tokens, seq, given, deleted, uses, tainted, raced>>
    BY <1>8 DEF Crash, history
  <2>2. /\ \A w \in Workers : job'[w] = Idle
        /\ job' \in [Workers -> Job] /\ crashes' \in 0..MaxCrashes
    BY <1>0, <1>1, <1>8 DEF Crash, TypeOK
  <2>3. \A w \in Workers : JobOK(job[w])'
    BY <2>2 DEF JobOK, Idle
  <2>4. QED
    BY <1>2, <2>1, <2>2, <2>3 DEF TypeOK
<1>9. ASSUME NEW w \in Workers, Read(w) PROVE TypeOK' /\ RotationInv' /\ RowsKept
  <2>1. PICK i \in given, at \in {"replayed", "valid"} :
          job' = [job EXCEPT ![w] = [at |-> at, old |-> i]]
    BY <1>9 DEF Read
  <2>2. /\ UNCHANGED <<tokens, seq, given, deleted, uses, tainted, crashes>>
        /\ raced' \subseteq Ids
    BY <1>0, <1>9 DEF Read, TypeOK
  <2>3. [at |-> at, old |-> i] \in Job
    BY <1>0 DEF Job
  <2>4. \A v \in Workers : JobOK(job[v])'
    BY <1>0, <2>1, <2>2 DEF JobOK, Stored
  <2>5. QED
    BY <1>2, <2>1, <2>2, <2>3, <2>4 DEF TypeOK
<1>10. ASSUME NEW w \in Workers, RevokeFamily(w) PROVE TypeOK' /\ RotationInv' /\ RowsKept
  <2>1. /\ tokens' = [i \in Ids |-> IF Live(i) THEN [tokens[i] EXCEPT !.revoked = TRUE]
                                              ELSE tokens[i]]
        /\ job' = [job EXCEPT ![w] = Idle]
        /\ UNCHANGED <<seq, given, deleted, uses, crashes>>
        /\ tainted' \subseteq Ids /\ raced' \subseteq Ids
    BY <1>10 DEF RevokeFamily, TypeOK
  <2>2. \A i \in Ids : Stored(i) => /\ tokens'[i] \in Token
                                    /\ tokens'[i].parent = tokens[i].parent
                                    /\ tokens'[i].session = tokens[i].session
                                    /\ tokens'[i].revoked
                                    /\ tokens'[i].replacedBy = tokens[i].replacedBy
    <3> SUFFICES ASSUME NEW i \in Ids, Stored(i)
                 PROVE  /\ tokens'[i] \in Token /\ tokens'[i].parent = tokens[i].parent
                        /\ tokens'[i].session = tokens[i].session
                        /\ tokens'[i].revoked
                        /\ tokens'[i].replacedBy = tokens[i].replacedBy
      OBVIOUS
    <3> DEFINE row == [tokens[i] EXCEPT !.revoked = TRUE]
    <3>1. tokens[i] \in Token
      BY <1>0
    <3>2. /\ row \in Token /\ row.parent = tokens[i].parent /\ row.revoked
          /\ row.session = tokens[i].session
          /\ row.replacedBy = tokens[i].replacedBy
      BY <3>1, WrittenRow
    <3>3. tokens'[i] = IF tokens[i].revoked THEN tokens[i] ELSE row
      BY <2>1 DEF Live
    <3> HIDE DEF row
    <3>4. QED
      BY <3>1, <3>2, <3>3
  <2>3. \A i \in Ids : ~Stored(i) => tokens'[i] = None
    BY <2>1 DEF Live, Stored
  <2>4. RowsKept /\ \A i \in Ids : Stored(i)' => Stored(i)
    BY <2>2, <2>3, NoneAssumption DEF RowsKept, Stored
  <2>5. RowsOK' /\ RotationKept'
    BY <2>1, <2>2, <2>4, ChainKept
  <2>6. \A v \in Workers : JobOK(job[v])' \/ job'[v] = Idle
    BY <2>1, <2>4, JobKept DEF TypeOK
  <2>7. tokens' \in [Ids -> Token \cup {None}]
    <3>1. \A i \in Ids : tokens'[i] \in Token \cup {None}
      BY <2>2, <2>3
    <3>2. tokens' = [i \in Ids |-> tokens'[i]]
      BY <2>1
    <3>3. QED
      BY <3>1, <3>2
  <2>8. QED
    BY <1>1, <2>1, <2>4, <2>5, <2>6, <2>7 DEF TypeOK, RotationInv
<1>11. ASSUME NEW w \in Workers, Issue(w) PROVE TypeOK' /\ RotationInv' /\ RowsKept
  <2>1. PICK old \in Ids : old = job[w].old
    BY <1>0, <1>11, JobFields DEF Issue
  <2>2. PICK n : n = seq + 1
    OBVIOUS
  <2>3. /\ Insert(old, tokens[old].session)
        /\ job' = [job EXCEPT ![w] = [at |-> "issued", old |-> old, new |-> n]]
        /\ UNCHANGED <<given, deleted, uses, raced, crashes>>
    BY <1>11, <2>1, <2>2 DEF Issue
  <2>4. Stored(old) /\ tokens[old].session \in Ids /\ n \in Ids
    BY <1>0, <1>11, <2>1, <2>2, <2>3 DEF Issue, JobOK, Token, Insert, Ids
  <2>5. /\ tokens' \in [Ids -> Token \cup {None}] /\ seq' \in 0..MaxTokens
        /\ tokens'[n] # None /\ tokens'[n].parent = old
        /\ RowsKept /\ RowsOK' /\ RotationKept'
    BY <2>2, <2>3, <2>4, ChainGrows
  <2>6. [at |-> "issued", old |-> old, new |-> n] \in Job
    BY <2>4 DEF Job
  <2>7. job'[w] = [at |-> "issued", old |-> old, new |-> n]
    BY <1>0, <2>3
  <2>8. tokens'[old] # None
    BY <2>4, <2>5 DEF RowsKept, Stored
  <2>9. JobOK(job[w])'
    BY <2>5, <2>7, <2>8 DEF JobOK, Stored
  <2>10. \A v \in Workers : JobOK(job[v])'
    BY <1>0, <2>3, <2>5, <2>9, JobKept
  <2>11. tainted' \subseteq Ids
    BY <1>11, <2>2, <2>4 DEF Issue, TypeOK
  <2>12. QED
    BY <2>3, <2>5, <2>6, <2>10, <2>11 DEF TypeOK, RotationInv
<1>12. ASSUME NEW w \in Workers, RevokeOld(w) PROVE TypeOK' /\ RotationInv' /\ RowsKept
  <2>1. PICK i \in Ids, n \in Ids : job[w] = [at |-> "issued", old |-> i, new |-> n]
    BY <1>0, <1>12 DEF RevokeOld, Job, Idle
  <2>1a. PICK old \in Token : old = tokens[i]
    BY <1>0, <2>1 DEF JobOK
  <2> DEFINE row == [old EXCEPT !.revoked = TRUE, !.replacedBy = n]
             j == [job[w] EXCEPT !.at = "rotated"]
  <2>2. /\ tokens' = [tokens EXCEPT ![i] = row] /\ job' = [job EXCEPT ![w] = j]
        /\ UNCHANGED <<seq, given, deleted, history, crashes>>
    BY <1>12, <2>1a, <2>1 DEF RevokeOld
  <2>3. Stored(i) /\ Stored(n) /\ tokens[n].parent = i
    BY <1>0, <2>1 DEF JobOK
  <2>4. /\ row \in Token /\ row.parent = old.parent /\ row.revoked
        /\ row.session = old.session
        /\ row.replacedBy = n
    BY WrittenRow
  <2>5. j = [at |-> "rotated", old |-> i, new |-> n]
    BY <2>1
  <2> HIDE DEF row, j
  <2>6. RowsKept /\ RowsOK' /\ RotationKept' /\ tokens' \in [Ids -> Token \cup {None}]
    BY <1>3, <2>1a, <2>2, <2>3, <2>4
  <2>7. j \in Job
    BY <2>5 DEF Job
  <2>8. /\ tokens'[i] # None /\ tokens'[i].revoked
        /\ tokens'[n] # None /\ tokens'[n].parent = i
    BY <1>0, <2>2, <2>3, <2>4, <2>6, NoneAssumption DEF RowsKept, Stored
  <2>9. job'[w] = [at |-> "rotated", old |-> i, new |-> n]
    BY <1>0, <2>2, <2>5
  <2>10. JobOK(job[w])'
    BY <2>8, <2>9 DEF JobOK, Stored
  <2>11. \A v \in Workers : JobOK(job[v])'
    BY <1>0, <2>2, <2>6, <2>10, JobKept
  <2>12. QED
    BY <2>2, <2>6, <2>7, <2>11 DEF TypeOK, RotationInv, history
<1>13. ASSUME NEW w \in Workers, Reply(w) PROVE TypeOK' /\ RotationInv' /\ RowsKept
  <2>1. PICK i \in Ids, n \in Ids : job[w] = [at |-> "rotated", old |-> i, new |-> n]
    BY <1>0, <1>13 DEF Reply, Job, Idle
  <2>2. /\ job' = [job EXCEPT ![w] = Idle]
        /\ given' \subseteq given \cup {n}
        /\ UNCHANGED <<tokens, seq, deleted, tainted, raced, crashes>>
    BY <1>13, <2>1 DEF Reply
  <2>3. uses' \in [Ids -> 0..2]
    BY <1>13, <2>1 DEF Reply, TypeOK
  <2>4. Stored(i) /\ Stored(n) /\ tokens[n].parent = i /\ tokens[i].revoked
    BY <1>0, <2>1 DEF JobOK
  <2>5. RowsKept
    BY <2>2 DEF RowsKept, Stored
  <2>6. RowsOK' /\ RotationKept'
    BY <2>2, <2>4, <2>5, ChainKept DEF Stored
  <2>7. \A v \in Workers : JobOK(job[v])'
    <3>1. \A v \in Workers : job'[v] = job[v] \/ job'[v] = Idle
      BY <1>0, <2>2
    <3>2. QED
      BY <1>1, <2>5, <3>1, JobKept
  <2>8. QED
    BY <1>1, <2>2, <2>3, <2>5, <2>6, <2>7 DEF TypeOK, RotationInv
<1>14. QED
  BY <1>4, <1>5, <1>6, <1>7, <1>8, <1>9, <1>10, <1>11, <1>12, <1>13 DEF Next

\* Types and rotation hold from the beginning and under every step.
LEMMA RotationInvariant == Spec => [](TypeOK /\ RotationInv)
<1>1. Init => TypeOK /\ RotationInv
  <2> SUFFICES ASSUME Init PROVE TypeOK /\ RotationInv
    OBVIOUS
  <2>1. TypeOK
    <3>1. Idle \in Job
      BY DEF Job
    <3>2. 0 \in 0..MaxTokens /\ 0 \in 0..MaxCrashes /\ 0 \in 0..2
      BY BoundAssumption
    <3>3. FALSE \in BOOLEAN
      OBVIOUS
    <3>4. /\ seq \in 0..MaxTokens /\ crashes \in 0..MaxCrashes /\ deleted \in BOOLEAN
          /\ given \subseteq Ids /\ tainted \subseteq Ids /\ raced \subseteq Ids
      BY <3>2, <3>3, Zenon DEF Init
    <3>5. /\ tokens \in [Ids -> Token \cup {None}] /\ job \in [Workers -> Job]
          /\ uses \in [Ids -> 0..2]
      BY <3>1, <3>2, Zenon DEF Init
    <3>6. QED
      BY <3>4, <3>5 DEF TypeOK
  <2>2. \A i \in Ids : ~Stored(i) /\ ~(i <= seq)
    BY BoundAssumption DEF Init, Stored, Ids
  <2>3. RowsOK /\ RotationKept
    BY <2>2 DEF Init, RowsOK, RotationKept, OldRevokedFirst, LinkIsOwn
  <2>4. \A w \in Workers : JobOK(job[w])
    BY DEF Init, JobOK, Idle
  <2>5. QED
    BY <2>1, <2>3, <2>4 DEF RotationInv
<1>2. TypeOK /\ RotationInv /\ [Next]_vars => TypeOK' /\ RotationInv'
  BY RotationStep
<1>3. QED
  BY <1>1, <1>2, PTL DEF Spec

\* Every variable keeps its type, under every interleaving of rotations and crashes.
THEOREM TypeCorrect == Spec => []TypeOK
  BY RotationInvariant, PTL

\* A token in a client's hands has no usable predecessor, and every link leads to a
\* token issued for the one it is on.
THEOREM RotationIsKept == Spec => []RotationKept
<1>1. RotationInv => RotationKept
  BY DEF RotationInv
<1>2. QED
  BY <1>1, RotationInvariant, PTL

-----------------------------------------------------------------------------
\* Races.  A token that no other request met while it was rotated has been handed to
\* one worker at a time, and a session none of whose tokens was met is a chain.

\* The worker rotates the token, up to its answer.
InHand(w, i) == job[w].at \in {"valid", "issued", "rotated"} /\ job[w].old = i

\* A token descends from an older one of its session.
Lineage ==
    \A i \in Ids : Stored(i) =>
        /\ tokens[i].session <= i
        /\ tokens[i].parent # None =>
              /\ tokens[i].parent < i
              /\ tokens[tokens[i].parent].session = tokens[i].session

\* Only tokens that exist are marked, and only tokens a client holds are rotated.
MarksOK ==
    /\ \A i \in raced \cup tainted : Stored(i)
    /\ \A w \in Workers : job[w].at # "idle" => job[w].old \in given

OneRotation ==
    \A i \in Ids \ raced : \A w, v \in Workers : InHand(w, i) /\ InHand(v, i) => w = v

\* A token that was exchanged without a race is revoked and will not be read as valid.
Spent ==
    \A i \in Ids \ raced : uses[i] # 0 =>
        /\ Stored(i) /\ tokens[i].revoked /\ uses[i] = 1
        /\ \A w \in Workers : ~InHand(w, i)

\* Without a race, of the tokens of a session that a client holds only the last was
\* not exchanged.
OnlyLastUnspent ==
    \A i, j \in given : i < j /\ tokens[i].session = tokens[j].session =>
        uses[i] # 0 \/ RacedSession(tokens[i].session)

\* An exchange of a tainted token that may still issue one is in a session with a race.
TaintedInHand ==
    \A w \in Workers : job[w].at = "valid" /\ job[w].old \in tainted =>
        RacedSession(tokens[job[w].old].session)

RaceInv ==
    /\ Lineage /\ MarksOK
    /\ OneRotation /\ Spent /\ OnlyLastUnspent
    /\ ReplayEndsSessions /\ TaintedInHand

\* The two inductive invariants, and a step from a state where they hold.
Good == TypeOK /\ RotationInv /\ RaceInv
GoodStep == Good /\ TypeOK' /\ RotationInv' /\ RowsKept /\ raced \subseteq raced'

\* A session that has seen a race has seen it for good.
LEMMA RacedForGood ==
    ASSUME GoodStep, NEW session, RacedSession(session)
    PROVE  RacedSession(session)'
<1>1. PICK i \in raced : tokens[i].session = session
  BY DEF RacedSession
<1>2. i \in Ids /\ Stored(i) /\ i \in raced'
  BY DEF GoodStep, Good, TypeOK, RaceInv, MarksOK
<1>3. tokens'[i].session = session
  BY <1>1, <1>2 DEF GoodStep, RowsKept
<1>4. QED
  BY <1>2, <1>3 DEF RacedSession

\* Every token but the last a client holds of a session stays exchanged.
LEMMA LastKept ==
    ASSUME GoodStep, \A i \in Ids : uses[i] # 0 => uses'[i] # 0,
           \A i, j \in given' :
              i < j /\ tokens'[i].session = tokens'[j].session =>
                 \/ i \in given /\ j \in given
                 \/ uses'[i] # 0
                 \/ RacedSession(tokens[i].session)'
    PROVE  OnlyLastUnspent'
<1> SUFFICES ASSUME NEW i \in given', NEW j \in given', i < j,
                    tokens'[i].session = tokens'[j].session, uses'[i] = 0,
                    ~RacedSession(tokens[i].session)'
             PROVE  FALSE
  BY DEF OnlyLastUnspent
<1>1. i \in given /\ j \in given /\ i \in Ids /\ j \in Ids /\ uses[i] = 0
  BY DEF GoodStep, Good, TypeOK
<1>2. Stored(i) /\ Stored(j)
  BY <1>1 DEF GoodStep, Good, RotationInv, RowsOK
<1>3. PICK session : session = tokens[i].session
  OBVIOUS
<1>4. tokens'[i].session = session /\ tokens[j].session = session
  BY <1>1, <1>2, <1>3 DEF GoodStep, RowsKept
<1>5. RacedSession(session)
  BY <1>1, <1>3, <1>4 DEF GoodStep, Good, RaceInv, OnlyLastUnspent
<1>6. RacedSession(session)'
  BY <1>5, RacedForGood
<1>7. QED
  BY <1>4, <1>6

\* One worker at a time rotates a token that was not met, when a worker that starts to
\* rotate one finds it valid and in no other hands.
LEMMA HandsKept ==
    ASSUME GoodStep, uses' = uses,
           \A w \in Workers, i \in Ids \ raced' : InHand(w, i)' =>
               \/ InHand(w, i)
               \/ ~tokens[i].revoked /\ \A v \in Workers : v # w => ~InHand(v, i)'
    PROVE  OneRotation' /\ Spent'
<1>1. \A i \in Ids \ raced' : i \in Ids \ raced
  BY DEF GoodStep
<1>2. OneRotation'
  BY <1>1 DEF GoodStep, Good, RaceInv, OneRotation
<1>3. Spent'
  BY <1>1 DEF GoodStep, Good, RaceInv, Spent, RowsKept
<1>4. QED
  BY <1>2, <1>3

\* No row is added to the lineage.
LEMMA LineageKept ==
    ASSUME GoodStep, \A i \in Ids : Stored(i)' => Stored(i)
    PROVE  Lineage'
<1> SUFFICES ASSUME NEW i \in Ids, Stored(i)'
             PROVE  /\ tokens'[i].session <= i
                    /\ tokens'[i].parent # None =>
                          /\ tokens'[i].parent < i
                          /\ tokens'[tokens'[i].parent].session = tokens'[i].session
  BY DEF Lineage
<1>1. Stored(i)
  OBVIOUS
<1>2. tokens'[i].session = tokens[i].session /\ tokens'[i].parent = tokens[i].parent
  BY <1>1 DEF GoodStep, RowsKept
<1>3. tokens[i].parent # None => tokens[i].parent \in Ids /\ Stored(tokens[i].parent)
  BY <1>1 DEF GoodStep, Good, TypeOK, Token, Stored, RotationInv, RowsOK
<1>4. tokens[i].parent # None =>
          tokens'[tokens[i].parent].session = tokens[tokens[i].parent].session
  BY <1>3 DEF GoodStep, RowsKept
<1>5. QED
  BY <1>1, <1>2, <1>4 DEF GoodStep, Good, RaceInv, Lineage

\* The row that is added descends from an older one of its session, or begins one.
LEMMA LineageGrows ==
    ASSUME GoodStep, NEW n \in Ids, NEW parent \in Ids \cup {None}, NEW session \in Ids,
           n = seq + 1, tokens'[n].parent = parent, tokens'[n].session = session,
           \A i \in Ids : i # n => tokens'[i] = tokens[i],
           session <= n,
           parent # None => Stored(parent) /\ tokens[parent].session = session
    PROVE  Lineage'
<1>1. seq \in Nat /\ \A i \in Ids : Stored(i) => i < n
  BY DEF GoodStep, Good, TypeOK, RotationInv, RowsOK, Ids
<1> SUFFICES ASSUME NEW i \in Ids, Stored(i)'
             PROVE  /\ tokens'[i].session <= i
                    /\ tokens'[i].parent # None =>
                          /\ tokens'[i].parent < i
                          /\ tokens'[tokens'[i].parent].session = tokens'[i].session
  BY DEF Lineage
<1>2. CASE i = n
  <2>1. parent # None => parent \in Ids /\ parent < n /\ parent # n
    BY <1>1 DEF Ids
  <2>2. QED
    BY <1>2, <2>1
<1>3. CASE i # n
  <2>1. Stored(i) /\ tokens'[i] = tokens[i]
    BY <1>3 DEF Stored
  <2>2. tokens[i].parent # None =>
            tokens[i].parent \in Ids /\ Stored(tokens[i].parent)
    BY <2>1 DEF GoodStep, Good, TypeOK, Token, Stored, RotationInv, RowsOK
  <2>3. tokens[i].parent # None => tokens[i].parent # n
    BY <1>1, <2>2 DEF Ids
  <2>4. QED
    BY <2>1, <2>2, <2>3 DEF GoodStep, Good, RaceInv, Lineage
<1>4. QED
  BY <1>2, <1>3

\* What a replay found stays useless.
LEMMA TaintKept ==
    ASSUME GoodStep,
           \A i \in tainted' : \/ i \in tainted
                               \/ tokens'[i].revoked
                               \/ RacedSession(tokens[i].session)',
           \A w \in Workers : job'[w].at = "valid" /\ job'[w].old \in tainted' =>
               \/ job'[w] = job[w] /\ job[w].old \in tainted
               \/ Live(job'[w].old) /\ job'[w].old \in tainted
               \/ job'[w].old \in raced'
    PROVE  ReplayEndsSessions' /\ TaintedInHand'
<1>0. \A i \in tainted : i \in Ids /\ Stored(i) /\ tokens'[i].session = tokens[i].session
  BY DEF GoodStep, Good, TypeOK, RaceInv, MarksOK, RowsKept
<1>1. ReplayEndsSessions'
  <2> SUFFICES ASSUME NEW i \in tainted', Live(i)'
               PROVE  RacedSession(tokens[i].session)'
    BY DEF ReplayEndsSessions
  <2>1. CASE i \in tainted
    <3>1. Live(i)
      BY <1>0, <2>1 DEF GoodStep, RowsKept, Live
    <3>2. PICK session : session = tokens[i].session
      OBVIOUS
    <3>3. RacedSession(session)
      BY <2>1, <3>1, <3>2 DEF GoodStep, Good, RaceInv, ReplayEndsSessions
    <3>4. RacedSession(session)' /\ tokens'[i].session = session
      BY <1>0, <2>1, <3>2, <3>3, RacedForGood
    <3>5. QED
      BY <3>4
  <2>2. QED
    BY <2>1 DEF Live
<1>2. TaintedInHand'
  <2> SUFFICES ASSUME NEW w \in Workers, job'[w].at = "valid", job'[w].old \in tainted'
               PROVE  RacedSession(tokens[job[w].old].session)'
    BY DEF TaintedInHand
  <2>1. PICK i : i = job'[w].old
    OBVIOUS
  <2>2. CASE i \in raced'
    BY <2>1, <2>2 DEF RacedSession
  <2>3. CASE i \in tainted /\ (job'[w] = job[w] \/ Live(i))
    <3>1. PICK session : session = tokens[i].session
      OBVIOUS
    <3>2. RacedSession(session)
      BY <2>1, <2>3, <3>1
      DEF GoodStep, Good, RaceInv, ReplayEndsSessions, TaintedInHand
    <3>3. RacedSession(session)' /\ tokens'[i].session = session
      BY <1>0, <2>3, <3>1, <3>2, RacedForGood
    <3>4. QED
      BY <2>1, <3>3
  <2>4. QED
    BY <2>1, <2>2, <2>3
<1>3. QED
  BY <1>1, <1>2

\* A race is never forgotten.
LEMMA RacedGrows ==
    ASSUME [Next]_vars
    PROVE  raced \subseteq raced'
  BY DEF Next, vars, history, Login, Logout, DeleteUser, Crash, Expire,
         Read, RevokeFamily, Issue, RevokeOld, Reply

\* The invariant about races is kept by every step.
LEMMA RaceStep ==
    ASSUME Good, [Next]_vars
    PROVE  RaceInv'
<1>0. GoodStep
  BY RotationStep, RacedGrows DEF Good, GoodStep
<1> USE <1>0
<1>1. /\ seq \in Nat /\ DOMAIN tokens = Ids /\ DOMAIN job = Workers /\ DOMAIN uses = Ids
      /\ given \subseteq Ids /\ raced \subseteq Ids /\ tainted \subseteq Ids
      /\ \A w \in Workers : job[w] \in Job /\ JobOK(job[w])
      /\ \A w \in Workers : job[w].at # "idle" => job[w].old \in given
      /\ \A i \in given \cup raced \cup tainted : Stored(i)
      /\ \A i \in Ids : Stored(i) <=> i <= seq
      /\ \A i \in Ids : tokens'[i] = tokens[i] => (Stored(i)' <=> Stored(i))
  BY DEF Good, TypeOK, RotationInv, RowsOK, RaceInv, MarksOK, Stored
<1>2. \A i \in given \cup raced \cup tainted : Stored(i)' /\ i \in Ids
  BY <1>1 DEF GoodStep, RowsKept
\* A step that issues nothing and answers nobody, and leaves every worker where it is, or
\* sends it back, or on with the token it has.
<1>3. ASSUME UNCHANGED <<given, uses, tainted>>,
             \A i \in Ids : Stored(i)' => Stored(i),
             \A i \in raced' : Stored(i),
             \A w \in Workers : \/ job'[w] = job[w]
                                \/ job'[w] = Idle
                                \/ /\ job[w].at = "issued" /\ job'[w].at = "rotated"
                                   /\ job'[w].old = job[w].old
      PROVE  RaceInv'
  <2>1. Lineage'
    BY <1>3, LineageKept
  <2>2. MarksOK'
    BY <1>1, <1>2, <1>3 DEF MarksOK, Idle, GoodStep, RowsKept, TypeOK
  <2>3. OneRotation' /\ Spent'
    BY <1>3, HandsKept DEF InHand, Idle
  <2>4. OnlyLastUnspent'
    BY <1>3, LastKept
  <2>5. ReplayEndsSessions' /\ TaintedInHand'
    BY <1>3, TaintKept DEF Idle
  <2>6. QED
    BY <2>1, <2>2, <2>3, <2>4, <2>5 DEF RaceInv
<1>4. CASE Logout \/ (\E i \in Ids : Expire(i)) \/ DeleteUser \/ UNCHANGED vars
  <2>1. UNCHANGED <<given, job, uses, tainted, raced>>
    BY <1>4 DEF Logout, Expire, DeleteUser, vars, history
  <2>2. \A i \in Ids : Stored(i)' => Stored(i)
    BY <1>1, <1>4 DEF Logout, Expire, DeleteUser, vars, Live, Stored
  <2>3. QED
    BY <1>1, <1>3, <2>1, <2>2
<1>5. CASE Crash
  <2>1. UNCHANGED <<tokens, given, uses, tainted, raced>>
    BY <1>5 DEF Crash, history
  <2>2. \A w \in Workers : job'[w] = Idle
    BY <1>5 DEF Crash
  <2>3. QED
    BY <1>1, <1>3, <2>1, <2>2
<1>6. ASSUME NEW w \in Workers, RevokeOld(w) PROVE RaceInv'
  <2>1. UNCHANGED <<seq, given, uses, tainted, raced>>
    BY <1>6 DEF RevokeOld, history
  <2>2. \A i \in Ids : Stored(i)' => Stored(i)
    BY <1>1, <2>1 DEF GoodStep, RotationInv, RowsOK
  <2>3. job'[w].at = "rotated" /\ job'[w].old = job[w].old /\ job[w].at = "issued"
    <3>1. PICK j \in Job : j = job[w]
      BY <1>1
    <3>2. j.at = "issued" /\ job' = [job EXCEPT ![w] = [j EXCEPT !.at = "rotated"]]
      BY <1>6, <3>1 DEF RevokeOld
    <3>3. job'[w] = [j EXCEPT !.at = "rotated"]
      BY <1>1, <3>2
    <3>4. PICK old \in Ids, n \in Ids : j = [at |-> "issued", old |-> old, new |-> n]
      BY <3>2 DEF Job, Idle
    <3>5. [j EXCEPT !.at = "rotated"] = [at |-> "rotated", old |-> old, new |-> n]
      BY <3>4
    <3>6. QED
      BY <3>1, <3>3, <3>4, <3>5
  <2>4. \A v \in Workers : v # w => job'[v] = job[v]
    BY <1>1, <1>6 DEF RevokeOld
  <2>5. QED
    BY <1>1, <1>3, <2>1, <2>2, <2>3, <2>4
<1>7. ASSUME NEW w \in Workers, Read(w) PROVE RaceInv'
  <2>1. PICK i \in given :
          /\ job' = [job EXCEPT ![w] =
                       [at |-> IF tokens[i].revoked THEN "replayed" ELSE "valid", old |-> i]]
          /\ raced' = IF Rotating(i) THEN raced \cup {i} ELSE raced
    BY <1>7 DEF Read
  <2>2. UNCHANGED <<tokens, seq, given, uses, tainted>> /\ job[w] = Idle
    BY <1>7 DEF Read
  <2>3. /\ job'[w].old = i
        /\ job'[w].at \in {"replayed", "valid"}
        /\ job'[w].at = "valid" => ~tokens[i].revoked
        /\ \A v \in Workers : v # w => job'[v] = job[v]
    BY <1>1, <2>1
  <2>4. Lineage'
    BY <2>2, LineageKept DEF Stored
  <2>5. MarksOK'
    BY <1>1, <2>1, <2>2, <2>3 DEF MarksOK, Stored
  <2>6. \A v \in Workers, k \in Ids \ raced' : InHand(v, k)' =>
           \/ InHand(v, k)
           \/ ~tokens[k].revoked /\ \A u \in Workers : u # v => ~InHand(u, k)'
    <3> SUFFICES ASSUME NEW v \in Workers, NEW k \in Ids \ raced', InHand(v, k)',
                        ~InHand(v, k)
                 PROVE  ~tokens[k].revoked /\ \A u \in Workers : u # v => ~InHand(u, k)'
      OBVIOUS
    <3>1. v = w /\ k = i /\ ~tokens[i].revoked
      BY <2>3 DEF InHand
    <3>2. ~Rotating(i)
      BY <2>1, <3>1
    <3>3. \A u \in Workers : ~InHand(u, i)
      BY <1>1, <3>1, <3>2 DEF InHand, Rotating, JobOK
    <3>4. QED
      BY <2>3, <3>1, <3>3 DEF InHand
  <2>7. OneRotation' /\ Spent'
    BY <2>2, <2>6, HandsKept
  <2>8. OnlyLastUnspent'
    BY <2>2, LastKept
  <2>9. ReplayEndsSessions' /\ TaintedInHand'
    BY <1>1, <2>2, <2>3, TaintKept DEF Live
  <2>10. QED
    BY <2>4, <2>5, <2>7, <2>8, <2>9 DEF RaceInv
<1>8. ASSUME NEW w \in Workers, RevokeFamily(w) PROVE RaceInv'
  <2>1. /\ \A i \in Ids : Live(i) => tokens'[i] = [tokens[i] EXCEPT !.revoked = TRUE]
        /\ \A i \in Ids : ~Live(i) => tokens'[i] = tokens[i]
        /\ UNCHANGED <<seq, given, uses>>
        /\ tainted' = {i \in Ids : Stored(i)}
        /\ raced' = raced \cup {i \in Ids : Rotating(i)}
    BY <1>8 DEF RevokeFamily
  <2>2. job'[w] = Idle /\ \A v \in Workers : v # w => job'[v] = job[v]
    BY <1>1, <1>8 DEF RevokeFamily
  <2>3. \A i \in Ids : Stored(i)' => Stored(i)
    BY <1>1, <2>1 DEF GoodStep, RotationInv, RowsOK
  <2>4. Lineage'
    BY <2>3, LineageKept
  <2>5. \A i \in Ids : Rotating(i) => Stored(i)
    BY <1>1 DEF Rotating
  <2>6. MarksOK'
    BY <1>1, <1>2, <2>1, <2>2, <2>5 DEF MarksOK, Idle, GoodStep, RowsKept
  <2>7. OneRotation' /\ Spent'
    BY <2>1, <2>2, HandsKept DEF InHand, Idle
  <2>8. OnlyLastUnspent'
    BY <2>1, LastKept
  <2>9. \A i \in tainted' : tokens'[i].revoked
    <3> SUFFICES ASSUME NEW i \in Ids, Stored(i) PROVE tokens'[i].revoked
      BY <2>1
    <3>1. CASE Live(i)
      <4>1. PICK row \in Token : row = tokens[i]
        BY DEF GoodStep, Good, TypeOK, Stored
      <4>2. tokens'[i] = [row EXCEPT !.revoked = TRUE]
        BY <2>1, <3>1, <4>1
      <4>3. [row EXCEPT !.revoked = TRUE].revoked
        BY DEF Token
      <4>4. QED
        BY <4>2, <4>3
    <3>2. CASE ~Live(i)
      BY <2>1, <3>2 DEF Live
    <3>3. QED
      BY <3>1, <3>2
  <2>10. \A v \in Workers : job'[v].at = "valid" => job'[v].old \in raced'
    BY <1>1, <2>1, <2>2 DEF Rotating, Idle
  <2>11. ReplayEndsSessions' /\ TaintedInHand'
    BY <2>9, <2>10, TaintKept
  <2>12. QED
    BY <2>4, <2>6, <2>7, <2>8, <2>11 DEF RaceInv
<1>9. CASE Login
  <2>1. PICK n : n = seq + 1
    OBVIOUS
  <2>2. /\ Insert(None, n) /\ given' = given \cup {n}
        /\ UNCHANGED <<deleted, job, uses, tainted, raced, crashes>>
    BY <1>9, <2>1 DEF Login, history
  <2>3. n \in Ids
    BY <1>1, <2>1, <2>2, BoundAssumption DEF Insert, Ids
  <2>4. /\ tokens'[n].parent = None /\ tokens'[n].session = n
        /\ \A i \in Ids : i # n => tokens'[i] = tokens[i]
    BY <2>1, <2>2, <2>3, ChainGrows DEF GoodStep, Good
  <2>5. Lineage'
    BY <2>1, <2>3, <2>4, LineageGrows DEF Ids
  <2>6. MarksOK'
    BY <1>1, <1>2, <2>2 DEF MarksOK
  <2>7. OneRotation' /\ Spent'
    BY <2>2, HandsKept DEF InHand
  <2>8. OnlyLastUnspent'
    <3>1. \A i \in given : i \in Ids /\ Stored(i) /\ i < n
      BY <1>1, <2>1, BoundAssumption DEF Ids
    <3>2. \A i \in given : tokens'[i] = tokens[i] /\ tokens[i].session <= i
      BY <2>3, <2>4, <3>1 DEF GoodStep, Good, RaceInv, Lineage, Ids
    <3>3. \A i \in given : tokens'[i].session # tokens'[n].session /\ ~(n < i)
      <4>1. \A i \in given : tokens'[i].session \in Ids
        BY <1>2, <2>4 DEF GoodStep, TypeOK, Token, Stored
      <4>2. QED
        BY <2>3, <2>4, <3>1, <3>2, <4>1 DEF Ids
    <3>4. QED
      BY <2>2, <2>3, <3>3, LastKept DEF Ids
  <2>9. ReplayEndsSessions' /\ TaintedInHand'
    BY <2>2, TaintKept
  <2>10. QED
    BY <2>5, <2>6, <2>7, <2>8, <2>9 DEF RaceInv
<1>10. ASSUME NEW w \in Workers, Issue(w) PROVE RaceInv'
  <2>1. PICK old : old = job[w].old
    OBVIOUS
  <2>2. PICK n : n = seq + 1
    OBVIOUS
  <2>3. PICK session : session = tokens[old].session
    OBVIOUS
  <2>4. /\ Insert(old, session)
        /\ job' = [job EXCEPT ![w] = [at |-> "issued", old |-> old, new |-> n]]
        /\ tainted' = IF old \in tainted THEN tainted \cup {n} ELSE tainted
        /\ UNCHANGED <<given, uses, raced>> /\ job[w].at = "valid"
    BY <1>10, <2>1, <2>2, <2>3 DEF Issue
  <2>5. old \in given /\ old \in Ids /\ Stored(old) /\ session \in Ids /\ n \in Ids
    <3>1. old \in given /\ old \in Ids /\ Stored(old)
      BY <1>1, <2>1, <2>4
    <3>2. tokens[old] \in Token
      BY <3>1 DEF GoodStep, Good, TypeOK, Stored
    <3>3. n \in Ids
      BY <1>1, <2>2, <2>4, BoundAssumption DEF Insert, Ids
    <3>4. QED
      BY <2>3, <3>1, <3>2, <3>3 DEF Token
  <2>6. session <= old /\ old < n
    BY <1>1, <2>2, <2>3, <2>5 DEF GoodStep, Good, RaceInv, Lineage, Ids
  <2>7. /\ tokens'[n].parent = old /\ tokens'[n].session = session
        /\ \A i \in Ids : i # n => tokens'[i] = tokens[i]
        /\ tokens'[n] # None
    BY <2>2, <2>4, <2>5, ChainGrows DEF GoodStep, Good
  <2>8. Lineage'
    <3>1. session <= n
      BY <2>5, <2>6 DEF Ids
    <3>2. QED
      BY <2>2, <2>3, <2>5, <2>7, <3>1, LineageGrows
  <2>9. /\ job'[w] = [at |-> "issued", old |-> old, new |-> n]
        /\ \A v \in Workers : v # w => job'[v] = job[v]
    BY <1>1, <2>4
  <2>10. MarksOK'
    BY <1>1, <1>2, <2>4, <2>5, <2>7, <2>9 DEF MarksOK, Stored
  <2>11. OneRotation' /\ Spent'
    BY <2>1, <2>4, <2>9, HandsKept DEF InHand
  <2>12. OnlyLastUnspent'
    BY <2>4, LastKept
  <2>13. ReplayEndsSessions' /\ TaintedInHand'
    <3>1. old \in tainted => RacedSession(session)
      BY <2>1, <2>3, <2>4 DEF GoodStep, Good, RaceInv, TaintedInHand
    <3>2. old \in tainted => RacedSession(session)'
      BY <3>1, RacedForGood
    <3>3. old \in tainted => RacedSession(tokens[n].session)'
      BY <2>7, <3>2
    <3>4. \A i \in given : i # n
      BY <1>1, <2>2 DEF Ids
    <3>5. \A v \in Workers : job'[v].at = "valid" => job'[v] = job[v] /\ job[v].old # n
      BY <1>1, <2>9, <3>4
    <3>6. QED
      BY <2>4, <3>3, <3>5, TaintKept
  <2>14. QED
    BY <2>8, <2>10, <2>11, <2>12, <2>13 DEF RaceInv
<1>11. ASSUME NEW w \in Workers, Reply(w) PROVE RaceInv'
  <2>1. PICK i \in Ids, n \in Ids : job[w] = [at |-> "rotated", old |-> i, new |-> n]
    BY <1>1, <1>11 DEF Reply, Job, Idle
  <2>2. /\ job'[w] = Idle /\ \A v \in Workers : v # w => job'[v] = job[v]
        /\ UNCHANGED <<tokens, tainted, raced>>
    BY <1>1, <1>11 DEF Reply
  <2>3. CASE deleted
    <3>1. UNCHANGED <<given, uses>>
      BY <1>11, <2>3 DEF Reply
    <3>2. QED
      BY <1>1, <1>3, <2>2, <3>1 DEF Stored
  <2>4. CASE ~deleted
    <3>1. /\ given' = given \cup {n}
          /\ uses' = [uses EXCEPT ![i] = IF uses[i] < 2 THEN uses[i] + 1 ELSE 2]
      BY <1>11, <2>1, <2>4 DEF Reply
    <3>2. /\ uses'[i] # 0
          /\ uses[i] = 0 => uses'[i] = 1
          /\ \A k \in Ids : k # i => uses'[k] = uses[k]
      BY <1>1, <3>1 DEF GoodStep, Good, TypeOK
    <3>3. /\ i \in given /\ Stored(i) /\ Stored(n) /\ tokens[n].parent = i
          /\ tokens[i].revoked /\ InHand(w, i)
      BY <1>1, <2>1 DEF JobOK, InHand
    <3>4. i < n /\ tokens[n].session = tokens[i].session
      BY <3>3, NoneAssumption DEF GoodStep, Good, RaceInv, Lineage
    <3>5. \A v \in Workers, k \in Ids : InHand(v, k)' => v # w /\ InHand(v, k)
      BY <2>2 DEF InHand, Idle
    <3>6. i \notin raced => uses[i] = 0
      BY <3>3 DEF GoodStep, Good, RaceInv, Spent
    <3>7. Lineage'
      BY <2>2, LineageKept DEF Stored
    <3>8. MarksOK'
      BY <1>1, <2>2, <3>1 DEF MarksOK, Stored, Idle
    <3>9. OneRotation'
      BY <2>2, <3>5 DEF GoodStep, Good, RaceInv, OneRotation
    <3>10. Spent'
      <4> SUFFICES ASSUME NEW k \in Ids \ raced, uses'[k] # 0
                   PROVE  /\ Stored(k) /\ tokens[k].revoked /\ uses'[k] = 1
                          /\ \A v \in Workers : ~InHand(v, k)'
        BY <2>2 DEF Spent, Stored
      <4>1. CASE k = i
        BY <3>2, <3>3, <3>5, <3>6, <4>1 DEF GoodStep, Good, RaceInv, OneRotation
      <4>2. CASE k # i
        BY <3>2, <3>5, <4>2 DEF GoodStep, Good, RaceInv, Spent
      <4>3. QED
        BY <4>1, <4>2
    <3>11. OnlyLastUnspent'
      <4> SUFFICES ASSUME NEW a \in given', NEW b \in given', a < b,
                          tokens[a].session = tokens[b].session,
                          a \notin given \/ b \notin given,
                          ~RacedSession(tokens[a].session)
                   PROVE  uses'[a] # 0
        <5>1. \A k \in Ids : uses[k] # 0 => uses'[k] # 0
          BY <3>2
        <5>2. \A session : RacedSession(session)' <=> RacedSession(session)
          BY <2>2 DEF RacedSession
        <5>3. QED
          BY <2>2, <5>1, <5>2, LastKept
      <4>1. a \in Ids /\ b \in Ids /\ (a = n \/ b = n)
        BY <1>2, <3>1
      <4>2. tokens[a].session = tokens[i].session
        BY <3>4, <4>1
      <4>3. i \notin raced /\ uses[i] = 0
        BY <3>6, <4>2 DEF RacedSession
      <4>4. \A k \in given : tokens[k].session = tokens[i].session =>
                                 ~(i < k) /\ (k < i => uses[k] # 0)
        BY <3>3, <4>2, <4>3 DEF GoodStep, Good, RaceInv, OnlyLastUnspent
      <4>5. CASE b = n /\ a \in given
        <5>1. a < i \/ a = i
          BY <4>1, <4>2, <4>4, <4>5 DEF Ids
        <5>2. QED
          BY <3>2, <4>1, <4>2, <4>4, <4>5, <5>1
      <4>6. CASE a = n /\ b \in given
        <5>1. i < b
          BY <3>4, <4>1, <4>6 DEF Ids
        <5>2. QED
          BY <4>2, <4>4, <4>6, <5>1
      <4>7. a # b
        BY <4>1 DEF Ids
      <4>8. QED
        BY <3>1, <4>1, <4>5, <4>6, <4>7
    <3>12. ReplayEndsSessions' /\ TaintedInHand'
      BY <2>2, TaintKept DEF Idle
    <3>13. QED
      BY <3>7, <3>8, <3>9, <3>10, <3>11, <3>12 DEF RaceInv
  <2>5. QED
    BY <2>3, <2>4
<1>12. QED
  BY <1>4, <1>5, <1>6, <1>7, <1>8, <1>9, <1>10, <1>11 DEF Next

\* Types, rotation and what races do hold from the beginning and under every step.
LEMMA RaceInvariant == Spec => []Good
<1>1. Init => RaceInv
  <2> SUFFICES ASSUME Init PROVE RaceInv
    OBVIOUS
  <2>1. Lineage
    BY DEF Init, Lineage, Stored
  <2>2. MarksOK /\ TaintedInHand
    BY DEF Init, MarksOK, TaintedInHand, Idle
  <2>3. OneRotation /\ Spent
    BY DEF Init, OneRotation, Spent, InHand, Idle
  <2>4. OnlyLastUnspent /\ ReplayEndsSessions
    BY DEF Init, OnlyLastUnspent, ReplayEndsSessions
  <2>5. QED
    BY <2>1, <2>2, <2>3, <2>4 DEF RaceInv
<1>2. TypeOK /\ RotationInv /\ RaceInv /\ [Next]_vars => RaceInv'
  BY RaceStep DEF Good
<1>3. TypeOK /\ RotationInv /\ RaceInv => Good
  BY DEF Good
<1>4. QED
  BY <1>1, <1>2, <1>3, RotationInvariant, PTL DEF Spec

\* A token gets two new ones only when two requests rotate it at the same time: no
\* retry, crash or late answer does it.
THEOREM TwiceOnlyInRace == Spec => []UsedTwiceOnlyInRace
<1>1. Good => UsedTwiceOnlyInRace
  BY DEF Good, TypeOK, RaceInv, Spent, UsedTwiceOnlyInRace
<1>2. QED
  BY <1>1, RaceInvariant, PTL

\* Of the tokens of a session that saw no race a client holds one that is usable.
THEOREM SessionIsSingle == Spec => []OneLivePerSession
<1>1. ASSUME Good PROVE OneLivePerSession
  <2> SUFFICES ASSUME NEW i \in given, NEW j \in given, Live(i), Live(j),
                      tokens[i].session = tokens[j].session, i # j,
                      ~RacedSession(tokens[i].session)
               PROVE  FALSE
    BY DEF OneLivePerSession
  <2>1. i \in Ids /\ j \in Ids /\ i \notin raced /\ j \notin raced
    BY <1>1 DEF Good, TypeOK, RacedSession
  <2>2. uses[i] = 0 /\ uses[j] = 0
    BY <1>1, <2>1 DEF Good, RaceInv, Spent, Live
  <2>3. i < j \/ j < i
    BY <2>1 DEF Ids
  <2>4. QED
    BY <1>1, <2>2, <2>3 DEF Good, RaceInv, OnlyLastUnspent
<1>2. QED
  BY <1>1, RaceInvariant, PTL

\* After a replay every token of that moment, and every token one of them becomes, is
\* useless, but in a session with a race.
THEOREM ReplayIsFinal == Spec => []ReplayEndsSessions
<1>1. Good => ReplayEndsSessions
  BY DEF Good, RaceInv
<1>2. QED
  BY <1>1, RaceInvariant, PTL

-----------------------------------------------------------------------------
\* What the client sees: RefreshTokens implements Sessions.

\* The worker has a new token it has not answered with.
Pending(w) == job[w].at \in {"issued", "rotated"}

\* A new token is nobody's before it is answered, and of one worker only.
Fresh ==
    /\ \A w \in Workers : Pending(w) => job[w].new \notin given
    /\ \A w, v \in Workers : Pending(w) /\ Pending(v) /\ job[w].new = job[v].new => w = v

\* A step that gives the client no token a worker still has keeps them fresh.
LEMMA FreshKept ==
    ASSUME Fresh,
           \A w \in Workers : Pending(w)' => /\ Pending(w) /\ job'[w].new = job[w].new
                                             /\ job[w].new \notin given' \ given
    PROVE  Fresh'
  BY DEF Fresh

LEMMA FreshStep ==
    ASSUME GoodStep, Fresh, [Next]_vars
    PROVE  Fresh'
<1>1. /\ DOMAIN job = Workers /\ \A w \in Workers : job[w] \in Job
      /\ \A w \in Workers : Pending(w) => job[w].new \in Ids /\ job[w].new # seq + 1
      /\ \A i \in given : i # seq + 1
  <2>1. \A w \in Workers : Pending(w) => job[w].new \in Ids /\ Stored(job[w].new)
    BY JobFields DEF GoodStep, Good, TypeOK, RotationInv, JobOK, Pending
  <2>2. \A i \in Ids : Stored(i) => i # seq + 1
    BY DEF GoodStep, Good, TypeOK, RotationInv, RowsOK, Ids
  <2>3. QED
    BY <2>1, <2>2 DEF GoodStep, Good, TypeOK, RotationInv, RowsOK
<1>2. CASE Login
  BY <1>1, <1>2, FreshKept DEF Login, history, Pending
<1>3. CASE Logout \/ DeleteUser \/ (\E i \in Ids : Expire(i)) \/ UNCHANGED vars
  BY <1>3, FreshKept DEF Logout, DeleteUser, Expire, vars, Pending
<1>4. CASE Crash
  <2>1. \A w \in Workers : ~Pending(w)'
    BY <1>4 DEF Crash, Pending, Idle
  <2>2. QED
    BY <2>1, FreshKept
<1>5. ASSUME NEW w \in Workers, Read(w) \/ RevokeFamily(w) PROVE Fresh'
  <2>1. given' = given /\ ~Pending(w)' /\ \A v \in Workers : v # w => job'[v] = job[v]
    BY <1>1, <1>5 DEF Read, RevokeFamily, Pending, Idle
  <2>2. QED
    BY <2>1, FreshKept DEF Pending
<1>6. ASSUME NEW w \in Workers, Issue(w) PROVE Fresh'
  <2>1. /\ given' = given /\ Pending(w)' /\ job'[w].new = seq + 1
        /\ \A v \in Workers : v # w => job'[v] = job[v]
    BY <1>1, <1>6 DEF Issue, Pending
  <2>2. QED
    BY <1>1, <2>1 DEF Fresh, Pending
<1>7. ASSUME NEW w \in Workers, RevokeOld(w) PROVE Fresh'
  <2>1. PICK j \in Job : j = job[w]
    BY <1>1
  <2>2. j.at = "issued" /\ job' = [job EXCEPT ![w] = [j EXCEPT !.at = "rotated"]]
    BY <1>7, <2>1 DEF RevokeOld
  <2>3. [j EXCEPT !.at = "rotated"].new = j.new
    BY <2>2 DEF Job, Idle
  <2>4. /\ given' = given /\ Pending(w) /\ job'[w].new = job[w].new
        /\ \A v \in Workers : v # w => job'[v] = job[v]
    BY <1>1, <1>7, <2>1, <2>2, <2>3 DEF RevokeOld, Pending
  <2>5. QED
    BY <2>4, FreshKept DEF Pending
<1>8. ASSUME NEW w \in Workers, Reply(w) PROVE Fresh'
  <2>1. /\ Pending(w) /\ ~Pending(w)' /\ given' \subseteq given \cup {job[w].new}
        /\ \A v \in Workers : v # w => job'[v] = job[v]
    BY <1>1, <1>8 DEF Reply, Pending, Idle
  <2>2. \A v \in Workers : Pending(v)' => v # w /\ Pending(v) /\ job[v].new # job[w].new
    BY <2>1 DEF Fresh, Pending
  <2>3. QED
    BY <2>1, <2>2, FreshKept
<1>9. QED
  BY <1>2, <1>3, <1>4, <1>5, <1>6, <1>7, <1>8 DEF Next

\* Whoever gives the client nothing takes from it only what was usable.
LEMMA LapseStep ==
    ASSUME GoodStep, UNCHANGED <<given, uses>>,
           \A i \in given : tokens[i].expired => tokens'[i].expired,
           \A i \in raced' \ raced : i \in given
    PROVE  Line!Next
<1>1. \A i \in given : i \in Ids /\ Stored(i) /\ tokens'[i].session = tokens[i].session
  BY DEF GoodStep, Good, TypeOK, RotationInv, RowsOK, RowsKept
<1>2. \A i \in given : Live(i)' => Live(i)
  BY <1>1 DEF GoodStep, RowsKept, Live
<1>3. \A i \in Ids : \/ Standing(i)' = Standing(i)
                     \/ Standing(i) = "usable" /\ Standing(i)' = "dead"
  BY <1>2 DEF Standing
<1>4. Line!Meet
  BY <1>1 DEF Line!Meet, GoodStep, Standing
<1>5. Line!Lapse
  <2> DEFINE lost == {i \in Ids : Standing(i) = "usable" /\ Standing(i)' = "dead"}
  <2>1. \A i \in Ids : Standing(i)' = IF i \in lost THEN "dead" ELSE Standing(i)
    BY <1>3
  <2>2. lost \in SUBSET {i \in Ids : [k \in Ids |-> Standing(k)][i] = "usable"}
    OBVIOUS
  <2> HIDE DEF lost
  <2>3. [i \in Ids |-> Standing(i)]' =
          [i \in Ids |-> IF i \in lost THEN "dead" ELSE [k \in Ids |-> Standing(k)][i]]
    BY <2>1
  <2>4. QED
    BY <2>2, <2>3 DEF Line!Lapse
<1>6. [i \in Ids |-> IF i \in given THEN tokens[i].session ELSE None]' =
        [i \in Ids |-> IF i \in given THEN tokens[i].session ELSE None]
  BY <1>1
<1>7. QED
  BY <1>4, <1>5, <1>6 DEF Line!Next

\* Every step is one of Sessions, or changes nothing a client sees.
LEMMA SessionStep ==
    ASSUME Good, Fresh, [Next]_vars
    PROVE  [Line!Next]_Line!vars
<1>0. GoodStep
  BY RotationStep, RacedGrows DEF Good, GoodStep
<1>1. /\ DOMAIN tokens = Ids /\ DOMAIN uses = Ids /\ DOMAIN job = Workers
      /\ \A w \in Workers : job[w] \in Job /\ JobOK(job[w])
      /\ \A i \in given : i \in Ids /\ Stored(i) /\ tokens[i] \in Token
      /\ \A w \in Workers : job[w].at # "idle" => job[w].old \in given
  BY DEF Good, TypeOK, RotationInv, RowsOK, RaceInv, MarksOK, Stored
<1>2. CASE DeleteUser \/ Crash \/ UNCHANGED vars
  BY <1>0, <1>2, LapseStep DEF DeleteUser, Crash, vars, history
<1>3. CASE Logout
  <2>1. PICK i \in given : tokens' = [tokens EXCEPT ![i] = [tokens[i] EXCEPT !.revoked = TRUE]]
    BY <1>3 DEF Logout
  <2>2. PICK old \in Token : old = tokens[i]
    BY <1>1
  <2>3. [old EXCEPT !.revoked = TRUE].expired = old.expired
    BY DEF Token
  <2>4. \A k \in given : tokens'[k].expired = tokens[k].expired
    BY <1>1, <2>1, <2>2, <2>3
  <2>5. QED
    BY <1>0, <1>3, <2>4, LapseStep DEF Logout, history
<1>4. ASSUME NEW i \in Ids, Expire(i) PROVE Line!Next
  <2>1. i \in given /\ tokens' = [tokens EXCEPT ![i] = [tokens[i] EXCEPT !.expired = TRUE]]
    BY <1>4 DEF Expire
  <2>2. PICK old \in Token : old = tokens[i]
    BY <1>1, <2>1
  <2>3. [old EXCEPT !.expired = TRUE].expired
    BY DEF Token
  <2>4. \A k \in given : tokens[k].expired => tokens'[k].expired
    BY <1>1, <2>1, <2>2, <2>3
  <2>5. QED
    BY <1>0, <1>4, <2>4, LapseStep DEF Expire, history
<1>5. ASSUME NEW w \in Workers, Read(w) PROVE Line!Next
  <2>1. UNCHANGED <<tokens, given, uses>> /\ raced' \subseteq raced \cup given
    BY <1>5 DEF Read
  <2>2. QED
    BY <1>0, <2>1, LapseStep
<1>6. ASSUME NEW w \in Workers, RevokeFamily(w) PROVE Line!Next
  <2>1. UNCHANGED <<given, uses>> /\ \A i \in raced' \ raced : i \in given
    BY <1>1, <1>6 DEF RevokeFamily, Rotating
  <2>2. ASSUME NEW i \in given PROVE tokens'[i].expired = tokens[i].expired
    <3>1. PICK old \in Token : old = tokens[i]
      BY <1>1
    <3>2. tokens'[i] = old \/ tokens'[i] = [old EXCEPT !.revoked = TRUE]
      BY <1>1, <1>6, <3>1 DEF RevokeFamily
    <3>3. [old EXCEPT !.revoked = TRUE].expired = old.expired
      BY DEF Token
    <3>4. QED
      BY <3>1, <3>2, <3>3
  <2>3. QED
    BY <1>0, <2>1, <2>2, LapseStep
<1>7. ASSUME NEW w \in Workers, Issue(w) PROVE Line!Next
  <2>1. UNCHANGED <<given, uses, raced>> /\ \A i \in Ids : i # seq + 1 => tokens'[i] = tokens[i]
    BY <1>1, <1>7 DEF Issue, Insert
  <2>2. \A i \in given : i # seq + 1
    BY <1>1 DEF Good, TypeOK, RotationInv, RowsOK, Ids
  <2>3. QED
    BY <1>0, <1>1, <2>1, <2>2, LapseStep
<1>8. ASSUME NEW w \in Workers, RevokeOld(w) PROVE Line!Next
  <2>1. PICK i : i = job[w].old
    OBVIOUS
  <2>2. i \in given /\ UNCHANGED <<given, uses, raced>>
    BY <1>1, <1>8, <2>1 DEF RevokeOld, history
  <2>3. PICK old \in Token : old = tokens[i]
    BY <1>1, <2>2
  <2>4. tokens' = [tokens EXCEPT ![i] = [old EXCEPT !.revoked = TRUE, !.replacedBy = job[w].new]]
    BY <1>8, <2>1, <2>3 DEF RevokeOld
  <2>5. [old EXCEPT !.revoked = TRUE, !.replacedBy = job[w].new].expired = old.expired
    BY DEF Token
  <2>6. \A k \in given : tokens'[k].expired = tokens[k].expired
    BY <1>1, <2>2, <2>3, <2>4, <2>5
  <2>7. QED
    BY <1>0, <2>2, <2>6, LapseStep
<1>9. CASE Login
  <2>1. PICK n : n = seq + 1
    OBVIOUS
  <2>2. /\ Insert(None, n) /\ given' = given \cup {n} /\ UNCHANGED <<uses, raced>>
    BY <1>9, <2>1 DEF Login, history
  <2>3. n \in Ids
    BY <2>1, <2>2, BoundAssumption DEF Insert, Ids, Good, TypeOK
  <2>4. PICK row : row = [revoked |-> FALSE, expired |-> FALSE, replacedBy |-> None,
                          parent |-> None, session |-> n]
    OBVIOUS
  <2>5. tokens'[n] = row /\ \A i \in Ids : i # n => tokens'[i] = tokens[i]
    BY <1>1, <2>1, <2>2, <2>3, <2>4 DEF Insert
  <2>6. n \notin given /\ \A i \in given : i # n
    BY <1>1, <2>1 DEF Good, TypeOK, RotationInv, RowsOK, Ids
  <2>7. Standing(n) = "none" /\ Standing(n)' = "usable" /\ tokens'[n].session = n
    <3>1. tokens'[n] # None
      BY <2>1, <2>2, <2>3, ChainGrows DEF Good
    <3>2. QED
      BY <2>2, <2>4, <2>5, <2>6, <3>1 DEF Standing, Live, Stored
  <2>8. \A i \in Ids : i # n => Standing(i)' = Standing(i)
    BY <2>2, <2>5 DEF Standing, Live, Stored
  <2>9. Line!Begin(n)
    <3>1. [i \in Ids |-> Standing(i)]' = [[i \in Ids |-> Standing(i)] EXCEPT ![n] = "usable"]
      BY <2>7, <2>8
    <3>2. [i \in Ids |-> IF i \in given THEN tokens[i].session ELSE None]' =
            [[i \in Ids |-> IF i \in given THEN tokens[i].session ELSE None] EXCEPT ![n] = n]
      BY <2>2, <2>5, <2>7
    <3>3. QED
      BY <2>2, <2>3, <2>7, <3>1, <3>2 DEF Line!Begin
  <2>10. QED
    BY <2>3, <2>9 DEF Line!Next
<1>10. ASSUME NEW w \in Workers, Reply(w), deleted PROVE Line!Next
  BY <1>0, <1>10, LapseStep DEF Reply
<1>11. ASSUME NEW w \in Workers, Reply(w), ~deleted PROVE Line!Next
  <2>1. PICK i \in Ids, n \in Ids : job[w] = [at |-> "rotated", old |-> i, new |-> n]
    BY <1>1, <1>11 DEF Reply, Job, Idle
  <2>2. /\ given' = given \cup {n} /\ UNCHANGED <<tokens, raced>>
        /\ uses' = [uses EXCEPT ![i] = IF uses[i] < 2 THEN uses[i] + 1 ELSE 2]
    BY <1>11, <2>1 DEF Reply
  <2>3. /\ i \in given /\ n \notin given /\ Stored(n) /\ tokens[n].parent = i
        /\ tokens[i].revoked /\ uses[i] \in 0..2
    BY <1>1, <2>1 DEF JobOK, Fresh, Pending, Good, TypeOK
  <2>4. tokens[n].session = tokens[i].session
    BY <2>3, NoneAssumption DEF Good, RaceInv, Lineage
  <2>5. uses[i] = 0 \/ i \in raced
    BY <1>1, <2>1 DEF Good, RaceInv, Spent, InHand
  <2>6. /\ Standing(i) = "dead" /\ Standing(n) = "none"
        /\ Standing(n)' \in {"usable", "dead"}
        /\ \A k \in Ids : k # n => Standing(k)' = Standing(k)
    BY <2>2, <2>3 DEF Standing, Live, Stored
  <2>7. Line!Exchange(i, n)
    <3>1. [k \in Ids |-> Standing(k)]' =
            [[k \in Ids |-> Standing(k)] EXCEPT ![n] = Standing(n)']
      BY <2>6
    <3>2. [k \in Ids |-> IF k \in given THEN tokens[k].session ELSE None]' =
            [[k \in Ids |-> IF k \in given THEN tokens[k].session ELSE None]
                EXCEPT ![n] = [k \in Ids |-> IF k \in given THEN tokens[k].session ELSE None][i]]
      BY <2>2, <2>3, <2>4
    <3>3. uses' = [uses EXCEPT ![i] = IF uses[i] = 0 THEN 1 ELSE 2]
      <4>1. (IF uses[i] < 2 THEN uses[i] + 1 ELSE 2) = IF uses[i] = 0 THEN 1 ELSE 2
        BY <2>3
      <4>2. QED
        BY <2>2, <4>1
    <3>4. QED
      BY <2>2, <2>5, <2>6, <3>1, <3>2, <3>3 DEF Line!Exchange
  <2>8. QED
    BY <2>7 DEF Line!Next
<1>12. QED
  BY <1>2, <1>3, <1>4, <1>5, <1>6, <1>7, <1>8, <1>9, <1>10, <1>11 DEF Next

\* Rotation in four statements gives a client one new token for each it gives up, useless
\* before the new one arrives; only a token that two requests met may bring two.
THEOREM SessionsRefined == Spec => SessionsKept
<1>1. Init => Line!Init
  BY DEF Init, Line!Init, Standing
<1>2. Init => Fresh
  BY DEF Init, Fresh, Pending, Idle
<1>3. Good /\ Good' /\ Fresh /\ [Next]_vars => Fresh'
  <2>1. Good /\ [Next]_vars => GoodStep
    BY RotationStep, RacedGrows DEF Good, GoodStep
  <2>2. QED
    BY <2>1, FreshStep
<1>4. Good /\ Fresh /\ [Next]_vars => [Line!Next]_Line!vars
  BY SessionStep
<1>5. QED
  BY <1>1, <1>2, <1>3, <1>4, RaceInvariant, PTL DEF Spec, SessionsKept, Line!Spec

=============================================================================
