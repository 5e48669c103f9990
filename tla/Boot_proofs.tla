---------------------------- MODULE Boot_proofs -----------------------------
(***************************************************************************)
(* Proofs about Boot, for any number of nodes, migrations, crashes and     *)
(* commands: the types, that schema_migrations tells the truth about the   *)
(* database, that a server which listens has its migrations, and that they *)
(* are applied in their order while no rollback meets a run of them.       *)
(***************************************************************************)
EXTENDS Boot, WellFoundedInduction, TLAPS

-----------------------------------------------------------------------------
\* Numbers and runs.

\* The least of a set of numbers is one of them.
LEMMA LeastOf ==
    ASSUME NEW S \in SUBSET Nat, S # {}
    PROVE  Min(S) \in S /\ \A y \in S : Min(S) <= y
<1> DEFINE R == OpToRel(<, Nat)
<1>1. IsWellFoundedOn(R, Nat)
  BY NatLessThanWellFounded
<1>2. \A x, y \in Nat : y < x => <<y, x>> \in R
  BY DEF OpToRel
<1> HIDE DEF R
<1>3. PICK x \in S : \A y \in S : ~(<<y, x>> \in R)
  BY <1>1, WFMin, Zenon
<1>4. ASSUME NEW y \in S PROVE x <= y
  <2>1. x \in Nat /\ y \in Nat
    OBVIOUS
  <2>2. ~(y < x)
    BY <1>2, <1>3, <2>1, Zenon
  <2>3. QED
    BY <2>1, <2>2
<1>5. QED
  BY <1>4 DEF Min

\* The pending files of a run that found a prefix of the versions applied, and the end
\* of a prefix.
LEMMA EndsOf ==
    ASSUME NEW m \in Nat, NEW e \in Nat
    PROVE  /\ m..e # {} => Min(m..e) = m
           /\ e # 0 => Max(1..e) = e
<1>1. m..e # {} => m \in m..e /\ \A y \in m..e : m <= y
  OBVIOUS
<1>2. e # 0 => e \in 1..e /\ \A y \in 1..e : e >= y
  OBVIOUS
<1>3. \A x \in m..e : (\A y \in m..e : x <= y) => x = m
  OBVIOUS
<1>4. \A x \in 1..e : (\A y \in 1..e : x >= y) => x = e
  OBVIOUS
<1>5. QED
  BY <1>1, <1>2, <1>3, <1>4 DEF Min, Max

\* A run goes on with what is left, or is done.
LEMMA AppliesOf ==
    ASSUME NEW left \in SUBSET Versions
    PROVE  /\ Applying(left) \in Run /\ Applying(left).at \in {"apply", "done"}
           /\ Applying(left).at = "done" <=> left = {}
           /\ left # {} => Applying(left).left = left
<1>1. CASE left = {}
  BY <1>1 DEF Applying, Run
<1>2. CASE left # {}
  <2>1. Applying(left) = [at |-> "apply", left |-> left]
    BY <1>2 DEF Applying
  <2>2. [at |-> "apply", left |-> left] \in Run
    BY <1>2 DEF Run
  <2>3. QED
    BY <1>2, <2>1, <2>2
<1>3. QED
  BY <1>1, <1>2

\* What is in a run, by the point it is at.
LEMMA RunFields ==
    ASSUME NEW j \in Run
    PROVE  /\ j.at \in {"apply", "commit"} => j.left \in SUBSET Versions /\ j.left # {}
           /\ j.at = "down" => j.last \in Versions
           /\ j.at = "fetch" => j.before \in 0..MaxVersion
           /\ j # Idle <=> j.at # "idle"
           /\ j.at = "apply" => /\ [j EXCEPT !.at = "commit"] \in Run
                                /\ [j EXCEPT !.at = "commit"].at = "commit"
                                /\ [j EXCEPT !.at = "commit"].left = j.left
  BY DEF Run, Idle

\* Whose a run is can be told from its runner.
LEMMA RunnerOf ==
    /\ \A r \in Runners : r[1] \in Nodes
    /\ \A n \in Nodes : BootOf(n) \in Runners /\ BootOf(n)[1] = n /\ BootOf(n) # CliOf(n)
    /\ \A r \in Runners, n \in Nodes : r = BootOf(n) => r[1] = n /\ r \notin Ticks
    /\ \A n \in Nodes : CliOf(n) \notin Ticks
    /\ Ticks \subseteq Runners
    /\ \A n, m \in Nodes : BootOf(n) # CliOf(m) /\ (BootOf(n) = BootOf(m) => n = m)
  BY MigrationsAssumption, BootAssumption DEF BootOf, CliOf, Ticks

-----------------------------------------------------------------------------
\* Types.

\* A step of a run moves that run only, and keeps the sets of versions.
LEMMA RunMoves ==
    ASSUME TypeOK, NEW r \in Runners, RunStep(r) \/ Fails(r)
    PROVE  /\ \E to \in Run : run' = [run EXCEPT ![r] = to] /\ to.at # "idle"
           /\ run[r].at # "idle"
           /\ UNCHANGED <<image, proc, repo, remote>>
           /\ table' \subseteq Versions /\ schema' \subseteq Versions
           /\ rolled' \subseteq Versions /\ crossed' \in BOOLEAN
           /\ used' \in [{"stops", "failures", "commands"} -> Nat]
<1> USE DEF Goes
<1>0. /\ run[r] \in Run /\ r[1] \in Nodes /\ image[r[1]] \in Versions /\ MaxVersion \in Nat
      /\ run \in [Runners -> Run]
      /\ table \subseteq Versions /\ schema \subseteq Versions /\ rolled \subseteq Versions
      /\ crossed \in BOOLEAN
  BY RunnerOf, MigrationsAssumption DEF TypeOK, MigrationsTypeOK
<1>1. Versions \subseteq Nat
  BY DEF Versions
<1>2. /\ [at |-> "failed"] \in Run /\ [at |-> "done"] \in Run
      /\ \A v \in Versions : [at |-> "down", last |-> v] \in Run
  BY DEF Run
<1>3. run[r].at \in {"apply", "commit"} => NextOf(run[r].left) \in Versions
  BY <1>0, <1>1, LeastOf, RunFields DEF NextOf
<1>4. CASE Read(r) /\ UNCHANGED bootVars
  <2>1. Files(r) \ table \in SUBSET Versions
    BY <1>0 DEF Files, Versions
  <2>2. PICK to : to = Applying(Files(r) \ table)
    OBVIOUS
  <2>3. to \in Run /\ to.at # "idle"
    BY <2>1, <2>2, AppliesOf
  <2>4. QED
    BY <1>0, <1>4, <2>2, <2>3 DEF Read, bootVars, TypeOK
<1>5. CASE RunSql(r) /\ UNCHANGED bootVars
  <2>1. PICK j \in Run : j = run[r]
    BY <1>0
  <2>2. PICK to \in Run : run' = [run EXCEPT ![r] = to] /\ to.at # "idle"
    BY <1>2, <1>5, <2>1, RunFields DEF RunSql
  <2>3. QED
    BY <1>0, <1>5, <2>2 DEF RunSql, bootVars, TypeOK
<1>6. CASE Commit(r) /\ UNCHANGED bootVars
  <2>1. PICK m \in Versions : m = NextOf(run[r].left)
    BY <1>3, <1>6 DEF Commit
  <2>2. PICK left \in SUBSET Versions : left = run[r].left \ {m}
    BY <1>0, <1>6, RunFields DEF Commit
  <2>3. /\ run' = [run EXCEPT ![r] = Applying(left)]
        /\ table' = table \cup {m} /\ schema' = schema \cup {m}
        /\ crossed' \in BOOLEAN /\ UNCHANGED <<image, rolled>>
    <3>1. crossed' \in BOOLEAN
      BY <1>0, <1>6 DEF Commit
    <3>2. QED
      BY <1>6, <2>1, <2>2, <3>1 DEF Commit
  <2>4. Applying(left) \in Run /\ Applying(left).at # "idle"
    BY AppliesOf
  <2>5. QED
    BY <1>0, <1>6, <2>3, <2>4 DEF Commit, bootVars, TypeOK
<1>7. CASE DownRead(r) /\ UNCHANGED bootVars
  <2>1. Files(r) \subseteq Versions
    BY <1>0 DEF Files, Versions
  <2>2. PICK to \in Run : run' = [run EXCEPT ![r] = to] /\ to.at # "idle"
    BY <1>2, <1>7, <2>1 DEF DownRead
  <2>3. QED
    BY <1>0, <1>7, <2>2 DEF DownRead, bootVars, TypeOK
<1>8. CASE DownCommit(r) /\ UNCHANGED bootVars
  <2>1. run[r].last \in Versions
    BY <1>0, <1>8, RunFields DEF DownCommit
  <2>2. crossed' \in BOOLEAN
    BY <1>0, <1>8 DEF DownCommit
  <2>3. QED
    BY <1>0, <1>2, <1>8, <2>1, <2>2 DEF DownCommit, bootVars, TypeOK
<1>9. CASE Fails(r)
  <2>1. used' \in [{"stops", "failures", "commands"} -> Nat]
    BY <1>9 DEF Fails, Uses, TypeOK
  <2>2. QED
    BY <1>0, <1>2, <1>9, <2>1 DEF Fails, RunFails
<1>10. QED
  BY <1>4, <1>5, <1>6, <1>7, <1>8, <1>9 DEF RunStep

\* Every step that is not one of a run of migrations leaves the database alone, and a
\* runner where it is or sent to a point where it knows of no version.
LEMMA OthersMove ==
    ASSUME TypeOK, [Next]_vars, ~\E r \in Runners : RunStep(r) \/ Fails(r)
    PROVE  /\ UNCHANGED <<table, schema, rolled, crossed>>
           /\ \A r \in Runners : run'[r] = run[r]
                                   \/ run'[r].at \in {"idle", "read", "down.read", "fetch"}
<1> USE DEF Goes, OfRun, bootVars, Idle
<1>0. DOMAIN run = Runners
  BY DEF TypeOK, MigrationsTypeOK
<1>1. CASE UNCHANGED vars
  BY <1>1 DEF vars, migrationVars
<1>2. ASSUME NEW n \in Nodes, Server(n) \/ Stop(n) \/ Deploy(n)
      PROVE  /\ UNCHANGED <<table, schema, rolled, crossed>>
             /\ \A r \in Runners : run'[r] = run[r]
                                     \/ run'[r].at \in {"idle", "read", "down.read", "fetch"}
  BY <1>0, <1>2 DEF Server, Launch, BootDone, BootFailed, Stop, Deploy
<1>3. ASSUME NEW n \in Nodes, Command(n) \/ CommandEnds(n)
      PROVE  /\ UNCHANGED <<table, schema, rolled, crossed>>
             /\ \A r \in Runners : run'[r] = run[r]
                                     \/ run'[r].at \in {"idle", "read", "down.read", "fetch"}
  BY <1>0, <1>3 DEF Command, CommandEnds
<1>4. ASSUME NEW t \in Ticks, TickStart(t) \/ Tick(t)
      PROVE  /\ UNCHANGED <<table, schema, rolled, crossed>>
             /\ \A r \in Runners : run'[r] = run[r]
                                     \/ run'[r].at \in {"idle", "read", "down.read", "fetch"}
  BY <1>0, <1>4 DEF TickStart, Tick, TickPull, TickDone, TickFailed
<1>5. CASE Push
  BY <1>5 DEF Push, migrationVars
<1>6. QED
  BY <1>1, <1>2, <1>3, <1>4, <1>5 DEF Next

\* Types, and which process runs what, are kept by every step.
LEMMA TypeStep ==
    ASSUME TypeOK, [Next]_vars
    PROVE  TypeOK'
<1> USE DEF Goes
<1>0. /\ run \in [Runners -> Run] /\ image \in [Nodes -> Versions] /\ MaxVersion \in Nat
      /\ proc \in [Nodes -> {"off", "boot", "serve"}] /\ repo \in [Nodes -> 0..MaxVersion]
      /\ remote \in Versions /\ remote \in 0..MaxVersion
      /\ \A n \in Nodes : proc[n] = "boot" <=> run[BootOf(n)] # Idle
      /\ \A r \in Ticks : run[r] # Idle => proc[r[1]] = "serve"
      /\ DOMAIN used = {"stops", "failures", "commands"}
  BY MigrationsAssumption DEF TypeOK, MigrationsTypeOK, Versions
<1>1. /\ Idle \in Run /\ [at |-> "read"] \in Run /\ [at |-> "down.read"] \in Run
      /\ \A v \in 0..MaxVersion : [at |-> "fetch", before |-> v] \in Run
      /\ [at |-> "read"] # Idle /\ [at |-> "down.read"] # Idle
      /\ \A v : [at |-> "fetch", before |-> v] # Idle
      /\ Idle.at = "idle"
  BY DEF Run, Idle
<1>2. ASSUME NEW r \in Runners, RunStep(r) \/ Fails(r) PROVE TypeOK'
  <2>1. PICK to \in Run : run' = [run EXCEPT ![r] = to] /\ to.at # "idle"
    BY <1>2, RunMoves
  <2>2. run[r] # Idle /\ to # Idle
    BY <1>1, <1>2, <2>1, RunMoves
  <2>3. run' \in [Runners -> Run] /\ \A q \in Runners : run'[q] # Idle <=> run[q] # Idle
    BY <1>0, <2>1, <2>2
  <2>4. QED
    BY <1>0, <1>2, <2>3, RunMoves, RunnerOf DEF TypeOK, MigrationsTypeOK
<1>3. ASSUME NEW n \in Nodes, Launch(n) PROVE TypeOK'
  <2>1. PICK r \in Runners : r = BootOf(n)
    BY RunnerOf
  <2>2. /\ run' = [run EXCEPT ![r] = [at |-> "read"]]
        /\ proc' = [proc EXCEPT ![n] = "boot"] /\ proc[n] = "off"
        /\ UNCHANGED <<image, table, schema, rolled, crossed, repo, remote, used>>
    BY <1>3, <2>1 DEF Launch, OfRun
  <2>3. run' \in [Runners -> Run] /\ proc' \in [Nodes -> {"off", "boot", "serve"}]
    BY <1>0, <1>1, <2>2
  <2>4. \A m \in Nodes : proc'[m] = "boot" <=> run'[BootOf(m)] # Idle
    BY <1>0, <1>1, <2>1, <2>2, RunnerOf
  <2>5. \A t \in Ticks : run'[t] # Idle => proc'[t[1]] = "serve"
    BY <1>0, <2>1, <2>2, RunnerOf
  <2>6. QED
    BY <2>2, <2>3, <2>4, <2>5 DEF TypeOK, MigrationsTypeOK
<1>4. ASSUME NEW n \in Nodes, BootDone(n) \/ BootFailed(n) PROVE TypeOK'
  <2>1. PICK r \in Runners : r = BootOf(n)
    BY RunnerOf
  <2>2. PICK p \in {"serve", "off"} : proc' = [proc EXCEPT ![n] = p]
    BY <1>4 DEF BootDone, BootFailed
  <2>3. /\ run' = [run EXCEPT ![r] = Idle] /\ run[r] # Idle
        /\ UNCHANGED <<image, table, schema, rolled, crossed, repo, remote, used>>
    BY <1>1, <1>4, <2>1 DEF BootDone, BootFailed, OfRun
  <2>4. run' \in [Runners -> Run] /\ proc' \in [Nodes -> {"off", "boot", "serve"}]
    BY <1>0, <1>1, <2>2, <2>3
  <2>5. \A m \in Nodes : proc'[m] = "boot" <=> run'[BootOf(m)] # Idle
    BY <1>0, <2>1, <2>2, <2>3, RunnerOf
  <2>6. \A t \in Ticks : run'[t] # Idle => proc'[t[1]] = "serve"
    BY <1>0, <2>1, <2>2, <2>3, RunnerOf
  <2>7. QED
    BY <2>3, <2>4, <2>5, <2>6 DEF TypeOK, MigrationsTypeOK
<1>5. ASSUME NEW n \in Nodes, Stop(n) PROVE TypeOK'
  <2>1. /\ proc' = [proc EXCEPT ![n] = "off"]
        /\ run' = [r \in Runners |-> IF r[1] = n /\ r # CliOf(n) THEN Idle ELSE run[r]]
        /\ UNCHANGED <<image, table, schema, rolled, crossed, repo, remote>>
        /\ used' \in [{"stops", "failures", "commands"} -> Nat]
    BY <1>5 DEF Stop, OfRun, Uses, TypeOK
  <2>2. run' \in [Runners -> Run] /\ proc' \in [Nodes -> {"off", "boot", "serve"}]
    BY <1>0, <1>1, <2>1
  <2>3. \A m \in Nodes : proc'[m] = "boot" <=> run'[BootOf(m)] # Idle
    BY <1>0, <2>1, RunnerOf
  <2>4. \A t \in Ticks : run'[t] # Idle => proc'[t[1]] = "serve"
    BY <1>0, <2>1, RunnerOf
  <2>5. QED
    BY <2>1, <2>2, <2>3, <2>4 DEF TypeOK, MigrationsTypeOK
<1>6. ASSUME NEW n \in Nodes, Deploy(n) PROVE TypeOK'
  BY <1>0, <1>6 DEF Deploy, bootVars, TypeOK, MigrationsTypeOK
<1>7. ASSUME NEW t \in Ticks, TickStart(t) \/ Tick(t) PROVE TypeOK'
  <2>1. t \in Runners /\ t[1] \in Nodes
    BY RunnerOf
  <2>2. PICK to \in Run : /\ run' = [run EXCEPT ![t] = to]
                          /\ to # Idle => proc[t[1]] = "serve"
    BY <1>0, <1>1, <1>7, <2>1 DEF TickStart, Tick, TickPull, TickDone, TickFailed
  <2>3. /\ UNCHANGED <<image, table, schema, rolled, crossed, proc, remote, used>>
        /\ repo' \in [Nodes -> 0..MaxVersion]
    BY <1>0, <1>7 DEF TickStart, Tick, TickPull, TickDone, TickFailed, OfRun, bootVars
  <2>4. run' \in [Runners -> Run]
    BY <1>0, <2>2
  <2>5. \A m \in Nodes : run'[BootOf(m)] = run[BootOf(m)]
    BY <1>0, <2>1, <2>2, RunnerOf
  <2>6. \A q \in Ticks : run'[q] # Idle => proc[q[1]] = "serve"
    BY <1>0, <2>2, RunnerOf
  <2>7. QED
    BY <1>0, <2>3, <2>4, <2>5, <2>6 DEF TypeOK, MigrationsTypeOK
<1>8. ASSUME NEW n \in Nodes, CliOf(n) \in Runners, Command(n) \/ CommandEnds(n)
      PROVE  TypeOK'
  <2>1. PICK r \in Runners : r = CliOf(n)
    BY <1>8
  <2>2. PICK to \in Run : run' = [run EXCEPT ![r] = to]
    BY <1>1, <1>8, <2>1 DEF Command, CommandEnds
  <2>3. /\ UNCHANGED <<image, table, schema, rolled, crossed, proc, repo, remote>>
        /\ used' \in [{"stops", "failures", "commands"} -> Nat]
    BY <1>8 DEF Command, CommandEnds, OfRun, bootVars, Uses, TypeOK
  <2>4. run' \in [Runners -> Run]
    BY <1>0, <2>2
  <2>5. /\ \A m \in Nodes : run'[BootOf(m)] = run[BootOf(m)]
        /\ \A q \in Ticks : run'[q] = run[q]
    BY <1>0, <2>1, <2>2, RunnerOf
  <2>6. QED
    BY <1>0, <2>3, <2>4, <2>5 DEF TypeOK, MigrationsTypeOK
<1>9. CASE Push
  <2>1. remote' \in Versions /\ UNCHANGED <<migrationVars, proc, repo, used>>
    BY <1>0, <1>9 DEF Push, Versions
  <2>2. QED
    BY <2>1 DEF migrationVars, TypeOK, MigrationsTypeOK
<1>10. CASE UNCHANGED vars
  BY <1>10 DEF vars, migrationVars, bootVars, TypeOK, MigrationsTypeOK
<1>11. QED
  BY <1>2, <1>3, <1>4, <1>5, <1>6, <1>7, <1>8, <1>9, <1>10 DEF Next, Server

\* Every variable has its type, and a process that is off, boots or serves runs what it
\* should.
THEOREM TypeCorrect == Spec => []TypeOK
<1>1. Init => TypeOK
  <2> SUFFICES ASSUME Init PROVE TypeOK
    OBVIOUS
  <2>1. 1 \in Versions /\ 0 \in 0..MaxVersion /\ Idle \in Run
    BY MigrationsAssumption DEF Versions, Run, Idle
  <2>2. MigrationsTypeOK
    BY <2>1 DEF Init, MigrationsInit, MigrationsTypeOK
  <2>3. /\ proc \in [Nodes -> {"off", "boot", "serve"}]
        /\ repo \in [Nodes -> 0..MaxVersion] /\ remote \in Versions
        /\ used \in [{"stops", "failures", "commands"} -> Nat]
    BY <2>1 DEF Init
  <2>4. /\ \A n \in Nodes : proc[n] = "boot" <=> run[BootOf(n)] # Idle
        /\ \A r \in Ticks : run[r] # Idle => proc[r[1]] = "serve"
    BY RunnerOf DEF Init, MigrationsInit
  <2>5. QED
    BY <2>2, <2>3, <2>4 DEF TypeOK
<1>2. TypeOK /\ [Next]_vars => TypeOK'
  BY TypeStep
<1>3. QED
  BY <1>1, <1>2, PTL DEF Spec

-----------------------------------------------------------------------------
\* The database.

\* schema_migrations says what the database has: the SQL of a version and its row are
\* there together or not at all, whoever runs them and wherever a run ends.
THEOREM SchemaIsKept == Spec => []SchemaIsTable
<1>1. Init => SchemaIsTable
  BY DEF Init, MigrationsInit, SchemaIsTable
<1>2. TypeOK /\ SchemaIsTable /\ [Next]_vars => SchemaIsTable'
  <2> SUFFICES ASSUME TypeOK, SchemaIsTable, [Next]_vars
               PROVE  SchemaIsTable'
    OBVIOUS
  <2>1. ASSUME NEW r \in Runners, RunStep(r) \/ Fails(r) PROVE SchemaIsTable'
    BY <2>1
    DEF SchemaIsTable, RunStep, Fails, Read, RunSql, Commit, DownRead, DownCommit, RunFails
  <2>2. CASE ~\E r \in Runners : RunStep(r) \/ Fails(r)
    BY <2>2, OthersMove DEF SchemaIsTable
  <2>3. QED
    BY <2>1, <2>2
<1>3. QED
  BY <1>1, <1>2, TypeCorrect, PTL DEF Spec

\* The server is not started by a run that leaves one of its migrations out.
BootInv ==
    \A n \in Nodes :
        LET b == run[BootOf(n)]
        IN /\ b.at \in {"idle", "read", "apply", "commit", "done", "failed"}
           /\ b.at \in {"apply", "commit"} => 1..image[n] \subseteq table \cup rolled \cup b.left
           /\ b.at = "done" => 1..image[n] \subseteq table \cup rolled

\* A step of a run of another runner takes away nothing that a server relies on.
LEMMA ServesGrows ==
    ASSUME TypeOK, NEW r \in Runners, RunStep(r) \/ Fails(r)
    PROVE  table \cup rolled \subseteq table' \cup rolled'
  BY DEF RunStep, Fails, Read, RunSql, Commit, DownRead, DownCommit, RunFails

\* The run of a booting server accounts for every migration of its image.
LEMMA BootRunStep ==
    ASSUME TypeOK, BootInv, NEW n \in Nodes, NEW r \in Runners, r = BootOf(n),
           RunStep(r) \/ Fails(r)
    PROVE  /\ run'[r].at \in {"idle", "read", "apply", "commit", "done", "failed"}
           /\ run'[r].at \in {"apply", "commit"} =>
                  1..image[n] \subseteq table' \cup rolled' \cup run'[r].left
           /\ run'[r].at = "done" => 1..image[n] \subseteq table' \cup rolled'
<1> USE DEF Goes
<1>0. /\ DOMAIN run = Runners /\ run[r] \in Run /\ r[1] = n
      /\ image[n] \in Versions /\ MaxVersion \in Nat
      /\ run[r].at \in {"idle", "read", "apply", "commit", "done", "failed"}
      /\ run[r].at \in {"apply", "commit"} =>
             1..image[n] \subseteq table \cup rolled \cup run[r].left
  BY RunnerOf, MigrationsAssumption DEF TypeOK, MigrationsTypeOK, BootInv
<1>1. CASE Read(r)
  <2>1. PICK left \in SUBSET Versions : left = (1..image[n]) \ table
    <3>1. 1..image[n] \subseteq Versions
      BY <1>0 DEF Versions
    <3>2. QED
      BY <3>1
  <2>2. run'[r] = Applying(left) /\ UNCHANGED <<table, rolled>>
    BY <1>0, <1>1, <2>1 DEF Read, Files
  <2>3. QED
    BY <2>1, <2>2, AppliesOf
<1>2. CASE RunSql(r)
  <2>1. PICK j \in Run : j = run[r]
    BY <1>0
  <2>2. /\ run'[r] = [at |-> "failed"] \/ run'[r] = [j EXCEPT !.at = "commit"]
        /\ j.at = "apply" /\ UNCHANGED <<table, rolled>>
    BY <1>0, <1>2, <2>1 DEF RunSql
  <2>3. CASE run'[r] = [at |-> "failed"]
    BY <2>3
  <2>4. CASE run'[r] = [j EXCEPT !.at = "commit"]
    <3>1. run'[r].at = "commit" /\ run'[r].left = j.left
      BY <2>2, <2>4, RunFields
    <3>2. QED
      BY <1>0, <2>1, <2>2, <3>1
  <2>5. QED
    BY <2>2, <2>3, <2>4
<1>3. CASE Commit(r)
  <2>1. PICK m : m = NextOf(run[r].left)
    OBVIOUS
  <2>2. PICK left \in SUBSET Versions : left = run[r].left \ {m}
    BY <1>0, <1>3, RunFields DEF Commit
  <2>3. /\ run'[r] = Applying(left) /\ table' = table \cup {m} /\ rolled' = rolled
        /\ run[r].at = "commit"
    BY <1>0, <1>3, <2>1, <2>2 DEF Commit
  <2>4. 1..image[n] \subseteq table' \cup rolled' \cup left
    BY <1>0, <2>2, <2>3
  <2>5. QED
    BY <2>3, <2>4, AppliesOf
<1>4. CASE Fails(r)
  BY <1>0, <1>4 DEF Fails, RunFails
<1>5. QED
  BY <1>0, <1>1, <1>2, <1>3, <1>4 DEF RunStep, DownRead, DownCommit

\* Both invariants of the servers are kept by every step.
LEMMA ServesStep ==
    ASSUME TypeOK, BootInv, ServesComplete, [Next]_vars
    PROVE  BootInv' /\ ServesComplete'
<1> USE DEF Goes
<1>0. /\ DOMAIN run = Runners /\ DOMAIN proc = Nodes /\ DOMAIN image = Nodes
      /\ \A n \in Nodes : proc[n] = "boot" <=> run[BootOf(n)] # Idle
      /\ Idle.at = "idle"
  BY DEF TypeOK, MigrationsTypeOK, Idle
<1>1. ASSUME NEW r \in Runners, RunStep(r) \/ Fails(r) PROVE BootInv' /\ ServesComplete'
  <2>1. /\ UNCHANGED <<image, proc>> /\ \A q \in Runners : q # r => run'[q] = run[q]
        /\ table \cup rolled \subseteq table' \cup rolled'
    BY <1>0, <1>1, RunMoves, ServesGrows
  <2>2. ServesComplete'
    BY <2>1 DEF ServesComplete
  <2>3. BootInv'
    <3> SUFFICES ASSUME NEW n \in Nodes, NEW q \in Runners, q = BootOf(n)
                 PROVE  /\ run'[q].at \in {"idle", "read", "apply", "commit", "done", "failed"}
                        /\ run'[q].at \in {"apply", "commit"} =>
                               1..image[n] \subseteq table' \cup rolled' \cup run'[q].left
                        /\ run'[q].at = "done" => 1..image[n] \subseteq table' \cup rolled'
      BY <2>1, RunnerOf DEF BootInv
    <3>1. CASE q = r
      BY <1>1, <3>1, BootRunStep
    <3>2. CASE q # r
      BY <2>1, <3>2 DEF BootInv
    <3>3. QED
      BY <3>1, <3>2
  <2>4. QED
    BY <2>2, <2>3
\* Another step starts or ends the run of a server, or does not touch it.
<1>2. ASSUME UNCHANGED <<image, table, rolled>>,
             \A n \in Nodes : \/ run'[BootOf(n)] = run[BootOf(n)]
                              \/ run'[BootOf(n)].at \in {"idle", "read"},
             \A n \in Nodes : proc'[n] = "serve" =>
                 proc[n] = "serve" \/ run[BootOf(n)].at = "done"
      PROVE  BootInv' /\ ServesComplete'
  <2>1. BootInv'
    BY <1>2 DEF BootInv
  <2>2. ServesComplete'
    BY <1>2 DEF BootInv, ServesComplete
  <2>3. QED
    BY <2>1, <2>2
<1>3. ASSUME NEW n \in Nodes, Server(n) \/ Stop(n) PROVE BootInv' /\ ServesComplete'
  BY <1>0, <1>2, <1>3, RunnerOf
  DEF Server, Launch, BootDone, BootFailed, Stop, OfRun
<1>4. ASSUME NEW n \in Nodes, Deploy(n) PROVE BootInv' /\ ServesComplete'
  <2>1. /\ \A m \in Nodes : m # n => image'[m] = image[m]
        /\ proc[n] = "off" /\ UNCHANGED <<run, table, rolled, proc>>
    BY <1>0, <1>4 DEF Deploy, bootVars
  <2>2. run[BootOf(n)].at = "idle"
    BY <1>0, <2>1
  <2>3. BootInv'
    BY <2>1, <2>2 DEF BootInv
  <2>4. ServesComplete'
    BY <2>1 DEF ServesComplete
  <2>5. QED
    BY <2>3, <2>4
<1>5. ASSUME NEW n \in Nodes, Command(n) \/ CommandEnds(n) PROVE BootInv' /\ ServesComplete'
  <2>1. \A m \in Nodes : run'[BootOf(m)] = run[BootOf(m)]
    BY <1>0, <1>5, RunnerOf DEF Command, CommandEnds
  <2>2. UNCHANGED <<image, table, rolled, proc>>
    BY <1>5 DEF Command, CommandEnds, OfRun, bootVars
  <2>3. QED
    BY <1>2, <2>1, <2>2
<1>6. ASSUME NEW t \in Ticks, TickStart(t) \/ Tick(t) PROVE BootInv' /\ ServesComplete'
  <2>1. \A m \in Nodes : run'[BootOf(m)] = run[BootOf(m)]
    BY <1>0, <1>6, RunnerOf DEF TickStart, Tick, TickPull, TickDone, TickFailed
  <2>2. UNCHANGED <<image, table, rolled, proc>>
    BY <1>6 DEF TickStart, Tick, TickPull, TickDone, TickFailed, OfRun, bootVars
  <2>3. QED
    BY <1>2, <2>1, <2>2
<1>7. CASE Push \/ UNCHANGED vars
  BY <1>2, <1>7 DEF Push, vars, migrationVars, bootVars
<1>8. QED
  BY <1>1, <1>3, <1>4, <1>5, <1>6, <1>7 DEF Next

\* A server that listens has had every migration of its code applied, whoever applied
\* them and however often it was started.
THEOREM ServesIsComplete == Spec => []ServesComplete
<1>1. Init => BootInv /\ ServesComplete
  BY RunnerOf DEF Init, MigrationsInit, BootInv, ServesComplete, Idle
<1>2. TypeOK /\ BootInv /\ ServesComplete /\ [Next]_vars => BootInv' /\ ServesComplete'
  BY ServesStep
<1>3. QED
  BY <1>1, <1>2, TypeCorrect, PTL DEF Spec

-----------------------------------------------------------------------------
\* The order.

\* While no rollback has met a run that applies versions, what is applied is a prefix of
\* the versions, a run goes on with one that follows it or is in it, and a rollback has
\* the last one or one that is gone.
OrderAt(k) ==
    /\ table = 1..k
    /\ \A r \in Runners :
        /\ run[r].at \in {"apply", "commit"} =>
               \E m \in 1..(k + 1), e \in Versions : run[r].left = m..e
        /\ run[r].at = "down" => run[r].last >= k

OrderInv == crossed \/ \E k \in 0..MaxVersion : OrderAt(k)

\* A step of a run that no rollback has met keeps the order.
LEMMA OrderRunStep ==
    ASSUME TypeOK, NEW k \in 0..MaxVersion, OrderAt(k), ~crossed', NEW r \in Runners,
           RunStep(r) \/ Fails(r)
    PROVE  \E l \in 0..MaxVersion : OrderAt(l)'
<1> USE DEF Goes
<1>0. /\ DOMAIN run = Runners /\ run[r] \in Run /\ r[1] \in Nodes
      /\ image[r[1]] \in Versions /\ MaxVersion \in Nat /\ table = 1..k
  BY RunnerOf, MigrationsAssumption DEF TypeOK, MigrationsTypeOK, OrderAt
<1>1. \A q \in Runners : q # r => run'[q] = run[q]
  BY <1>0, RunMoves
\* What is applied stays, and this run goes on with what it may.
<1>2. ASSUME UNCHANGED table,
             run'[r].at \in {"apply", "commit"} =>
                 \E m \in 1..(k + 1), e \in Versions : run'[r].left = m..e,
             run'[r].at = "down" => run'[r].last >= k
      PROVE  OrderAt(k)'
  BY <1>1, <1>2 DEF OrderAt
<1>3. CASE Read(r)
  <2>1. PICK left \in SUBSET Versions : left = (1..image[r[1]]) \ table
    <3>1. 1..image[r[1]] \subseteq Versions
      BY <1>0 DEF Versions
    <3>2. QED
      BY <3>1
  <2>2. run'[r] = Applying(left) /\ UNCHANGED table
    BY <1>0, <1>3, <2>1 DEF Read, Files
  <2>3. left = (k + 1)..image[r[1]]
    BY <1>0, <2>1 DEF Versions
  <2>4. run'[r].at = "apply" => run'[r].left = left
    BY <2>2, AppliesOf
  <2>5. run'[r].at \in {"apply", "done"}
    BY <2>2, AppliesOf
  <2>6. k + 1 \in 1..(k + 1)
    BY <1>0
  <2>7. \E m \in 1..(k + 1), e \in Versions : left = m..e
    BY <1>0, <2>3, <2>6
  <2>8. QED
    BY <1>2, <2>2, <2>4, <2>5, <2>7
<1>4. CASE RunSql(r)
  <2>1. PICK j \in Run : j = run[r]
    BY <1>0
  <2>2. /\ run'[r] = [at |-> "failed"] \/ run'[r] = [j EXCEPT !.at = "commit"]
        /\ j.at = "apply" /\ UNCHANGED table
    BY <1>0, <1>4, <2>1 DEF RunSql
  <2>3. \E m \in 1..(k + 1), e \in Versions : j.left = m..e
    BY <2>1, <2>2 DEF OrderAt
  <2>4. /\ run'[r].at = "commit" => run'[r].left = j.left
        /\ run'[r].at \in {"failed", "commit"}
    <3>1. CASE run'[r] = [at |-> "failed"]
      BY <3>1
    <3>2. CASE run'[r] = [j EXCEPT !.at = "commit"]
      BY <2>2, <3>2, RunFields
    <3>3. QED
      BY <2>2, <3>1, <3>2
  <2>5. QED
    BY <1>2, <2>2, <2>3, <2>4
<1>5. CASE Commit(r)
  <2>1. PICK m \in 1..(k + 1), e \in Versions : run[r].left = m..e
    BY <1>5 DEF OrderAt, Commit
  <2>2. m \in Nat /\ e \in Nat /\ k \in Nat /\ m <= e /\ m \in Versions
    <3>1. m..e # {}
      BY <1>0, <1>5, <2>1, RunFields DEF Commit
    <3>2. QED
      BY <1>0, <2>1, <3>1 DEF Versions
  <2>3. NextOf(run[r].left) = m
    BY <2>1, <2>2, EndsOf DEF NextOf
  <2>4. PICK left \in SUBSET Versions : left = (m + 1)..e
    BY <1>0, <2>1, <2>2 DEF Versions
  <2>5. left = run[r].left \ {m}
    BY <2>1, <2>2, <2>4
  <2>6. /\ run'[r] = Applying(left) /\ table' = table \cup {m}
        /\ \A q \in Runners : run[q].at # "down"
    BY <1>0, <1>5, <2>3, <2>5 DEF Commit
  <2>7. PICK l \in 0..MaxVersion : l = IF m = k + 1 THEN m ELSE k
    BY <1>0, <2>2 DEF Versions
  <2>8. table' = 1..l /\ k <= l /\ m <= l
    BY <1>0, <2>1, <2>2, <2>6, <2>7
  <2>9. ASSUME NEW q \in Runners
        PROVE  /\ run'[q].at \in {"apply", "commit"} =>
                      \E a \in 1..(l + 1), b \in Versions : run'[q].left = a..b
               /\ run'[q].at # "down"
    <3>1. CASE q = r
      <4>1. /\ run'[q].at \in {"apply", "done"}
            /\ run'[q].at = "apply" => run'[q].left = (m + 1)..e
        BY <2>4, <2>6, <3>1, AppliesOf
      <4>2. m + 1 \in 1..(l + 1)
        BY <2>2, <2>7, <2>8
      <4>3. QED
        BY <4>1, <4>2
    <3>2. CASE q # r
      <4>1. 1..(k + 1) \subseteq 1..(l + 1)
        BY <2>2, <2>7, <2>8
      <4>2. QED
        BY <1>1, <2>6, <3>2, <4>1 DEF OrderAt
    <3>3. QED
      BY <3>1, <3>2
  <2>10. OrderAt(l)'
    BY <2>8, <2>9 DEF OrderAt
  <2>11. QED
    BY <2>10
<1>6. CASE DownRead(r)
  <2>1. UNCHANGED table /\ run'[r].at \in {"done", "failed", "down"}
    BY <1>0, <1>6 DEF DownRead
  <2>2. run'[r].at = "down" => table # {} /\ run'[r].last = Max(table)
    BY <1>0, <1>6 DEF DownRead
  <2>3. table # {} => Max(table) = k
    BY <1>0, EndsOf
  <2>4. QED
    BY <1>2, <2>1, <2>2, <2>3
<1>7. CASE DownCommit(r)
  <2>1. PICK last \in Versions : last = run[r].last
    BY <1>0, <1>7, RunFields DEF DownCommit
  <2>2. /\ table' = table \ {last} /\ run'[r].at = "done" /\ last >= k
        /\ \A q \in Runners : run[q].at \notin {"apply", "commit"}
    BY <1>0, <1>7, <2>1 DEF DownCommit, OrderAt
  <2>3. PICK l \in 0..MaxVersion : l = IF last = k THEN k - 1 ELSE k
    BY <1>0, <2>1 DEF Versions
  <2>4. table' = 1..l /\ l <= k
    BY <1>0, <2>1, <2>2, <2>3 DEF Versions
  <2>5. ASSUME NEW q \in Runners
        PROVE  /\ run'[q].at \notin {"apply", "commit"}
               /\ run'[q].at = "down" => run'[q].last >= l
    <3>1. CASE q = r
      BY <2>2, <3>1
    <3>2. CASE q # r
      <4>1. run[q] \in Run /\ run'[q] = run[q]
        BY <1>1, <3>2 DEF TypeOK, MigrationsTypeOK
      <4>2. run[q].at = "down" => run[q].last \in Versions /\ run[q].last >= k
        BY <4>1, RunFields DEF OrderAt
      <4>3. QED
        BY <1>0, <2>2, <2>3, <2>4, <4>1, <4>2 DEF Versions
    <3>3. QED
      BY <3>1, <3>2
  <2>6. OrderAt(l)'
    BY <2>4, <2>5 DEF OrderAt
  <2>7. QED
    BY <2>6
<1>8. CASE Fails(r)
  BY <1>0, <1>2, <1>8 DEF Fails, RunFails
<1>9. QED
  BY <1>3, <1>4, <1>5, <1>6, <1>7, <1>8 DEF RunStep

\* A version is missing below a later one only when a rollback met a run of migrations.
THEOREM OrderIsKept == Spec => []InOrder
<1>1. Init => OrderInv
  <2> SUFFICES ASSUME Init PROVE OrderInv
    OBVIOUS
  <2>1. 0 \in 0..MaxVersion /\ 1..0 = {}
    BY MigrationsAssumption
  <2>2. OrderAt(0)
    BY <2>1 DEF Init, MigrationsInit, OrderAt, Idle
  <2>3. QED
    BY <2>1, <2>2 DEF OrderInv
<1>2. TypeOK /\ OrderInv /\ [Next]_vars => OrderInv'
  <2> SUFFICES ASSUME TypeOK, OrderInv, [Next]_vars, ~crossed'
               PROVE  \E l \in 0..MaxVersion : OrderAt(l)'
    BY DEF OrderInv
  <2>1. ASSUME NEW r \in Runners, RunStep(r) \/ Fails(r)
        PROVE  \E l \in 0..MaxVersion : OrderAt(l)'
    <3>1. ~crossed
      BY <2>1 DEF RunStep, Fails, Read, RunSql, Commit, DownRead, DownCommit, RunFails
    <3>2. QED
      BY <2>1, <3>1, OrderRunStep DEF OrderInv
  <2>2. CASE ~\E r \in Runners : RunStep(r) \/ Fails(r)
    <3>1. ~crossed
      BY <2>2, OthersMove
    <3>2. PICK k \in 0..MaxVersion : OrderAt(k)
      BY <3>1 DEF OrderInv
    <3>3. OrderAt(k)'
      BY <2>2, <3>2, OthersMove DEF OrderAt
    <3>4. QED
      BY <3>3
  <2>3. QED
    BY <2>1, <2>2
<1>3. OrderInv => InOrder
  <2> SUFFICES ASSUME OrderInv, ~crossed, table # {}
               PROVE  table = 1..Max(table)
    BY DEF InOrder
  <2>1. PICK k \in 0..MaxVersion : table = 1..k
    BY DEF OrderInv, OrderAt
  <2>2. Max(table) = k
    BY <2>1, MigrationsAssumption, EndsOf
  <2>3. QED
    BY <2>1, <2>2
<1>4. QED
  BY <1>1, <1>2, <1>3, TypeCorrect, PTL DEF Spec

=============================================================================
