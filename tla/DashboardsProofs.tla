-------------------------- MODULE DashboardsProofs --------------------------
(***************************************************************************)
(* The two sides of the dashboards, each proved on its own specification.  *)
(*                                                                         *)
(* The store: it is at the version it says, and a page reads what its      *)
(* login was granted, for any number of processes, reports and migrations, *)
(* whatever fails in between. StoreIsAtItsVersion is about what is         *)
(* committed. What an open transaction prepared was worked out from the    *)
(* tables as they stood when it began, so it must be known that they still *)
(* stand so when it commits: the advisory lock keeps other ingests and     *)
(* resets away (LockIsHeld), and the reports never touch these tables      *)
(* (ReportsKeepAway). What a page may read follows from what every process *)
(* that is making tables still has to make (WInv).                         *)
(*                                                                         *)
(* The BI tool: roles decide who reads and writes what, and the tool shows *)
(* the project, for any projects, teams and older users, however many jobs *)
(* are cut short and wherever. Both rest on what a job that is under way   *)
(* has done of its work so far (GrantedSoFar, TeamSoFar), because it may   *)
(* be stopped there and the next one starts from what it left.             *)
(***************************************************************************)
EXTENDS BiTool, OpsStore, NumberLemmas

-----------------------------------------------------------------------------
(* The ops store.                                                          *)

Step == {"idle", "database", "schema", "drop", "create", "lock", "apply", "commit", "role", "grant",
         "defaults"}

\* The processes' own variables have an entry for each process.
StoreShape ==
    /\ pc \in [Proc -> Step]
    /\ left = [p \in Proc |-> left[p]] /\ made = [p \in Proc |-> made[p]]
    /\ dropped = [p \in Proc |-> dropped[p]] /\ versions = [p \in Proc |-> versions[p]]

IsReport(p) == JobOf[p] = "report"

\* A migration under way holds the lock.
LockIsHeld ==
    \A p \in Proc : pc[p] = "apply" \/ (pc[p] = "commit" /\ ~IsReport(p)) => lock = p

\* What a report drops, makes or has still to replace is no table of the incident store;
\* only a report replaces tables, and it commits no migration.
ReportsKeepAway ==
    \A p \in Proc :
        /\ pc[p] \in {"drop", "create"} =>
               /\ IsReport(p) /\ left[p] # <<>>
               /\ left[p] \in Seq(Range(TablesOf[p]))
        /\ IsReport(p) => /\ pc[p] # "lock" /\ pc[p] # "apply"
                          /\ dropped[p] \cap IncidentTables = {}
                          /\ DOMAIN made[p] \cap IncidentTables = {}

\* What a migration is about to commit brings the store to the newest version.
Prepared ==
    \A p \in Proc : pc[p] = "commit" /\ ~IsReport(p) =>
        /\ versions[p] = 1 .. Len(Migration)
        /\ ((DOMAIN tables \ dropped[p]) \cup DOMAIN made[p]) \cap IncidentTables = IncidentTables

IInv == StoreShape /\ LockIsHeld /\ ReportsKeepAway /\ Prepared /\ StoreIsAtItsVersion

-----------------------------------------------------------------------------
\* The migrations are numbered from one.
LEMMA Numbering == /\ Len(Migration) \in Nat /\ DOMAIN Migration = 1 .. Len(Migration)
                   /\ \A v \in 1 .. Len(Migration) : Migration[v] \subseteq IncidentTables
                   /\ IncidentTables = UNION {Migration[v] : v \in 1 .. Len(Migration)}
<1>1. Migration \in Seq(SUBSET IncidentTables)
  BY StoreAssumption
<1>2. Len(Migration) \in Nat /\ DOMAIN Migration = 1 .. Len(Migration)
  BY <1>1
<1>3. \A v \in 1 .. Len(Migration) : Migration[v] \subseteq IncidentTables
  BY <1>2 DEF IncidentTables
<1> QED
  BY <1>2, <1>3 DEF IncidentTables

\* A table of a report is none of the incident store's.
LEMMA ReportTables ==
    ASSUME NEW p \in Proc, IsReport(p), NEW s \in Seq(Range(TablesOf[p])), s # <<>>
    PROVE  Head(s) \notin IncidentTables /\ Tail(s) \in Seq(Range(TablesOf[p]))
<1>1. Head(s) \in Range(TablesOf[p]) /\ Tail(s) \in Seq(Range(TablesOf[p]))
  OBVIOUS
<1> QED
  BY <1>1, StoreAssumption DEF IsReport

\* An older release left the store at one of its versions.
LEMMA InitIInv == StoreInit => IInv
<1> SUFFICES ASSUME StoreInit PROVE IInv
  OBVIOUS
<1>1. StoreShape /\ LockIsHeld /\ Prepared
  BY StoreAssumption DEF StoreInit, StoreShape, Step, LockIsHeld, Prepared
<1>2. ReportsKeepAway
  BY DEF StoreInit, ReportsKeepAway, IsReport
<1>3. \E v \in 0 .. Len(Migration) : applied = 1 .. v
  <2>1. CASE applied = {}
    BY <2>1, Numbering
  <2>2. CASE applied \in {1 .. v : v \in 0 .. Released}
    BY <2>2, Numbering, StoreAssumption
  <2> QED
    BY <2>1, <2>2 DEF StoreInit
<1>4. DOMAIN tables \cap IncidentTables = UNION {Migration[v] : v \in applied}
  <2>1. DOMAIN tables = UNION {Migration[v] : v \in applied}
    BY DEF StoreInit
  <2>2. \A v \in applied : v \in 1 .. Len(Migration)
    BY <1>3, Numbering
  <2> QED
    BY <2>1, <2>2, Numbering
<1> QED
  BY <1>1, <1>2, <1>3, <1>4 DEF IInv, StoreIsAtItsVersion

-----------------------------------------------------------------------------
\* The steps, by part of the invariant.

\* The tables of the incident store and its version stand, and so does what the other
\* processes prepared.
Stands(p) ==
    /\ applied' = applied /\ DOMAIN tables' \cap IncidentTables = DOMAIN tables \cap IncidentTables
    /\ \A q \in Proc \ {p} : /\ pc'[q] = pc[q] /\ left'[q] = left[q] /\ made'[q] = made[q]
                              /\ dropped'[q] = dropped[q] /\ versions'[q] = versions[q]

\* Where they stand, what was prepared for them and not touched is still right.
LEMMA PreparedStands ==
    ASSUME Prepared, NEW p \in Proc, Stands(p),
           pc'[p] = "commit" /\ ~IsReport(p) =>
               /\ versions'[p] = 1 .. Len(Migration)
               /\ ((DOMAIN tables' \ dropped'[p]) \cup DOMAIN made'[p]) \cap IncidentTables = IncidentTables
    PROVE  Prepared'
<1> SUFFICES ASSUME NEW q \in Proc, pc'[q] = "commit", ~IsReport(q)
             PROVE  /\ versions'[q] = 1 .. Len(Migration)
                    /\ ((DOMAIN tables' \ dropped'[q]) \cup DOMAIN made'[q]) \cap IncidentTables
                           = IncidentTables
  BY DEF Prepared, IsReport, IncidentTables
<1>1. CASE q = p
  BY <1>1
<1>2. CASE q # p
  BY <1>2 DEF Prepared, Stands
<1> QED
  BY <1>1, <1>2

\* The version is still right where the tables stand.
LEMMA VersionStands ==
    ASSUME StoreIsAtItsVersion, NEW p \in Proc, Stands(p)
    PROVE  StoreIsAtItsVersion'
BY DEF StoreIsAtItsVersion, Stands, IncidentTables

\* The end of a call leaves the process without a transaction.
LEMMA ClosedIdle ==
    ASSUME IInv, NEW p \in Proc, Closed(p)
    PROVE  /\ StoreShape' /\ LockIsHeld' /\ ReportsKeepAway'
           /\ pc'[p] = "idle"
           /\ \A q \in Proc \ {p} : /\ pc'[q] = pc[q] /\ left'[q] = left[q] /\ made'[q] = made[q]
                                     /\ dropped'[q] = dropped[q] /\ versions'[q] = versions[q]
<1>1. StoreShape' /\ pc'[p] = "idle"
  BY DEF IInv, StoreShape, Closed, Goes, Step
<1>2. \A q \in Proc \ {p} : /\ pc'[q] = pc[q] /\ left'[q] = left[q] /\ made'[q] = made[q]
                            /\ dropped'[q] = dropped[q] /\ versions'[q] = versions[q]
  BY DEF IInv, StoreShape, Closed, Goes
<1>3. LockIsHeld'
  BY <1>1, <1>2, StoreAssumption DEF IInv, LockIsHeld, Closed, IsReport
<1>4. made'[p] = <<>> /\ dropped'[p] = {}
  BY DEF IInv, StoreShape, Closed
<1>5. ReportsKeepAway'
  BY <1>1, <1>2, <1>4 DEF IInv, ReportsKeepAway, IsReport, IncidentTables
<1> QED
  BY <1>1, <1>2, <1>3, <1>5

\* A call that fails, and the role's call when it is done: the store stands.
LEMMA ClosedStands ==
    ASSUME IInv, NEW p \in Proc, Closed(p), applied' = applied, DOMAIN tables' = DOMAIN tables
    PROVE  IInv'
<1>1. Stands(p)
  BY ClosedIdle DEF Stands
<1>2. Prepared' /\ StoreIsAtItsVersion'
  BY <1>1, ClosedIdle, PreparedStands, VersionStands DEF IInv
<1> QED
  BY <1>2, ClosedIdle DEF IInv

\* A step inside a call that leaves what is committed as it is and p's transaction as the
\* step says: what it owes the invariant.
LEMMA StepStands ==
    ASSUME IInv, NEW p \in Proc, NEW step \in Step, Goes(p, step),
           applied' = applied, tables' = tables, StoreShape', Stands(p), LockIsHeld', ReportsKeepAway',
           step # "commit" \/ IsReport(p)
    PROVE  IInv'
<1>1. pc'[p] = step
  BY DEF IInv, StoreShape, Goes
<1>2. Prepared'
  BY <1>1, PreparedStands DEF IInv
<1>3. StoreIsAtItsVersion'
  BY VersionStands DEF IInv
<1> QED
  BY <1>2, <1>3 DEF IInv

\* Look, CreateDatabase and EnsureRole, GrantSelect: only the next step of the process changes.
LEMMA PlainStep ==
    ASSUME IInv, NEW p \in Proc, NEW step \in Step \ {"drop", "create", "apply", "commit"}, Goes(p, step),
           IsReport(p) => step # "lock",
           lock' = lock, tables' = tables, applied' = applied,
           left' = left, made' = made, dropped' = dropped, versions' = versions
    PROVE  IInv'
<1>1. StoreShape' /\ pc'[p] = step /\ \A q \in Proc \ {p} : pc'[q] = pc[q]
  BY DEF IInv, StoreShape, Goes
<1>2. Stands(p)
  BY <1>1 DEF Stands
<1>3. LockIsHeld'
  BY <1>1 DEF IInv, LockIsHeld, IsReport
<1>4. ReportsKeepAway'
  BY <1>1 DEF IInv, ReportsKeepAway, IsReport, IncidentTables
<1> QED
  BY <1>1, <1>2, <1>3, <1>4, StepStands

\* A report or an ingest finds the schema; a report turns to its tables.
LEMMA SchemaStep ==
    ASSUME IInv, NEW p \in Proc, CreateSchema(p)
    PROVE  IInv'
<1> DEFINE step == CASE IsReport(p) -> "drop" [] JobOf[p] = "role" -> "role" [] OTHER -> "lock"
<1>1. /\ Goes(p, step) /\ lock' = lock /\ tables' = tables /\ applied' = applied
      /\ left' = [left EXCEPT ![p] = IF IsReport(p) THEN TablesOf[p] ELSE <<>>]
      /\ made' = made /\ dropped' = dropped /\ versions' = versions
  BY DEF CreateSchema, IsReport
<1>2. step \in Step /\ (step = "drop" <=> IsReport(p)) /\ step \in {"drop", "role", "lock"}
  BY DEF Step, IsReport
<1> HIDE DEF step
<1>3. StoreShape' /\ pc'[p] = step /\ \A q \in Proc \ {p} : pc'[q] = pc[q] /\ left'[q] = left[q]
  BY <1>1, <1>2 DEF IInv, StoreShape, Goes
<1>4. LockIsHeld'
  BY <1>1, <1>2, <1>3 DEF IInv, LockIsHeld, IsReport
<1>5. IsReport(p) => left'[p] = TablesOf[p] /\ TablesOf[p] # <<>> /\ TablesOf[p] \in Seq(Range(TablesOf[p]))
  BY <1>1, StoreAssumption DEF IInv, StoreShape, IsReport
<1>6. ReportsKeepAway'
  BY <1>1, <1>2, <1>3, <1>5 DEF IInv, ReportsKeepAway, IsReport, IncidentTables
<1>7. Stands(p)
  BY <1>1, <1>3 DEF Stands
<1> QED
  BY <1>1, <1>2, <1>3, <1>4, <1>6, <1>7, StepStands

\* A report drops one of its tables: none of the incident store's.
LEMMA DropStep ==
    ASSUME IInv, NEW p \in Proc, DropTable(p)
    PROVE  IInv'
<1>1. IsReport(p) /\ left[p] # <<>> /\ left[p] \in Seq(Range(TablesOf[p]))
  BY DEF IInv, ReportsKeepAway, DropTable
<1>2. Head(left[p]) \notin IncidentTables
  BY <1>1, ReportTables
<1>3. Goes(p, "create") /\ UNCHANGED <<store, left, made, versions, seen, calls>>
  BY DEF DropTable
<1>4. /\ StoreShape' /\ pc'[p] = "create" /\ dropped'[p] \subseteq dropped[p] \cup {Head(left[p])}
      /\ \A q \in Proc \ {p} : pc'[q] = pc[q] /\ dropped'[q] = dropped[q]
  BY <1>3 DEF IInv, StoreShape, Goes, DropTable, Step
<1>5. LockIsHeld'
  BY <1>3, <1>4 DEF IInv, LockIsHeld, IsReport, store
<1>6. ReportsKeepAway'
  BY <1>1, <1>2, <1>3, <1>4 DEF IInv, ReportsKeepAway, IsReport, IncidentTables
<1>7. Stands(p)
  BY <1>3, <1>4 DEF Stands, store
<1> QED
  BY <1>3, <1>4, <1>5, <1>6, <1>7, StepStands DEF store, Step

\* A report makes one of its tables, and has the others still to replace.
LEMMA CreateStep ==
    ASSUME IInv, NEW p \in Proc, CreateTable(p)
    PROVE  IInv'
<1> DEFINE t == Head(left[p])
           step == IF Len(left[p]) = 1 THEN "commit" ELSE "drop"
<1>1. IsReport(p) /\ left[p] # <<>> /\ left[p] \in Seq(Range(TablesOf[p]))
  BY DEF IInv, ReportsKeepAway, CreateTable
<1>2. t \notin IncidentTables /\ Tail(left[p]) \in Seq(Range(TablesOf[p]))
  BY <1>1, ReportTables
<1>3. Len(left[p]) # 1 => Tail(left[p]) # <<>>
  <2> DEFINE length == Len(left[p])
             rest == Tail(left[p])
  <2>1. length \in Nat /\ Len(rest) = length - 1
    BY <1>1
  <2> HIDE DEF length, rest
  <2>2. rest = <<>> => Len(rest) = 0
    OBVIOUS
  <2>3. rest = <<>> => length = 1
    BY <2>1, <2>2
  <2> QED
    BY <2>3 DEF length, rest
<1>4. /\ Goes(p, step) /\ UNCHANGED <<store, dropped, versions, seen, calls>>
      /\ left' = [left EXCEPT ![p] = Tail(@)]
      /\ made' = [made EXCEPT ![p] = Over([u \in {t} |-> New(p)], @)]
  BY DEF CreateTable
<1>5. step \in {"commit", "drop"} /\ (step = "drop" => Tail(left[p]) # <<>>)
  BY <1>3
<1> HIDE DEF t, step
<1>6. /\ StoreShape' /\ pc'[p] = step /\ left'[p] = Tail(left[p])
      /\ \A q \in Proc \ {p} : pc'[q] = pc[q] /\ left'[q] = left[q] /\ made'[q] = made[q]
  BY <1>4, <1>5 DEF IInv, StoreShape, Goes, Step
<1>7. DOMAIN made'[p] = DOMAIN made[p] \cup {t}
  BY <1>4 DEF IInv, StoreShape, Over
<1>8. LockIsHeld'
  BY <1>1, <1>4, <1>5, <1>6 DEF IInv, LockIsHeld, IsReport, store
<1>9. ReportsKeepAway'
  BY <1>1, <1>2, <1>4, <1>5, <1>6, <1>7 DEF IInv, ReportsKeepAway, IsReport, IncidentTables
<1>10. Stands(p)
  BY <1>4, <1>6 DEF Stands, store
<1> QED
  BY <1>1, <1>4, <1>5, <1>6, <1>8, <1>9, <1>10, StepStands DEF store, Step

\* An ingest or a reset takes the lock: nobody else can be about to migrate.
LEMMA LockStep ==
    ASSUME IInv, NEW p \in Proc, TakeIncidentLock(p)
    PROVE  IInv'
<1>1. /\ Goes(p, "apply") /\ pc[p] = "lock" /\ lock = NoProc /\ lock' = p
      /\ UNCHANGED <<exists, tables, applied, granted, missed, inside, calls>>
  BY DEF TakeIncidentLock
<1>2. StoreShape' /\ pc'[p] = "apply" /\ \A q \in Proc \ {p} : pc'[q] = pc[q]
  BY <1>1 DEF IInv, StoreShape, Goes, Step, inside
<1>3. ~IsReport(p)
  BY <1>1 DEF IInv, ReportsKeepAway
<1>4. LockIsHeld'
  BY <1>1, <1>2, StoreAssumption DEF IInv, LockIsHeld, IsReport
<1>5. ReportsKeepAway'
  BY <1>1, <1>2, <1>3 DEF IInv, ReportsKeepAway, IsReport, IncidentTables, inside
<1>6. Stands(p)
  BY <1>1, <1>2 DEF Stands, inside
<1> QED
  BY <1>1, <1>2, <1>4, <1>5, <1>6, StepStands DEF Step

\* A migration makes the tables of the versions the store lacks, a reset all of them after
\* it dropped those there were: either way the newest version, with its tables.
LEMMA ApplyStep ==
    ASSUME IInv, NEW p \in Proc, Apply(p)
    PROVE  IInv'
<1> DEFINE present == IF JobOf[p] = "reset" THEN {} ELSE applied
           lacking == {v \in DOMAIN Migration : \A w \in present : w < v}
           new     == UNION {Migration[v] : v \in lacking}
<1>1. /\ Goes(p, "commit") /\ pc[p] = "apply" /\ UNCHANGED <<store, left, seen, calls>>
      /\ dropped' = [dropped EXCEPT ![p] = IF JobOf[p] = "reset" THEN DOMAIN tables \cap IncidentTables ELSE {}]
      /\ made' = [made EXCEPT ![p] = [t \in new |-> New(p)]]
      /\ versions' = [versions EXCEPT ![p] = present \cup lacking]
  BY DEF Apply
<1>2. /\ StoreShape' /\ pc'[p] = "commit"
      /\ \A q \in Proc \ {p} : /\ pc'[q] = pc[q] /\ made'[q] = made[q] /\ dropped'[q] = dropped[q]
                                /\ versions'[q] = versions[q]
  BY <1>1 DEF IInv, StoreShape, Goes, Step
<1>3. ~IsReport(p)
  BY <1>1 DEF IInv, ReportsKeepAway
<1>4. LockIsHeld'
  BY <1>1, <1>2 DEF IInv, LockIsHeld, IsReport, store
<1>5. ReportsKeepAway'
  BY <1>1, <1>2, <1>3 DEF IInv, ReportsKeepAway, IsReport, IncidentTables
<1>6. Stands(p)
  BY <1>1, <1>2 DEF Stands, store
<1>7. PICK v \in 0 .. Len(Migration) : applied = 1 .. v
  BY DEF IInv, StoreIsAtItsVersion
<1>8. present \cup lacking = 1 .. Len(Migration)
  BY <1>7, Numbering
<1>9. versions'[p] = present \cup lacking /\ DOMAIN made'[p] = new
      /\ dropped'[p] = IF JobOf[p] = "reset" THEN DOMAIN tables \cap IncidentTables ELSE {}
  BY <1>1 DEF IInv, StoreShape
<1>10. new \cup UNION {Migration[w] : w \in present} = IncidentTables
  <2>1. \A w \in present \cup lacking : Migration[w] \subseteq IncidentTables
    BY <1>8, Numbering
  <2>2. ASSUME NEW t \in IncidentTables PROVE \E w \in present \cup lacking : t \in Migration[w]
    BY <1>8, Numbering
  <2> QED
    BY <2>1, <2>2
<1>11. ((DOMAIN tables \ dropped'[p]) \cup new) \cap IncidentTables = IncidentTables
  <2>1. CASE JobOf[p] = "reset"
    BY <2>1, <1>10
  <2>2. CASE JobOf[p] # "reset"
    <3>1. DOMAIN tables \cap IncidentTables = UNION {Migration[w] : w \in present}
      BY <2>2 DEF IInv, StoreIsAtItsVersion
    <3>2. dropped'[p] = {}
      BY <2>2, <1>9
    <3> QED
      BY <3>1, <3>2, <1>10
  <2> QED
    BY <2>1, <2>2
<1> HIDE DEF present, lacking, new
<1>12. Prepared'
  BY <1>1, <1>6, <1>8, <1>9, <1>11, PreparedStands DEF IInv, store
<1>13. StoreIsAtItsVersion'
  BY <1>6, VersionStands DEF IInv
<1> QED
  BY <1>2, <1>4, <1>5, <1>12, <1>13 DEF IInv

\* The commit of a report leaves these tables; that of a migration is the newest version,
\* and nobody else had prepared one.
LEMMA CommitStep ==
    ASSUME IInv, NEW p \in Proc, Commit(p)
    PROVE  IInv'
<1>1. /\ pc[p] = "commit" /\ Closed(p)
      /\ DOMAIN tables' = (DOMAIN tables \ dropped[p]) \cup DOMAIN made[p]
      /\ applied' = IF IsReport(p) THEN applied ELSE versions[p]
  BY DEF Commit, IsReport, Over
<1>2. CASE IsReport(p)
  <2>1. Stands(p)
    BY <1>1, <1>2, ClosedIdle DEF Stands, IInv, ReportsKeepAway, IncidentTables
  <2>2. Prepared' /\ StoreIsAtItsVersion'
    BY <2>1, <1>1, ClosedIdle, PreparedStands, VersionStands DEF IInv
  <2> QED
    BY <2>2, <1>1, ClosedIdle DEF IInv
<1>3. CASE ~IsReport(p)
  <2>1. /\ versions[p] = 1 .. Len(Migration)
        /\ ((DOMAIN tables \ dropped[p]) \cup DOMAIN made[p]) \cap IncidentTables = IncidentTables
    BY <1>1, <1>3 DEF IInv, Prepared
  <2>2. StoreIsAtItsVersion'
    <3>1. applied' = 1 .. Len(Migration) /\ DOMAIN tables' \cap IncidentTables = IncidentTables
      BY <1>1, <1>3, <2>1
    <3>2. Len(Migration) \in 0 .. Len(Migration)
      BY Numbering
    <3>3. UNION {Migration[v] : v \in applied'} = IncidentTables
      BY <3>1, Numbering
    <3>4. IncidentTables' = IncidentTables
      BY DEF IncidentTables
    <3> QED
      BY <3>1, <3>2, <3>3, <3>4 DEF StoreIsAtItsVersion
  <2>3. \A q \in Proc \ {p} : pc[q] = "commit" => IsReport(q)
    BY <1>1, <1>3 DEF IInv, LockIsHeld
  <2>4. Prepared'
    BY <1>1, <2>3, ClosedIdle DEF Prepared, IsReport
  <2> QED
    BY <2>2, <2>4, <1>1, ClosedIdle DEF IInv
<1> QED
  BY <1>2, <1>3

\* A failure gives everything back; the role's grants only change who may read.
LEMMA FailStep ==
    ASSUME IInv, NEW p \in Proc, Fail(p) \/ GrantDefaults(p)
    PROVE  IInv'
<1>1. Closed(p) /\ applied' = applied /\ DOMAIN tables' = DOMAIN tables
  BY DEF Fail, GrantDefaults, Readable
<1> QED
  BY <1>1, ClosedStands

\* Every step keeps the version of the store.
LEMMA NextIInv == IInv /\ [StoreNext]_storeVars => IInv'
<1> SUFFICES ASSUME IInv, [StoreNext]_storeVars PROVE IInv'
  OBVIOUS
<1>1. CASE UNCHANGED storeVars
  BY <1>1 DEF IInv, StoreShape, LockIsHeld, ReportsKeepAway, Prepared, StoreIsAtItsVersion, IsReport,
       IncidentTables, storeVars, store, inside
<1>2. ASSUME NEW p \in Proc, Fail(p) \/ GrantDefaults(p) PROVE IInv'
  BY <1>2, FailStep
<1>3. ASSUME NEW p \in Proc, Look(p) PROVE IInv'
  <2>1. PICK step \in {"schema", "database"} : Goes(p, step)
    BY <1>3 DEF Look
  <2> QED
    BY <1>3, <2>1, PlainStep DEF Look, store, inside, Step
<1>4. ASSUME NEW p \in Proc, CreateDatabase(p) PROVE IInv'
  BY <1>4, PlainStep DEF CreateDatabase, inside, Step
<1>5. ASSUME NEW p \in Proc, CreateSchema(p) PROVE IInv'
  BY <1>5, SchemaStep
<1>6. ASSUME NEW p \in Proc, DropTable(p) PROVE IInv'
  BY <1>6, DropStep
<1>7. ASSUME NEW p \in Proc, CreateTable(p) PROVE IInv'
  BY <1>7, CreateStep
<1>8. ASSUME NEW p \in Proc, TakeIncidentLock(p) PROVE IInv'
  BY <1>8, LockStep
<1>9. ASSUME NEW p \in Proc, Apply(p) PROVE IInv'
  BY <1>9, ApplyStep
<1>10. ASSUME NEW p \in Proc, Commit(p) PROVE IInv'
  BY <1>10, CommitStep
<1>11. ASSUME NEW p \in Proc, EnsureRole(p) PROVE IInv'
  BY <1>11, PlainStep DEF EnsureRole, inside, Step
<1>12. ASSUME NEW p \in Proc, GrantSelect(p) PROVE IInv'
  BY <1>12, PlainStep DEF GrantSelect, store, Step
<1> QED
  BY <1>1, <1>2, <1>3, <1>4, <1>5, <1>6, <1>7, <1>8, <1>9, <1>10, <1>11, <1>12 DEF StoreNext

\* The incident store always is at the version it says, with exactly its tables: for any
\* number of ingests, resets and reports at once, of migrations, and of failures anywhere
\* (transaction, _apply and reset of incidents/store.py).
THEOREM StoreStaysAtItsVersion == StoreSpec => []StoreIsAtItsVersion
<1>1. IInv => StoreIsAtItsVersion
  BY DEF IInv
<1> QED
  BY <1>1, InitIInv, NextIInv, PTL DEF StoreSpec

-----------------------------------------------------------------------------
(* What is committed is also whole, and readable once the role was let in. *)

\* An open transaction makes its own tables, of its own call: a report's are among those
\* it is asked to replace and, when it commits, all of them; a migration's are the incident
\* store's.
MadeAsAsked ==
    \A p \in Proc :
        /\ \A t \in DOMAIN made[p] : made[p][t].by = p /\ made[p][t].call = calls[p]
        /\ pc[p] \notin {"drop", "create", "commit"} => DOMAIN made[p] = {}
        /\ IsReport(p) => /\ pc[p] \in {"drop", "create"} =>
                                 DOMAIN made[p] \cup Range(left[p]) = Range(TablesOf[p])
                          /\ pc[p] = "commit" => DOMAIN made[p] = Range(TablesOf[p])
        /\ ~IsReport(p) => DOMAIN made[p] \subseteq IncidentTables

\* No two transactions make one table, and none makes a table a GRANT has just found.
Apart ==
    \A p \in Proc : \A q \in Proc \ {p} : (DOMAIN made[p] \cup seen[p]) \cap DOMAIN made[q] = {}

\* The role logs in before it is granted anything, it gets its privileges together, and
\* from then on a table it may not read, committed or not yet, is one that was missed.
LetIn ==
    /\ "usage" \in granted <=> "defaults" \in granted
    /\ \A p \in Proc : pc[p] \in {"grant", "defaults"} => "login" \in granted
    /\ "usage" \in granted =>
           /\ "login" \in granted
           /\ \A t \in DOMAIN tables : tables[t].readable \/ t \in missed
           /\ \A p \in Proc : \A t \in DOMAIN made[p] : made[p][t].readable \/ t \in missed
    /\ "usage" \notin granted =>
           /\ \A t \in DOMAIN tables : ~tables[t].readable
           /\ \A p \in Proc : \A t \in DOMAIN made[p] : ~made[p][t].readable

EachHasItsOwn ==
    seen = [p \in Proc |-> seen[p]] /\ calls \in [Proc -> Nat]

\* Tables, those of open transactions too: who made one, in which call, and whether the
\* role may read it.
Table == [by : Proc \cup {NoProc}, call : Nat, readable : BOOLEAN]

AreTables ==
    /\ \A t \in DOMAIN tables : tables[t] \in Table
    /\ \A p \in Proc : \A t \in DOMAIN made[p] : made[p][t] \in Table

WInv == EachHasItsOwn /\ AreTables /\ MadeAsAsked /\ Apart /\ LetIn /\ ReportsAreWhole

\* Nothing is written and nobody let in.
LEMMA InitWInv == StoreInit => WInv
<1> SUFFICES ASSUME StoreInit PROVE WInv
  OBVIOUS
<1>1. EachHasItsOwn /\ AreTables /\ Apart
  BY DEF StoreInit, EachHasItsOwn, AreTables, Table, Apart
<1>2. MadeAsAsked
  BY DEF StoreInit, MadeAsAsked
<1>3. LetIn
  BY DEF StoreInit, LetIn
<1>4. DOMAIN tables \subseteq IncidentTables
  <2>1. DOMAIN tables = UNION {Migration[v] : v \in applied}
    BY DEF StoreInit
  <2>2. DOMAIN tables \cap IncidentTables = UNION {Migration[v] : v \in applied}
    BY InitIInv DEF IInv, StoreIsAtItsVersion
  <2> QED
    BY <2>1, <2>2
<1>5. ReportsAreWhole
  BY <1>4, StoreAssumption DEF ReportsAreWhole
<1> QED
  BY <1>1, <1>2, <1>3, <1>5 DEF WInv

\* Tables whose maker and call are the same are as whole as they were.
LEMMA WholeStays ==
    ASSUME ReportsAreWhole, DOMAIN tables' = DOMAIN tables,
           \A t \in DOMAIN tables : tables'[t].by = tables[t].by /\ tables'[t].call = tables[t].call
    PROVE  ReportsAreWhole'
BY DEF ReportsAreWhole

\* The steps of a call that make no table: what the open transactions made stays theirs.
LEMMA MakesNothing ==
    ASSUME IInv, WInv, NEW p \in Proc, NEW step \in Step, Goes(p, step),
           tables' = tables, made' = made, missed' = missed,
           \A q \in Proc \ {p} : left'[q] = left[q] /\ seen'[q] = seen[q] /\ calls'[q] = calls[q],
           EachHasItsOwn',
           calls'[p] = calls[p] \/ DOMAIN made[p] = {},
           seen'[p] = seen[p] \/ \A q \in Proc \ {p} : seen'[p] \cap DOMAIN made[q] = {},
           step \notin {"drop", "create", "commit"} => DOMAIN made[p] = {},
           IsReport(p) /\ step \in {"drop", "create"} =>
               DOMAIN made[p] \cup Range(left'[p]) = Range(TablesOf[p]),
           step # "commit",
           granted \subseteq granted', granted' \subseteq granted \cup {"login"},
           step \in {"grant", "defaults"} => "login" \in granted'
    PROVE  WInv'
<1>1. pc'[p] = step /\ \A q \in Proc \ {p} : pc'[q] = pc[q]
  BY DEF IInv, StoreShape, Goes
<1>2. MadeAsAsked'
  BY <1>1 DEF WInv, MadeAsAsked, IsReport, IncidentTables
<1>3. Apart'
  BY DEF WInv, Apart
<1>4. LetIn'
  BY <1>1 DEF WInv, LetIn
<1>5. ReportsAreWhole'
  BY WholeStays DEF WInv
<1>6. AreTables'
  BY DEF WInv, AreTables, Table
<1> QED
  BY <1>2, <1>3, <1>4, <1>5, <1>6 DEF WInv

\* The steps before and beside the replacing of tables.
LEMMA QuietSteps ==
    ASSUME IInv, WInv, NEW p \in Proc,
           \/ Look(p) \/ CreateDatabase(p) \/ CreateSchema(p) \/ DropTable(p)
           \/ TakeIncidentLock(p) \/ EnsureRole(p) \/ GrantSelect(p)
    PROVE  WInv'
<1>1. CASE Look(p)
  <2>1. PICK step \in {"schema", "database"} : Goes(p, step)
    BY <1>1 DEF Look
  <2>2. DOMAIN made[p] = {}
    BY <1>1 DEF Look, WInv, MadeAsAsked
  <2>3. EachHasItsOwn' /\ \A q \in Proc \ {p} : calls'[q] = calls[q]
    BY <1>1 DEF Look, WInv, EachHasItsOwn, inside
  <2> QED
    BY <1>1, <2>1, <2>2, <2>3, MakesNothing DEF Look, store, inside, Step
<1>2. CASE CreateDatabase(p) \/ TakeIncidentLock(p) \/ EnsureRole(p)
  <2>1. DOMAIN made[p] = {}
    BY <1>2 DEF CreateDatabase, TakeIncidentLock, EnsureRole, WInv, MadeAsAsked
  <2>2. EachHasItsOwn'
    BY <1>2 DEF CreateDatabase, TakeIncidentLock, EnsureRole, WInv, EachHasItsOwn, inside
  <2> QED
    BY <1>2, <2>1, <2>2, MakesNothing
    DEF CreateDatabase, TakeIncidentLock, EnsureRole, inside, Step
<1>3. CASE CreateSchema(p)
  <2>1. DOMAIN made[p] = {}
    BY <1>3 DEF CreateSchema, WInv, MadeAsAsked
  <2>2. EachHasItsOwn'
    BY <1>3 DEF CreateSchema, WInv, EachHasItsOwn
  <2>3. PICK step \in {"drop", "role", "lock"} : Goes(p, step) /\ (step = "drop" => IsReport(p))
    BY <1>3 DEF CreateSchema, IsReport
  <2>4. /\ \A q \in Proc \ {p} : left'[q] = left[q]
        /\ IsReport(p) => left'[p] = TablesOf[p]
    BY <1>3 DEF CreateSchema, IInv, StoreShape, IsReport
  <2> QED
    BY <1>3, <2>1, <2>2, <2>3, <2>4, MakesNothing DEF CreateSchema, Step
<1>4. CASE DropTable(p)
  <2>1. IsReport(p) => DOMAIN made[p] \cup Range(left[p]) = Range(TablesOf[p])
    BY <1>4 DEF DropTable, WInv, MadeAsAsked
  <2>2. EachHasItsOwn'
    BY <1>4 DEF DropTable, WInv, EachHasItsOwn
  <2> QED
    BY <1>4, <2>1, <2>2, MakesNothing DEF DropTable, store, Step
<1>5. CASE GrantSelect(p)
  <2>1. DOMAIN made[p] = {}
    BY <1>5 DEF GrantSelect, WInv, MadeAsAsked
  <2>2. /\ EachHasItsOwn' /\ seen'[p] = DOMAIN tables
        /\ \A q \in Proc \ {p} : seen'[q] = seen[q]
    BY <1>5 DEF GrantSelect, WInv, EachHasItsOwn
  <2>3. \A q \in Proc \ {p} : seen'[p] \cap DOMAIN made[q] = {}
    BY <1>5, <2>2 DEF GrantSelect, Held
  <2>4. "login" \in granted
    BY <1>5 DEF GrantSelect, WInv, LetIn
  <2> QED
    BY <1>5, <2>1, <2>2, <2>3, <2>4, MakesNothing DEF GrantSelect, store, Step
<1> QED
  BY <1>1, <1>2, <1>3, <1>4, <1>5

\* A process that makes tables nobody else holds, and reads them in as the default
\* privileges say.
LEMMA MakesTables ==
    ASSUME IInv, WInv, NEW p \in Proc, NEW step \in {"drop", "commit"}, Goes(p, step), NEW new,
           \A t \in new : ~Held(p, t),
           tables' = tables, missed' = missed, granted' = granted, seen' = seen, calls' = calls,
           \A q \in Proc \ {p} : left'[q] = left[q] /\ made'[q] = made[q],
           DOMAIN made'[p] \subseteq DOMAIN made[p] \cup new,
           \A t \in DOMAIN made'[p] : \/ t \in new /\ made'[p][t] = New(p)
                                      \/ t \in DOMAIN made[p] /\ made'[p][t] = made[p][t],
           IsReport(p) => /\ step = "drop" =>
                                 DOMAIN made'[p] \cup Range(left'[p]) = Range(TablesOf[p])
                          /\ step = "commit" => DOMAIN made'[p] = Range(TablesOf[p]),
           ~IsReport(p) => step = "commit" /\ new \subseteq IncidentTables
    PROVE  WInv'
<1>1. pc'[p] = step /\ \A q \in Proc \ {p} : pc'[q] = pc[q]
  BY DEF IInv, StoreShape, Goes
<1>2. /\ New(p).by = p /\ New(p).call = calls[p]
      /\ New(p).readable <=> "defaults" \in granted
  BY DEF New
<1>3. MadeAsAsked'
  <2>1. \A t \in DOMAIN made'[p] : made'[p][t].by = p /\ made'[p][t].call = calls'[p]
    BY <1>2 DEF WInv, MadeAsAsked
  <2>2. ~IsReport(p) => DOMAIN made'[p] \subseteq IncidentTables
    BY DEF WInv, MadeAsAsked
  <2> QED
    BY <1>1, <2>1, <2>2 DEF WInv, MadeAsAsked, IsReport, IncidentTables
<1>4. Apart'
  <2>1. \A t \in new : \A q \in Proc \ {p} : t \notin DOMAIN made[q] \cup seen[q]
    BY DEF Held
  <2> QED
    BY <2>1 DEF WInv, Apart
<1>5. LetIn'
  BY <1>1, <1>2 DEF WInv, LetIn
<1>6. ReportsAreWhole'
  BY WholeStays DEF WInv
<1>7. AreTables'
  <2>1. New(p) \in Table
    BY DEF WInv, EachHasItsOwn, Table, New
  <2> QED
    BY <2>1 DEF WInv, AreTables, Table
<1> QED
  BY <1>3, <1>4, <1>5, <1>6, <1>7 DEF WInv, EachHasItsOwn

\* What a sequence holds is its head and what its tail holds.
LEMMA RangeOfTail ==
    ASSUME NEW S, NEW s \in Seq(S), s # <<>>
    PROVE  /\ Range(s) = {Head(s)} \cup Range(Tail(s))
           /\ Len(s) = 1 => Range(s) = {Head(s)}
<1>1. /\ Len(s) \in Nat \ {0} /\ DOMAIN s = 1 .. Len(s) /\ Head(s) = s[1]
      /\ DOMAIN Tail(s) = 1 .. (Len(s) - 1) /\ \A i \in 1 .. (Len(s) - 1) : Tail(s)[i] = s[i + 1]
  OBVIOUS
<1>2. Range(s) = {s[i] : i \in 1 .. Len(s)}
  BY <1>1 DEF Range
<1>3. Range(Tail(s)) = {s[i + 1] : i \in 1 .. (Len(s) - 1)}
  BY <1>1 DEF Range
<1>4. ASSUME NEW i \in 1 .. Len(s) PROVE s[i] = s[1] \/ s[i] \in Range(Tail(s))
  <2>1. CASE i = 1
    BY <2>1
  <2>2. CASE i # 1
    <3>1. i - 1 \in 1 .. (Len(s) - 1) /\ (i - 1) + 1 = i
      BY <1>1, <2>2
    <3> QED
      BY <1>3, <3>1
  <2> QED
    BY <2>1, <2>2
<1>5. \A i \in 1 .. (Len(s) - 1) : i + 1 \in 1 .. Len(s)
  BY <1>1
<1> QED
  BY <1>1, <1>2, <1>3, <1>4, <1>5

\* A report makes the next of its tables; a migration makes its versions' tables.
LEMMA CreateStepW ==
    ASSUME IInv, WInv, NEW p \in Proc, CreateTable(p)
    PROVE  WInv'
<1> DEFINE t == Head(left[p])
           step == IF Len(left[p]) = 1 THEN "commit" ELSE "drop"
<1>1. /\ pc[p] = "create" /\ Goes(p, step) /\ UNCHANGED <<store, dropped, versions, seen, calls>>
      /\ left' = [left EXCEPT ![p] = Tail(@)]
      /\ made' = [made EXCEPT ![p] = Over([u \in {t} |-> New(p)], @)]
      /\ ~Held(p, t)
  BY DEF CreateTable
<1>2. IsReport(p) /\ left[p] # <<>> /\ left[p] \in Seq(Range(TablesOf[p]))
  BY <1>1 DEF IInv, ReportsKeepAway
<1>3. DOMAIN made[p] \cup Range(left[p]) = Range(TablesOf[p])
  BY <1>1, <1>2 DEF WInv, MadeAsAsked
<1>4. /\ Range(left[p]) = {t} \cup Range(Tail(left[p]))
      /\ step = "commit" => Range(left[p]) = {t}
  BY <1>2, RangeOfTail
<1>5. /\ left'[p] = Tail(left[p]) /\ made'[p] = Over([u \in {t} |-> New(p)], made[p])
      /\ \A q \in Proc \ {p} : left'[q] = left[q] /\ made'[q] = made[q]
  BY <1>1 DEF IInv, StoreShape
<1>6. step \in {"drop", "commit"}
  OBVIOUS
<1> HIDE DEF t, step
<1>7. /\ DOMAIN made'[p] = DOMAIN made[p] \cup {t}
      /\ \A u \in DOMAIN made'[p] : \/ u \in {t} /\ made'[p][u] = New(p)
                                    \/ u \in DOMAIN made[p] /\ made'[p][u] = made[p][u]
  BY <1>5 DEF Over
<1>8. /\ step = "drop" => DOMAIN made'[p] \cup Range(left'[p]) = Range(TablesOf[p])
      /\ step = "commit" => DOMAIN made'[p] = Range(TablesOf[p])
  BY <1>3, <1>4, <1>5, <1>7
<1> DEFINE new == {t}
<1>9. /\ \A u \in new : ~Held(p, u)
      /\ DOMAIN made'[p] \subseteq DOMAIN made[p] \cup new
      /\ \A u \in DOMAIN made'[p] : \/ u \in new /\ made'[p][u] = New(p)
                                    \/ u \in DOMAIN made[p] /\ made'[p][u] = made[p][u]
  BY <1>1, <1>7
<1> HIDE DEF new
<1> QED
  BY <1>1, <1>2, <1>5, <1>6, <1>8, <1>9, MakesTables DEF store

\* Migrations applied keep what a page sees and make no table twice.
LEMMA ApplyStepW ==
    ASSUME IInv, WInv, NEW p \in Proc, Apply(p)
    PROVE  WInv'
<1> DEFINE present == IF JobOf[p] = "reset" THEN {} ELSE applied
           lacking == {v \in DOMAIN Migration : \A w \in present : w < v}
           new     == UNION {Migration[v] : v \in lacking}
<1>1. /\ Goes(p, "commit") /\ pc[p] = "apply" /\ UNCHANGED <<store, left, seen, calls>>
      /\ made' = [made EXCEPT ![p] = [t \in new |-> New(p)]]
      /\ \A t \in new : ~Held(p, t)
  BY DEF Apply
<1>2. ~IsReport(p)
  BY <1>1 DEF IInv, ReportsKeepAway
<1>3. new \subseteq IncidentTables
  BY Numbering
<1> HIDE DEF new
<1>4. /\ made'[p] = [t \in new |-> New(p)]
      /\ \A q \in Proc \ {p} : left'[q] = left[q] /\ made'[q] = made[q]
  BY <1>1 DEF IInv, StoreShape
<1>5. /\ DOMAIN made'[p] \subseteq DOMAIN made[p] \cup new
      /\ \A t \in DOMAIN made'[p] : t \in new /\ made'[p][t] = New(p)
  BY <1>4
<1> QED
  BY <1>1, <1>2, <1>3, <1>4, <1>5, MakesTables DEF store

\* The end of a call leaves nobody else's transaction changed.
LEMMA ClosedAlone ==
    ASSUME IInv, WInv, NEW p \in Proc, Closed(p), calls' = calls
    PROVE  /\ EachHasItsOwn' /\ MadeAsAsked' /\ Apart'
           /\ DOMAIN made'[p] = {} /\ pc'[p] = "idle"
           /\ \A q \in Proc \ {p} : made'[q] = made[q] /\ pc'[q] = pc[q]
<1>1. DOMAIN made'[p] = {}
  <2>1. made'[p] = <<>>
    BY DEF IInv, StoreShape, Closed
  <2> QED
    BY <2>1
<1>2. /\ seen'[p] = {} /\ EachHasItsOwn'
      /\ \A q \in Proc \ {p} : seen'[q] = seen[q]
  BY DEF WInv, EachHasItsOwn, Closed
<1>3. MadeAsAsked'
  BY <1>1, ClosedIdle DEF WInv, MadeAsAsked, IsReport, IncidentTables
<1>4. Apart'
  BY <1>1, <1>2, ClosedIdle DEF WInv, Apart
<1> QED
  BY <1>1, <1>2, <1>3, <1>4, ClosedIdle

\* A transaction that fails keeps what a page sees.
LEMMA FailStepW ==
    ASSUME IInv, WInv, NEW p \in Proc, Fail(p)
    PROVE  WInv'
<1>1. Closed(p) /\ calls' = calls /\ tables' = tables /\ granted' = granted /\ missed' = missed
  BY DEF Fail
<1>2. LetIn' /\ AreTables'
  BY <1>1, ClosedAlone DEF WInv, LetIn, AreTables, Table
<1>3. ReportsAreWhole'
  BY <1>1, WholeStays DEF WInv
<1> QED
  BY <1>1, <1>2, <1>3, ClosedAlone DEF WInv

\* The grants and the default privileges: every table there is was seen and is readable
\* now, or was readable, or is missed; and none that is being made was seen.
LEMMA GrantStepW ==
    ASSUME IInv, WInv, NEW p \in Proc, GrantDefaults(p)
    PROVE  WInv'
<1>1. /\ pc[p] = "defaults" /\ tables' = Readable(p) /\ granted' = granted \cup {"usage", "defaults"}
      /\ missed' = missed \cup {t \in LeftOut(p) : t \notin DOMAIN tables \/ ~tables[t].readable}
      /\ Closed(p) /\ calls' = calls
  BY DEF GrantDefaults
<1>2. /\ DOMAIN tables' = DOMAIN tables
      /\ \A t \in DOMAIN tables :
             /\ tables'[t] \in Table
             /\ tables'[t].by = tables[t].by /\ tables'[t].call = tables[t].call
             /\ tables'[t].readable = (tables[t].readable \/ t \in seen[p])
  BY <1>1 DEF Readable, WInv, AreTables, Table
<1>3. ReportsAreWhole'
  BY <1>2, WholeStays DEF WInv
<1>4. AreTables'
  BY <1>1, <1>2, ClosedAlone DEF WInv, AreTables, Table
<1>5. "login" \in granted
  BY <1>1 DEF WInv, LetIn
<1>6. \A t \in DOMAIN tables' : tables'[t].readable \/ t \in missed'
  BY <1>1, <1>2 DEF LeftOut
<1>7. ASSUME NEW q \in Proc, NEW t \in DOMAIN made'[q]
      PROVE  made'[q][t].readable \/ t \in missed'
  <2>1. q # p /\ made'[q] = made[q]
    BY <1>1, <1>7, ClosedAlone
  <2>2. t \notin seen[p]
    BY <2>1, <1>7 DEF WInv, Apart
  <2>3. t \in LeftOut(p)
    BY <2>1, <2>2, <1>7 DEF LeftOut
  <2>4. CASE t \notin DOMAIN tables \/ ~tables[t].readable
    BY <2>3, <2>4, <1>1
  <2>5. CASE t \in DOMAIN tables /\ tables[t].readable
    BY <2>1, <2>5, <1>1, <1>7 DEF WInv, LetIn
  <2> QED
    BY <2>4, <2>5
<1>8. LetIn'
  BY <1>1, <1>5, <1>6, <1>7, ClosedAlone DEF WInv, LetIn
<1> QED
  BY <1>1, <1>3, <1>4, <1>8, ClosedAlone DEF WInv

\* The commit of a migration or a report: what it made is there, the rest that it did not
\* drop stays, and of a report's tables all are its own or none is.
LEMMA CommitStepW ==
    ASSUME IInv, WInv, NEW p \in Proc, Commit(p)
    PROVE  WInv'
<1>1. /\ pc[p] = "commit" /\ Closed(p) /\ granted' = granted /\ calls' = calls
      /\ missed' = missed \ {t \in DOMAIN made[p] : made[p][t].readable}
  BY DEF Commit
<1>2. /\ DOMAIN tables' = DOMAIN made[p] \cup (DOMAIN tables \ dropped[p])
      /\ \A t \in DOMAIN tables' :
             \/ t \in DOMAIN made[p] /\ tables'[t] = made[p][t]
             \/ t \notin DOMAIN made[p] /\ t \in DOMAIN tables /\ tables'[t] = tables[t]
  BY DEF Commit, Over
<1>3. AreTables'
  BY <1>1, <1>2, ClosedAlone DEF WInv, AreTables, Table
<1>4. LetIn'
  <2>1. \A q \in Proc \ {p} : DOMAIN made[p] \cap DOMAIN made[q] = {}
    BY DEF WInv, Apart
  <2>2. "usage" \in granted =>
            /\ \A t \in DOMAIN tables' : tables'[t].readable \/ t \in missed'
            /\ \A q \in Proc : \A t \in DOMAIN made'[q] : made'[q][t].readable \/ t \in missed'
    BY <1>1, <1>2, <2>1, ClosedAlone DEF WInv, LetIn
  <2>3. "usage" \notin granted =>
            /\ \A t \in DOMAIN tables' : ~tables'[t].readable
            /\ \A q \in Proc : \A t \in DOMAIN made'[q] : ~made'[q][t].readable
    BY <1>1, <1>2, ClosedAlone DEF WInv, LetIn
  <2>4. \A q \in Proc : pc'[q] \in {"grant", "defaults"} => "login" \in granted'
    BY <1>1, ClosedAlone DEF WInv, LetIn
  <2> QED
    BY <1>1, <2>2, <2>3, <2>4 DEF WInv, LetIn
<1>5. ReportsAreWhole'
  <2> SUFFICES ASSUME NEW r \in Proc, JobOf[r] = "report",
                      NEW t \in DOMAIN tables' \cap Range(TablesOf[r]),
                      NEW u \in DOMAIN tables' \cap Range(TablesOf[r]),
                      tables'[t].by = r
               PROVE  /\ tables'[u].by = r => tables'[t].call = tables'[u].call
                      /\ TablesOf[tables'[u].by] = TablesOf[r] => tables'[u].by = r
    BY DEF ReportsAreWhole
  <2>1. /\ \A x \in DOMAIN made[p] : made[p][x].by = p /\ made[p][x].call = calls[p]
        /\ IsReport(p) => DOMAIN made[p] = Range(TablesOf[p])
        /\ ~IsReport(p) => DOMAIN made[p] \subseteq IncidentTables
    BY <1>1 DEF WInv, MadeAsAsked
  <2>2. Range(TablesOf[r]) \cap IncidentTables = {}
    BY StoreAssumption
  <2>3. CASE t \in DOMAIN made[p]
    <3>1. r = p
      BY <1>2, <2>1, <2>3
    <3>2. u \in DOMAIN made[p]
      BY <2>1, <3>1 DEF IsReport
    <3> QED
      BY <1>2, <2>1, <2>3, <3>1, <3>2
  <2>4. CASE t \notin DOMAIN made[p]
    <3>1. t \in DOMAIN tables /\ tables'[t] = tables[t]
      BY <1>2, <2>4
    <3>2. CASE u \notin DOMAIN made[p]
      BY <1>2, <3>1, <3>2 DEF WInv, ReportsAreWhole
    <3>3. CASE u \in DOMAIN made[p]
      <4>1. tables'[u].by = p /\ IsReport(p)
        BY <1>2, <2>1, <2>2, <3>3
      <4>2. TablesOf[p] # TablesOf[r]
        BY <2>1, <2>4, <4>1
      <4> QED
        BY <4>1, <4>2
    <3> QED
      BY <3>2, <3>3
  <2> QED
    BY <2>3, <2>4
<1> QED
  BY <1>1, <1>3, <1>4, <1>5, ClosedAlone DEF WInv

\* Every step keeps what a page sees.
LEMMA NextWInv == IInv /\ WInv /\ [StoreNext]_storeVars => WInv'
<1> SUFFICES ASSUME IInv, WInv, [StoreNext]_storeVars PROVE WInv'
  OBVIOUS
<1>1. CASE UNCHANGED storeVars
  <2>1. /\ tables' = tables /\ made' = made /\ missed' = missed /\ granted' = granted
        /\ pc' = pc /\ left' = left /\ seen' = seen /\ calls' = calls
    BY <1>1 DEF storeVars, store, inside
  <2>2. EachHasItsOwn' /\ AreTables' /\ Apart'
    BY <2>1 DEF WInv, EachHasItsOwn, AreTables, Table, Apart
  <2>3. MadeAsAsked'
    BY <2>1 DEF WInv, MadeAsAsked, IsReport, IncidentTables
  <2>4. LetIn'
    BY <2>1 DEF WInv, LetIn
  <2>5. ReportsAreWhole'
    BY <2>1, WholeStays DEF WInv
  <2> QED
    BY <2>2, <2>3, <2>4, <2>5 DEF WInv
<1>2. CASE StoreNext
  <2> PICK p \in Proc :
        \/ Fail(p) \/ Look(p) \/ CreateDatabase(p) \/ CreateSchema(p)
        \/ DropTable(p) \/ CreateTable(p)
        \/ TakeIncidentLock(p) \/ Apply(p) \/ Commit(p)
        \/ EnsureRole(p) \/ GrantSelect(p) \/ GrantDefaults(p)
    BY <1>2 DEF StoreNext
  <2> QED
    BY QuietSteps, CreateStepW, ApplyStepW, CommitStepW, FailStepW, GrantStepW
<1> QED
  BY <1>1, <1>2

\* A page the role opens shows what the store holds: once the role was let in it reads
\* every table that was not being made just then, the tables of a report are of one call
\* of it, and the incident store is at the version it says, for any number of processes
\* and failures (ensure_dashboard_role and open_store of common/store.py, Store.frame).
THEOREM PagesReadTheStore == StoreSpec => []DashboardsReadTheStore
<1>1. ASSUME IInv, WInv PROVE DashboardsReadTheStore
  <2>1. PagesRead
    <3> SUFFICES ASSUME "usage" \in granted, NEW t \in DOMAIN tables \ missed
                 PROVE  Frame({t}) = "rows"
      BY DEF PagesRead
    <3>1. "login" \in granted /\ tables[t].readable
      BY <1>1 DEF WInv, LetIn
    <3> QED
      BY <3>1 DEF Frame
  <2> QED
    BY <1>1, <2>1 DEF IInv, WInv, DashboardsReadTheStore
<1> QED
  BY <1>1, InitIInv, NextIInv, InitWInv, NextWInv, PTL DEF StoreSpec

-----------------------------------------------------------------------------
(* The BI tool.                                                            *)

\* What the steps write to are records and functions.
ItemsShape(items) ==
    /\ items = [cards |-> items.cards, boards |-> items.boards]
    /\ items.cards = [c \in DOMAIN items.cards |-> items.cards[c]]
    /\ items.boards = [l \in DOMAIN items.boards |-> items.boards[l]]

JobShape ==
    \/ job = Idle
    \/ /\ job.kind = "users"
       /\ job = [kind |-> "users", teams |-> job.teams, left |-> job.left, user |-> job.user,
                 grants |-> job.grants]
    \/ /\ job.kind = "provision"
       /\ job = [kind |-> "provision", project |-> job.project, teams |-> job.teams, team |-> job.team,
                 labels |-> job.labels, cards |-> job.cards, step |-> job.step, old |-> job.old]
       /\ job.step \in {"card", "place", "archive"}
       /\ job.old = [cards |-> job.old.cards, boards |-> job.old.boards]

Shape ==
    /\ shown = [t \in Teams |-> shown[t]]
    /\ \A t \in Teams : ItemsShape(shown[t])
    /\ since = [whole |-> since.whole, tried |-> since.tried, granted |-> since.granted,
                granting |-> since.granting]
    /\ JobShape

\* Every user that was created anew holds its role's privileges but those it is still to get.
GrantedSoFar ==
    job.kind = "users" =>
        /\ job.teams \in since.granting
        /\ job.left \subseteq CompanyUsers(job.teams)
        /\ job.grants \subseteq Grants(job.user)
        /\ job.grants # {} => job.user \in CompanyUsers(job.teams) \ job.left
        /\ \A u \in CompanyUsers(job.teams) \ job.left :
               /\ u \in DOMAIN users
               /\ users[u] = Grants(u) \ (IF u = job.user THEN job.grants ELSE {})

\* RolesDecideAccess without what the roles say.
HeldByRole ==
    \A teams \in since.granted : \A u \in CompanyUsers(teams) :
        /\ u \in DOMAIN users
        /\ users[u] \subseteq Grants(u)
        /\ since.granting = {} => users[u] = Grants(u)

UsersInv == GrantedSoFar /\ HeldByRole

-----------------------------------------------------------------------------
\* Choosing from a set that is not empty gives one of its elements.
LEMMA Chosen == ASSUME NEW S, S # {} PROVE OneOf(S) \in S
BY DEF OneOf

\* No user is known before the first job.
LEMMA UsersInit == Init => Shape /\ UsersInv
<1> SUFFICES ASSUME Init PROVE Shape /\ UsersInv
  OBVIOUS
<1>1. Shape
  BY DEF Init, Shape, ItemsShape, JobShape, Nothing
<1>2. UsersInv
  BY DEF Init, UsersInv, GrantedSoFar, HeldByRole, Idle
<1> QED
  BY <1>1, <1>2

\* The job after each step of a provision, field by field.
Progress(project, teams, team, labels, cards, step, old) ==
    job' = [kind |-> "provision", project |-> project, teams |-> teams, team |-> team,
            labels |-> labels, cards |-> cards, step |-> step, old |-> old]

Begun(project, teams, team, labels, old) ==
    IF labels = {} THEN Progress(project, teams, team, {}, {}, "archive", old)
    ELSE Progress(project, teams, team, labels, DOMAIN CardsOf(Projects[project], Min(labels)), "card", old)

\* A step of a provision starts it, turns to a team, puts, places, archives or ends.
LEMMA ProvisionsGoOn ==
    ASSUME JobShape, ProvisionNext
    PROVE  \/ \E p \in DOMAIN Projects :
                  StartProvision(p) /\ Progress(p, TeamsShown(Projects[p]), NoTeam, {}, {}, "archive", NothingLeft)
           \/ /\ TurnTo
              /\ LET team    == Min(job.teams)
                     project == Projects[job.project]
                 IN  Begun(job.project, job.teams \ {team}, team, Dashboards(project, team),
                           LeftOver(project, team, shown[team]))
           \/ /\ PutCard
              /\ Progress(job.project, job.teams, job.team, job.labels, job.cards \ {OneOf(job.cards)},
                          job.step, job.old)
           \/ /\ PutBoard
              /\ Progress(job.project, job.teams, job.team, job.labels, job.cards, "place", job.old)
           \/ /\ Place
              /\ Begun(job.project, job.teams, job.team, job.labels \ {Min(job.labels)}, job.old)
           \/ /\ ArchiveCard
              /\ Progress(job.project, job.teams, job.team, job.labels, job.cards, job.step,
                          [cards |-> job.old.cards \ {OneOf(job.old.cards)}, boards |-> job.old.boards])
           \/ /\ ArchiveBoard
              /\ Progress(job.project, job.teams, job.team, job.labels, job.cards, job.step,
                          [cards |-> job.old.cards, boards |-> job.old.boards \ {OneOf(job.old.boards)}])
           \/ EndProvision /\ job' = Idle
<1>1. ASSUME NEW p \in DOMAIN Projects, StartProvision(p)
      PROVE  Progress(p, TeamsShown(Projects[p]), NoTeam, {}, {}, "archive", NothingLeft)
  BY <1>1 DEF StartProvision, Progress
<1>2. ASSUME job.kind = "provision"
      PROVE  /\ job = [kind |-> "provision", project |-> job.project, teams |-> job.teams,
                       team |-> job.team, labels |-> job.labels, cards |-> job.cards,
                       step |-> job.step, old |-> job.old]
             /\ job.old = [cards |-> job.old.cards, boards |-> job.old.boards]
  BY <1>2 DEF JobShape, Idle
<1>3. ASSUME TurnTo
      PROVE  LET team    == Min(job.teams)
                 project == Projects[job.project]
             IN  Begun(job.project, job.teams \ {team}, team, Dashboards(project, team),
                       LeftOver(project, team, shown[team]))
  <2> DEFINE team    == Min(job.teams)
             project == Projects[job.project]
             labels  == Dashboards(project, team)
             old     == LeftOver(project, team, shown[team])
  <2>1. /\ job.kind = "provision"
        /\ job' = Turned([job EXCEPT !.team = team, !.teams = @ \ {team}, !.old = old], labels)
    BY <1>3 DEF TurnTo, TeamDone
  <2> HIDE DEF team, labels, old
  <2>2. Begun(job.project, job.teams \ {team}, team, labels, old)
    BY <1>2, <2>1 DEF Turned, Begun, Progress
  <2> QED
    BY <2>2 DEF team, project, labels, old
<1>4. ASSUME PutCard
      PROVE  Progress(job.project, job.teams, job.team, job.labels, job.cards \ {OneOf(job.cards)},
                      job.step, job.old)
  BY <1>2, <1>4 DEF PutCard, Progress
<1>5. ASSUME PutBoard
      PROVE  Progress(job.project, job.teams, job.team, job.labels, job.cards, "place", job.old)
  BY <1>2, <1>5 DEF PutBoard, Progress
<1>6. ASSUME Place
      PROVE  Begun(job.project, job.teams, job.team, job.labels \ {Min(job.labels)}, job.old)
  <2> DEFINE labels == job.labels \ {Min(job.labels)}
  <2>1. job.kind = "provision" /\ job' = Turned(job, labels)
    BY <1>6 DEF Place
  <2> HIDE DEF labels
  <2>2. Begun(job.project, job.teams, job.team, labels, job.old)
    BY <1>2, <2>1 DEF Turned, Begun, Progress
  <2> QED
    BY <2>2 DEF labels
<1>7. ASSUME ArchiveCard
      PROVE  Progress(job.project, job.teams, job.team, job.labels, job.cards, job.step,
                      [cards |-> job.old.cards \ {OneOf(job.old.cards)}, boards |-> job.old.boards])
  BY <1>2, <1>7 DEF ArchiveCard, Progress
<1>8. ASSUME ArchiveBoard
      PROVE  Progress(job.project, job.teams, job.team, job.labels, job.cards, job.step,
                      [cards |-> job.old.cards, boards |-> job.old.boards \ {OneOf(job.old.boards)}])
  BY <1>2, <1>8 DEF ArchiveBoard, Progress
<1>9. ASSUME EndProvision PROVE job' = Idle
  BY <1>9 DEF EndProvision
<1> QED
  BY <1>1, <1>3, <1>4, <1>5, <1>6, <1>7, <1>8, <1>9, Zenon DEF ProvisionNext

\* Every step keeps what the users hold.
LEMMA UsersStep ==
    ASSUME Shape, UsersInv, [Next]_vars
    PROVE  UsersInv'
<1> USE DEF Shape, JobShape, UsersInv
<1>1. ASSUME NEW p \in DOMAIN Projects, StartUsers(Projects[p].teams) PROVE UsersInv'
  BY <1>1 DEF StartUsers, GrantedSoFar, HeldByRole
<1>2. CASE CreateUser
  <2> DEFINE user == OneOf(job.left)
  <2>1. /\ job.kind = "users" /\ job.grants = {} /\ job.left # {}
        /\ users' = Created(users, user)
        /\ job' = [job EXCEPT !.left = @ \ {user}, !.user = user, !.grants = Grants(user)]
        /\ since' = since
    BY <1>2 DEF CreateUser
  <2>2. user \in job.left
    BY <2>1, Chosen
  <2> HIDE DEF user
  <2>3. /\ job'.kind = "users" /\ job'.teams = job.teams /\ job'.left = job.left \ {user}
        /\ job'.user = user /\ job'.grants = Grants(user)
    BY <2>1 DEF Idle
  <2>4. /\ \A u \in DOMAIN users \cup {user} : users'[u] = IF u = user THEN {} ELSE users[u]
        /\ DOMAIN users' = DOMAIN users \cup {user}
    BY <2>1 DEF Created
  <2>5. GrantedSoFar'
    BY <2>1, <2>2, <2>3, <2>4 DEF GrantedSoFar
  <2>6. HeldByRole'
    BY <2>1, <2>2, <2>4 DEF GrantedSoFar, HeldByRole
  <2> QED
    BY <2>5, <2>6
<1>3. CASE Grant
  <2> DEFINE privilege == OneOf(job.grants)
  <2>1. /\ job.kind = "users" /\ job.grants # {}
        /\ users' = [users EXCEPT ![job.user] = @ \cup {privilege}]
        /\ job' = [job EXCEPT !.grants = @ \ {privilege}]
        /\ since' = since
    BY <1>3 DEF Grant
  <2>2. privilege \in job.grants
    BY <2>1, Chosen
  <2> HIDE DEF privilege
  <2>3. /\ job'.kind = "users" /\ job'.teams = job.teams /\ job'.left = job.left
        /\ job'.user = job.user /\ job'.grants = job.grants \ {privilege}
    BY <2>1 DEF Idle
  <2>4. /\ DOMAIN users' = DOMAIN users
        /\ \A u \in DOMAIN users : users'[u] = IF u = job.user THEN users[u] \cup {privilege} ELSE users[u]
    BY <2>1
  <2>5. privilege \in Grants(job.user) /\ job.teams \in since.granting
    BY <2>1, <2>2 DEF GrantedSoFar
  <2>6. GrantedSoFar'
    BY <2>1, <2>2, <2>3, <2>4, <2>5 DEF GrantedSoFar
  <2>7. HeldByRole'
    BY <2>1, <2>4, <2>5 DEF HeldByRole
  <2> QED
    BY <2>6, <2>7
<1>4. CASE EndUsers
  BY <1>4 DEF EndUsers, GrantedSoFar, HeldByRole, Idle
<1>5. CASE Stop
  BY <1>5 DEF Stop, GrantedSoFar, HeldByRole, Idle
<1>6. CASE ProvisionNext
  <2>1. users' = users /\ since'.granted = since.granted /\ since'.granting = since.granting
    BY <1>6 DEF ProvisionNext, StartProvision, TurnTo, PutCard, PutBoard, Place, ArchiveCard,
                ArchiveBoard, EndProvision
  <2>2. job'.kind # "users"
    BY <1>6, ProvisionsGoOn DEF Begun, Progress, Idle
  <2> QED
    BY <2>1, <2>2 DEF GrantedSoFar, HeldByRole
<1>7. CASE UNCHANGED vars
  BY <1>7 DEF vars, GrantedSoFar, HeldByRole
<1> QED
  BY <1>1, <1>2, <1>3, <1>4, <1>5, <1>6, <1>7 DEF Next, UsersNext

\* Every step keeps the shape of the job under way.
LEMMA JobShapeStep ==
    ASSUME Shape, [Next]_vars
    PROVE  JobShape'
<1> USE DEF Shape
<1>1. CASE ProvisionNext
  <2>1. JobShape
    OBVIOUS
  <2>2. job.kind = "provision" =>
            /\ job.step \in {"card", "place", "archive"}
            /\ job.old = [cards |-> job.old.cards, boards |-> job.old.boards]
    BY <2>1 DEF JobShape, Idle
  <2>3. \A project, team, items :
            LeftOver(project, team, items) = [cards  |-> LeftOver(project, team, items).cards,
                                              boards |-> LeftOver(project, team, items).boards]
    BY DEF LeftOver
  <2>4. ASSUME NEW project, NEW teams, NEW team, NEW labels, NEW cards, NEW step, NEW old,
               Progress(project, teams, team, labels, cards, step, old),
               step \in {"card", "place", "archive"}, old = [cards |-> old.cards, boards |-> old.boards]
        PROVE  JobShape'
    BY <2>4 DEF Progress, JobShape
  <2>5. ASSUME NEW project, NEW teams, NEW team, NEW labels, NEW old,
               Begun(project, teams, team, labels, old), old = [cards |-> old.cards, boards |-> old.boards]
        PROVE  JobShape'
    BY <2>4, <2>5 DEF Begun
  <2> DEFINE card  == OneOf(job.old.cards)
             board == OneOf(job.old.boards)
             fewer == [cards |-> job.old.cards \ {card}, boards |-> job.old.boards]
             less  == [cards |-> job.old.cards, boards |-> job.old.boards \ {board}]
  <2>6. /\ fewer = [cards |-> fewer.cards, boards |-> fewer.boards]
        /\ less = [cards |-> less.cards, boards |-> less.boards]
        /\ NothingLeft = [cards |-> NothingLeft.cards, boards |-> NothingLeft.boards]
    BY DEF NothingLeft
  <2> HIDE DEF fewer, less
  <2>7. \/ \E p \in DOMAIN Projects :
                Progress(p, TeamsShown(Projects[p]), NoTeam, {}, {}, "archive", NothingLeft)
        \/ TurnTo /\ \E teams, team, labels, project, items :
                         Begun(job.project, teams, team, labels, LeftOver(project, team, items))
        \/ PutCard /\ \E cards :
                Progress(job.project, job.teams, job.team, job.labels, cards, job.step, job.old)
        \/ PutBoard /\ Progress(job.project, job.teams, job.team, job.labels, job.cards, "place", job.old)
        \/ Place /\ \E labels : Begun(job.project, job.teams, job.team, labels, job.old)
        \/ ArchiveCard /\ Progress(job.project, job.teams, job.team, job.labels, job.cards, job.step, fewer)
        \/ ArchiveBoard /\ Progress(job.project, job.teams, job.team, job.labels, job.cards, job.step, less)
        \/ job' = Idle
    BY <1>1, <2>1, ProvisionsGoOn DEF fewer, less
  <2>8. ASSUME TurnTo \/ PutCard \/ PutBoard \/ Place \/ ArchiveCard \/ ArchiveBoard
        PROVE  job.kind = "provision"
    BY <2>8 DEF TurnTo, TeamDone, PutCard, PutBoard, Place, ArchiveCard, ArchiveBoard
  <2>9. CASE TurnTo /\ \E teams, team, labels, project, items :
                           Begun(job.project, teams, team, labels, LeftOver(project, team, items))
    <3>1. PICK teams, team, labels, project, items :
              Begun(job.project, teams, team, labels, LeftOver(project, team, items))
      BY <2>9
    <3> QED
      BY <2>3, <2>5, <3>1
  <2>10. CASE PutCard /\ \E cards :
                Progress(job.project, job.teams, job.team, job.labels, cards, job.step, job.old)
    BY <2>2, <2>4, <2>8, <2>10
  <2>11. CASE Place /\ \E labels : Begun(job.project, job.teams, job.team, labels, job.old)
    BY <2>2, <2>5, <2>8, <2>11
  <2>12. CASE PutBoard /\ Progress(job.project, job.teams, job.team, job.labels, job.cards, "place", job.old)
    BY <2>2, <2>4, <2>8, <2>12
  <2>13. CASE ArchiveCard /\ Progress(job.project, job.teams, job.team, job.labels, job.cards, job.step, fewer)
    BY <2>2, <2>4, <2>6, <2>8, <2>13
  <2>14. CASE ArchiveBoard /\ Progress(job.project, job.teams, job.team, job.labels, job.cards, job.step, less)
    BY <2>2, <2>4, <2>6, <2>8, <2>14
  <2>15. ASSUME NEW p \in DOMAIN Projects,
                Progress(p, TeamsShown(Projects[p]), NoTeam, {}, {}, "archive", NothingLeft)
         PROVE  JobShape'
    BY <2>4, <2>6, <2>15
  <2>16. ASSUME job' = Idle PROVE JobShape'
    BY <2>16 DEF JobShape
  <2> QED
    BY <2>7, <2>9, <2>10, <2>11, <2>12, <2>13, <2>14, <2>15, <2>16
<1>2. CASE UsersNext
  <2>1. ASSUME NEW p \in DOMAIN Projects, StartUsers(Projects[p].teams) PROVE JobShape'
    BY <2>1 DEF StartUsers, JobShape
  <2>2. ASSUME job.kind = "users"
        PROVE  job = [kind |-> "users", teams |-> job.teams, left |-> job.left, user |-> job.user,
                      grants |-> job.grants]
    BY <2>2 DEF JobShape, Idle
  <2>3. CASE CreateUser
    BY <2>2, <2>3 DEF CreateUser, JobShape
  <2>4. CASE Grant
    BY <2>2, <2>4 DEF Grant, JobShape
  <2>5. CASE EndUsers
    BY <2>5 DEF EndUsers, JobShape
  <2> QED
    BY <1>2, <2>1, <2>3, <2>4, <2>5 DEF UsersNext
<1>3. CASE Stop
  BY <1>3 DEF Stop, JobShape
<1>4. CASE UNCHANGED vars
  BY <1>4 DEF vars, JobShape
<1> QED
  BY <1>1, <1>2, <1>3, <1>4 DEF Next

\* Items with other cards, or other dashboards.
LEMMA OtherItems ==
    ASSUME NEW items, NEW f, ItemsShape(items), f = [x \in DOMAIN f |-> f[x]]
    PROVE  /\ [items EXCEPT !.cards = f] = [cards |-> f, boards |-> items.boards]
           /\ [items EXCEPT !.boards = f] = [cards |-> items.cards, boards |-> f]
           /\ ItemsShape([items EXCEPT !.cards = f]) /\ ItemsShape([items EXCEPT !.boards = f])
<1> DEFINE a == [cards |-> f, boards |-> items.boards]
           b == [cards |-> items.cards, boards |-> f]
<1>1. items = [cards |-> items.cards, boards |-> items.boards]
  BY DEF ItemsShape
<1>2. [items EXCEPT !.cards = f] = a /\ [items EXCEPT !.boards = f] = b
  BY <1>1
<1>3. /\ a.cards = f /\ a.boards = items.boards /\ a = [cards |-> a.cards, boards |-> a.boards]
      /\ b.cards = items.cards /\ b.boards = f /\ b = [cards |-> b.cards, boards |-> b.boards]
  OBVIOUS
<1> HIDE DEF a, b
<1>4. ItemsShape(a) /\ ItemsShape(b)
  BY <1>3 DEF ItemsShape
<1> QED
  BY <1>2, <1>4 DEF a, b

\* Every step keeps the shapes of the state.
LEMMA ShapeStep ==
    ASSUME Shape, [Next]_vars
    PROVE  Shape'
<1>1. JobShape'
  BY JobShapeStep
<1>2. since' = [whole |-> since'.whole, tried |-> since'.tried, granted |-> since'.granted,
                granting |-> since'.granting]
  BY DEF Shape, Next, ProvisionNext, UsersNext, StartProvision, TurnTo, PutCard, PutBoard, Place,
         ArchiveCard, ArchiveBoard, EndProvision, StartUsers, CreateUser, Grant, EndUsers, Stop, vars
<1>3. \/ shown' = shown
      \/ \E t, items : shown' = [shown EXCEPT ![t] = items] /\ (t \in Teams => ItemsShape(items))
  <2>1. CASE PutCard
    <3> DEFINE card == OneOf(job.cards)
               entry == CardsOf(Projects[job.project], Min(job.labels))[card]
               t    == job.team
               cards == [c \in DOMAIN shown[t].cards \cup {card} |-> IF c = card THEN entry ELSE shown[t].cards[c]]
    <3>1. shown' = [shown EXCEPT ![t].cards = cards]
      BY <2>1 DEF PutCard
    <3>2. cards = [c \in DOMAIN cards |-> cards[c]]
      OBVIOUS
    <3> HIDE DEF cards
    <3>3. shown' = [shown EXCEPT ![t] = [shown[t] EXCEPT !.cards = cards]]
      BY <3>1
    <3>4. t \in Teams => ItemsShape([shown[t] EXCEPT !.cards = cards])
      BY <3>2, OtherItems DEF Shape
    <3> QED
      BY <3>3, <3>4
  <2>2. ASSUME NEW t, NEW boards, shown' = [shown EXCEPT ![t].boards = boards],
               boards = [l \in DOMAIN boards |-> boards[l]]
        PROVE  \E s, items : shown' = [shown EXCEPT ![s] = items] /\ (s \in Teams => ItemsShape(items))
    <3>1. shown' = [shown EXCEPT ![t] = [shown[t] EXCEPT !.boards = boards]]
      BY <2>2
    <3>2. t \in Teams => ItemsShape([shown[t] EXCEPT !.boards = boards])
      BY <2>2, OtherItems DEF Shape
    <3> QED
      BY <3>1, <3>2
  <2>3. CASE PutBoard
    <3> DEFINE label == Min(job.labels)
               old   == shown[job.team].boards
               boards == [l \in DOMAIN old \cup {label} |-> IF l \in DOMAIN old THEN old[l] ELSE {}]
    <3>1. shown' = [shown EXCEPT ![job.team].boards = boards]
      BY <2>3 DEF PutBoard
    <3>2. boards = [l \in DOMAIN boards |-> boards[l]]
      OBVIOUS
    <3> QED
      BY <2>2, <3>1, <3>2
  <2>4. CASE Place
    <3> DEFINE label == Min(job.labels)
               cards == DOMAIN CardsOf(Projects[job.project], label)
               boards == [shown[job.team].boards EXCEPT ![label] = cards]
    <3>1. shown' = [shown EXCEPT ![job.team].boards[label] = cards]
      BY <2>4 DEF Place
    <3> HIDE DEF cards, label
    <3>2. shown' = [shown EXCEPT ![job.team].boards = boards]
      BY <3>1
    <3>3. boards = [l \in DOMAIN boards |-> boards[l]]
      OBVIOUS
    <3> QED
      BY <2>2, <3>2, <3>3
  <2>5. CASE ArchiveCard
    <3> DEFINE card == OneOf(job.old.cards)
               t == job.team
               items == [cards  |-> Without(shown[t].cards, card),
                         boards |-> [l \in DOMAIN shown[t].boards |-> shown[t].boards[l] \ {card}]]
    <3>1. shown' = [shown EXCEPT ![t] = items]
      BY <2>5 DEF ArchiveCard
    <3>2. ItemsShape(items)
      BY DEF ItemsShape, Without
    <3> QED
      BY <3>1, <3>2
  <2>6. CASE ArchiveBoard
    <3> DEFINE board == OneOf(job.old.boards)
               boards == Without(shown[job.team].boards, board)
    <3>1. shown' = [shown EXCEPT ![job.team].boards = boards]
      BY <2>6 DEF ArchiveBoard
    <3>2. boards = [l \in DOMAIN boards |-> boards[l]]
      BY DEF Without
    <3> QED
      BY <2>2, <3>1, <3>2
  <2>7. PutCard \/ PutBoard \/ Place \/ ArchiveCard \/ ArchiveBoard \/ shown' = shown
    BY DEF Next, ProvisionNext, UsersNext, StartProvision, TurnTo, EndProvision, StartUsers, CreateUser,
           Grant, EndUsers, Stop, vars
  <2> QED
    BY <2>1, <2>3, <2>4, <2>5, <2>6, <2>7
<1>4. shown' = [t \in Teams |-> shown'[t]] /\ \A t \in Teams : ItemsShape(shown'[t])
  BY <1>3 DEF Shape
<1> QED
  BY <1>1, <1>2, <1>4 DEF Shape, ItemsShape

\* Only the user dbt may write what dbt builds.
LEMMA OnlyDbtWrites ==
    ASSUME NEW u, u # Dbt
    PROVE  \A x \in Grants(u) : x[1] \in {"all", "insert"} => x[2] \notin DbtLayers
<1>1. Role(u) \in {"team", "bi", "platform", "load"}
  BY DEF Role
<1>2. ASSUME NEW S, NEW x \in {"select"} \X S PROVE x[1] = "select"
  OBVIOUS
<1>3. CASE Role(u) = "team"
  <2>1. Grants(u) = {"select"} \X {"marts", "reference"}
    BY <1>3 DEF Grants
  <2> QED
    BY <1>2, <2>1
<1>4. CASE Role(u) = "platform"
  <2>1. Grants(u) = {"select"} \X ({"raw"} \cup DbtLayers)
    BY <1>4 DEF Grants
  <2> QED
    BY <1>2, <2>1
<1>5. CASE Role(u) = "bi"
  <2>1. Grants(u) = ({"select"} \X {"marts", "reference", "system.processes"})
                        \cup {<<"own rows only", "system.processes">>}
    BY <1>5 DEF Grants
  <2>2. ASSUME NEW x \in Grants(u) PROVE x[1] \in {"select", "own rows only"}
    <3>1. CASE x \in {"select"} \X {"marts", "reference", "system.processes"}
      BY <1>2, <3>1
    <3>2. CASE x = <<"own rows only", "system.processes">>
      BY <3>2
    <3> QED
      BY <2>1, <3>1, <3>2
  <2> QED
    BY <2>2
<1>6. CASE Role(u) = "load"
  <2>1. Grants(u) = {<<"insert", "raw">>, <<"read", "postgres">>, <<"create", "temporary table">>}
    BY <1>6 DEF Grants
  <2>2. "raw" \notin DbtLayers
    BY DEF DbtLayers
  <2>3. ASSUME NEW x \in Grants(u), x[1] \in {"all", "insert"} PROVE x[2] = "raw"
    <3>1. CASE x = <<"insert", "raw">>
      BY <3>1
    <3>2. CASE x = <<"read", "postgres">>
      BY <2>3, <3>2
    <3>3. CASE x = <<"create", "temporary table">>
      BY <2>3, <3>3
    <3> QED
      BY <2>1, <3>1, <3>2, <3>3
  <2> QED
    BY <2>2, <2>3
<1> QED
  BY <1>1, <1>3, <1>4, <1>5, <1>6

\* From the first time ensure_users ended, no user of its teams holds more than its role's
\* privileges, whatever it held before and however later calls are cut short, and outside
\* such a call none holds less: nobody but dbt writes what dbt builds.
THEOREM RolesAreEnough == Spec => []RolesDecideAccess
<1>1. ASSUME HeldByRole PROVE RolesDecideAccess
  BY <1>1, OnlyDbtWrites DEF HeldByRole, RolesDecideAccess
<1>2. Init => Shape /\ UsersInv
  BY UsersInit
<1>3. Shape /\ UsersInv /\ [Next]_vars => (Shape /\ UsersInv)'
  BY ShapeStep, UsersStep
<1> QED
  BY <1>1, <1>2, <1>3, PTL DEF Spec, UsersInv
-----------------------------------------------------------------------------
\* How much of the current team's turn is done, and what its collection holds by then.
Made(project, items, c) == c \in DOMAIN items.cards /\ items.cards[c] = CardFor(project.shapes[c[2]])

Placed(project, items, l) ==
    /\ l \in DOMAIN items.boards
    /\ items.boards[l] = DOMAIN CardsOf(project, l)

TeamSoFar(project, items) ==
    LET mine == Dashboards(project, job.team)
    IN  /\ job.labels \subseteq mine
        /\ job.step = "archive" <=> job.labels = {}
        /\ job.step = "card" => job.cards \subseteq DOMAIN CardsOf(project, Min(job.labels))
        /\ job.step = "place" => job.cards = {} /\ Min(job.labels) \in DOMAIN items.boards
        /\ job.labels # {} =>
               \A c \in DOMAIN CardsOf(project, Min(job.labels)) \ job.cards : Made(project, items, c)
        /\ \A l \in mine \ job.labels :
               /\ Placed(project, items, l)
               /\ \A c \in DOMAIN CardsOf(project, l) : Made(project, items, c)
        /\ DOMAIN items.cards \subseteq WantedCards(project, job.team) \cup job.old.cards
        /\ DOMAIN items.boards \subseteq mine \cup job.old.boards
        /\ job.old.cards \cap WantedCards(project, job.team) = {}
        /\ job.old.boards \cap mine = {}

\* The teams whose turn is over show the project.
ProvisionSoFar ==
    job.kind = "provision" =>
        LET project == Projects[job.project]
        IN  /\ job.project \in since.tried
            /\ job.teams \subseteq TeamsShown(project) \ {job.team}
            /\ \A t \in TeamsShown(project) \ (job.teams \cup {job.team}) : shown[t] = Wanted(project, t)
            /\ IF job.team \in TeamsShown(project) THEN TeamSoFar(project, shown[job.team])
               ELSE TeamDone /\ job.labels = {}

\* Only a project that is not refused was ever tried.
NoneRefused ==
    \A p \in since.whole \cup since.tried : p \in DOMAIN Projects /\ Provisionable(Projects[p])

\* The parts of BiShowsTheProject.
WholeIsShown ==
    since.tried = {} =>
        \A p \in since.whole : \A t \in TeamsShown(Projects[p]) : shown[t] = Wanted(Projects[p], t)

WantedByAll(p, l) ==
    \A q \in since.whole \cup since.tried :
        /\ l \in DOMAIN Projects[q].exposures
        /\ Projects[q].exposures[l].team = Projects[p].exposures[l].team

Standing(items, l) ==
    /\ l \in DOMAIN items.boards
    /\ \E q \in since.whole \cup since.tried : items.boards[l] = DOMAIN CardsOf(Projects[q], l)
    /\ items.boards[l] \subseteq DOMAIN items.cards

BoardsStand ==
    \A p \in since.whole : \A l \in DOMAIN Projects[p].exposures :
        WantedByAll(p, l) => Standing(shown[Projects[p].exposures[l].team], l)

ToolInv == NoneRefused /\ ProvisionSoFar /\ WholeIsShown /\ BoardsStand

\* A dashboard has one card for each model it reads.
LEMMA CardFacts ==
    ASSUME NEW project, NEW l
    PROVE  /\ DOMAIN CardsOf(project, l) = {l} \X project.exposures[l].models
           /\ \A c \in DOMAIN CardsOf(project, l) : CardsOf(project, l)[c] = CardFor(project.shapes[c[2]])
BY DEF CardsOf

\* The least of a set of numbers is one of them.
LEMMA FirstOf ==
    ASSUME NEW S, S \subseteq Nat, S # {}
    PROVE  Min(S) \in S
<1>1. \E x \in S : \A y \in S : x <= y
  BY Least
<1> QED
  BY <1>1 DEF Min

\* The teams a project shows are teams, and its dashboards are numbered.
LEMMA Known ==
    ASSUME NEW p \in DOMAIN Projects, Provisionable(Projects[p])
    PROVE  /\ TeamsShown(Projects[p]) \subseteq Teams
           /\ NoTeam \notin TeamsShown(Projects[p])
           /\ \A t : Dashboards(Projects[p], t) \subseteq Nat
           /\ \A l \in DOMAIN Projects[p].exposures :
                  /\ Projects[p].exposures[l].team \in TeamsShown(Projects[p])
                  /\ l \in Dashboards(Projects[p], Projects[p].exposures[l].team)
<1>1. /\ DOMAIN Projects[p].exposures \subseteq Nat
      /\ \A l \in DOMAIN Projects[p].exposures : Projects[p].exposures[l].team \in Teams \cup {NoTeam}
  BY ToolAssumption
<1> QED
  BY <1>1 DEF Provisionable, TeamsShown, Dashboards

\* A step of a provision goes on from a project that is not refused.
LEMMA Ours ==
    ASSUME NoneRefused, ProvisionSoFar, job.kind = "provision"
    PROVE  LET project == Projects[job.project]
           IN  /\ job.project \in DOMAIN Projects /\ job.project \in since.tried
               /\ TeamsShown(project) \subseteq Teams /\ NoTeam \notin TeamsShown(project)
               /\ \A t : Dashboards(project, t) \subseteq Nat
               /\ \A l \in DOMAIN project.exposures :
                      /\ project.exposures[l].team \in TeamsShown(project)
                      /\ l \in Dashboards(project, project.exposures[l].team)
BY Known DEF NoneRefused, ProvisionSoFar

\* A step of a team's turn that gets on with the turn, and lets every dashboard stand that
\* the project wants, keeps the whole invariant.
LEMMA TurnGoesOn ==
    ASSUME Shape, ToolInv, job.kind = "provision",
           job.team \in TeamsShown(Projects[job.project]),
           job'.kind = "provision", job'.project = job.project, job'.teams = job.teams,
           job'.team = job.team, since' = since,
           \A t \in Teams \ {job.team} : shown'[t] = shown[t],
           TeamSoFar(Projects[job.project], shown[job.team])',
           \A l \in Dashboards(Projects[job.project], job.team) :
               Standing(shown[job.team], l) => Standing(shown[job.team], l)'
    PROVE  ToolInv'
<1> DEFINE project == Projects[job.project]
<1>1. /\ job.project \in since.tried /\ TeamsShown(project) \subseteq Teams
      /\ \A l \in DOMAIN project.exposures : l \in Dashboards(project, project.exposures[l].team)
  BY Ours DEF ToolInv
<1>2. NoneRefused'
  BY DEF ToolInv, NoneRefused
<1>3. ProvisionSoFar'
  <2>1. \A t \in TeamsShown(project) \ (job.teams \cup {job.team}) :
            shown[t] = Wanted(project, t) /\ shown'[t] = shown[t]
    BY <1>1 DEF ToolInv, ProvisionSoFar
  <2>2. job.teams \subseteq TeamsShown(project) \ {job.team}
    BY DEF ToolInv, ProvisionSoFar
  <2> QED
    BY <1>1, <2>1, <2>2 DEF ProvisionSoFar
<1>4. WholeIsShown'
  BY <1>1 DEF WholeIsShown
<1>5. BoardsStand'
  <2> SUFFICES ASSUME NEW p \in since.whole, NEW l \in DOMAIN Projects[p].exposures,
                      WantedByAll(p, l)'
               PROVE  Standing(shown[Projects[p].exposures[l].team], l)'
    BY DEF BoardsStand
  <2> DEFINE t == Projects[p].exposures[l].team
  <2>1. WantedByAll(p, l)
    BY DEF WantedByAll
  <2>2. Standing(shown[t], l)
    BY <2>1 DEF ToolInv, BoardsStand
  <2>3. l \in Dashboards(project, t) /\ t \in Teams
    <3>1. l \in DOMAIN project.exposures /\ project.exposures[l].team = t
      BY <1>1, <2>1 DEF WantedByAll
    <3> QED
      BY <1>1, <3>1 DEF TeamsShown
  <2>4. CASE t = job.team
    BY <2>2, <2>3, <2>4
  <2>5. CASE t # job.team
    BY <2>2, <2>3, <2>5 DEF Standing
  <2> QED
    BY <2>4, <2>5
<1> QED
  BY <1>2, <1>3, <1>4, <1>5 DEF ToolInv

\* Before the archiving there is a dashboard to make, so a team's turn was begun.
LEMMA InATurn ==
    ASSUME Shape, ToolInv, job.kind = "provision", ~TeamDone
    PROVE  /\ job.team \in TeamsShown(Projects[job.project]) /\ job.team \in Teams
           /\ TeamSoFar(Projects[job.project], shown[job.team])
           /\ job.step # "archive" => Min(job.labels) \in job.labels
<1>1. TeamsShown(Projects[job.project]) \subseteq Teams /\ Dashboards(Projects[job.project], job.team) \subseteq Nat
  BY Ours DEF ToolInv
<1>2. /\ job.team \in TeamsShown(Projects[job.project])
      /\ TeamSoFar(Projects[job.project], shown[job.team])
  BY DEF ToolInv, ProvisionSoFar
<1>3. job.step # "archive" => job.labels # {} /\ job.labels \subseteq Nat
  BY <1>1, <1>2 DEF TeamSoFar
<1> QED
  BY <1>1, <1>2, <1>3, FirstOf

\* A step writes to the current team's items only.
LEMMA Written ==
    ASSUME Shape, job.team \in Teams, NEW items, shown' = [shown EXCEPT ![job.team] = items]
    PROVE  shown'[job.team] = items /\ \A t \in Teams \ {job.team} : shown'[t] = shown[t]
BY DEF Shape

\* A card put keeps the invariant.
LEMMA PutCardStep ==
    ASSUME Shape, ToolInv, PutCard
    PROVE  ToolInv'
<1> DEFINE project == Projects[job.project]
           label   == Min(job.labels)
           card    == OneOf(job.cards)
           items   == shown[job.team]
           entry   == CardsOf(project, label)[card]
           cards   == [c \in DOMAIN items.cards \cup {card} |-> IF c = card THEN entry ELSE items.cards[c]]
<1>1. /\ job.kind = "provision" /\ job.step = "card" /\ job.cards # {}
      /\ shown' = [shown EXCEPT ![job.team].cards = cards] /\ since' = since
  BY DEF PutCard
<1>2. /\ job'.kind = "provision" /\ job'.project = job.project /\ job'.teams = job.teams
      /\ job'.team = job.team /\ job'.labels = job.labels /\ job'.cards = job.cards \ {card}
      /\ job'.step = "card" /\ job'.old = job.old
  <2>1. JobShape /\ ProvisionNext
    BY DEF Shape, ProvisionNext
  <2>2. job' = [job EXCEPT !.cards = @ \ {card}]
    BY DEF PutCard
  <2> QED
    BY <1>1, <2>1, <2>2 DEF JobShape, Idle
<1>3. /\ job.team \in TeamsShown(project) /\ job.team \in Teams /\ TeamSoFar(project, items)
      /\ label \in job.labels
  BY <1>1, InATurn DEF TeamDone
<1>4. card \in job.cards /\ card \in DOMAIN CardsOf(project, label)
  BY <1>1, <1>3, Chosen DEF TeamSoFar
<1>5. entry = CardFor(project.shapes[card[2]]) /\ label \in Dashboards(project, job.team)
  BY <1>3, <1>4, CardFacts DEF TeamSoFar
<1>6. /\ DOMAIN cards = DOMAIN items.cards \cup {card}
      /\ cards[card] = entry /\ \A c \in DOMAIN items.cards \ {card} : cards[c] = items.cards[c]
  OBVIOUS
<1>7. cards = [c \in DOMAIN cards |-> cards[c]]
  OBVIOUS
<1> HIDE DEF cards, entry, card, label, items, project
<1>8. /\ shown'[job.team] = [cards |-> cards, boards |-> items.boards]
      /\ \A t \in Teams \ {job.team} : shown'[t] = shown[t]
  <2>1. shown' = [shown EXCEPT ![job.team] = [items EXCEPT !.cards = cards]]
    BY <1>1 DEF items
  <2>2. [items EXCEPT !.cards = cards] = [cards |-> cards, boards |-> items.boards]
    BY <1>3, <1>7, OtherItems DEF Shape, items
  <2> QED
    BY <1>3, <2>1, <2>2, Written
<1>9. shown'[job.team].cards = cards /\ shown'[job.team].boards = items.boards
  BY <1>8
<1>10. \A c : Made(project, items, c) \/ c = card => Made(project, shown'[job.team], c)
  BY <1>5, <1>6, <1>9 DEF Made
<1>11. \A l : Placed(project, items, l) => Placed(project, shown'[job.team], l)
  BY <1>9 DEF Placed
<1>12. TeamSoFar(project, shown[job.team])'
  <2>1. card \in WantedCards(project, job.team)
    BY <1>4, <1>5 DEF WantedCards
  <2>2. DOMAIN shown'[job.team].cards \subseteq WantedCards(project, job.team) \cup job.old.cards
    BY <1>3, <1>6, <1>9, <2>1 DEF TeamSoFar
  <2>3. DOMAIN shown'[job.team].boards \subseteq Dashboards(project, job.team) \cup job.old.boards
    BY <1>3, <1>9 DEF TeamSoFar
  <2>4. \A c \in DOMAIN CardsOf(project, label) \ job'.cards : Made(project, shown'[job.team], c)
    BY <1>2, <1>3, <1>10 DEF TeamSoFar, label
  <2>5. \A l \in Dashboards(project, job.team) \ job.labels :
            /\ Placed(project, shown'[job.team], l)
            /\ \A c \in DOMAIN CardsOf(project, l) : Made(project, shown'[job.team], c)
    BY <1>3, <1>10, <1>11 DEF TeamSoFar
  <2>6. job'.cards \subseteq DOMAIN CardsOf(project, label) /\ job.labels # {}
    BY <1>1, <1>2, <1>3 DEF TeamSoFar, label
  <2>7. project' = project
    BY <1>2 DEF project
  <2> QED
    BY <1>2, <1>3, <2>2, <2>3, <2>4, <2>5, <2>6, <2>7 DEF TeamSoFar, label, project
<1>13. \A l : Standing(items, l) => Standing(shown[job.team], l)'
  BY <1>1, <1>2, <1>6, <1>9 DEF Standing
<1> QED
  BY <1>1, <1>2, <1>3, <1>8, <1>12, <1>13, TurnGoesOn DEF project, items

\* A dashboard put keeps the invariant.
LEMMA PutBoardStep ==
    ASSUME Shape, ToolInv, PutBoard
    PROVE  ToolInv'
<1> DEFINE project == Projects[job.project]
           label   == Min(job.labels)
           items   == shown[job.team]
           boards  == [l \in DOMAIN items.boards \cup {label} |->
                           IF l \in DOMAIN items.boards THEN items.boards[l] ELSE {}]
<1>1. /\ job.kind = "provision" /\ job.step = "card" /\ job.cards = {}
      /\ shown' = [shown EXCEPT ![job.team].boards = boards] /\ since' = since
  BY DEF PutBoard
<1>2. /\ job'.kind = "provision" /\ job'.project = job.project /\ job'.teams = job.teams
      /\ job'.team = job.team /\ job'.labels = job.labels /\ job'.cards = job.cards
      /\ job'.step = "place" /\ job'.old = job.old
  <2>1. job' = [job EXCEPT !.step = "place"]
    BY DEF PutBoard
  <2> QED
    BY <1>1, <2>1 DEF Shape, JobShape, Idle
<1>3. /\ job.team \in TeamsShown(project) /\ job.team \in Teams /\ TeamSoFar(project, items)
      /\ label \in job.labels
  BY <1>1, InATurn DEF TeamDone
<1>4. label \in Dashboards(project, job.team)
  BY <1>3 DEF TeamSoFar
<1>5. /\ DOMAIN boards = DOMAIN items.boards \cup {label}
      /\ \A l \in DOMAIN items.boards : boards[l] = items.boards[l]
      /\ boards = [l \in DOMAIN boards |-> boards[l]]
  OBVIOUS
<1> HIDE DEF boards, label, items, project
<1>6. /\ shown'[job.team] = [cards |-> items.cards, boards |-> boards]
      /\ \A t \in Teams \ {job.team} : shown'[t] = shown[t]
  <2>1. shown' = [shown EXCEPT ![job.team] = [items EXCEPT !.boards = boards]]
    BY <1>1 DEF items
  <2>2. [items EXCEPT !.boards = boards] = [cards |-> items.cards, boards |-> boards]
    BY <1>3, <1>5, OtherItems DEF Shape, items
  <2> QED
    BY <1>3, <2>1, <2>2, Written
<1>7. shown'[job.team].cards = items.cards /\ shown'[job.team].boards = boards
  BY <1>6
<1>8. \A c : Made(project, items, c) => Made(project, shown'[job.team], c)
  BY <1>7 DEF Made
<1>9. \A l : Placed(project, items, l) => Placed(project, shown'[job.team], l)
  BY <1>5, <1>7 DEF Placed
<1>10. TeamSoFar(project, shown[job.team])'
  <2>1. DOMAIN shown'[job.team].cards \subseteq WantedCards(project, job.team) \cup job.old.cards
    BY <1>3, <1>7 DEF TeamSoFar
  <2>2. DOMAIN shown'[job.team].boards \subseteq Dashboards(project, job.team) \cup job.old.boards
    BY <1>3, <1>4, <1>5, <1>7 DEF TeamSoFar
  <2>3. \A c \in DOMAIN CardsOf(project, label) \ job'.cards : Made(project, shown'[job.team], c)
    BY <1>2, <1>3, <1>8 DEF TeamSoFar, label
  <2>4. \A l \in Dashboards(project, job.team) \ job.labels :
            /\ Placed(project, shown'[job.team], l)
            /\ \A c \in DOMAIN CardsOf(project, l) : Made(project, shown'[job.team], c)
    BY <1>3, <1>8, <1>9 DEF TeamSoFar
  <2>5. label \in DOMAIN shown'[job.team].boards /\ job'.cards = {}
    BY <1>1, <1>2, <1>5, <1>7
  <2>6. project' = project
    BY <1>2 DEF project
  <2> QED
    BY <1>2, <1>3, <2>1, <2>2, <2>3, <2>4, <2>5, <2>6 DEF TeamSoFar, label, project
<1>11. \A l : Standing(items, l) => Standing(shown[job.team], l)'
  BY <1>1, <1>2, <1>5, <1>7 DEF Standing
<1> QED
  BY <1>1, <1>2, <1>3, <1>6, <1>10, <1>11, TurnGoesOn DEF project, items

\* A dashboard replaced by its wanted cards keeps the invariant.
LEMMA PlaceStep ==
    ASSUME Shape, ToolInv, Place
    PROVE  ToolInv'
<1> DEFINE project == Projects[job.project]
           label   == Min(job.labels)
           wanted  == DOMAIN CardsOf(project, label)
           items   == shown[job.team]
           boards  == [items.boards EXCEPT ![label] = wanted]
           ahead   == job.labels \ {label}
<1>1. /\ job.kind = "provision" /\ job.step = "place" /\ job' = Turned(job, ahead)
      /\ shown' = [shown EXCEPT ![job.team].boards[label] = wanted] /\ since' = since
  BY DEF Place
<1>2. /\ job.team \in TeamsShown(project) /\ job.team \in Teams /\ TeamSoFar(project, items)
      /\ label \in job.labels
  BY <1>1, InATurn DEF TeamDone
<1>3. /\ label \in Dashboards(project, job.team) /\ label \in DOMAIN items.boards /\ job.cards = {}
      /\ \A c \in wanted : Made(project, items, c)
  BY <1>1, <1>2 DEF TeamSoFar
<1>4. /\ DOMAIN boards = DOMAIN items.boards /\ boards[label] = wanted
      /\ \A l \in DOMAIN items.boards \ {label} : boards[l] = items.boards[l]
      /\ boards = [l \in DOMAIN boards |-> boards[l]]
  <2> HIDE DEF wanted, label, items
  <2> QED
    BY <1>3
<1>5. /\ job'.kind = "provision" /\ job'.project = job.project /\ job'.teams = job.teams
      /\ job'.team = job.team /\ job'.labels = ahead /\ job'.old = job.old
      /\ job'.step = IF ahead = {} THEN "archive" ELSE "card"
      /\ job'.cards = IF ahead = {} THEN {} ELSE DOMAIN CardsOf(project, Min(ahead))
  <2> HIDE DEF ahead
  <2> QED
    BY <1>1 DEF Shape, JobShape, Idle, Turned
<1> HIDE DEF boards, label, wanted, items, project, ahead
<1>6. /\ shown'[job.team] = [cards |-> items.cards, boards |-> boards]
      /\ \A t \in Teams \ {job.team} : shown'[t] = shown[t]
  <2>1. shown' = [shown EXCEPT ![job.team] = [items EXCEPT !.boards = boards]]
    BY <1>1 DEF items, boards
  <2>2. [items EXCEPT !.boards = boards] = [cards |-> items.cards, boards |-> boards]
    BY <1>2, <1>4, OtherItems DEF Shape, items
  <2> QED
    BY <1>2, <2>1, <2>2, Written
<1>7. shown'[job.team].cards = items.cards /\ shown'[job.team].boards = boards
  BY <1>6
<1>8. \A c : Made(project, items, c) => Made(project, shown'[job.team], c)
  BY <1>7 DEF Made
<1>9. \A l : Placed(project, items, l) \/ l = label => Placed(project, shown'[job.team], l)
  BY <1>3, <1>4, <1>7 DEF Placed, wanted
<1>10. TeamSoFar(project, shown[job.team])'
  <2>1. DOMAIN shown'[job.team].cards \subseteq WantedCards(project, job.team) \cup job.old.cards
    BY <1>2, <1>7 DEF TeamSoFar
  <2>2. DOMAIN shown'[job.team].boards \subseteq Dashboards(project, job.team) \cup job.old.boards
    BY <1>2, <1>4, <1>7 DEF TeamSoFar
  <2>3. \A l \in Dashboards(project, job.team) \ ahead :
            /\ Placed(project, shown'[job.team], l)
            /\ \A c \in DOMAIN CardsOf(project, l) : Made(project, shown'[job.team], c)
    <3>1. \A l \in Dashboards(project, job.team) \ ahead :
              l = label \/ l \in Dashboards(project, job.team) \ job.labels
      BY DEF ahead
    <3>2. \A l \in Dashboards(project, job.team) \ job.labels :
              /\ Placed(project, items, l)
              /\ \A c \in DOMAIN CardsOf(project, l) : Made(project, items, c)
      BY <1>2 DEF TeamSoFar
    <3> QED
      BY <1>3, <1>8, <1>9, <3>1, <3>2 DEF wanted
  <2>4. ahead \subseteq Dashboards(project, job.team)
    BY <1>2 DEF TeamSoFar, ahead
  <2>5. /\ job.old.cards \cap WantedCards(project, job.team) = {}
        /\ job.old.boards \cap Dashboards(project, job.team) = {}
    BY <1>2 DEF TeamSoFar
  <2>6. project' = project
    BY <1>5 DEF project
  <2>7. CASE ahead = {}
    BY <1>5, <2>1, <2>2, <2>3, <2>4, <2>5, <2>6, <2>7 DEF TeamSoFar, project
  <2>8. CASE ahead # {}
    BY <1>5, <2>1, <2>2, <2>3, <2>4, <2>5, <2>6, <2>8 DEF TeamSoFar, project
  <2> QED
    BY <2>7, <2>8
<1>11. ASSUME NEW l, Standing(items, l) PROVE Standing(shown[job.team], l)'
  <2>1. CASE l = label
    <3>1. job.project \in since.tried
      BY <1>1, Ours DEF ToolInv
    <3>2. wanted \subseteq DOMAIN items.cards
      BY <1>3 DEF Made
    <3> QED
      BY <1>1, <1>4, <1>5, <1>7, <1>11, <2>1, <3>1, <3>2 DEF Standing, wanted, project
  <2>2. CASE l # label
    BY <1>1, <1>4, <1>5, <1>7, <1>11, <2>2 DEF Standing
  <2> QED
    BY <2>1, <2>2
<1> QED
  BY <1>1, <1>2, <1>5, <1>6, <1>10, <1>11, TurnGoesOn DEF project, items

\* What is archived is none of what the project wants.
LEMMA ArchiveCardStep ==
    ASSUME Shape, ToolInv, ArchiveCard
    PROVE  ToolInv'
<1> DEFINE project == Projects[job.project]
           card    == OneOf(job.old.cards)
           items   == shown[job.team]
           cards   == Without(items.cards, card)
           boards  == [l \in DOMAIN items.boards |-> items.boards[l] \ {card}]
<1>1. /\ job.kind = "provision" /\ job.step = "archive" /\ job.old.cards # {}
      /\ shown' = [shown EXCEPT ![job.team] = [cards |-> cards, boards |-> boards]] /\ since' = since
  BY DEF ArchiveCard
<1>2. /\ job'.kind = "provision" /\ job'.project = job.project /\ job'.teams = job.teams
      /\ job'.team = job.team /\ job'.labels = job.labels /\ job'.cards = job.cards
      /\ job'.step = "archive"
      /\ job'.old = [cards |-> job.old.cards \ {card}, boards |-> job.old.boards]
  <2>1. job' = [job EXCEPT !.old.cards = @ \ {card}]
    BY DEF ArchiveCard
  <2>2. /\ job = [kind |-> "provision", project |-> job.project, teams |-> job.teams, team |-> job.team,
                   labels |-> job.labels, cards |-> job.cards, step |-> job.step, old |-> job.old]
        /\ job.old = [cards |-> job.old.cards, boards |-> job.old.boards]
    BY <1>1 DEF Shape, JobShape, Idle
  <2> HIDE DEF card
  <2> QED
    BY <1>1, <2>1, <2>2
<1>3. /\ job.team \in TeamsShown(project) /\ job.team \in Teams /\ TeamSoFar(project, items)
  BY <1>1, InATurn DEF TeamDone, NothingLeft
<1>4. card \in job.old.cards
  BY <1>1, Chosen
<1>5. card \notin WantedCards(project, job.team) /\ job.labels = {}
  BY <1>1, <1>3, <1>4 DEF TeamSoFar
<1>6. /\ DOMAIN cards = DOMAIN items.cards \ {card}
      /\ \A c \in DOMAIN cards : cards[c] = items.cards[c]
      /\ DOMAIN boards = DOMAIN items.boards
      /\ \A l \in DOMAIN boards : boards[l] = items.boards[l] \ {card}
  BY DEF Without
<1> HIDE DEF cards, boards, card, items, project
<1>7. /\ shown'[job.team].cards = cards /\ shown'[job.team].boards = boards
      /\ \A t \in Teams \ {job.team} : shown'[t] = shown[t]
  BY <1>1, <1>3, Written
<1>8. \A l \in Dashboards(project, job.team) : card \notin DOMAIN CardsOf(project, l)
  BY <1>5 DEF WantedCards
<1>9. \A c : Made(project, items, c) /\ c # card => Made(project, shown'[job.team], c)
  BY <1>6, <1>7 DEF Made
<1>10. \A l \in Dashboards(project, job.team) :
           Placed(project, items, l) => Placed(project, shown'[job.team], l)
  BY <1>6, <1>7, <1>8 DEF Placed
<1>11. TeamSoFar(project, shown[job.team])'
  <2>1. DOMAIN shown'[job.team].cards \subseteq WantedCards(project, job.team) \cup job'.old.cards
    BY <1>2, <1>3, <1>6, <1>7 DEF TeamSoFar
  <2>2. DOMAIN shown'[job.team].boards \subseteq Dashboards(project, job.team) \cup job'.old.boards
    BY <1>2, <1>3, <1>6, <1>7 DEF TeamSoFar
  <2>3. \A l \in Dashboards(project, job.team) \ job.labels :
            /\ Placed(project, shown'[job.team], l)
            /\ \A c \in DOMAIN CardsOf(project, l) : Made(project, shown'[job.team], c)
    BY <1>3, <1>8, <1>9, <1>10 DEF TeamSoFar
  <2>4. /\ job'.old.cards \cap WantedCards(project, job.team) = {}
        /\ job'.old.boards \cap Dashboards(project, job.team) = {}
    BY <1>2, <1>3 DEF TeamSoFar
  <2>5. project' = project
    BY <1>2 DEF project
  <2> QED
    BY <1>2, <1>3, <1>5, <2>1, <2>2, <2>3, <2>4, <2>5 DEF TeamSoFar, project
<1>12. ASSUME NEW l \in Dashboards(project, job.team), Standing(items, l)
       PROVE  Standing(shown[job.team], l)'
  <2>1. Placed(project, items, l)
    BY <1>3, <1>5 DEF TeamSoFar
  <2>2. items.boards[l] \ {card} = items.boards[l]
    BY <1>8, <2>1 DEF Placed
  <2>3. PICK q \in since.whole \cup since.tried : items.boards[l] = DOMAIN CardsOf(Projects[q], l)
    BY <1>12 DEF Standing
  <2>4. /\ l \in DOMAIN boards /\ boards[l] = items.boards[l]
        /\ boards[l] \subseteq DOMAIN cards
    BY <1>6, <1>12, <2>2 DEF Standing
  <2> QED
    BY <1>1, <1>2, <1>7, <2>3, <2>4 DEF Standing
<1> QED
  BY <1>1, <1>2, <1>3, <1>7, <1>11, <1>12, TurnGoesOn DEF project, items

\* Archiving a dashboard nobody wants keeps the invariant.
LEMMA ArchiveBoardStep ==
    ASSUME Shape, ToolInv, ArchiveBoard
    PROVE  ToolInv'
<1> DEFINE project == Projects[job.project]
           board   == OneOf(job.old.boards)
           items   == shown[job.team]
           boards  == Without(items.boards, board)
<1>1. /\ job.kind = "provision" /\ job.step = "archive" /\ job.old.boards # {}
      /\ shown' = [shown EXCEPT ![job.team].boards = boards] /\ since' = since
  BY DEF ArchiveBoard
<1>2. /\ job'.kind = "provision" /\ job'.project = job.project /\ job'.teams = job.teams
      /\ job'.team = job.team /\ job'.labels = job.labels /\ job'.cards = job.cards
      /\ job'.step = "archive"
      /\ job'.old = [cards |-> job.old.cards, boards |-> job.old.boards \ {board}]
  <2>1. job' = [job EXCEPT !.old.boards = @ \ {board}]
    BY DEF ArchiveBoard
  <2>2. /\ job = [kind |-> "provision", project |-> job.project, teams |-> job.teams, team |-> job.team,
                   labels |-> job.labels, cards |-> job.cards, step |-> job.step, old |-> job.old]
        /\ job.old = [cards |-> job.old.cards, boards |-> job.old.boards]
    BY <1>1 DEF Shape, JobShape, Idle
  <2> HIDE DEF board
  <2> QED
    BY <1>1, <2>1, <2>2
<1>3. /\ job.team \in TeamsShown(project) /\ job.team \in Teams /\ TeamSoFar(project, items)
  BY <1>1, InATurn DEF TeamDone, NothingLeft
<1>4. board \in job.old.boards
  BY <1>1, Chosen
<1>5. board \notin Dashboards(project, job.team) /\ job.labels = {}
  BY <1>1, <1>3, <1>4 DEF TeamSoFar
<1>6. /\ DOMAIN boards = DOMAIN items.boards \ {board}
      /\ \A l \in DOMAIN boards : boards[l] = items.boards[l]
      /\ boards = [l \in DOMAIN boards |-> boards[l]]
  BY DEF Without
<1> HIDE DEF boards, board, items, project
<1>7. /\ shown'[job.team].cards = items.cards /\ shown'[job.team].boards = boards
      /\ \A t \in Teams \ {job.team} : shown'[t] = shown[t]
  <2>1. shown' = [shown EXCEPT ![job.team] = [items EXCEPT !.boards = boards]]
    BY <1>1 DEF items
  <2>2. [items EXCEPT !.boards = boards] = [cards |-> items.cards, boards |-> boards]
    BY <1>3, <1>6, OtherItems DEF Shape, items
  <2>3. /\ shown'[job.team] = [cards |-> items.cards, boards |-> boards]
        /\ \A t \in Teams \ {job.team} : shown'[t] = shown[t]
    BY <1>3, <2>1, <2>2, Written
  <2> QED
    BY <2>3
<1>8. \A c : Made(project, items, c) => Made(project, shown'[job.team], c)
  BY <1>7 DEF Made
<1>9. \A l \in Dashboards(project, job.team) :
          Placed(project, items, l) => Placed(project, shown'[job.team], l)
  BY <1>5, <1>6, <1>7 DEF Placed
<1>10. TeamSoFar(project, shown[job.team])'
  <2>1. DOMAIN shown'[job.team].cards \subseteq WantedCards(project, job.team) \cup job'.old.cards
    BY <1>2, <1>3, <1>7 DEF TeamSoFar
  <2>2. DOMAIN shown'[job.team].boards \subseteq Dashboards(project, job.team) \cup job'.old.boards
    BY <1>2, <1>3, <1>6, <1>7 DEF TeamSoFar
  <2>3. \A l \in Dashboards(project, job.team) \ job.labels :
            /\ Placed(project, shown'[job.team], l)
            /\ \A c \in DOMAIN CardsOf(project, l) : Made(project, shown'[job.team], c)
    BY <1>3, <1>8, <1>9 DEF TeamSoFar
  <2>4. /\ job'.old.cards \cap WantedCards(project, job.team) = {}
        /\ job'.old.boards \cap Dashboards(project, job.team) = {}
    BY <1>2, <1>3 DEF TeamSoFar
  <2>5. project' = project
    BY <1>2 DEF project
  <2> QED
    BY <1>2, <1>3, <1>5, <2>1, <2>2, <2>3, <2>4, <2>5 DEF TeamSoFar, project
<1>11. ASSUME NEW l \in Dashboards(project, job.team), Standing(items, l)
       PROVE  Standing(shown[job.team], l)'
  BY <1>1, <1>2, <1>5, <1>6, <1>7, <1>11 DEF Standing
<1> QED
  BY <1>1, <1>2, <1>3, <1>7, <1>10, <1>11, TurnGoesOn DEF project, items

\* A team whose turn is over shows exactly what the project wants.
LEMMA TurnEndsWhole ==
    ASSUME Shape, ToolInv, TeamDone
    PROVE  \A t \in TeamsShown(Projects[job.project]) \ job.teams :
               shown[t] = Wanted(Projects[job.project], t)
<1> DEFINE project == Projects[job.project]
           items   == shown[job.team]
<1>1. job.kind = "provision" /\ job.step = "archive" /\ job.old = NothingLeft
  BY DEF TeamDone
<1>2. \A t \in TeamsShown(project) \ (job.teams \cup {job.team}) : shown[t] = Wanted(project, t)
  BY <1>1 DEF ToolInv, ProvisionSoFar
<1>3. ASSUME job.team \in TeamsShown(project) PROVE items = Wanted(project, job.team)
  <2> DEFINE mine   == Dashboards(project, job.team)
             cards  == [c \in WantedCards(project, job.team) |-> CardFor(project.shapes[c[2]])]
             boards == [l \in mine |-> DOMAIN CardsOf(project, l)]
  <2>1. TeamSoFar(project, items) /\ job.team \in Teams
    BY <1>1, <1>3, Ours DEF ToolInv, ProvisionSoFar
  <2>2. job.labels = {} /\ job.old.cards = {} /\ job.old.boards = {}
    BY <1>1, <2>1 DEF TeamSoFar, NothingLeft
  <2>3. ItemsShape(items)
    BY <2>1 DEF Shape
  <2> HIDE DEF items, project
  <2>4. ASSUME NEW c \in WantedCards(project, job.team) PROVE Made(project, items, c)
    <3>1. PICK l \in mine : c \in DOMAIN CardsOf(project, l)
      BY DEF WantedCards
    <3> QED
      BY <2>1, <2>2, <3>1 DEF TeamSoFar
  <2>5. \A l \in mine : Placed(project, items, l)
    BY <2>1, <2>2 DEF TeamSoFar
  <2>6. DOMAIN items.cards = WantedCards(project, job.team)
    BY <2>1, <2>2, <2>4 DEF TeamSoFar, Made
  <2>7. DOMAIN items.boards = mine
    BY <2>1, <2>2, <2>5 DEF TeamSoFar, Placed
  <2>8. items.cards = cards
    BY <2>3, <2>4, <2>6 DEF ItemsShape, Made
  <2>9. items.boards = boards
    BY <2>3, <2>5, <2>7 DEF ItemsShape, Placed
  <2> HIDE DEF cards, boards
  <2>10. items = [cards |-> cards, boards |-> boards]
    BY <2>3, <2>8, <2>9 DEF ItemsShape
  <2> QED
    BY <2>10 DEF Wanted, cards, boards
<1> QED
  BY <1>2, <1>3

\* Turning to the next team keeps the invariant.
LEMMA TurnToStep ==
    ASSUME Shape, ToolInv, TurnTo
    PROVE  ToolInv'
<1> DEFINE project == Projects[job.project]
           team    == Min(job.teams)
           labels  == Dashboards(project, team)
           old     == LeftOver(project, team, shown[team])
<1>1. /\ TeamDone /\ job.kind = "provision" /\ job.teams # {}
      /\ job' = Turned([job EXCEPT !.team = team, !.teams = @ \ {team}, !.old = old], labels)
      /\ shown' = shown /\ since' = since
  BY DEF TurnTo, TeamDone
<1>2. /\ job.teams \subseteq TeamsShown(project) /\ TeamsShown(project) \subseteq Teams
      /\ job.project \in since.tried
  BY <1>1, Ours DEF ToolInv, ProvisionSoFar
<1>3. team \in job.teams
  BY <1>1, <1>2, FirstOf, ToolAssumption
<1> HIDE DEF team, labels, old, project
<1>4. /\ job'.kind = "provision" /\ job'.project = job.project /\ job'.teams = job.teams \ {team}
      /\ job'.team = team /\ job'.labels = labels /\ job'.old = old
      /\ job'.step = IF labels = {} THEN "archive" ELSE "card"
      /\ job'.cards = IF labels = {} THEN {} ELSE DOMAIN CardsOf(project, Min(labels))
  <2>1. job = [kind |-> "provision", project |-> job.project, teams |-> job.teams, team |-> job.team,
               labels |-> job.labels, cards |-> job.cards, step |-> job.step, old |-> job.old]
    BY <1>1 DEF Shape, JobShape, Idle
  <2> QED
    BY <1>1, <2>1 DEF Turned, project
<1>5. TeamSoFar(project, shown[job.team])'
  <2>1. /\ old.cards = DOMAIN shown[team].cards \ WantedCards(project, team)
        /\ old.boards = DOMAIN shown[team].boards \ labels
    BY DEF old, LeftOver, labels
  <2>2. project' = project /\ shown'[team] = shown[team]
    BY <1>1, <1>4 DEF project
  <2>3. CASE labels = {}
    BY <1>4, <2>1, <2>2, <2>3 DEF TeamSoFar, labels, project
  <2>4. CASE labels # {}
    BY <1>4, <2>1, <2>2, <2>4 DEF TeamSoFar, labels, project
  <2> QED
    BY <2>3, <2>4
<1>6. ProvisionSoFar'
  <2>1. \A t \in TeamsShown(project) \ job.teams : shown[t] = Wanted(project, t)
    BY <1>1, TurnEndsWhole DEF project
  <2> QED
    BY <1>1, <1>2, <1>3, <1>4, <1>5, <2>1 DEF ProvisionSoFar, project
<1>7. NoneRefused' /\ WholeIsShown' /\ BoardsStand'
  BY <1>1 DEF ToolInv, NoneRefused, WholeIsShown, BoardsStand, WantedByAll, Standing
<1> QED
  BY <1>6, <1>7 DEF ToolInv

\* Starting a provision keeps the invariant.
LEMMA StartProvisionStep ==
    ASSUME Shape, ToolInv, NEW p \in DOMAIN Projects, StartProvision(p)
    PROVE  ToolInv'
<1>1. /\ Provisionable(Projects[p]) /\ shown' = shown
      /\ job' = [kind |-> "provision", project |-> p, teams |-> TeamsShown(Projects[p]), team |-> NoTeam,
                 labels |-> {}, cards |-> {}, step |-> "archive", old |-> NothingLeft]
      /\ since'.whole = since.whole /\ since'.tried = since.tried \cup {p}
  BY DEF StartProvision, Shape
<1>2. NoneRefused'
  BY <1>1 DEF ToolInv, NoneRefused
<1>3. ProvisionSoFar'
  <2>1. NoTeam \notin TeamsShown(Projects[p])
    BY <1>1, Known
  <2> QED
    BY <1>1, <2>1 DEF ProvisionSoFar, TeamDone
<1>4. WholeIsShown'
  BY <1>1 DEF WholeIsShown
<1>5. BoardsStand'
  BY <1>1 DEF ToolInv, BoardsStand, WantedByAll, Standing
<1> QED
  BY <1>2, <1>3, <1>4, <1>5 DEF ToolInv

\* Ending a provision keeps the invariant.
LEMMA EndProvisionStep ==
    ASSUME Shape, ToolInv, EndProvision
    PROVE  ToolInv'
<1> PICK ours : ours = job.project
  OBVIOUS
<1> DEFINE project == Projects[ours]
<1>1. /\ TeamDone /\ job.kind = "provision" /\ job.teams = {} /\ shown' = shown /\ job' = Idle
      /\ since'.whole = {ours} /\ since'.tried = {}
  BY DEF EndProvision, TeamDone, Shape
<1>2. \A t \in TeamsShown(project) : shown[t] = Wanted(project, t)
  BY <1>1, TurnEndsWhole
<1>3. /\ ours \in since.tried
      /\ \A l \in DOMAIN project.exposures :
             /\ project.exposures[l].team \in TeamsShown(project)
             /\ l \in Dashboards(project, project.exposures[l].team)
  BY <1>1, Ours DEF ToolInv
<1>4. NoneRefused'
  BY <1>1, <1>3 DEF ToolInv, NoneRefused
<1>5. ProvisionSoFar'
  BY <1>1 DEF ProvisionSoFar, Idle
<1>6. WholeIsShown'
  BY <1>1, <1>2 DEF WholeIsShown
<1>7. BoardsStand'
  <2> SUFFICES ASSUME NEW l \in DOMAIN project.exposures
               PROVE  Standing(shown[project.exposures[l].team], l)'
    BY <1>1 DEF BoardsStand
  <2> DEFINE t == project.exposures[l].team
  <2>1. /\ shown[t] = Wanted(project, t) /\ l \in Dashboards(project, t)
    BY <1>2, <1>3
  <2>2. /\ l \in DOMAIN shown[t].boards /\ shown[t].boards[l] = DOMAIN CardsOf(project, l)
        /\ DOMAIN shown[t].cards = WantedCards(project, t)
    BY <2>1 DEF Wanted
  <2>3. DOMAIN CardsOf(project, l) \subseteq WantedCards(project, t)
    BY <2>1 DEF WantedCards
  <2> QED
    BY <1>1, <2>2, <2>3 DEF Standing
<1> QED
  BY <1>4, <1>5, <1>6, <1>7 DEF ToolInv

\* An empty tool satisfies the invariant.
LEMMA ToolInit == Init => ToolInv
BY DEF Init, ToolInv, NoneRefused, ProvisionSoFar, WholeIsShown, BoardsStand, Idle

\* Every step keeps the invariant.
LEMMA ToolStep ==
    ASSUME Shape, ToolInv, [Next]_vars
    PROVE  ToolInv'
<1>1. CASE ProvisionNext
  BY <1>1, StartProvisionStep, TurnToStep, PutCardStep, PutBoardStep, PlaceStep, ArchiveCardStep,
     ArchiveBoardStep, EndProvisionStep DEF ProvisionNext
<1>2. ASSUME shown' = shown, since'.whole = since.whole, since'.tried = since.tried,
             job' = job \/ job'.kind # "provision"
      PROVE  ToolInv'
  <2>1. NoneRefused' /\ WholeIsShown' /\ BoardsStand'
    BY <1>2 DEF ToolInv, NoneRefused, WholeIsShown, BoardsStand, WantedByAll, Standing
  <2>2. ProvisionSoFar'
    BY <1>2 DEF ToolInv, ProvisionSoFar, TeamSoFar, Made, Placed, TeamDone
  <2> QED
    BY <2>1, <2>2 DEF ToolInv
<1>3. CASE UsersNext
  <2>1. shown' = shown /\ since'.whole = since.whole /\ since'.tried = since.tried
    BY <1>3 DEF UsersNext, StartUsers, CreateUser, Grant, EndUsers, Shape
  <2>2. job'.kind # "provision"
    <3>1. ASSUME NEW teams, StartUsers(teams) PROVE job'.kind # "provision"
      BY <3>1 DEF StartUsers
    <3>2. ASSUME job.kind = "users"
          PROVE  job = [kind |-> "users", teams |-> job.teams, left |-> job.left, user |-> job.user,
                        grants |-> job.grants]
      BY <3>2 DEF Shape, JobShape, Idle
    <3>3. ASSUME CreateUser PROVE job'.kind # "provision"
      BY <3>2, <3>3 DEF CreateUser
    <3>4. ASSUME Grant PROVE job'.kind # "provision"
      BY <3>2, <3>4 DEF Grant
    <3>5. ASSUME EndUsers PROVE job'.kind # "provision"
      BY <3>5 DEF EndUsers, Idle
    <3> QED
      BY <1>3, <3>1, <3>3, <3>4, <3>5 DEF UsersNext
  <2> QED
    BY <1>2, <2>1, <2>2
<1>4. CASE Stop
  BY <1>2, <1>4 DEF Stop, Idle
<1>5. CASE UNCHANGED vars
  BY <1>2, <1>5 DEF vars
<1> QED
  BY <1>1, <1>3, <1>4, <1>5 DEF Next

\* The most recent of a model's rows are of RecentDays days.
LEMMA RecentRows ==
    ASSUME NEW card, card.recent, NEW rows, IsFiniteSet(rows),
           \A r \in rows : r["period_start"] \in Nat
    PROVE  LET days == {r["period_start"] : r \in RowsRead(card, rows)}
           IN  IsFiniteSet(days) /\ Cardinality(days) <= RecentDays
<1> DEFINE read == RowsRead(card, rows)
           days == {r["period_start"] : r \in read}
<1> SUFFICES IsFiniteSet(days) /\ Cardinality(days) <= RecentDays
  OBVIOUS
<1>1. RecentDays \in Nat /\ RecentDays > 0
  BY RowLimitsAssumption
<1>2. read = {r \in rows : \A s \in rows : r["period_start"] > s["period_start"] - RecentDays}
  BY DEF RowsRead
<1>3. IsFiniteSet(days) /\ days \subseteq Nat
  <2>1. read \in SUBSET rows
    BY <1>2
  <2>2. IsFiniteSet(read)
    BY <2>1, FS_Subset
  <2>3. [r \in read |-> r["period_start"]] \in Surjection(read, days)
    BY DEF Surjection
  <2>4. IsFiniteSet(days)
    <3> HIDE DEF read, days
    <3> QED
      BY <2>2, <2>3, FS_Surjection
  <2> QED
    BY <2>1, <2>4
<1>4. CASE days = {}
  BY <1>1, <1>4, FS_EmptySet
<1>5. CASE days # {}
  <2>1. PICK last \in days : \A d \in days : d <= last
    BY <1>3, <1>5, Greatest
  <2>2. \A d \in days : d > last - RecentDays
    <3>1. PICK s \in read : s["period_start"] = last
      BY <2>1
    <3> QED
      BY <1>2, <3>1
  <2>3. last \in Nat /\ (last - RecentDays) + 1 \in Int
    BY <1>1, <1>3, <2>1
  <2> DEFINE span == ((last - RecentDays) + 1)..last
  <2>4. days \in SUBSET span
    <3>1. ASSUME NEW d \in days PROVE d \in span
      <4> HIDE DEF days
      <4>1. d \in Nat /\ d <= last /\ d > last - RecentDays
        BY <1>3, <2>1, <2>2
      <4> QED
        BY <1>1, <2>3, <4>1
    <3> HIDE DEF days, span
    <3> QED
      BY <3>1
  <2>5. IsFiniteSet(span) /\ Cardinality(span) = RecentDays
    <3>1. ~((last - RecentDays) + 1 > last) /\ (last - ((last - RecentDays) + 1)) + 1 = RecentDays
      BY <1>1, <2>3
    <3> HIDE DEF days
    <3> QED
      BY <2>3, <3>1, FS_Interval
  <2> HIDE DEF days, span
  <2> QED
    BY <2>4, <2>5, FS_Subset
<1> QED
  BY <1>4, <1>5

\* A chart has no more points than its days times its series.
LEMMA PointsOfSeries ==
    ASSUME NEW card, card.recent, "period_start" \in ToSet(card.keys), NEW rows, IsFiniteSet(rows),
           \A r \in rows : r["period_start"] \in Nat,
           NEW series,
           series = {[k \in ToSet(card.keys) \ {"period_start"} |-> r[k]] : r \in rows}
    PROVE  /\ Cardinality(Points(card, rows)) \in Nat /\ Cardinality(series) \in Nat
           /\ Cardinality(Points(card, rows)) <= RecentDays * Cardinality(series)
<1> DEFINE keys   == ToSet(card.keys)
           others == keys \ {"period_start"}
           read   == RowsRead(card, rows)
           days   == {r["period_start"] : r \in read}
           points == Points(card, rows)
           place  == [x \in points |-> <<x["period_start"], [k \in others |-> x[k]]>>]
<1>1. IsFiniteSet(days) /\ Cardinality(days) <= RecentDays
  BY RecentRows
<1>2. IsFiniteSet(series)
  <2>1. [r \in rows |-> [k \in others |-> r[k]]] \in Surjection(rows, series)
    BY DEF Surjection
  <2> HIDE DEF others
  <2> QED
    BY <2>1, FS_Surjection
<1>3. points = {[k \in keys |-> r[k]] : r \in read}
  BY DEF Points
<1>4. read \subseteq rows
  BY DEF RowsRead
<1>5. place \in Injection(points, days \X series)
  <2>1. ASSUME NEW x \in points PROVE place[x] \in days \X series
    <3>1. PICK r \in read : x = [k \in keys |-> r[k]]
      BY <1>3
    <3>2. x["period_start"] = r["period_start"]
      BY <3>1
    <3>3. [k \in others |-> x[k]] = [k \in others |-> r[k]]
      BY <3>1
    <3>4. x["period_start"] \in days
      BY <3>2
    <3>5. [k \in others |-> x[k]] \in series
      BY <1>4, <3>3
    <3> QED
      BY <2>1, <3>4, <3>5
  <2>2. ASSUME NEW x \in points, NEW y \in points, place[x] = place[y] PROVE x = y
    <3>1. x["period_start"] = y["period_start"] /\ [k \in others |-> x[k]] = [k \in others |-> y[k]]
      BY <2>2
    <3>2. ASSUME NEW k \in keys PROVE x[k] = y[k]
      <4>1. CASE k = "period_start"
        BY <3>1, <4>1
      <4>2. CASE k # "period_start"
        <5>1. k \in others
          BY <4>2
        <5>2. [j \in others |-> x[j]][k] = [j \in others |-> y[j]][k]
          BY <3>1
        <5> QED
          BY <5>1, <5>2
      <4> QED
        BY <4>1, <4>2
    <3>3. x = [k \in keys |-> x[k]] /\ y = [k \in keys |-> y[k]]
      BY <1>3
    <3> HIDE DEF keys
    <3> QED
      BY <3>2, <3>3
  <2> HIDE DEF points, days
  <2>3. place \in [points -> days \X series]
    BY <2>1
  <2> HIDE DEF place
  <2> QED
    BY <2>2, <2>3 DEF Injection, IsInjective
<1> HIDE DEF points, days, place
<1>6. /\ IsFiniteSet(days \X series)
      /\ Cardinality(days \X series) = Cardinality(days) * Cardinality(series)
  BY <1>1, <1>2, FS_Product
<1>7. IsFiniteSet(points) /\ Cardinality(points) <= Cardinality(days) * Cardinality(series)
  BY <1>5, <1>6, FS_Injection
<1>8. /\ Cardinality(days) \in Nat /\ Cardinality(series) \in Nat /\ Cardinality(points) \in Nat
      /\ RecentDays \in Nat
  BY <1>1, <1>2, <1>7, FS_CardinalityType, RowLimitsAssumption
<1>9. \A a, b, c, d \in Nat : a <= b * c /\ b <= d => a <= d * c
  <2>1. \A b, c, d \in Nat : b <= d => b * c <= d * c
    OBVIOUS
  <2>2. \A b, c \in Nat : b * c \in Nat
    OBVIOUS
  <2> QED
    BY <2>1, <2>2
<1> QED
  BY <1>1, <1>7, <1>8, <1>9 DEF points

\* The chart of a daily rollup with few series is not cut off, however long its history.
LEMMA FewSeriesAreDrawn ==
    ASSUME NEW p \in DOMAIN Projects, Provisionable(Projects[p]), NEW marts \in Marts,
           NEW c \in CutOff(Projects[p], marts)
    PROVE  ~FewSeries(Projects[p].shapes[c[2]], marts[c[2]])
<1> DEFINE project == Projects[p]
           shape == project.shapes[c[2]]
           rows  == marts[c[2]]
           card  == CardFor(shape)
           others == ToSet(card.keys) \ {"period_start"}
           series == {[k \in others |-> r[k]] : r \in rows}
<1> SUFFICES ASSUME FewSeries(shape, rows) PROVE FALSE
  OBVIOUS
<1>1. PICK l \in DOMAIN project.exposures :
          /\ c \in DOMAIN CardsOf(project, l)
          /\ CardsOf(project, l)[c].display # "table"
          /\ RowCount(CardsOf(project, l)[c], rows) >= ChartRows
  BY DEF CutOff
<1>2. c[2] \in project.exposures[l].models /\ CardsOf(project, l)[c] = card
  <2>1. /\ DOMAIN CardsOf(project, l) = {l} \X project.exposures[l].models
        /\ \A x \in DOMAIN CardsOf(project, l) : CardsOf(project, l)[x] = CardFor(project.shapes[x[2]])
    BY CardFacts
  <2>2. c \in {l} \X project.exposures[l].models
    BY <1>1, <2>1
  <2> HIDE DEF project
  <2>3. c[2] \in project.exposures[l].models
    BY <2>2
  <2>4. CardsOf(project, l)[c] = CardFor(project.shapes[c[2]])
    BY <1>1, <2>1
  <2> QED
    BY <2>3, <2>4
<1>3. c[2] \in DOMAIN project.shapes
  BY <1>2 DEF Provisionable, ExposedModels
<1>4. shape.daily /\ shape.hint = NoHint /\ RecentDays * Cardinality(series) < ChartRows
  BY DEF FewSeries
<1>5. card.display # "table" /\ RowCount(card, rows) >= ChartRows
  BY <1>1, <1>2
<1>6. /\ "period_start" \in Names(shape) /\ card.recent /\ card.metrics # <<>>
      /\ "period_start" \in ToSet(card.keys)
  <2> DEFINE rest      == SelectSeq(shape.columns, LAMBDA x : x.name # "period_start")
             dimension == FirstWhere(rest, LAMBDA x : x.kind # "number")
             measure   == FirstWhere(rest, LAMBDA x : x.kind = "number")
  <2>1. /\ "period_start" \in Names(shape) /\ measure # <<>>
        /\ card = [display |-> "line", keys |-> <<"period_start">> \o dimension,
                   metrics |-> measure, recent |-> shape.daily]
    <3>1. card = IF "period_start" \in Names(shape) /\ measure # <<>>
                 THEN [display |-> "line", keys |-> <<"period_start">> \o dimension,
                       metrics |-> measure, recent |-> shape.daily]
                 ELSE [display |-> "table", keys |-> shape.key, metrics |-> <<>>, recent |-> FALSE]
      BY <1>4 DEF CardFor
    <3> HIDE DEF card, rest, dimension, measure
    <3> QED
      BY <1>5, <3>1
  <2>2. dimension = <<>> \/ \E x : dimension = <<x>>
    BY DEF FirstWhere
  <2>3. "period_start" \in ToSet(<<"period_start">> \o dimension)
    <3> HIDE DEF dimension
    <3>1. CASE dimension = <<>>
      BY <3>1 DEF ToSet
    <3>2. CASE \E x : dimension = <<x>>
      <4>1. PICK x : dimension = <<x>>
        BY <3>2
      <4>2. <<"period_start">> \in Seq({"period_start", x}) /\ <<x>> \in Seq({"period_start", x})
        OBVIOUS
      <4>3. /\ Len(<<"period_start">> \o <<x>>) = 2
            /\ (<<"period_start">> \o <<x>>)[1] = "period_start"
            /\ <<"period_start">> \o <<x>> \in Seq({"period_start", x})
        BY <4>2
      <4>4. 1 \in DOMAIN (<<"period_start">> \o <<x>>)
        BY <4>3
      <4> QED
        BY <4>1, <4>3, <4>4 DEF ToSet
    <3> QED
      BY <2>2, <3>1, <3>2
  <2> HIDE DEF rest, dimension, measure, card
  <2> QED
    BY <1>4, <2>1, <2>3
<1>7. IsFiniteSet(rows) /\ \A r \in rows : r["period_start"] \in Nat
  BY <1>3, <1>6, MartsAssumption
<1>8. RowCount(card, rows) = Cardinality(Points(card, rows))
  BY <1>6 DEF RowCount
<1> HIDE DEF card, rows, shape, project
<1>9. /\ Cardinality(Points(card, rows)) \in Nat /\ Cardinality(series) \in Nat
      /\ Cardinality(Points(card, rows)) <= RecentDays * Cardinality(series)
  BY <1>6, <1>7, PointsOfSeries
<1>10. RecentDays \in Nat /\ ChartRows \in Nat
  BY RowLimitsAssumption
<1> HIDE DEF series
<1> QED
  <2>1. RecentDays * Cardinality(series) \in Nat
    BY <1>9, <1>10
  <2> QED
    BY <1>4, <1>5, <1>8, <1>9, <1>10, <2>1

\* A check after a whole provision, with the users created whole, finds the charts that reach
\* the limit, and nothing else.
LEMMA OnlyLimitsFail ==
    ASSUME ToolInv, HeldByRole, since.tried = {}, since.granted # {}, since.granting = {},
           NEW p \in since.whole, NEW marts
    PROVE  Failures(Projects[p], marts) = {<<c, "cut off">> : c \in CutOff(Projects[p], marts)}
<1> DEFINE project == Projects[p]
<1>1. \A l \in DOMAIN project.exposures :
          LET items == shown[project.exposures[l].team]
          IN  /\ l \in DOMAIN items.boards /\ items.boards[l] = DOMAIN CardsOf(project, l)
              /\ \A c \in DOMAIN CardsOf(project, l) : items.cards[c] = CardsOf(project, l)[c]
  <2> SUFFICES ASSUME NEW l \in DOMAIN project.exposures
               PROVE  LET items == shown[project.exposures[l].team]
                      IN  /\ l \in DOMAIN items.boards /\ items.boards[l] = DOMAIN CardsOf(project, l)
                          /\ \A c \in DOMAIN CardsOf(project, l) : items.cards[c] = CardsOf(project, l)[c]
    OBVIOUS
  <2> DEFINE t == project.exposures[l].team
  <2>1. t \in TeamsShown(project) /\ l \in Dashboards(project, t)
    BY DEF TeamsShown, Dashboards
  <2>2. shown[t] = Wanted(project, t)
    BY <2>1 DEF ToolInv, WholeIsShown
  <2>3. l \in DOMAIN shown[t].boards /\ shown[t].boards[l] = DOMAIN CardsOf(project, l)
    BY <2>1, <2>2 DEF Wanted
  <2>4. ASSUME NEW c \in DOMAIN CardsOf(project, l) PROVE shown[t].cards[c] = CardsOf(project, l)[c]
    <3>1. c \in WantedCards(project, t)
      BY <2>1 DEF WantedCards
    <3>2. shown[t].cards[c] = CardFor(project.shapes[c[2]])
      BY <2>2, <3>1 DEF Wanted
    <3> QED
      BY <3>2, CardFacts
  <2> QED
    BY <2>3, <2>4
<1>2. MayRead(Metabase, "marts")
  <2>1. Metabase \in DOMAIN users /\ users[Metabase] = Grants(Metabase)
    BY DEF HeldByRole, CompanyUsers
  <2>2. <<"select", "marts">> \in Grants(Metabase)
    <3>1. Role(Metabase) = "bi"
      BY ServiceUsersAssumption DEF Role
    <3>2. Grants(Metabase) = ({"select"} \X {"marts", "reference", "system.processes"})
                                 \cup {<<"own rows only", "system.processes">>}
      BY <3>1 DEF Grants
    <3>3. <<"select", "marts">> \in {"select"} \X {"marts", "reference", "system.processes"}
      OBVIOUS
    <3> HIDE DEF Grants
    <3> QED
      BY <3>2, <3>3
  <2> QED
    BY <2>1, <2>2 DEF MayRead
<1> DEFINE of(l) ==
               LET items    == shown[project.exposures[l].team]
                   expected == CardsOf(project, l)
                   placed   == items.boards[l] \cap DOMAIN expected
                   answered == IF MayRead(Metabase, "marts") THEN placed ELSE {}
                   full(c)  == /\ expected[c].display # "table"
                               /\ RowCount(items.cards[c], marts[c[2]]) >= ChartRows
               IN  IF l \notin DOMAIN items.boards THEN {<<l, "no such dashboard">>}
                   ELSE {<<l, "cards differ from the exposure">> :
                             x \in IF items.boards[l] = DOMAIN expected THEN {} ELSE {l}}
                        \cup {<<c, "query failed">> : c \in placed \ answered}
                        \cup {<<c, "cut off">> : c \in {x \in answered : full(x)}}
           cut(l) ==
               LET cards == CardsOf(project, l)
               IN  {c \in DOMAIN cards : /\ cards[c].display # "table"
                                         /\ RowCount(cards[c], marts[c[2]]) >= ChartRows}
<1>3. Failures(project, marts) = UNION {of(l) : l \in DOMAIN project.exposures}
  BY Zenon DEF Failures
<1>4. CutOff(project, marts) = UNION {cut(l) : l \in DOMAIN project.exposures}
  BY Zenon DEF CutOff
<1>5. ASSUME NEW l \in DOMAIN project.exposures PROVE of(l) = {<<c, "cut off">> : c \in cut(l)}
  <2> DEFINE items == shown[project.exposures[l].team]
             cards == CardsOf(project, l)
  <2>1. /\ l \in DOMAIN items.boards /\ items.boards[l] = DOMAIN cards
        /\ \A c \in DOMAIN cards : items.cards[c] = cards[c]
    BY <1>1
  <2> HIDE DEF project, items, cards
  <2>2. of(l) = {<<c, "cut off">> :
                    c \in {x \in DOMAIN cards : /\ cards[x].display # "table"
                                               /\ RowCount(items.cards[x], marts[x[2]]) >= ChartRows}}
    BY <1>2, <2>1 DEF items, cards
  <2>3. {x \in DOMAIN cards : /\ cards[x].display # "table"
                              /\ RowCount(items.cards[x], marts[x[2]]) >= ChartRows} = cut(l)
    BY <2>1 DEF cards
  <2> HIDE DEF of, cut
  <2> QED
    BY <2>2, <2>3
<1> DEFINE boards == DOMAIN project.exposures
<1>6. Failures(project, marts) = UNION {of(l) : l \in boards}
      /\ CutOff(project, marts) = UNION {cut(l) : l \in boards}
      /\ \A l \in boards : of(l) = {<<c, "cut off">> : c \in cut(l)}
  BY <1>3, <1>4, <1>5
<1> HIDE DEF of, cut, boards
<1>7. UNION {of(l) : l \in boards} = {<<c, "cut off">> : c \in UNION {cut(l) : l \in boards}}
  <2> DEFINE all == UNION {cut(l) : l \in boards}
  <2>1. ASSUME NEW x \in UNION {of(l) : l \in boards} PROVE \E c \in all : x = <<c, "cut off">>
    <3>1. PICK l \in boards : x \in of(l)
      OBVIOUS
    <3>2. PICK c \in cut(l) : x = <<c, "cut off">>
      BY <1>6, <3>1
    <3> QED
      BY <3>2
  <2>2. ASSUME NEW c \in all PROVE <<c, "cut off">> \in UNION {of(l) : l \in boards}
    <3>1. PICK l \in boards : c \in cut(l)
      OBVIOUS
    <3>2. <<c, "cut off">> \in of(l)
      BY <1>6, <3>1
    <3> QED
      BY <3>2
  <2>3. \A x \in UNION {of(l) : l \in boards} : x \in {<<c, "cut off">> : c \in all}
    BY <2>1
  <2>4. \A x \in {<<c, "cut off">> : c \in all} : x \in UNION {of(l) : l \in boards}
    BY <2>2
  <2> QED
    BY <2>3, <2>4
<1> HIDE DEF project
<1> QED
  BY <1>6, <1>7 DEF project

\* However many runs were cut short before it, a provision that ends leaves in every
\* collection exactly the project's cards and dashboards; once the users were created whole,
\* a check then finds the charts that reach Metabase's limit of rows and nothing else, none of
\* them a daily rollup with few series, whatever the marts hold; and a dashboard every project
\* tried since wants is never gone or half changed.
THEOREM ProjectIsShown == Spec => []BiShowsTheProject
<1>1. ASSUME ToolInv, HeldByRole PROVE BiShowsTheProject
  <2>1. ASSUME since.tried = {}, NEW p \in since.whole
        PROVE  LET project == Projects[p]
               IN  /\ \A t \in TeamsShown(project) : shown[t] = Wanted(project, t)
                   /\ since.granted # {} /\ since.granting = {} => \A marts \in Marts :
                          /\ Failures(project, marts) = {<<c, "cut off">> : c \in CutOff(project, marts)}
                          /\ \A c \in CutOff(project, marts) : ~FewSeries(project.shapes[c[2]], marts[c[2]])
    <3>1. p \in DOMAIN Projects /\ Provisionable(Projects[p])
      BY <1>1 DEF ToolInv, NoneRefused
    <3>2. \A t \in TeamsShown(Projects[p]) : shown[t] = Wanted(Projects[p], t)
      BY <1>1, <2>1 DEF ToolInv, WholeIsShown
    <3>3. ASSUME since.granted # {}, since.granting = {}, NEW marts \in Marts
          PROVE  /\ Failures(Projects[p], marts) = {<<c, "cut off">> : c \in CutOff(Projects[p], marts)}
                 /\ \A c \in CutOff(Projects[p], marts) :
                        ~FewSeries(Projects[p].shapes[c[2]], marts[c[2]])
      BY <1>1, <2>1, <3>1, <3>3, OnlyLimitsFail, FewSeriesAreDrawn
    <3> QED
      BY <3>2, <3>3
  <2>2. ASSUME NEW p \in since.whole, NEW l \in DOMAIN Projects[p].exposures,
               \A q \in since.whole \cup since.tried :
                   /\ l \in DOMAIN Projects[q].exposures
                   /\ Projects[q].exposures[l].team = Projects[p].exposures[l].team
        PROVE  Standing(shown[Projects[p].exposures[l].team], l)
    BY <1>1, <2>2 DEF ToolInv, BoardsStand, WantedByAll
  <2> QED
    BY <2>1, <2>2 DEF BiShowsTheProject, Standing
<1>2. Init => Shape /\ UsersInv /\ ToolInv
  BY UsersInit, ToolInit
<1>3. Shape /\ UsersInv /\ ToolInv /\ [Next]_vars => (Shape /\ UsersInv /\ ToolInv)'
  BY ShapeStep, UsersStep, ToolStep
<1> QED
  BY <1>1, <1>2, <1>3, PTL DEF Spec, UsersInv
=============================================================================
