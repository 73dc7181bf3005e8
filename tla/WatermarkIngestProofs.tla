----------------------- MODULE WatermarkIngestProofs -----------------------
(***************************************************************************)
(* The copy into raw loses no row, for any tables, keys, overlap and time. *)
(*                                                                         *)
(* NoRowIsLost alone is not inductive. A load records its watermark only   *)
(* after it has pulled every table, so what it pulled must be known to be  *)
(* complete between the two (PulledIsComplete); and a row that commits     *)
(* late must be known to fall inside the window of the load that runs and  *)
(* of the next one (TransactionsAreShort, MarksAreReached).                *)
(***************************************************************************)
EXTENDS WatermarkIngest, TLAPS

\* A row that is not committed yet was written at most MaxLag ago, after the
\* version it replaces, and nothing is stamped later than now.
TransactionsAreShort ==
    \A t \in Table, k \in Key :
        /\ open[t][k] <= clock /\ legacy[t][k] <= clock
        /\ open[t][k] # 0 => clock <= open[t][k] + MaxLag /\ legacy[t][k] <= open[t][k]

\* No watermark and no running load is ahead of the clock, and a running job is
\* never behind the watermark of a table it loads.
MarksAreReached ==
    /\ \A t \in Table : mark[t] <= clock
    /\ job.until <= clock
    /\ \A t \in job.tables : mark[t] <= job.until
    /\ job.todo \subseteq job.tables
    /\ job.kind = "none" => job.tables = {}

\* Behind the window of the load that will follow the running one, the tables the
\* running job has pulled are already complete.
PulledIsComplete ==
    \A t \in (job.tables \ job.todo) \ emptied, k \in Key :
        legacy[t][k] # 0 /\ legacy[t][k] <= job.until - Overlap =>
            raw[t][k] = legacy[t][k]

IInv ==
    /\ TypeOK /\ TransactionsAreShort /\ MarksAreReached
    /\ RawIsCommitted /\ NoRowIsLost /\ PulledIsComplete

-----------------------------------------------------------------------------

\* Types and times: the part of the invariant that does not speak of the copy.
Times == TypeOK /\ TransactionsAreShort /\ MarksAreReached

\* The empty tables, without a watermark, satisfy the invariant.
LEMMA InitIInv == Init => IInv
BY IngestAssumption DEF Init, IInv, TypeOK, TransactionsAreShort, MarksAreReached,
       RawIsCommitted, NoRowIsLost, PulledIsComplete, Rows, NoJob, Kind

\* No step breaks the types, the bound on open transactions or the order of
\* clock, running job and watermarks.
LEMMA TimesKept == Times /\ [Next]_vars => Times'
<1> SUFFICES ASSUME Times, [Next]_vars PROVE Times'
  OBVIOUS
<1> USE IngestAssumption DEF Times, TypeOK, TransactionsAreShort, MarksAreReached, Rows, NoJob, Kind
<1>1. CASE Tick
  BY <1>1 DEF Tick
<1>2. ASSUME NEW t \in Table, NEW k \in Key, Write(t, k) PROVE Times'
  BY <1>2 DEF Write
<1>3. ASSUME NEW t \in Table, NEW k \in Key, Commit(t, k) PROVE Times'
  BY <1>3 DEF Commit
<1>4. CASE StartLoad
  BY <1>4 DEF StartLoad, Start
<1>5. CASE StartBackfill
  BY <1>5 DEF StartBackfill, Start
<1>6. ASSUME NEW t \in Table, StartResync(t) PROVE Times'
  BY <1>6 DEF StartResync, Start
<1>7. ASSUME NEW t \in Table, Recreate(t) PROVE Times'
  BY <1>7 DEF Recreate
<1>8. ASSUME NEW t \in Table, Pull(t) PROVE Times'
  BY <1>8 DEF Pull
<1>9. CASE Record
  BY <1>9 DEF Record
<1>10. CASE Die
  BY <1>10 DEF Die
<1>11. CASE UNCHANGED vars
  BY <1>11 DEF vars
<1> QED
  BY <1>1, <1>2, <1>3, <1>4, <1>5, <1>6, <1>7, <1>8, <1>9, <1>10, <1>11 DEF Next

\* What one statement leaves in its table: never a version Postgres does not
\* have, and every row it selected in the version Postgres holds.
LEMMA PullCopies ==
    ASSUME NEW t \in Table, TypeOK, RawIsCommitted, Pull(t)
    PROVE  /\ \A u \in Table, k \in Key : u # t => raw'[u][k] = raw[u][k]
           /\ \A k \in Key : /\ k \in Selected(t) => raw'[t][k] = legacy[t][k]
                             /\ k \notin Selected(t) => raw'[t][k] = raw[t][k]
BY DEF TypeOK, Rows, RawIsCommitted, Pull

\* Pulling a table completes it behind the window of the load after this one.
LEMMA PullCompletes ==
    ASSUME NEW t \in Table, IInv, Pull(t)
    PROVE  RawIsCommitted' /\ NoRowIsLost' /\ PulledIsComplete'
<1>1. /\ legacy' = legacy /\ mark' = mark /\ job.until \in Int /\ t \in job.tables
      /\ job'.until = job.until /\ job'.tables = job.tables /\ job'.todo = job.todo \ {t}
      /\ emptied' = IF InFull(t) THEN emptied \ {t} ELSE emptied
      /\ mark[t] <= job.until
  BY DEF IInv, TypeOK, Pull, MarksAreReached
<1>2. /\ \A u \in Table, k \in Key : u # t => raw'[u][k] = raw[u][k]
      /\ \A k \in Key : /\ k \in Selected(t) => raw'[t][k] = legacy[t][k]
                        /\ k \notin Selected(t) => raw'[t][k] = raw[t][k]
  BY PullCopies DEF IInv
<1>3. \A u \in Table, k \in Key :
         legacy[u][k] \in Nat /\ raw[u][k] \in Nat /\ mark[u] \in Nat
  BY DEF IInv, TypeOK, Rows
<1>4. RawIsCommitted'
  BY <1>1, <1>2, <1>3 DEF IInv, RawIsCommitted
<1>5. ASSUME t \notin emptied', NEW k \in Key,
             legacy[t][k] # 0, legacy[t][k] <= job.until - Overlap
      PROVE  raw'[t][k] = legacy[t][k]
  <2>1. legacy[t][k] <= job.until
    BY <1>1, <1>3, <1>5, IngestAssumption
  <2>2. CASE k \in Selected(t)
    BY <2>2, <1>2
  <2>3. CASE k \notin Selected(t)
    <3>1. ~InFull(t) /\ legacy[t][k] <= mark[t] - Overlap
      BY <2>1, <2>3, <1>3, <1>5, IngestAssumption DEF Selected
    <3>2. t \notin emptied
      BY <3>1, <1>1, <1>5
    <3> QED
      BY <3>1, <3>2, <2>3, <1>2, <1>5 DEF IInv, NoRowIsLost
  <2> QED
    BY <2>2, <2>3
<1>6. NoRowIsLost'
  <2> SUFFICES ASSUME NEW u \in Table \ emptied', NEW k \in Key,
                      legacy[u][k] # 0, legacy[u][k] <= mark[u] - Overlap
               PROVE  raw'[u][k] = legacy[u][k]
    BY <1>1 DEF NoRowIsLost
  <2>1. CASE u = t
    <3>1. legacy[t][k] <= job.until - Overlap
      BY <2>1, <1>1, <1>3, IngestAssumption
    <3> QED
      BY <2>1, <3>1, <1>5
  <2>2. CASE u # t
    <3>1. u \in Table \ emptied
      BY <2>2, <1>1
    <3> QED
      BY <2>2, <3>1, <1>2 DEF IInv, NoRowIsLost
  <2> QED
    BY <2>1, <2>2
<1>7. PulledIsComplete'
  <2> SUFFICES ASSUME NEW u \in (job'.tables \ job'.todo) \ emptied', NEW k \in Key,
                      legacy[u][k] # 0, legacy[u][k] <= job.until - Overlap
               PROVE  raw'[u][k] = legacy[u][k]
    BY <1>1 DEF PulledIsComplete
  <2>1. CASE u = t
    BY <2>1, <1>5
  <2>2. CASE u # t
    <3>1. u \in (job.tables \ job.todo) \ emptied /\ u \in Table
      BY <2>2, <1>1 DEF IInv, TypeOK
    <3> QED
      BY <2>2, <3>1, <1>2 DEF IInv, PulledIsComplete
  <2> QED
    BY <2>1, <2>2
<1> QED
  BY <1>4, <1>6, <1>7

\* A row that commits is inside the window of the job that runs and of every
\* load to come, because its transaction was shorter than the overlap.
LEMMA CommitIsInWindow ==
    ASSUME NEW t \in Table, NEW k \in Key, IInv, Commit(t, k)
    PROVE  RawIsCommitted' /\ NoRowIsLost' /\ PulledIsComplete'
<1>1. /\ raw' = raw /\ mark' = mark /\ job' = job /\ emptied' = emptied
      /\ legacy' = [legacy EXCEPT ![t][k] = open[t][k]]
      /\ clock \in Nat /\ job.until \in Nat /\ open[t][k] \in Nat /\ open[t][k] # 0
      /\ job.tables \subseteq Table
  BY DEF IInv, TypeOK, Rows, Commit
<1>2. /\ clock - MaxLag <= open[t][k]
      /\ mark[t] \in Nat /\ mark[t] <= clock /\ job.until <= clock
  BY <1>1, IngestAssumption DEF IInv, TypeOK, TransactionsAreShort, MarksAreReached
<1>3. ~(open[t][k] <= mark[t] - Overlap) /\ ~(open[t][k] <= job.until - Overlap)
  BY <1>1, <1>2, IngestAssumption
<1>4. \A u \in Table, j \in Key :
         /\ u = t /\ j = k => legacy'[u][j] = open[t][k]
         /\ ~(u = t /\ j = k) => legacy'[u][j] = legacy[u][j]
  BY <1>1 DEF IInv, TypeOK, Rows
<1>5. legacy[t][k] <= open[t][k] /\ raw[t][k] <= legacy[t][k]
      /\ legacy[t][k] \in Nat /\ raw[t][k] \in Nat
  BY <1>1 DEF IInv, TypeOK, Rows, TransactionsAreShort, RawIsCommitted
<1>6. RawIsCommitted'
  BY <1>1, <1>4, <1>5 DEF IInv, RawIsCommitted
<1>7. NoRowIsLost'
  BY <1>1, <1>3, <1>4 DEF IInv, NoRowIsLost
<1>8. PulledIsComplete'
  BY <1>1, <1>3, <1>4 DEF IInv, PulledIsComplete
<1> QED
  BY <1>6, <1>7, <1>8

\* Recording the load moves the watermark to where the pulled tables are complete.
LEMMA RecordIsComplete ==
    ASSUME IInv, Record
    PROVE  NoRowIsLost' /\ PulledIsComplete'
<1>1. /\ legacy' = legacy /\ raw' = raw /\ emptied' = emptied /\ job' = NoJob
      /\ mark' = [t \in Table |-> IF t \in job.tables /\ job.until > mark[t]
                                 THEN job.until ELSE mark[t]]
      /\ job.todo = {} /\ job.until \in Nat /\ mark \in [Table -> Nat]
  BY DEF IInv, TypeOK, Record
<1>2. PulledIsComplete'
  BY <1>1 DEF PulledIsComplete, NoJob
<1>3. NoRowIsLost'
  <2> SUFFICES ASSUME NEW t \in Table \ emptied, NEW k \in Key,
                      legacy[t][k] # 0, legacy[t][k] <= mark'[t] - Overlap
               PROVE  raw[t][k] = legacy[t][k]
    BY <1>1 DEF NoRowIsLost
  <2>1. CASE mark'[t] = mark[t]
    BY <2>1 DEF IInv, NoRowIsLost
  <2>2. CASE mark'[t] = job.until /\ t \in job.tables
    BY <2>2, <1>1 DEF IInv, PulledIsComplete
  <2> QED
    BY <2>1, <2>2, <1>1
<1> QED
  BY <1>2, <1>3

\* The inductive step: one case per action.
LEMMA NextIInv == IInv /\ [Next]_vars => IInv'
<1> SUFFICES ASSUME IInv, [Next]_vars PROVE IInv'
  OBVIOUS
<1> DEFINE Copy == RawIsCommitted /\ NoRowIsLost /\ PulledIsComplete
<1>0. TypeOK' /\ TransactionsAreShort' /\ MarksAreReached'
  BY TimesKept DEF Times, IInv
<1> SUFFICES Copy'
  BY <1>0 DEF IInv
<1>1. CASE Tick
  BY <1>1 DEF IInv, Tick, RawIsCommitted, NoRowIsLost, PulledIsComplete
<1>2. ASSUME NEW t \in Table, NEW k \in Key, Write(t, k) PROVE Copy'
  BY <1>2 DEF IInv, Write, RawIsCommitted, NoRowIsLost, PulledIsComplete
<1>3. ASSUME NEW t \in Table, NEW k \in Key, Commit(t, k) PROVE Copy'
  BY <1>3, CommitIsInWindow
<1>4. ASSUME NEW kind, NEW until, NEW tables, NEW fresh, Start(kind, until, tables, fresh)
      PROVE  Copy'
  BY <1>4 DEF IInv, Start, RawIsCommitted, NoRowIsLost, PulledIsComplete
<1>5. ASSUME NEW t \in Table, Recreate(t) PROVE Copy'
  <2>1. /\ raw' = [raw EXCEPT ![t] = [k \in Key |-> 0]]
        /\ emptied' = emptied \cup {t} /\ legacy' = legacy /\ mark' = mark
        /\ job'.until = job.until /\ job'.tables = job.tables /\ job'.todo = job.todo
        /\ job.tables \subseteq Table
    BY <1>5 DEF IInv, TypeOK, Recreate
  <2>2. \A u \in Table, k \in Key :
           /\ u # t => raw'[u][k] = raw[u][k]
           /\ raw'[t][k] = 0 /\ legacy[u][k] \in Nat
    BY <2>1 DEF IInv, TypeOK, Rows
  <2>3. RawIsCommitted'
    BY <2>1, <2>2 DEF IInv, RawIsCommitted
  <2>4. NoRowIsLost' /\ PulledIsComplete'
    BY <2>1, <2>2 DEF IInv, NoRowIsLost, PulledIsComplete
  <2> QED
    BY <2>3, <2>4
<1>6. ASSUME NEW t \in Table, Pull(t) PROVE Copy'
  BY <1>6, PullCompletes
<1>7. CASE Record
  BY <1>7, RecordIsComplete DEF IInv, Record, RawIsCommitted
<1>8. CASE Die
  BY <1>8 DEF IInv, Die, NoJob, RawIsCommitted, NoRowIsLost, PulledIsComplete
<1>9. CASE UNCHANGED vars
  BY <1>9 DEF IInv, vars, RawIsCommitted, NoRowIsLost, PulledIsComplete
<1> QED
  BY <1>1, <1>2, <1>3, <1>4, <1>5, <1>6, <1>7, <1>8, <1>9
     DEF Next, StartLoad, StartBackfill, StartResync

\* The invariant holds in every state of the ingestion.
LEMMA Invariance == Spec => []IInv
BY InitIInv, NextIInv, PTL DEF Spec

\* The tables, the watermarks and the job keep their types.
THEOREM TypesHold == Spec => []TypeOK
<1>1. IInv => TypeOK
  BY DEF IInv
<1> QED
  BY <1>1, Invariance, PTL

\* Whatever commits late, is skipped or dies, the watermarks never leave behind a
\* row that raw does not hold, as long as no transaction outlasts the overlap.
THEOREM NoRowIsEverLost == Spec => []NoRowIsLost
<1>1. IInv => NoRowIsLost
  BY DEF IInv
<1> QED
  BY <1>1, Invariance, PTL

\* Raw holds committed versions only.
THEOREM RawIsAlwaysCommitted == Spec => []RawIsCommitted
<1>1. IInv => RawIsCommitted
  BY DEF IInv
<1> QED
  BY <1>1, Invariance, PTL

\* Reading a row again never takes raw back: only recreating the table does.
THEOREM RawMovesForward == Spec => RawOnlyMovesForward
<1> DEFINE Forward == \A t \in Table, k \in Key :
              raw'[t][k] < raw[t][k] => t \in job.fresh \ job'.fresh
<1>1. ASSUME IInv, [Next]_vars PROVE [Forward]_vars
  <2>1. \A t \in Table, k \in Key : raw[t][k] \in Nat /\ legacy[t][k] \in Nat
    BY <1>1 DEF IInv, TypeOK, Rows
  <2>2. ASSUME raw' = raw PROVE Forward
    BY <2>1, <2>2
  <2>3. ASSUME NEW t \in Table, Recreate(t) PROVE Forward
    <3>1. \A u \in Table, k \in Key : u # t => raw'[u][k] = raw[u][k]
      BY <2>3, <1>1 DEF Recreate, IInv, TypeOK, Rows
    <3>2. t \in job.fresh \ job'.fresh
      BY <2>3, <1>1 DEF Recreate, IInv, TypeOK
    <3> QED
      BY <2>1, <3>1, <3>2
  <2>4. ASSUME NEW t \in Table, Pull(t) PROVE Forward
    <3>1. /\ \A u \in Table, k \in Key : u # t => raw'[u][k] = raw[u][k]
          /\ \A k \in Key : raw'[t][k] = legacy[t][k] \/ raw'[t][k] = raw[t][k]
      BY <2>4, <1>1, PullCopies DEF IInv
    <3>2. \A k \in Key : raw[t][k] <= legacy[t][k]
      BY <1>1 DEF IInv, RawIsCommitted
    <3> QED
      BY <2>1, <3>1, <3>2
  <2> QED
    BY <1>1, <2>2, <2>3, <2>4 DEF Next, Tick, Write, Commit, StartLoad, StartBackfill,
       StartResync, Start, Record, Die, vars
<1> QED
  BY <1>1, Invariance, PTL DEF Spec, RawOnlyMovesForward
=============================================================================
