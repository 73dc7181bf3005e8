-------------------------- MODULE WatermarkIngest --------------------------
(***************************************************************************)
(* The copy from the legacy Postgres into ClickHouse's raw layer           *)
(* (src/platform_ops/simulation/ingest.py): every load reads the rows      *)
(* whose updated_at is in (watermark - overlap, until], table by table,    *)
(* into a ReplacingMergeTree versioned by updated_at, and records the new  *)
(* watermarks when every table is in. A resync or a backfill recreates the *)
(* raw tables and reloads them in full.                                    *)
(*                                                                         *)
(* The application stamps a row when it writes it and commits it later, so *)
(* a load may run between the two. A row is its key and updated_at: which  *)
(* rows are copied is modelled, what their columns hold is not. The job is *)
(* the fixed one; the delivered job's dropped keys are left out.           *)
(***************************************************************************)
EXTENDS Integers

CONSTANTS
    Table, Key,
    Overlap,    \* company.ingest_overlap_minutes
    MaxLag,     \* the longest an application transaction stays open
    MaxClock    \* bound: the last moment of a behaviour

Kind == {"load", "resync", "backfill"}

\* The overlap is tuned to the longest transaction (ADR 0012).
ASSUME IngestAssumption ==
    /\ Overlap \in Nat /\ MaxLag \in Nat /\ MaxClock \in Nat
    /\ MaxLag < Overlap

VARIABLES
    clock,
    open,    \* updated_at of a row written and not committed, 0 for none
    legacy,  \* updated_at of the committed row in Postgres, 0 for no row
    raw,     \* updated_at of the row FINAL reads in ClickHouse, 0 for no row
    mark,    \* the latest loaded_until in ingestion_loads, 0 before any
    job,     \* the running job: kind, until, tables, to recreate, to pull
    emptied  \* history: the tables recreated and not reloaded in full since

vars == <<clock, open, legacy, raw, mark, job, emptied>>

NoJob == [kind |-> "none", until |-> 0, tables |-> {}, fresh |-> {}, todo |-> {}]

Init ==
    /\ clock = 1
    /\ open = [t \in Table |-> [k \in Key |-> 0]]
    /\ legacy = [t \in Table |-> [k \in Key |-> 0]]
    /\ raw = [t \in Table |-> [k \in Key |-> 0]]
    /\ mark = [t \in Table |-> 0]
    /\ job = NoJob
    /\ emptied = {}

-----------------------------------------------------------------------------
(* The application.                                                        *)

\* No transaction stays open longer than MaxLag.
Tick ==
    /\ clock < MaxClock
    /\ \A t \in Table, k \in Key : open[t][k] # 0 => clock < open[t][k] + MaxLag
    /\ clock' = clock + 1
    /\ UNCHANGED <<open, legacy, raw, mark, job, emptied>>

Write(t, k) ==
    /\ open[t][k] = 0
    /\ open' = [open EXCEPT ![t][k] = clock]
    /\ UNCHANGED <<clock, legacy, raw, mark, job, emptied>>

Commit(t, k) ==
    /\ open[t][k] # 0
    /\ legacy' = [legacy EXCEPT ![t][k] = open[t][k]]
    /\ open' = [open EXCEPT ![t][k] = 0]
    /\ UNCHANGED <<clock, raw, mark, job, emptied>>

-----------------------------------------------------------------------------
(* The ingestion.                                                          *)

Start(kind, until, tables, fresh) ==
    /\ job = NoJob
    /\ job' = [kind |-> kind, until |-> until, tables |-> tables,
               fresh |-> fresh, todo |-> tables]
    /\ UNCHANGED <<clock, open, legacy, raw, mark, emptied>>

\* A nightly load leaves out the tables it cannot load (a stopped feed).
StartLoad == \E skip \in SUBSET Table : Start("load", clock, Table \ skip, {})

StartBackfill == Start("backfill", clock, Table, Table)

\* One table, up to the last load (never behind the table's watermark).
StartResync(t) ==
    \E until \in mark[t]..clock : Start("resync", until, {t}, {t})

\* CREATE OR REPLACE: every table of the job is emptied before any is pulled.
Recreate(t) ==
    /\ t \in job.fresh
    /\ raw' = [raw EXCEPT ![t] = [k \in Key |-> 0]]
    /\ job' = [job EXCEPT !.fresh = @ \ {t}]
    /\ emptied' = emptied \cup {t}
    /\ UNCHANGED <<clock, open, legacy, mark>>

\* Without a watermark, or for a full reload, a statement reads every row.
InFull(t) == job.kind # "load" \/ mark[t] = 0

\* Mutant of Selected: the range starts at the watermark, without the overlap.
SelectedNoOverlap(t) ==
    {k \in Key : /\ legacy[t][k] # 0 /\ legacy[t][k] <= job.until
                 /\ InFull(t) \/ legacy[t][k] > mark[t]}

\* The rows one statement reads.
Selected(t) ==
    {k \in Key : /\ legacy[t][k] # 0
                 /\ legacy[t][k] <= job.until
                 /\ InFull(t) \/ legacy[t][k] > mark[t] - Overlap}

\* Reading a row twice is harmless: the latest version of a key wins.
Pull(t) ==
    /\ job.fresh = {} /\ t \in job.todo
    /\ raw' = [raw EXCEPT ![t] = [k \in Key |->
                 IF k \in Selected(t) /\ legacy[t][k] >= raw[t][k]
                 THEN legacy[t][k] ELSE raw[t][k]]]
    /\ job' = [job EXCEPT !.todo = @ \ {t}]
    /\ emptied' = IF InFull(t) THEN emptied \ {t} ELSE emptied
    /\ UNCHANGED <<clock, open, legacy, mark>>

\* Mutant of Record: the watermark of a table that was skipped moves on too.
RecordSkipped ==
    /\ job.kind # "none" /\ job.fresh = {} /\ job.todo = {}
    /\ mark' = [t \in Table |-> IF job.until > mark[t] THEN job.until ELSE mark[t]]
    /\ job' = NoJob
    /\ UNCHANGED <<clock, open, legacy, raw, emptied>>

\* Every table is in: one transaction records them all.
Record ==
    /\ job.kind # "none" /\ job.fresh = {} /\ job.todo = {}
    /\ mark' = [t \in Table |-> IF t \in job.tables /\ job.until > mark[t]
                                THEN job.until ELSE mark[t]]
    /\ job' = NoJob
    /\ UNCHANGED <<clock, open, legacy, raw, emptied>>

\* The job dies: what it emptied and pulled stays, nothing is recorded.
Die ==
    /\ job # NoJob
    /\ job' = NoJob
    /\ UNCHANGED <<clock, open, legacy, raw, mark, emptied>>

Next ==
    \/ Tick
    \/ \E t \in Table, k \in Key : Write(t, k) \/ Commit(t, k)
    \/ StartLoad \/ StartBackfill
    \/ \E t \in Table : StartResync(t) \/ Recreate(t) \/ Pull(t)
    \/ Record \/ Die

Spec == Init /\ [][Next]_vars

\* The application commits what it writes and a job that started goes on, unless
\* it dies. The nightly load of every table starts again and again (the feeds
\* that stopped are repaired), and does not die every time before it reaches a table.
NightlyLoad == Start("load", clock, Table, {})
NightlyPull(t) == job.kind = "load" /\ job.until = clock /\ Pull(t)

FairSpec ==
    /\ Spec
    /\ WF_vars(Tick)
    /\ \A t \in Table : \A k \in Key : WF_vars(Commit(t, k))
    /\ \A t \in Table : WF_vars(Recreate(t)) /\ WF_vars(Pull(t)) /\ SF_vars(NightlyPull(t))
    /\ WF_vars(Record)
    /\ SF_vars(NightlyLoad)

-----------------------------------------------------------------------------

Rows == [Table -> [Key -> Nat]]

\* The types of the tables, the watermarks and the running job.
TypeOK ==
    /\ clock \in Nat
    /\ open \in Rows /\ legacy \in Rows /\ raw \in Rows
    /\ mark \in [Table -> Nat]
    /\ job \in [kind : Kind \cup {"none"}, until : Nat, tables : SUBSET Table,
                fresh : SUBSET Table, todo : SUBSET Table]
    /\ emptied \subseteq Table

\* No row is lost: a committed row that is behind the next load's window, which
\* no load will read again, is in raw with the version Postgres holds; however
\* late it committed, and whichever loads were skipped or died. The exception is
\* a table that a resync or a backfill emptied and never pulled: its watermark
\* stays, and only another full reload brings its rows back.
NoRowIsLost ==
    \A t \in Table \ emptied, k \in Key :
        legacy[t][k] # 0 /\ legacy[t][k] <= mark[t] - Overlap =>
            raw[t][k] = legacy[t][k]

\* Raw never holds a row Postgres has not committed, nor a version it never had.
RawIsCommitted ==
    \A t \in Table, k \in Key : raw[t][k] <= legacy[t][k]

\* Only recreating its own table takes a row of raw back to an older version.
RawOnlyMovesForward ==
    [][\A t \in Table, k \in Key :
         raw'[t][k] < raw[t][k] => t \in job.fresh \ job'.fresh]_vars

\* Every committed row reaches raw, in its version or a later one, unless a full
\* reload of its table was abandoned.
EveryRowArrives ==
    \A t \in Table, k \in Key, v \in 1..MaxClock :
        legacy[t][k] = v ~> raw[t][k] >= v \/ (job = NoJob /\ t \in emptied)
=============================================================================
