------------------------------ MODULE OpsStore ------------------------------
(***************************************************************************)
(* The toolkit's own results in Postgres (src/platform_ops/common/store.py *)
(* and the migrations of incidents/store.py): several processes find or    *)
(* create the database and its schema, replace their tables, bring the     *)
(* incident store up to date and let the dashboards' role in. A statement  *)
(* is a step; what a transaction did is nobody else's until it commits.    *)
(***************************************************************************)
EXTENDS Integers, Sequences, FiniteSets, Functions

CONSTANTS
    Proc,           \* processes
    NoProc,
    JobOf,          \* what each runs: "report", "ingest", "reset" or "role"
    TablesOf,       \* the tables a report replaces, in its order
    Migration,      \* the tables each released migration creates, in order
    Released,       \* how many migrations older stores may have
    MaxCalls        \* bound: how often each process is started, of every process

VARIABLES
    exists,         \* of the database and the schema: those there are
    tables,         \* the committed tables: who made it, and whether the role may read it
    applied,        \* the committed rows of incident_schema
    granted,        \* what the role was given: "login", "usage", "defaults"
    lock,           \* who holds the incidents' advisory lock
    pc, left,       \* each process's next step, and the tables it has still to replace
    made, dropped,  \* what its open transaction created and dropped
    versions,       \* the migrations its open transaction recorded
    seen,           \* the tables its GRANT found
    calls,          \* how often it was started
    missed          \* the tables that were being made while the role was let in

store == <<exists, tables, applied, granted, lock, missed>>
inside == <<left, made, dropped, versions, seen>>
storeVars == <<store, pc, inside, calls>>

IncidentTables == UNION {Migration[v] : v \in DOMAIN Migration}

\* No report replaces a table of the incident store.
ASSUME StoreAssumption ==
    /\ NoProc \notin Proc
    /\ JobOf \in [Proc -> {"report", "ingest", "reset", "role"}]
    /\ Migration \in Seq(SUBSET IncidentTables) /\ Released \in 0 .. Len(Migration)
    /\ \A p \in Proc : JobOf[p] = "report" =>
          /\ TablesOf[p] # <<>> /\ TablesOf[p] \in Seq(Range(TablesOf[p]))
          /\ Range(TablesOf[p]) \cap IncidentTables = {}

\* A database an earlier release left, at any of its versions, or no database at all.
StoreInit ==
    /\ \/ exists = {} /\ applied = {}
       \/ exists = {"database", "schema"} /\ applied \in {1 .. v : v \in 0 .. Released}
    /\ tables = [t \in UNION {Migration[v] : v \in applied} |-> [by |-> NoProc, call |-> 0, readable |-> FALSE]]
    /\ granted = {} /\ lock = NoProc /\ missed = {}
    /\ pc = [p \in Proc |-> "idle"] /\ left = [p \in Proc |-> <<>>]
    /\ made = [p \in Proc |-> <<>>]
    /\ dropped = [p \in Proc |-> {}] /\ versions = [p \in Proc |-> {}] /\ seen = [p \in Proc |-> {}]
    /\ calls = [p \in Proc |-> 0]

Goes(p, step) == pc' = [pc EXCEPT ![p] = step]

\* The end of a call, well or not: the connection is closed and its lock with it.
Closed(p) ==
    /\ Goes(p, "idle")
    /\ left' = [left EXCEPT ![p] = <<>>]
    /\ made' = [made EXCEPT ![p] = <<>>]
    /\ dropped' = [dropped EXCEPT ![p] = {}]
    /\ versions' = [versions EXCEPT ![p] = {}]
    /\ seen' = [seen EXCEPT ![p] = {}]
    /\ lock' = IF lock = p THEN NoProc ELSE lock

\* An error, or the death of the process: the server rolls its transaction back.
Fail(p) ==
    /\ pc[p] # "idle"
    /\ Closed(p)
    /\ UNCHANGED <<exists, tables, applied, granted, calls, missed>>

-----------------------------------------------------------------------------
\* ensure_ops_database: look, and create what is missing. Of two that both found the
\* database missing, the second's CREATE DATABASE is an error (Fail).
Look(p) ==
    /\ pc[p] = "idle" /\ calls[p] < MaxCalls[p]
    /\ calls' = [calls EXCEPT ![p] = @ + 1]
    /\ Goes(p, IF "database" \in exists THEN "schema" ELSE "database")
    /\ UNCHANGED <<store, inside>>

CreateDatabase(p) ==
    /\ pc[p] = "database" /\ "database" \notin exists
    /\ exists' = exists \cup {"database"}
    /\ Goes(p, "schema")
    /\ UNCHANGED <<tables, applied, granted, lock, missed, inside, calls>>

CreateSchema(p) ==
    /\ pc[p] = "schema"
    /\ exists' = exists \cup {"schema"}
    /\ Goes(p, CASE JobOf[p] = "report" -> "drop" [] JobOf[p] = "role" -> "role" [] OTHER -> "lock")
    /\ left' = [left EXCEPT ![p] = IF JobOf[p] = "report" THEN TablesOf[p] ELSE <<>>]
    /\ UNCHANGED <<tables, applied, granted, lock, missed, made, dropped, versions, seen, calls>>

-----------------------------------------------------------------------------
\* A table another transaction has dropped, created or granted is not to be touched
\* before that ends.
Held(p, t) == \E q \in Proc \ {p} : t \in dropped[q] \cup DOMAIN made[q] \cup seen[q]

\* A table created now: the role may read it when the default privileges say so.
New(p) == [by |-> p, call |-> calls[p], readable |-> "defaults" \in granted]

\* What f says, and of the rest what g says.
Over(f, g) == [x \in DOMAIN f \cup DOMAIN g |-> IF x \in DOMAIN f THEN f[x] ELSE g[x]]

\* replace_ops_table: DROP TABLE IF EXISTS ...
DropTable(p) ==
    /\ pc[p] = "drop"
    /\ LET t == Head(left[p])
       IN  /\ t \in DOMAIN tables => ~Held(p, t)
           /\ dropped' = [dropped EXCEPT ![p] = IF t \in DOMAIN tables THEN @ \cup {t} ELSE @]
    /\ Goes(p, "create")
    /\ UNCHANGED <<store, left, made, versions, seen, calls>>

\* ... CREATE TABLE, and the rows; an error (Fail) when another process's table of that
\* name was committed since nothing was found to drop.
CreateTable(p) ==
    /\ pc[p] = "create"
    /\ LET t == Head(left[p])
       IN  /\ ~Held(p, t)
           /\ t \in DOMAIN tables => t \in dropped[p]
           /\ made' = [made EXCEPT ![p] = Over([u \in {t} |-> New(p)], @)]
    /\ left' = [left EXCEPT ![p] = Tail(@)]
    /\ Goes(p, IF Len(left[p]) = 1 THEN "commit" ELSE "drop")
    /\ UNCHANGED <<store, dropped, versions, seen, calls>>

-----------------------------------------------------------------------------
\* The incident store's transaction: its lock, then the migrations it lacks.
TakeIncidentLock(p) ==
    /\ pc[p] = "lock" /\ lock = NoProc
    /\ lock' = p
    /\ Goes(p, "apply")
    /\ UNCHANGED <<exists, tables, applied, granted, missed, inside, calls>>

\* _apply; reset drops every table, the recorded versions with them, before it.
Apply(p) ==
    /\ pc[p] = "apply"
    /\ LET reset   == JobOf[p] = "reset"
           present == IF reset THEN {} ELSE applied
           lacking == {v \in DOMAIN Migration : \A w \in present : w < v}
           new     == UNION {Migration[v] : v \in lacking}
       IN  /\ \A t \in new : ~Held(p, t)
           /\ dropped' = [dropped EXCEPT ![p] = IF reset THEN DOMAIN tables \cap IncidentTables ELSE {}]
           /\ \A t \in new : t \in DOMAIN tables => t \in dropped'[p]
           /\ made' = [made EXCEPT ![p] = [t \in new |-> New(p)]]
           /\ versions' = [versions EXCEPT ![p] = present \cup lacking]
    /\ Goes(p, "commit")
    /\ UNCHANGED <<store, left, seen, calls>>

\* The transaction of a report, an ingest or a reset.
Commit(p) ==
    /\ pc[p] = "commit"
    /\ LET kept == DOMAIN tables \ dropped[p]
       IN  tables' = Over(made[p], [t \in kept |-> tables[t]])
    /\ applied' = IF JobOf[p] = "report" THEN applied ELSE versions[p]
    /\ missed' = missed \ {t \in DOMAIN made[p] : made[p][t].readable}
    /\ Closed(p)
    /\ UNCHANGED <<exists, granted, calls>>

-----------------------------------------------------------------------------
\* ensure_dashboard_role: the role, created or altered by statements that each commit;
\* it can log in after the last of them.
EnsureRole(p) ==
    /\ pc[p] = "role"
    /\ granted' = granted \cup {"login"}
    /\ Goes(p, "grant")
    /\ UNCHANGED <<exists, tables, applied, lock, missed, inside, calls>>

\* GRANT SELECT ON ALL TABLES: those that are committed now; it waits for the
\* transactions that are replacing one of them.
GrantSelect(p) ==
    /\ pc[p] = "grant"
    /\ \A t \in DOMAIN tables : ~Held(p, t)
    /\ seen' = [seen EXCEPT ![p] = DOMAIN tables]
    /\ Goes(p, "defaults")
    /\ UNCHANGED <<store, left, made, dropped, versions, calls>>

\* Every table the GRANT did not see, committed since or still being made, is left out.
LeftOut(p) == (DOMAIN tables \cup UNION {DOMAIN made[q] : q \in Proc}) \ seen[p]

Readable(p) == [t \in DOMAIN tables |-> [tables[t] EXCEPT !.readable = @ \/ t \in seen[p]]]

\* Plausible bug: no default privileges; the grant on the tables there are must do.
GrantDefaultsNone(p) ==
    /\ pc[p] = "defaults"
    /\ tables' = Readable(p)
    /\ granted' = granted \cup {"usage"}
    /\ missed' = missed \cup LeftOut(p)
    /\ Closed(p)
    /\ UNCHANGED <<exists, applied, calls>>

\* ALTER DEFAULT PRIVILEGES, and the commit of the grants.
GrantDefaults(p) ==
    /\ pc[p] = "defaults"
    /\ tables' = Readable(p)
    /\ granted' = granted \cup {"usage", "defaults"}
    /\ missed' = missed \cup {t \in LeftOut(p) : t \notin DOMAIN tables \/ ~tables[t].readable}
    /\ Closed(p)
    /\ UNCHANGED <<exists, applied, calls>>

StoreNext ==
    \E p \in Proc :
        \/ Fail(p) \/ Look(p) \/ CreateDatabase(p) \/ CreateSchema(p)
        \/ DropTable(p) \/ CreateTable(p)
        \/ TakeIncidentLock(p) \/ Apply(p) \/ Commit(p)
        \/ EnsureRole(p) \/ GrantSelect(p) \/ GrantDefaults(p)

StoreSpec == StoreInit /\ [][StoreNext]_storeVars

-----------------------------------------------------------------------------
\* Store.frame: what a page's query on some tables answers. It is missing data when the
\* role cannot log in or a table is not there, and an error when one is not readable.
Frame(asked) ==
    IF "login" \notin granted \/ ~(asked \subseteq DOMAIN tables) THEN "missing"
    ELSE IF "usage" \notin granted \/ \E t \in asked : ~tables[t].readable THEN "denied"
    ELSE "rows"

\* Once the role was let in, a page reads every table there is, also those that were
\* dropped and made anew since, but for tables that were being made for the first time
\* just then, and those only until they are replaced (ensure_dashboard_role).
PagesRead == "usage" \in granted => \A t \in DOMAIN tables \ missed : Frame({t}) = "rows"

\* The tables of one report are those of one call, never half old and half new
\* (replace_ops_table, inside open_store's transaction).
ReportsAreWhole ==
    \A p \in Proc : JobOf[p] = "report" =>
        \A t, u \in DOMAIN tables \cap Range(TablesOf[p]) :
            tables[t].by = p => /\ tables[u].by = p => tables[t].call = tables[u].call
                                /\ TablesOf[tables[u].by] = TablesOf[p] => tables[u].by = p

\* The incident store is at the version it says, with the tables of every migration up to
\* it and of no other (_apply, reset).
StoreIsAtItsVersion ==
    /\ \E v \in 0 .. Len(Migration) : applied = 1 .. v
    /\ DOMAIN tables \cap IncidentTables = UNION {Migration[v] : v \in applied}

\* All three, however the processes interleave and wherever one fails.
DashboardsReadTheStore == PagesRead /\ ReportsAreWhole /\ StoreIsAtItsVersion
=============================================================================
