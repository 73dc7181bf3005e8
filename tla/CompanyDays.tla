---------------------------- MODULE CompanyDays ----------------------------
(***************************************************************************)
(* The production weeks of the simulated company                           *)
(* (src/platform_ops/simulation/company.py, run_company): every day plants *)
(* the faults of yesterday, lands the fixes that are due and reruns what   *)
(* they cover, loads raw, runs the production night, and collects the      *)
(* fixes the desk has scheduled. The desk                                  *)
(* (src/platform_ops/incidents/production.py) is the one of IncidentDesk,  *)
(* whose operators are used here; a night and a rerun are one ingest each, *)
(* which IncidentDesk's SameIncidentsAsOneBuild justifies.                 *)
(*                                                                         *)
(* Time is counted in slots, Slots to a day; night d runs at Slots * d and *)
(* the faults of day d happen FaultSlot slots after it. An owner's answer  *)
(* (lifecycle.py) is any of the Delays after the page.                     *)
(***************************************************************************)
EXTENDS Lineage, RawFaults, Sequences, Functions

CONSTANTS
    Test, Source, Subject, Dataset, TestsOf,    \* the dbt project, as in IncidentDesk
    FaultOrder,   \* the order of the fault ids
    Schedules,    \* what may happen when: [1..Days -> SUBSET Fault]
    Days, FaultSlot,
    Delays,       \* slots from a page to the fix
    Person, Owner, Backup, NoBackup, MaxOpenPerPerson, Scored

NightOf(d) == <<"night", d>>
RerunOf(i) == <<"rerun", i>>
NoRun == <<"none", 0>>
Runs == {NightOf(d) : d \in 1..Days} \cup {RerunOf(i) : i \in 1..Cardinality(Fault) * Days}
Model == Node \ (Test \cup Source)

ASSUME CompanyAssumption ==
    /\ Days \in Nat /\ FaultSlot \in 1..(Slots - 1)
    /\ Delays \subseteq Nat \ {0}
    /\ TableOf \in [Fault -> Source] /\ DOMAIN ErrorAfter \subseteq Source
    /\ DOMAIN Sees \cup DOMAIN VolumeOf \cup DOMAIN ProfileOf \subseteq Node
    /\ FaultOrder \in [Fault -> Nat]
    /\ Schedules \subseteq [1..Days -> SUBSET Fault]

VARIABLES
    schedule,   \* Timeline.incidents
    day,        \* the day being replayed, 0 before the first
    happened,   \* what happened since the last run and is not replayed yet
    raw,        \* the raw copy of every source
    active,     \* the faults in raw
    pending,    \* the fixes that will land: [inc, tables, at]
    answered,   \* CompanyDesk._fixes: the fixes scheduled since they were collected
    incidents,  \* the incidents table of the desk
    alerts,     \* incident_check_events: how many, by the owner of what they are about
    injected,   \* incident_faults: injected_at and repaired_at, 0 for not yet
    repaired,
    landed,     \* history: the time every landed fix took effect, by incident
    pc          \* "day", "night", "done", or the error that stopped the run

vars == <<schedule, day, happened, raw, active, pending, answered, incidents, alerts,
          injected, repaired, landed, pc>>

desk == INSTANCE IncidentDesk WITH
    Run <- Runs, Invocation <- {}, Target <- {}, Predecessors <- <<>>, At <- <<>>,
    Outcomes <- {}, AfterHours <- <<>>, OpenWindows <- <<>>, outcome <- <<>>,
    attempted <- {}, lost <- {}, ranBy <- <<>>, eventOf <- <<>>, linkedAt <- <<>>,
    shared <- <<>>, escalations <- {}, notes <- {}, atStart <- <<>>

Night(d) == Slots * d
Now == Night(day)

-----------------------------------------------------------------------------
(* What dbt reports, given the raw layer.                                  *)

\* A production night: separate invocations, so a failing test stops nothing;
\* only a model that errors stops the models below it.
NightReport(copies) ==
    LET broken == Broken(copies, Now)
    IN  [n \in Node |->
            IF n \in Model /\ Above[n] \cap Model \cap broken # {} THEN "skipped"
            ELSE IF n \in broken THEN "bad" ELSE "ok"]

Below(n) == {m \in Node : n \in Above[m]}

\* rerun_commands: the root, or the model its test is attached to, and everything
\* below it, tests included.
Selected(root) == {Dataset[root]} \cup Below(Dataset[root])

\* `dbt build`: a failing test stops the models that are below all it reads.
Stops(bad, n) ==
    IF bad \in Test THEN \E m \in {n} \cup Above[n] : m \in Model /\ Parents(bad) \subseteq Above[m]
    ELSE bad \in Model /\ bad \in Above[n]

RerunReport(root, copies, at) ==
    LET chosen == Selected(root)
        failing == chosen \cap Broken(copies, at)
    IN  [n \in Node |->
            IF n \notin chosen THEN "none"
            ELSE IF \E bad \in failing : Stops(bad, n) THEN "skipped"
            ELSE IF n \in failing THEN "bad" ELSE "ok"]

-----------------------------------------------------------------------------
(* CompanyDesk.ingest: the desk ingests the run; for every incident it     *)
(* opens, the person paged schedules the fix.                              *)

ViewOf(run, at, report) ==
    LET failing == {n \in Node : report[n] = "bad"}
    IN  [incs |-> incidents, run |-> run, at |-> at, status |-> report,
         events |-> failing, rootOf |-> RootOf({Subject[n] : n \in failing})]

\* Mutant of Covers: the root's own table.
CoversRoot(root) == {root} \cap Source

\* The raw tables a fix resyncs if they are faulted: every source upstream.
Covers(root) == ({root} \cup Above[root]) \cap Source

\* What the desk knows after the ingest, and the fixes its people may schedule.
After(v) == desk!Regrouped(v, desk!Assignment(v))
FixesFor(after) ==
    LET opened == (Len(incidents) + 1)..Len(after)
    IN  {{[inc |-> i, tables |-> Covers(after[i].root), at |-> after[i].openedAt + delay[i]] :
             i \in opened} : delay \in [opened -> Delays]}

\* The unique index refuses the ingest: nothing catches the error.
Refuses(v) == desk!BreaksUniqueIndex(v, desk!Assignment(v))

Ingest(v, new) ==
    /\ ~Refuses(v)
    /\ incidents' = After(v)
    /\ alerts' = [p \in Person |-> alerts[p] + Cardinality({n \in v.events : Owner[Dataset[n]] = p})]
    /\ new \in FixesFor(After(v))

-----------------------------------------------------------------------------
(* One day.                                                                *)

FaultsOn(d) == IF d \in DOMAIN schedule THEN schedule[d] ELSE {}
FaultItems(d) ==
    {[at |-> Night(d) + FaultSlot, kind |-> "fault", fault |-> f, inc |-> 0, tables |-> {}] :
        f \in FaultsOn(d)}
Due(fixes) == {fix \in fixes : fix.at <= Night(day + 1)}
FixItem(fix) == [at |-> fix.at, kind |-> "fix", fault |-> "", inc |-> fix.inc, tables |-> fix.tables]

\* In time order; at the same time a fix comes before a fault.
Earlier(x, y) ==
    \/ x.at < y.at
    \/ x.at = y.at /\ x.kind = "fix" /\ y.kind = "fault"
    \/ x.at = y.at /\ x.kind = y.kind /\ x.inc < y.inc
    \/ x.at = y.at /\ x.kind = y.kind /\ x.kind = "fault" /\ FaultOrder[x.fault] < FaultOrder[y.fault]

\* The first thing that happened: the head of the sorted list.
IsNext(x) == x \in happened /\ \A y \in happened \ {x} : Earlier(x, y)

StartDay ==
    /\ pc = "day" /\ day < Days
    /\ day' = day + 1
    /\ happened' = FaultItems(day) \cup {FixItem(fix) : fix \in Due(pending)}
    /\ pending' = pending \ Due(pending)
    /\ pc' = "night"
    /\ UNCHANGED <<schedule, raw, active, answered, incidents, alerts, injected, repaired,
                   landed>>

PlantFault ==
    \E x \in happened :
        /\ pc = "night" /\ IsNext(x) /\ x.kind = "fault"
        /\ TableOf[x.fault] \notin {TableOf[f] : f \in active}
        /\ raw' = AfterFault(raw, x.fault)
        /\ active' = active \cup {x.fault}
        /\ injected' = [injected EXCEPT ![x.fault] = x.at]
        /\ happened' = happened \ {x}
        /\ UNCHANGED <<schedule, day, pending, answered, incidents, alerts, repaired, landed,
                       pc>>

\* A fault on a table that is faulted already stops the whole simulated run.
PlantRaises ==
    \E x \in happened :
        /\ pc = "night" /\ IsNext(x) /\ x.kind = "fault"
        /\ TableOf[x.fault] \in {TableOf[f] : f \in active}
        /\ pc' = "already faulted"
        /\ UNCHANGED <<schedule, day, happened, raw, active, pending, answered, incidents,
                       alerts, injected, repaired, landed>>

Resynced(x) == {f \in active : TableOf[f] \in x.tables}

\* Only a faulted table is resynced, up to last_load: what the latest load read.
RawAfter(x) == AfterResync(raw, {TableOf[f] : f \in Resynced(x)}, Night(day - 1))
Repaired(x) == [f \in Fault |-> IF f \in Resynced(x) THEN x.at ELSE repaired[f]]

\* Mutant of RerunView: the rerun reads raw before the resync.
RerunViewEarly(x) ==
    ViewOf(RerunOf(x.inc), x.at, RerunReport(incidents[x.inc].root, raw, x.at))

RerunView(x) ==
    ViewOf(RerunOf(x.inc), x.at, RerunReport(incidents[x.inc].root, RawAfter(x), x.at))

\* The owner's fix: the covered tables that are faulted are resynced, then the
\* incident's root and everything below it are rerun and handed to the desk.
LandFix ==
    \E x \in happened :
        /\ pc = "night" /\ IsNext(x) /\ x.kind = "fix"
        /\ \E new \in FixesFor(After(RerunView(x))) :
              Ingest(RerunView(x), new) /\ answered' = answered \cup new
        /\ raw' = RawAfter(x)
        /\ active' = active \ Resynced(x)
        /\ repaired' = Repaired(x)
        /\ landed' = landed \cup {[inc |-> x.inc, at |-> x.at]}
        /\ happened' = happened \ {x}
        /\ UNCHANGED <<schedule, day, pending, injected, pc>>

\* desk.fixes(), after the night.
Collected(new) == answered \cup new

\* The night's load, without the stopped feeds, and what dbt then reports.
Loaded == AfterLoad(raw, active, Now)
NightView == ViewOf(NightOf(day), Now, NightReport(Loaded))

\* The night itself, once everything that happened is replayed.
ProductionNight ==
    LET v == NightView
    IN  /\ pc = "night" /\ happened = {}
        /\ raw' = Loaded
        /\ \E new \in FixesFor(After(v)) :
              /\ Ingest(v, new)
              /\ pending' = pending \cup Collected(new)
              /\ answered' = (answered \cup new) \ Collected(new)
        /\ pc' = IF day = Days THEN "done" ELSE "day"
        /\ UNCHANGED <<schedule, day, happened, active, injected, repaired, landed>>

Init ==
    /\ schedule \in Schedules
    /\ day = 0 /\ pc = "day"
    /\ happened = {} /\ active = {} /\ pending = {} /\ answered = {}
    /\ raw = [t \in Source |-> [marks |-> {}, loads |-> {Night(d) : d \in (1 - UsualDays)..0},
                                nulled |-> {}]]
    /\ incidents = <<>> /\ alerts = [p \in Person |-> 0]
    /\ injected = [f \in Fault |-> 0] /\ repaired = [f \in Fault |-> 0]
    /\ landed = {}

Next == StartDay \/ PlantFault \/ PlantRaises \/ LandFix \/ ProductionNight

Spec == Init /\ [][Next]_vars

-----------------------------------------------------------------------------

Unfixed == {[inc |-> fix.inc, tables |-> fix.tables, at |-> fix.at] :
               fix \in pending \cup answered \cup {x \in happened : x.kind = "fix"}}

AfterTheNight == pc \in {"day", "done"}

\* The failing checks that read the table of a fault.
Shows(f) == {n \in Broken(raw, Now) : TableOf[f] \in {n} \cup Above[n]}
Reaches(i, f) ==
    \E n \in Shows(f) : Subject[n] \in {incidents[i].root} \cup Below(incidents[i].root)

\* After every night, every fault in raw has a fix coming: one that covers its table,
\* or one for the fault that masks it (whose rerun then shows this one). Only incidents
\* that a run opens get a fix, so a failure appended to an older incident whose fix has
\* landed already would never be repaired. The one fault without is a feed that stopped
\* and is not stale yet, when a resync has left recent_volume nothing to compare with.
NoFaultIsForgotten ==
    AfterTheNight => \A f \in active :
        \/ \E fix \in Unfixed, g \in active :
              /\ TableOf[g] \in fix.tables
              /\ IF Shows(f) = {} THEN g = f ELSE Reaches(fix.inc, f)
        \/ /\ Shows(f) = {} /\ StopsLoader(f)
           /\ Cardinality(raw[TableOf[f]].loads) <= UsualDays \div 2

\* Mutant of CausedBy: only the root itself is looked at.
CausedByRoot(i, f) ==
    /\ TableOf[f] = incidents[i].root
    /\ injected[f] # 0 /\ injected[f] <= incidents[i].openedAt
    /\ repaired[f] = 0 \/ incidents[i].openedAt <= repaired[f]

\* metrics._caused_by: the fault was in a table above the incident's root when
\* the incident was opened.
CausedBy(i, f) ==
    /\ TableOf[f] \in Covers(incidents[i].root)
    /\ injected[f] # 0 /\ injected[f] <= incidents[i].openedAt
    /\ repaired[f] = 0 \/ incidents[i].openedAt <= repaired[f]

\* metrics.read_ground_truth: the faults planted so far, with the owner of their table.
GroundTruth ==
    {[fault |-> f, source |-> TableOf[f], injected |-> injected[f], repaired |-> repaired[f],
      owner |-> Owner[TableOf[f]]] : f \in {x \in Fault : injected[x] # 0}}

\* metrics.compute, over the history the desk leaves (history.load_history).
LiveIncidents == {i \in DOMAIN incidents : desk!Live(incidents[i])}
Graded == {<<t, i>> \in GroundTruth \X LiveIncidents : CausedBy(i, t.fault)}
Unmatched == LiveIncidents \ {pair[2] : pair \in Graded}
Unresolved == {i \in LiveIncidents : desk!Open(incidents[i])}
HoursToResolve == {incidents[i].resolvedAt - incidents[i].openedAt : i \in LiveIncidents \ Unresolved}
PagesOf(p) == Cardinality({i \in DOMAIN incidents : incidents[i].paged = p})

\* ops.incident_metrics: one row per metric and dimension. A mean is kept as the sum and
\* the number of its values (over all severities).
MetricRows ==
    LET routed == {pair \in Graded : Owner[incidents[pair[2]].root] = pair[1].owner}
        detect == [pair \in Graded |-> incidents[pair[2]].openedAt - pair[1].injected]
    IN  [rawAlerts |-> SumFunction(alerts), incidents |-> Cardinality(LiveIncidents),
         pages |-> SumFunction([p \in Person |-> PagesOf(p)]), unmatched |-> Cardinality(Unmatched),
         routedToPerson |-> <<Cardinality(routed), Cardinality(Graded)>>,
         hoursToDetect |-> <<SumFunction(detect), Cardinality(Graded)>>,
         perPerson |-> [p \in {q \in Person : alerts[q] + PagesOf(q) > 0} |->
                           [before |-> alerts[p], after |-> PagesOf(p)]]]

\* ops.fault_incidents, which the incidents page joins to the incidents.
FaultIncidents == {<<pair[1].fault, pair[2]>> : pair \in Graded}

\* What is persisted agrees with itself: every incident is graded against a fault (none
\* is unmatched), although reruns land between the nights and repair tables that no
\* incident was opened for; no incident is opened before its fault or resolved before it
\* was opened, and the desk pages no more often than checks failed.
EveryIncidentHasAFault ==
    LET m == MetricRows
    IN  /\ m.unmatched = 0 /\ {pair[2] : pair \in FaultIncidents} = LiveIncidents
        /\ m.pages <= m.rawAlerts
        /\ HoursToResolve \subseteq Nat \ {0} /\ m.hoursToDetect[1] >= 0

\* Every failed node of the ingest is counted in the incident of its own root, is
\* shown under that one, and under no incident the run is not failing into.
SharedNodesAreCounted(v) ==
    LET assigned == desk!Assignment(v)
        shown == desk!SharedRows(v, assigned)
    IN  \A row \in shown : /\ <<assigned[v.rootOf[row[2]]], row[2]>> \in shown
                           /\ row[1] \in desk!Taken(v, assigned)

\* The desk takes every run of the simulation whole. The unique index refuses none
\* of them, which would stop the simulation: not even the rerun of a fix that lands
\* before the night already ingested. And the nodes it shows under several
\* incidents (a test below two broken feeds) are shown where they are counted.
EveryRunIsIngestedWhole ==
    LET whole(v) == ~Refuses(v) /\ SharedNodesAreCounted(v)
    IN  pc = "night" =>
            IF happened = {} THEN whole(NightView)
            ELSE \A x \in happened : IsNext(x) /\ x.kind = "fix" => whole(RerunView(x))

\* The rerun after a fix ends its incident then, not at the next night, unless a
\* fault that is still in raw breaks a check of its root (production.py, "resolves
\* the incident the same day"; tests/test_incidents_e2e.py:118).
FixEndsItsIncident ==
    [][\A fix \in landed' \ landed :
         LET root == incidents[fix.inc].root
         IN  ({root, Dataset[root]} \cup TestsOf[Dataset[root]]) \cap Broken(raw', fix.at) = {} =>
                ~desk!Open(incidents'[fix.inc])]_vars
=============================================================================
