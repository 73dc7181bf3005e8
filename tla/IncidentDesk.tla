---------------------------- MODULE IncidentDesk ----------------------------
(***************************************************************************)
(* The incident desk (src/platform_ops/incidents/desk.py) on its Postgres  *)
(* store: every ingest records the invocations it has not seen, regroups   *)
(* the whole run they belong to, opens, appends to, merges, resolves and   *)
(* reopens incidents, raises the ones open too long, and queues the        *)
(* messages. One ingest is one transaction that holds the store's lock, so *)
(* it is one action here. Sending the queued messages is a transaction of  *)
(* its own, modelled in NotificationOutbox.                                *)
(*                                                                         *)
(* A run is every invocation ingested with its run id. The environment is  *)
(* what dbt reported (outcome, fixed before the first ingest) and the      *)
(* order in which the target folders reach the desk: any order within a    *)
(* run, and between runs any order that Predecessors allows.               *)
(***************************************************************************)
EXTENDS Lineage, Sequences

CONSTANTS
    Test, Source,     \* the nodes that are tests, and the sources; the others are models
    Subject,          \* test_subject: the node a failing check is about
    Dataset,          \* dataset_of: the model a test that is a root stands for
    TestsOf,          \* the tests of a model or source
    Run, NoRun,
    Invocation,
    Target,           \* calls of the desk: [run, files], files the results left in the folder
    Predecessors,     \* the runs whose every call comes before a run's first
    At,               \* when an invocation detected its failures
    Outcomes,         \* what the invocations may report: [Invocation -> [Node -> Status]]
    Person, Owner, Backup, NoBackup, MaxOpenPerPerson,
    Scored,           \* the severity a root scores by lineage; 1 is SEV1
    AfterHours,       \* how long an incident may stay at a severity
    OpenWindows       \* the calendar windows open at a time for what is below a root

Status == {"none", "ok", "warn", "bad", "skipped"}
Severity == 1..3
Times == {At[i] : i \in Invocation}
Reason == {<<"overdue", s>> : s \in Severity} \cup
          UNION {{w[k] : k \in DOMAIN w} :
                    w \in {OpenWindows[n][at] : n \in Node, at \in Times}}

ASSUME DeskAssumption ==
    /\ Test \subseteq Node /\ Source \subseteq Node
    /\ Subject \in [Node -> Node] /\ Dataset \in [Node -> Node]
    /\ \A n \in Node \ Test : Subject[n] = n /\ Dataset[n] = n
    /\ TestsOf \in [Node -> SUBSET Test]
    /\ NoRun \notin Run
    /\ Target \subseteq [run : Run, files : (SUBSET Invocation) \ {{}}]
    /\ Predecessors \in [Run -> SUBSET Run]
    /\ At \in [Invocation -> Nat]
    /\ Outcomes \subseteq [Invocation -> [Node -> Status]]
    /\ Owner \in [Node -> Person] /\ Backup \in [Node -> Person \cup {NoBackup}]
    /\ MaxOpenPerPerson \in Nat
    /\ Scored \in [Node -> Severity]
    /\ AfterHours \in [Severity -> Nat]
    /\ OpenWindows \in [Node -> [Times -> Seq({"window"} \X Nat)]]

\* A folder holds finitely many files, and the policy names a window once.
ASSUME PolicyAssumption ==
    /\ IsFiniteSet(Invocation)
    /\ \A n \in Node, at \in Times :
          LET windows == OpenWindows[n][at]
          IN  \A j, k \in DOMAIN windows : windows[j] = windows[k] => j = k

VARIABLES
    outcome,     \* what each invocation reported
    attempted,   \* the calls made so far
    lost,        \* the calls whose transaction rolled back on the unique index
    ranBy,       \* incident_invocations: the run an invocation was ingested for
    incidents,   \* the incidents table, by seq
    eventOf,     \* incident_check_events: the incident of a run's failing check, 0 for none
    linkedAt,    \* incident_run_links.at of a run's links
    shared,      \* incident_shared_nodes: a run's (incident, failed node) pairs
    escalations, \* incident_escalations
    notes,       \* incident_notifications
    atStart      \* history: the incidents before a run's first ingest

vars == <<outcome, attempted, lost, ranBy, incidents, eventOf, linkedAt, shared,
          escalations, notes, atStart>>

Incident ==
    [root : Node, openedAt : Nat, openedBy : Run, resolvedAt : Nat,
     resolvedBy : Run \cup {NoRun}, mergedInto : Nat, paged : Person,
     severity : Severity]

Live(inc) == inc.mergedInto = 0
Open(inc) == Live(inc) /\ inc.resolvedBy = NoRun

Latest(T) == CHOOSE t \in T : \A u \in T : u <= t
First(S) == CHOOSE i \in S : \A j \in S : i <= j

-----------------------------------------------------------------------------
(* What a run has reported so far, given which invocations are in.         *)

Reported(run, ran, n) == {outcome[i][n] : i \in {j \in Invocation : ran[j] = run}}

\* A node reported twice in a run (a retry) counts by its worst status.
Worst(run, ran, n) ==
    LET said == Reported(run, ran, n)
    IN  CASE "bad" \in said  -> "bad"
          [] "bad" \notin said /\ "warn" \in said -> "warn"
          [] said \cap {"bad", "warn"} = {} /\ "ok" \in said -> "ok"
          [] OTHER -> "none"

\* One ingest's view of its run: the incidents it starts from, every failing
\* check of the run, and the root of every failed node.
View(incs, run, at, ran) ==
    LET failing == {n \in Node : "bad" \in Reported(run, ran, n)}
    IN  [incs |-> incs, run |-> run, at |-> at,
         status |-> [n \in Node |-> Worst(run, ran, n)],
         events |-> failing,
         rootOf |-> RootOf({Subject[n] : n \in failing})]

Roots(v) == {v.rootOf[n] : n \in DOMAIN v.rootOf}
FailedNodes(v, root) == {n \in DOMAIN v.rootOf : v.rootOf[n] = root}

\* Did the run check the node at all, whatever it found?
Covered(v, n) == v.status[n] # "none" \/ v.status[Dataset[n]] # "none"

\* Did the run cover the root and find it healthy?
Healthy(v, root) ==
    LET ran == {t \in TestsOf[Dataset[root]] : v.status[t] # "none"}
        tested == /\ TestsOf[Dataset[root]] = {} \/ ran # {}
                  /\ \A t \in ran : v.status[t] = "ok"
    IN  \/ root \in Source /\ v.status[root] \in {"ok", "warn"} /\ tested
        \/ root \in Test /\ v.status[root] = "ok"
        \/ root \in Node \ (Source \cup Test) /\ v.status[root] = "ok" /\ tested

-----------------------------------------------------------------------------
(* Matching the run's roots to incidents.                                  *)

\* Mutants of Before: without the filter on resolutions, and without the incidents an
\* earlier invocation of the run resolved.
BeforeAnyResolution(v) ==
    {i \in DOMAIN v.incs : /\ Live(v.incs[i]) /\ v.incs[i].openedBy # v.run
                           /\ v.incs[i].openedAt <= v.at}
BeforeUnresolvedOnly(v) ==
    {i \in DOMAIN v.incs : /\ Open(v.incs[i]) /\ v.incs[i].openedBy # v.run
                           /\ v.incs[i].openedAt <= v.at}
\* The incidents of other runs that this run may append to or resolve.
Before(v) ==
    {i \in DOMAIN v.incs :
        /\ Live(v.incs[i])
        /\ v.incs[i].openedBy # v.run
        /\ v.incs[i].openedAt <= v.at
        /\ v.incs[i].resolvedBy \in {NoRun, v.run}}

\* Mutant of Mine: the run's own incidents told by the time they were opened.
MineByTime(v) == {i \in DOMAIN v.incs : Live(v.incs[i]) /\ v.incs[i].openedAt = v.at}

Mine(v) == {i \in DOMAIN v.incs : Live(v.incs[i]) /\ v.incs[i].openedBy = v.run}

\* The incident a root's failures belong to, 0 when they need a new one.
Match(v, root) ==
    LET before == Before(v)
        rules == <<{i \in before : v.incs[i].root = root},
                   {i \in before : v.incs[i].root \in FailedNodes(v, root)},
                   {i \in before : root \in Above[v.incs[i].root]},
                   {i \in before : /\ v.incs[i].root \in Above[root]
                                   /\ ~Covered(v, v.incs[i].root)},
                   {i \in Mine(v) : v.incs[i].root = root}>>
        fitting == {k \in DOMAIN rules : rules[k] # {}}
    IN  IF fitting = {} THEN 0 ELSE First(rules[First(fitting)])

\* Every root's incident; the unmatched roots get the next numbers, in order.
Assignment(v) ==
    LET match == [r \in Roots(v) |-> Match(v, r)]
        new == {r \in Roots(v) : match[r] = 0}
    IN  [r \in Roots(v) |->
            IF r \in new
            THEN Len(v.incs) + Cardinality({n \in new : Rank[n] <= Rank[r]})
            ELSE match[r]]

\* The incident that is opened, appended to or kept for some root.
Taken(v, assigned) == {assigned[r] : r \in Roots(v)}
Opened(v, assigned) == {r \in Roots(v) : assigned[r] > Len(v.incs)}
Appended(v, assigned) == Taken(v, assigned) \cap Before(v)
\* Mutant of Merged: an own incident that is kept counts as one to merge.
MergedKept(v, assigned) == Mine(v) \ Appended(v, assigned)

Merged(v, assigned) == Mine(v) \ Taken(v, assigned)

\* Who is paged for each new incident: the owner of its root, or the backup
\* when the owner already holds enough open incidents. Roots are taken in
\* order, so an incident opened or reopened for an earlier root counts.
Paged(v, assigned) ==
    LET new == Opened(v, assigned)
        reopenedBefore(r) ==
            {i \in Appended(v, assigned) :
                \E q \in Roots(v) : assigned[q] = i /\ Rank[q] < Rank[r]}
        busy(r) ==
            {i \in DOMAIN v.incs :
                /\ Live(v.incs[i]) /\ v.incs[i].paged = Owner[r]
                /\ \/ v.incs[i].resolvedBy = NoRun
                   \/ v.incs[i].resolvedAt > v.at
                   \/ i \in reopenedBefore(r)}
        who[r \in new] ==
            LET earlier == {q \in new : Rank[q] < Rank[r] /\ who[q] = Owner[r]}
                load == Cardinality(busy(r)) + Cardinality(earlier)
            IN  IF Backup[r] # NoBackup /\ load >= MaxOpenPerPerson
                THEN Backup[r] ELSE Owner[r]
    IN  [r \in new |-> who[r]]

-----------------------------------------------------------------------------
(* The incidents after the run is regrouped, before any is raised.         *)

Reopen(inc) == [inc EXCEPT !.resolvedAt = 0, !.resolvedBy = NoRun]

NewIncident(v, root, person) ==
    [root |-> root, openedAt |-> v.at, openedBy |-> v.run, resolvedAt |-> 0,
     resolvedBy |-> NoRun, mergedInto |-> 0, paged |-> person,
     severity |-> Scored[root]]

\* Mutant of Settle: a resolution is not taken back by later bad evidence.
SettleOnce(v, inc) ==
    IF ~Healthy(v, inc.root) \/ inc.resolvedBy = v.run THEN inc
    ELSE [inc EXCEPT !.resolvedAt = v.at, !.resolvedBy = v.run]

\* An incident of another run that no root of this run matched.
Settle(v, inc) ==
    IF ~Healthy(v, inc.root) THEN Reopen(inc)
    ELSE IF inc.resolvedBy = v.run THEN inc
    ELSE [inc EXCEPT !.resolvedAt = v.at, !.resolvedBy = v.run]

Regrouped(v, assigned) ==
    LET paged == Paged(v, assigned)
        rootOfNew(i) == CHOOSE r \in Opened(v, assigned) : assigned[r] = i
        now(i) == v.incs[i]
    IN  [i \in 1..(Len(v.incs) + Cardinality(Opened(v, assigned))) |->
            IF i > Len(v.incs) THEN NewIncident(v, rootOfNew(i), paged[rootOfNew(i)])
            ELSE IF i \in Appended(v, assigned) THEN Reopen(now(i))
            ELSE IF i \in Merged(v, assigned)
                 THEN [now(i) EXCEPT !.mergedInto = assigned[v.rootOf[now(i).root]]]
            ELSE IF i \in Before(v) THEN Settle(v, now(i))
            ELSE now(i)]

\* Mutant of SharedRows: the root a node is counted under is left out.
SharedRowsOfOthers(v, assigned) ==
    LET above == SharedBy(v.rootOf)
    IN  UNION {{<<assigned[r], n>> : r \in above[n] \ {v.rootOf[n]}} : n \in DOMAIN above}

\* A failed node below several roots is shown under each of their incidents.
SharedRows(v, assigned) ==
    LET above == SharedBy(v.rootOf)
    IN  UNION {{<<assigned[r], n>> : r \in above[n]} : n \in DOMAIN above}

\* The incidents this ingest resolves (an incident it had resolved already
\* for an earlier invocation of the run is not resolved again).
Resolved(v, assigned) ==
    {i \in Before(v) \ Taken(v, assigned) :
        Healthy(v, v.incs[i].root) /\ v.incs[i].resolvedBy # v.run}

\* Whether some statement breaks the unique index of one open incident per
\* root: an insert or a reopening while another incident is open on the root.
\* Roots are inserted or reopened before the resolutions of the same ingest.
BreaksUniqueIndex(v, assigned) ==
    LET after == Regrouped(v, assigned)
        raised == {i \in DOMAIN after :
                     \/ i > Len(v.incs)
                     \/ i \in Appended(v, assigned) /\ v.incs[i].resolvedBy = v.run}
    IN  \/ \E i \in raised, j \in DOMAIN v.incs :
             i # j /\ Open(v.incs[j]) /\ v.incs[j].root = after[i].root
        \/ \E i, j \in DOMAIN after :
             i # j /\ Open(after[i]) /\ Open(after[j]) /\ after[i].root = after[j].root

-----------------------------------------------------------------------------
(* Raising the incidents open too long, or that a calendar window covers.  *)

\* Mutant of Due: how long an incident is open is counted from its start.
DueSinceOpened(i, inc, at) ==
    LET done == {e \in escalations : e.inc = i}
        windows == OpenWindows[inc.root][at]
    IN  (IF at >= inc.openedAt + AfterHours[inc.severity]
             /\ <<"overdue", inc.severity>> \notin {e.reason : e \in done} THEN {0} ELSE {})
        \cup {k \in DOMAIN windows : windows[k] \notin {e.reason : e \in done}}

\* The reasons to raise an incident, by the order they are tried in: 0 when it is overdue,
\* k for the k-th open window that has not raised it yet.
Due(i, inc, at) ==
    LET done == {e \in escalations : e.inc = i}
        since == Latest({inc.openedAt} \cup {e.at : e \in done})
        windows == OpenWindows[inc.root][at]
    IN  (IF at >= since + AfterHours[inc.severity] THEN {0} ELSE {})
        \cup {k \in DOMAIN windows : windows[k] \notin {e.reason : e \in done}}

ReasonOf(inc, at, k) == IF k = 0 THEN <<"overdue", inc.severity>> ELSE OpenWindows[inc.root][at][k]

\* The reasons that do raise an open incident, by one level each, SEV1 the last.
Raises(i, inc, at) ==
    {k \in Due(i, inc, at) :
        /\ Open(inc) /\ inc.openedAt <= at
        /\ Cardinality({j \in Due(i, inc, at) : j <= k}) < inc.severity}

Escalated(incs, at) ==
    [i \in DOMAIN incs |->
        [incs[i] EXCEPT !.severity = @ - Cardinality(Raises(i, incs[i], at))]]

RaisedRows(incs, run, at) ==
    UNION {{[inc |-> i, run |-> run, at |-> at, reason |-> ReasonOf(incs[i], at, k)] :
                k \in Raises(i, incs[i], at)} : i \in DOMAIN incs}

-----------------------------------------------------------------------------
(* The messages of one ingest. The primary key is the incident, the kind   *)
(* and the run: a second message with the same key is dropped.             *)

Note(i, kind, run, text) == [inc |-> i, kind |-> kind, run |-> run, text |-> text]

\* Mutant of SameKey: a message once per incident and kind, not per run.
SameKeyAnyRun(m, n) == m.inc = n.inc /\ m.kind = n.kind

SameKey(m, n) == m.inc = n.inc /\ m.kind = n.kind /\ m.run = n.run

Messages(v, assigned, incs) ==
    {Note(assigned[r], "page", v.run, <<>>) : r \in Opened(v, assigned)} \cup
    {Note(i, "update", v.run, <<>>) : i \in Appended(v, assigned)} \cup
    {Note(i, "resolved", v.run, <<>>) : i \in Resolved(v, assigned)} \cup
    {Note(i, "escalation", v.run, ReasonOf(incs[i], v.at, First(Raises(i, incs[i], v.at)))) :
        i \in {j \in DOMAIN incs : Raises(j, incs[j], v.at) # {}}}

Queue(queued, new) == queued \cup {m \in new : \A n \in queued : ~SameKey(m, n)}

-----------------------------------------------------------------------------
(* One call of the desk.                                                   *)

\* The call has not been made and comes after its run's predecessors.
Arrives(t) ==
    /\ t \in Target \ attempted
    /\ \A u \in Target : u.run \in Predecessors[t.run] => u \in attempted

Fresh(t) == {i \in t.files : ranBy[i] = NoRun}
Ran(t) == [i \in Invocation |-> IF i \in Fresh(t) THEN t.run ELSE ranBy[i]]
Detected(t) == Latest({At[i] : i \in Fresh(t)})

ViewOf(t) == View(incidents, t.run, Detected(t), Ran(t))

\* Every file is known: the desk returns before it regroups or sends anything.
IngestNothingNew(t) ==
    /\ Arrives(t)
    /\ Fresh(t) = {}
    /\ attempted' = attempted \cup {t}
    /\ UNCHANGED <<outcome, lost, ranBy, incidents, eventOf, linkedAt, shared,
                   escalations, notes, atStart>>

Ingest(t) ==
    /\ Arrives(t)
    /\ Fresh(t) # {}
    /\ LET v == ViewOf(t)
           assigned == Assignment(v)
           after == Regrouped(v, assigned)
       IN  /\ ~BreaksUniqueIndex(v, assigned)
           /\ incidents' = Escalated(after, v.at)
           /\ escalations' = escalations \cup RaisedRows(after, v.run, v.at)
           /\ notes' = Queue(notes, Messages(v, assigned, after))
           /\ eventOf' = [eventOf EXCEPT ![t.run] =
                 [n \in Node |-> IF n \in v.events
                                 THEN assigned[v.rootOf[Subject[n]]] ELSE 0]]
           /\ linkedAt' = [linkedAt EXCEPT ![t.run] = v.at]
           /\ shared' = [shared EXCEPT ![t.run] = SharedRows(v, assigned)]
    /\ ranBy' = Ran(t)
    /\ attempted' = attempted \cup {t}
    /\ atStart' = IF \E i \in Invocation : ranBy[i] = t.run THEN atStart
                  ELSE [atStart EXCEPT ![t.run] = incidents]
    /\ UNCHANGED <<outcome, lost>>

\* The unique index refuses a statement: the transaction rolls back, the hook
\* logs the error, and nothing tries again.
IngestRollsBack(t) ==
    /\ Arrives(t)
    /\ Fresh(t) # {}
    /\ BreaksUniqueIndex(ViewOf(t), Assignment(ViewOf(t)))
    /\ attempted' = attempted \cup {t}
    /\ lost' = lost \cup {t}
    /\ UNCHANGED <<outcome, ranBy, incidents, eventOf, linkedAt, shared, escalations,
                   notes, atStart>>

Init ==
    /\ outcome \in Outcomes
    /\ attempted = {} /\ lost = {}
    /\ ranBy = [i \in Invocation |-> NoRun]
    /\ incidents = <<>>
    /\ eventOf = [r \in Run |-> [n \in Node |-> 0]]
    /\ linkedAt = [r \in Run |-> 0]
    /\ shared = [r \in Run |-> {}]
    /\ escalations = {} /\ notes = {}
    /\ atStart = [r \in Run |-> <<>>]

Next == \E t \in Target : IngestNothingNew(t) \/ Ingest(t) \/ IngestRollsBack(t)

Spec == Init /\ [][Next]_vars

-----------------------------------------------------------------------------
(* Properties of the tables.                                               *)

IncidentIds == DOMAIN incidents

\* The rows the store holds have their types (store.py, MIGRATIONS).
TypeOK ==
    /\ outcome \in Outcomes
    /\ attempted \subseteq Target /\ lost \subseteq attempted
    /\ ranBy \in [Invocation -> Run \cup {NoRun}]
    /\ incidents \in Seq(Incident)
    /\ eventOf \in [Run -> [Node -> Nat]]
    /\ linkedAt \in [Run -> Nat]
    /\ shared \in [Run -> SUBSET (Nat \X Node)]
    /\ atStart \in [Run -> Seq(Incident)]

\* A resolution is evidence about the incident as it then was: it is not older
\* than the incident, and it comes from another run than the one that opened
\* it (desk.py, the filter on opened_at and opened_by_run in _regroup).
ResolvedByALaterRun ==
    \A i \in IncidentIds : incidents[i].resolvedBy # NoRun =>
        /\ incidents[i].resolvedBy # incidents[i].openedBy
        /\ incidents[i].openedAt <= incidents[i].resolvedAt

\* A merged incident leads, through the incidents it was merged into, to a live
\* one: merging never makes a cycle and never strands a failure.
MergesEndLive ==
    \A i \in IncidentIds :
        LET after[k \in 0..Len(incidents)] ==
                IF k = 0 THEN i
                ELSE LET j == after[k - 1]
                     IN  IF Live(incidents[j]) THEN j ELSE incidents[j].mergedInto
        IN  Live(incidents[after[Len(incidents)]])

\* An incident stays resolved only while everything its resolving run reported, the
\* invocations that came later included, shows the root healthy; of a run none of whose
\* evidence is older than the incident, since such a piece is not held against it. And
\* whatever its age, a failing check and the resolution of its incident are never of one run.
ResolvedIsHealthy ==
    /\ \A i \in IncidentIds :
          LET r == incidents[i].resolvedBy
          IN  /\ Live(incidents[i]) /\ r # NoRun
              /\ \A j \in Invocation : ranBy[j] = r => incidents[i].openedAt <= At[j]
              => Healthy(View(<<>>, r, 0, ranBy), incidents[i].root)
    /\ \A r \in Run, n \in Node :
          eventOf[r][n] \in IncidentIds => incidents[eventOf[r][n]].resolvedBy # r

\* Nobody is left uninformed: each failing check that a run's invocations reported
\* is in an incident that has told someone about that run by its page or an
\* update, an incident is paged once, and every resolution in force has its message.
EveryFailureIsAnnounced ==
    /\ \A r \in Run, n \in Node :
          IF "bad" \in Reported(r, ranBy, n)
          THEN \E m \in notes : /\ m.inc = eventOf[r][n] /\ m.inc \in IncidentIds
                                /\ m.run = r /\ m.kind \in {"page", "update"}
          ELSE eventOf[r][n] = 0
    /\ \A i \in IncidentIds :
          /\ Cardinality({m \in notes : m.inc = i /\ m.kind = "page"}) = 1
          /\ incidents[i].resolvedBy # NoRun =>
                \E m \in notes :
                    m.inc = i /\ m.kind = "resolved" /\ m.run = incidents[i].resolvedBy

\* An incident's severity is what lineage scored less one level for each raise in
\* incident_escalations, whatever was merged, resolved or reopened between.
RaisesExplainSeverity ==
    \A i \in IncidentIds :
        incidents[i].severity =
            Scored[incidents[i].root] - Cardinality({e \in escalations : e.inc = i})

-----------------------------------------------------------------------------
(* One build, whatever the split and the order of its invocations.         *)

\* The run being ingested: no run that must follow it has started.
Current(r) ==
    /\ \E i \in Invocation : ranBy[i] = r
    /\ \A q \in Run, i \in Invocation : r \in Predecessors[q] => ranBy[i] # q

\* Everything the run has reported, ingested at once on the store it started from:
\* it is detected when the last of it was.
OneBuild(r) == View(atStart[r], r, Latest({At[i] : i \in {j \in Invocation : ranBy[j] = r}}), ranBy)

\* The nights follow each other in time too: what the results of a run show was detected
\* after all that the folders of the runs before it held, but for files left over from them.
NightsInOrder ==
    LET earlier(r) == UNION {t.files : t \in {u \in Target : u.run \in Predecessors[r]}}
    IN  /\ \A r \in Run : r \notin Predecessors[r]
        /\ \A p, q, r \in Run :
              p \in Predecessors[q] /\ q \in Predecessors[r] => p \in Predecessors[r]
        /\ \A q, r \in Run : q # r => q \in Predecessors[r] \/ r \in Predecessors[q]
        /\ \A t \in Target : \A i \in earlier(t.run) : \A j \in t.files \ earlier(t.run) :
              At[i] < At[j]

\* A run split into invocations in any order gives the same incidents as one
\* build: the same older incidents appended to, resolved and left alone, a new
\* incident for the same roots and no other, and every failure in an incident
\* that is open (incidents/README.md, "One incident per root, across invocations").
SameIncidentsAsOneBuild ==
    \A r \in Run : Current(r) =>
        LET v == OneBuild(r)
            assigned == Assignment(v)
            built == Regrouped(v, assigned)
            old == DOMAIN atStart[r]
        IN  /\ \A n \in v.events :
                  LET a == assigned[v.rootOf[Subject[n]]]
                      i == eventOf[r][n]
                  IN  /\ Open(incidents[i])
                      /\ IF a \in old THEN i = a
                         ELSE i \notin old /\ incidents[i].root = built[a].root
            /\ \A k \in old : /\ incidents[k].resolvedBy = built[k].resolvedBy
                              /\ incidents[k].mergedInto = built[k].mergedInto
            /\ {incidents[i].root : i \in {k \in IncidentIds \ old : Live(incidents[k])}}
                  = Opened(v, assigned)

\* Every raise is sent to the person paged, with its reason.
EveryRaiseIsSent ==
    \A e \in escalations :
        Note(e.inc, "escalation", e.run, e.reason) \in notes

-----------------------------------------------------------------------------
(* What one ingest may never do.                                           *)

\* The run whose ingest this step is.
Ingesting(r) == \E t \in attempted' \ attempted : t.run = r

\* A merged incident is never touched again (history.py drops it from the record).
MergedIsFinal ==
    [][\A i \in IncidentIds : ~Live(incidents[i]) => incidents'[i] = incidents[i]]_vars

\* An overdue raise leaves the full time since the incident was opened and since every
\* raise recorded before it, however often one run, or the next, is ingested.
OverdueWaits ==
    [][\A e \in escalations' \ escalations : e.reason[1] = "overdue" =>
         \A at \in {incidents'[e.inc].openedAt} \cup {d.at : d \in {x \in escalations : x.inc = e.inc}} :
             at + AfterHours[e.reason[2]] <= e.at]_vars

\* Only the run that resolved an incident may take its resolution back; another
\* run never resolves it a second time, and it opens a new incident instead.
OnlyTheResolverReopens ==
    [][\A i \in IncidentIds :
         incidents[i].resolvedBy # NoRun /\ incidents'[i].resolvedBy # incidents[i].resolvedBy =>
            incidents'[i].resolvedBy = NoRun /\ Ingesting(incidents[i].resolvedBy)]_vars

=============================================================================
