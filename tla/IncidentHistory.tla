-------------------------- MODULE IncidentHistory --------------------------
(***************************************************************************)
(* The store of the incident desk read back as a history                   *)
(* (src/platform_ops/incidents/history.py): what the report and its grade  *)
(* show of the incidents, and one record for each run.                     *)
(***************************************************************************)
EXTENDS IncidentDesk

\* load_history: a merged incident is not in the record.
LiveIncidents == {i \in IncidentIds : Live(incidents[i])}
Recorded == {r \in Run : \E i \in Invocation : ranBy[i] = r}

\* The runs linked to an incident, and the one its links list first (by time; of links
\* with equal times, any).
LinkedRuns(i) == {r \in Run : \E n \in Node : eventOf[r][n] = i}
MayComeFirst(i, r) == r \in LinkedRuns(i) /\ \A q \in LinkedRuns(i) : linkedAt[r] <= linkedAt[q]

Below(n) == {m \in Node : n \in Above[m]}

\* What was skipped on an incident's account: the skipped nodes of its runs that are at
\* or below its dataset.
Skipped(i) ==
    (Below(Dataset[incidents[i].root]) \cup {Dataset[incidents[i].root]})
        \cap UNION {{n \in Node : "skipped" \in Reported(r, ranBy, n)} : r \in LinkedRuns(i)}

\* RunRecord: the incidents the run is said to have opened, and the ones it appended to.
OpenedIn(r) == {i \in LiveIncidents : MayComeFirst(i, r)}
AppendedIn(r) == {i \in LiveIncidents : r \in LinkedRuns(i)} \ OpenedIn(r)

\* Nothing is built from a test.
TestsAreLeaves == \A e \in Edge : e[1] \notin Test

\* The record of the nights is right, whatever order their pieces came in: no piece is
\* missing from it, every incident counts as opened in the run that opened it and in no
\* other, a run that failed appears in an incident, and, where the run only opened
\* incidents, every node that a failure above it skipped is shown under one of them. (In a
\* run appended to an older incident rooted lower down, the nodes skipped beside that
\* incident are not shown: history.py:183 looks only below its dataset.)
TheRecordAddsUp ==
    /\ lost = {}
    /\ \A i \in LiveIncidents, r \in Run : i \in OpenedIn(r) <=> incidents[i].openedBy = r
    /\ \A r \in Recorded :
          LET failed == {n \in Node : "bad" \in Reported(r, ranBy, n)}
              skipped == {n \in Node : "skipped" \in Reported(r, ranBy, n)}
          IN  /\ failed # {} => OpenedIn(r) \cup AppendedIn(r) # {}
              /\ AppendedIn(r) = {} =>
                    \A n \in skipped : Above[n] \cap failed # {} =>
                        \E i \in OpenedIn(r) : n \in Skipped(i)
=============================================================================
