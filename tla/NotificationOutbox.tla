------------------------- MODULE NotificationOutbox -------------------------
(***************************************************************************)
(* The two transactions of an ingest and the messages between them         *)
(* (ingest_target and _deliver in src/platform_ops/incidents/desk.py,      *)
(* deliver in notify.py, transaction in store.py).                         *)
(*                                                                         *)
(* Several calls run at once (Airflow's hook calls the desk after every    *)
(* task). The first transaction holds the store's lock, records the        *)
(* artifacts and queues their messages; the second takes the lock again,   *)
(* sends everything still undelivered, whoever queued it, and records how  *)
(* each message went. Between and during them the process may die, and a   *)
(* channel may raise an error that deliver does not catch. A call that     *)
(* died may be made again: its artifacts are then known.                   *)
(***************************************************************************)
EXTENDS Naturals, FiniteSets

CONSTANTS
    Call, NoCall,
    Artifact,
    ArtifactOf,   \* the artifact a call finds in its target folder
    Message,
    Queues,       \* the messages ingesting an artifact queues
    Channel,      \* the channels whose token is set
    Homeless,     \* the messages whose team is unknown: local whatever the channels
    Addressed,    \* whether a message's team has an address on a channel
    MaxBreaks     \* bound: how often a process dies or a channel raises

ASSUME OutboxAssumption ==
    /\ NoCall \notin Call
    /\ ArtifactOf \in [Call -> Artifact]
    /\ Queues \in [Artifact -> SUBSET Message]
    /\ \A a, b \in Artifact : a # b => Queues[a] \cap Queues[b] = {}
    /\ Homeless \subseteq Message
    /\ Addressed \in [Message -> [Channel -> BOOLEAN]]
    /\ MaxBreaks \in Nat

VARIABLES
    pc,        \* where each call is
    lock,      \* the call whose transaction holds the advisory lock
    known,     \* incident_invocations: the artifacts ingested
    row,       \* incident_notifications: absent, queued (delivered IS NULL), recorded
    how,       \* ... and its delivered column, per channel
    batch,     \* the rows the delivering call selected and has not sent yet
    marked,    \* its updates of delivered, not committed yet
    attempts,  \* how often a message was handed to the channels
    received,  \* how often a team's chat took a message
    breaks     \* how often something broke

vars == <<pc, lock, known, row, how, batch, marked, attempts, received, breaks>>

Outcome == {"sent", "no address", "failed"}
Local == [ch \in {} |-> "sent"]
Steps == {"idle", "ingesting", "committed", "delivering", "done", "dead", "raised"}

Init ==
    /\ pc = [c \in Call |-> "idle"]
    /\ lock = NoCall
    /\ known = {}
    /\ row = [m \in Message |-> "absent"]
    /\ how = [m \in Message |-> Local]
    /\ batch = {} /\ marked = [m \in {} |-> Local]
    /\ attempts = [m \in Message |-> 0]
    /\ received = [m \in Message |-> [ch \in Channel |-> 0]]
    /\ breaks = 0

Goto(c, step) == pc' = [pc EXCEPT ![c] = step]

TakeLock(c) == lock = NoCall /\ lock' = c
DropLock(c) == lock = c /\ lock' = NoCall

\* The target's files are read before the lock is taken, what is known after.
BeginIngest(c) ==
    /\ pc[c] = "idle"
    /\ TakeLock(c)
    /\ Goto(c, "ingesting")
    /\ UNCHANGED <<known, row, how, batch, marked, attempts, received, breaks>>

\* Mutant of CommitIngest: an artifact ingested already is recorded once more.
CommitIngestAgain(c) ==
    /\ pc[c] = "ingesting"
    /\ known' = known \cup {ArtifactOf[c]}
    /\ row' = [m \in Message |-> IF m \in Queues[ArtifactOf[c]] THEN "queued" ELSE row[m]]
    /\ DropLock(c)
    /\ Goto(c, "committed")
    /\ UNCHANGED <<how, batch, marked, attempts, received, breaks>>

CommitIngest(c) ==
    /\ pc[c] = "ingesting"
    /\ ArtifactOf[c] \notin known
    /\ known' = known \cup {ArtifactOf[c]}
    /\ row' = [m \in Message |-> IF m \in Queues[ArtifactOf[c]] THEN "queued" ELSE row[m]]
    /\ DropLock(c)
    /\ Goto(c, "committed")
    /\ UNCHANGED <<how, batch, marked, attempts, received, breaks>>

\* Nothing fresh: return at once, without a delivery pass.
ReturnEarly(c) ==
    /\ pc[c] = "ingesting"
    /\ ArtifactOf[c] \in known
    /\ DropLock(c)
    /\ Goto(c, "done")
    /\ UNCHANGED <<known, row, how, batch, marked, attempts, received, breaks>>

\* Mutant of BeginDelivery: only the messages this call queued.
BeginDeliveryOfOwn(c) ==
    /\ pc[c] = "committed"
    /\ TakeLock(c)
    /\ batch' = {m \in Queues[ArtifactOf[c]] : row[m] = "queued"}
    /\ marked' = [m \in {} |-> Local]
    /\ Goto(c, "delivering")
    /\ UNCHANGED <<known, row, how, attempts, received, breaks>>

BeginDelivery(c) ==
    /\ pc[c] = "committed"
    /\ TakeLock(c)
    /\ batch' = {m \in Message : row[m] = "queued"}
    /\ marked' = [m \in {} |-> Local]
    /\ Goto(c, "delivering")
    /\ UNCHANGED <<known, row, how, attempts, received, breaks>>

\* What deliver may return for a message. Without a channel, or without a team,
\* it is local. A failure the channel reports is recorded, and the chat may have
\* taken the message all the same (the answer timed out).
Deliveries(m) ==
    IF m \in Homeless THEN {Local}
    ELSE {o \in [Channel -> Outcome] :
            \A ch \in Channel : (o[ch] = "no address") = ~Addressed[m][ch]}

Takes(m, got) == [received EXCEPT ![m] = [ch \in Channel |->
                     received[m][ch] + (IF ch \in got THEN 1 ELSE 0)]]

Send(c, m) ==
    /\ pc[c] = "delivering"
    /\ m \in batch
    /\ \E o \in Deliveries(m) : \E late \in SUBSET {ch \in DOMAIN o : o[ch] = "failed"} :
         /\ marked' = [n \in DOMAIN marked \cup {m} |-> IF n = m THEN o ELSE marked[n]]
         /\ received' = Takes(m, {ch \in DOMAIN o : o[ch] = "sent"} \cup late)
    /\ batch' = batch \ {m}
    /\ attempts' = [attempts EXCEPT ![m] = @ + 1]
    /\ UNCHANGED <<pc, lock, known, row, how, breaks>>

\* Mutant of CommitDelivery: a message no channel took stays undelivered.
CommitDeliveryOfSent(c) ==
    /\ pc[c] = "delivering" /\ batch = {}
    /\ row' = [m \in Message |-> IF m \in DOMAIN marked /\ marked[m] # Local
                                 THEN "recorded" ELSE row[m]]
    /\ how' = [m \in Message |-> IF m \in DOMAIN marked THEN marked[m] ELSE how[m]]
    /\ marked' = [m \in {} |-> Local]
    /\ DropLock(c)
    /\ Goto(c, "done")
    /\ UNCHANGED <<known, batch, attempts, received, breaks>>

CommitDelivery(c) ==
    /\ pc[c] = "delivering"
    /\ batch = {}
    /\ row' = [m \in Message |-> IF m \in DOMAIN marked THEN "recorded" ELSE row[m]]
    /\ how' = [m \in Message |-> IF m \in DOMAIN marked THEN marked[m] ELSE how[m]]
    /\ marked' = [m \in {} |-> Local]
    /\ DropLock(c)
    /\ Goto(c, "done")
    /\ UNCHANGED <<known, batch, attempts, received, breaks>>

\* The connection closes: the transaction rolls back, the lock is released, and
\* what was already sent stays sent.
RollBack(c) ==
    /\ lock' = IF lock = c THEN NoCall ELSE lock
    /\ batch' = IF pc[c] = "delivering" THEN {} ELSE batch
    /\ marked' = IF pc[c] = "delivering" THEN [m \in {} |-> Local] ELSE marked
    /\ breaks < MaxBreaks /\ breaks' = breaks + 1

\* A channel raises what deliver does not catch (it catches URLError,
\* TimeoutError, RuntimeError and ValueError): a connection the server closed
\* before or inside its answer, after some channels already took the message.
SendRaises(c, m) ==
    /\ pc[c] = "delivering"
    /\ m \in batch \ Homeless
    /\ \E got \in SUBSET {ch \in Channel : Addressed[m][ch]} : received' = Takes(m, got)
    /\ \E ch \in Channel : Addressed[m][ch]
    /\ attempts' = [attempts EXCEPT ![m] = @ + 1]
    /\ RollBack(c)
    /\ Goto(c, "raised")
    /\ UNCHANGED <<known, row, how>>

Die(c) ==
    /\ pc[c] \in {"ingesting", "committed", "delivering"}
    /\ RollBack(c)
    /\ Goto(c, "dead")
    /\ UNCHANGED <<known, row, how, attempts, received>>

\* Someone makes the call again: its artifact may be known by now.
CallAgain(c) ==
    /\ pc[c] \in {"dead", "raised"}
    /\ Goto(c, "idle")
    /\ UNCHANGED <<lock, known, row, how, batch, marked, attempts, received, breaks>>

Works(c) ==
    \/ BeginIngest(c) \/ CommitIngest(c) \/ ReturnEarly(c)
    \/ BeginDelivery(c) \/ (\E m \in Message : Send(c, m)) \/ CommitDelivery(c)

Breaks(c) == (\E m \in Message : SendRaises(c, m)) \/ Die(c) \/ CallAgain(c)

Next == \E c \in Call : Works(c) \/ Breaks(c)

Spec == Init /\ [][Next]_vars

\* A call that runs goes on: it waits for the lock, which every holder gives
\* back (a commit, a rollback or a closed connection), and a send ends within
\* its timeout. Nothing obliges anyone to make a broken call again.
FairSpec == Spec /\ \A c \in Call : SF_vars(Works(c))

-----------------------------------------------------------------------------

Delivered == {Local} \cup [Channel -> Outcome]

\* The types of the store's rows and of the calls' own state.
TypeOK ==
    /\ pc \in [Call -> Steps]
    /\ lock \in Call \cup {NoCall}
    /\ known \subseteq Artifact
    /\ row \in [Message -> {"absent", "queued", "recorded"}]
    /\ how \in [Message -> Delivered]
    /\ batch \subseteq Message
    /\ DOMAIN marked \subseteq Message
    /\ marked \in [DOMAIN marked -> Delivered]
    /\ attempts \in [Message -> Nat]
    /\ received \in [Message -> [Channel -> Nat]]
    /\ breaks \in 0..MaxBreaks

\* Only the holder of the lock is inside a transaction: no two calls ingest or
\* deliver at once, after any number of deaths and repeated calls.
OneTransaction ==
    \A c \in Call : pc[c] \in {"ingesting", "delivering"} <=> lock = c

\* A message reaches a chat only when its row is committed, with the incident
\* it is about (desk.py: "a page is never sent for an incident the store does
\* not hold").
SentIsStored ==
    \A m \in Message : attempts[m] > 0 =>
        row[m] # "absent" /\ \E a \in known : m \in Queues[a]

\* A message that was sent more than once was sent again because something broke:
\* calls that overlap or repeat send nothing twice by themselves.
SentTwiceOnlyAfterABreak ==
    \A m \in Message : attempts[m] <= 1 + breaks

\* A message recorded as delivered was handed to the channels, and each channel
\* recorded as having taken it has.
RecordedWasSent ==
    \A m \in Message : row[m] = "recorded" =>
        /\ attempts[m] > 0
        /\ \A ch \in DOMAIN how[m] : how[m][ch] = "sent" => received[m][ch] > 0

\* Every send can be accounted for: its message is stored, it is not repeated
\* without a break, and what is recorded of it happened.
EverySendIsAccountedFor == SentIsStored /\ SentTwiceOnlyAfterABreak /\ RecordedWasSent

Dispatch == INSTANCE MessageDispatch WITH
    Message <- Message, row <- row, attempts <- attempts

\* The desk keeps the promise of MessageDispatch: it queues a message with its incident,
\* sends only what is queued and records only what was sent (_deliver).
ImplementsDispatch == Dispatch!Spec

\* A call that committed drains everything queued by then, the messages of
\* calls that broke before it included, unless it breaks itself.
NextPassDrains ==
    \A c \in Call, m \in Message :
        pc[c] = "committed" /\ row[m] = "queued" ~>
            row[m] = "recorded" \/ pc[c] \in {"dead", "raised"}
=============================================================================
