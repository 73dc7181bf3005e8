---------------------- MODULE NotificationOutboxProofs ----------------------
(***************************************************************************)
(* The desk sends only what it stored, records only what it sent, sends a  *)
(* message again only after something broke, and so keeps the promise of   *)
(* MessageDispatch: for any calls, artifacts, messages, channels and any   *)
(* number of breaks.                                                       *)
(*                                                                         *)
(* What makes the properties inductive is what they say of the delivering  *)
(* call between its select and its commit: the rows it selected are still  *)
(* queued (Selection), and what it marked it has handed over (Marks).      *)
(***************************************************************************)
EXTENDS NotificationOutbox, TLAPS

\* Only the call that holds the lock delivers; the rows it selected or marked
\* are queued, and no one else has a selection.
Selection ==
    /\ \A m \in batch \cup DOMAIN marked : row[m] = "queued"
    /\ batch \cap DOMAIN marked = {}
    /\ (\A c \in Call : pc[c] # "delivering") => batch = {} /\ DOMAIN marked = {}

\* What the delivering call marked it has handed over, to every channel it says.
Marks ==
    \A m \in DOMAIN marked :
        /\ attempts[m] > 0
        /\ \A ch \in DOMAIN marked[m] : marked[m][ch] = "sent" => received[m][ch] > 0

\* The stored rows are those of the artifacts ingested, and only they were sent.
Stored ==
    \A m \in Message :
        /\ row[m] # "absent" <=> \E a \in known : m \in Queues[a]
        /\ attempts[m] > 0 => row[m] # "absent"

\* A message still to be handed over was tried once for each break at most.
Tries ==
    \A m \in Message :
        /\ attempts[m] <= 1 + breaks
        /\ row[m] = "queued" /\ m \notin DOMAIN marked => attempts[m] <= breaks

IInv ==
    /\ TypeOK /\ OneTransaction /\ Selection /\ Marks /\ Stored /\ Tries
    /\ RecordedWasSent

-----------------------------------------------------------------------------

\* The empty store, with no call started, satisfies the invariant.
LEMMA InitIInv == Init => IInv
BY OutboxAssumption
   DEF Init, IInv, TypeOK, OneTransaction, Selection, Marks, Stored, Tries,
       RecordedWasSent, Delivered, Local, Steps

\* The lock: a call holds it exactly while it is inside a transaction.
LEMMA LockKept == TypeOK /\ OneTransaction /\ [Next]_vars => OneTransaction'
<1> SUFFICES ASSUME TypeOK, OneTransaction, [Next]_vars PROVE OneTransaction'
  OBVIOUS
<1> USE OutboxAssumption DEF TypeOK, OneTransaction, Goto, TakeLock, DropLock
<1>1. ASSUME NEW c \in Call, Works(c) PROVE OneTransaction'
  BY <1>1 DEF Works, BeginIngest, CommitIngest, ReturnEarly, BeginDelivery, Send, CommitDelivery
<1>2. ASSUME NEW c \in Call, Breaks(c) PROVE OneTransaction'
  BY <1>2 DEF Breaks, SendRaises, Die, CallAgain, RollBack
<1>3. CASE UNCHANGED vars
  BY <1>3 DEF vars
<1> QED
  BY <1>1, <1>2, <1>3 DEF Next

\* A chat's counter only grows, and stays a number.
LEMMA TakesCounts ==
    ASSUME TypeOK, NEW m \in Message, NEW got
    PROVE  /\ Takes(m, got) \in [Message -> [Channel -> Nat]]
           /\ \A n \in Message, ch \in Channel : Takes(m, got)[n][ch] >= received[n][ch]
           /\ \A ch \in Channel : ch \in got => Takes(m, got)[m][ch] > 0
<1>1. received \in [Message -> [Channel -> Nat]]
  BY DEF TypeOK
<1> DEFINE new == [ch \in Channel |-> received[m][ch] + (IF ch \in got THEN 1 ELSE 0)]
<1>2. new \in [Channel -> Nat]
  BY <1>1
<1>3. Takes(m, got) = [received EXCEPT ![m] = new]
  BY DEF Takes
<1>4. \A n \in Message : Takes(m, got)[n] = IF n = m THEN new ELSE received[n]
  BY <1>1, <1>3
<1>5. \A ch \in Channel : new[ch] >= received[m][ch] /\ (ch \in got => new[ch] > 0)
  BY <1>1
<1> HIDE DEF new
<1>6. Takes(m, got) \in [Message -> [Channel -> Nat]]
  BY <1>1, <1>2, <1>3
<1>7. \A n \in Message, ch \in Channel : received[n][ch] >= received[n][ch]
  BY <1>1
<1> QED
  BY <1>4, <1>5, <1>6, <1>7

\* A message that goes nowhere is recorded with no channel at all.
LEMMA LocalIsDelivered == Local \in Delivered /\ DOMAIN Local = {}
BY DEF Local, Delivered

\* The outcome of a delivery is recorded per channel.
LEMMA DeliveriesType ==
    ASSUME NEW m \in Message, NEW o \in Deliveries(m)
    PROVE  o \in Delivered /\ DOMAIN o \subseteq Channel
BY DEF Deliveries, Delivered, Local

\* The empty selection every transaction starts from.
LEMMA NothingMarked ==
    LET none == [m \in {} |-> Local]
    IN  DOMAIN none = {} /\ none \in [DOMAIN none -> Delivered]
OBVIOUS

\* The types, one case per action.
LEMMA TypeKept == TypeOK /\ [Next]_vars => TypeOK'
<1> SUFFICES ASSUME TypeOK, [Next]_vars PROVE TypeOK'
  OBVIOUS
<1> USE OutboxAssumption DEF TypeOK, Goto, TakeLock, DropLock, Steps
<1>1. ASSUME NEW c \in Call, BeginIngest(c) PROVE TypeOK'
  BY <1>1 DEF BeginIngest
<1>2. ASSUME NEW c \in Call, CommitIngest(c) PROVE TypeOK'
  BY <1>2 DEF CommitIngest
<1>3. ASSUME NEW c \in Call, ReturnEarly(c) PROVE TypeOK'
  BY <1>3 DEF ReturnEarly
<1>4. ASSUME NEW c \in Call, BeginDelivery(c) PROVE TypeOK'
  BY <1>4, NothingMarked DEF BeginDelivery
<1>5. ASSUME NEW c \in Call, NEW m \in Message, Send(c, m) PROVE TypeOK'
  <2>1. PICK o \in Deliveries(m) : \E late \in SUBSET {ch \in DOMAIN o : o[ch] = "failed"} :
           /\ marked' = [n \in DOMAIN marked \cup {m} |-> IF n = m THEN o ELSE marked[n]]
           /\ received' = Takes(m, {ch \in DOMAIN o : o[ch] = "sent"} \cup late)
    BY <1>5 DEF Send
  <2>2. received' \in [Message -> [Channel -> Nat]]
    BY <2>1, TakesCounts
  <2>3. o \in Delivered
    BY DeliveriesType
  <2>4. marked' \in [DOMAIN marked' -> Delivered] /\ DOMAIN marked' \subseteq Message
    BY <2>1, <2>3
  <2>5. /\ attempts' \in [Message -> Nat] /\ batch' \subseteq Message
        /\ pc' = pc /\ lock' = lock /\ known' = known /\ row' = row /\ how' = how
        /\ breaks' = breaks
    BY <1>5 DEF Send
  <2> QED
    BY <2>2, <2>4, <2>5
<1>6. ASSUME NEW c \in Call, CommitDelivery(c) PROVE TypeOK'
  <2>1. how' \in [Message -> Delivered]
    BY <1>6 DEF CommitDelivery
  <2> QED
    BY <1>6, <2>1, NothingMarked DEF CommitDelivery
<1>7. ASSUME NEW c \in Call, RollBack(c)
      PROVE  /\ lock' \in Call \cup {NoCall} /\ batch' \subseteq Message /\ breaks' \in 0..MaxBreaks
             /\ DOMAIN marked' \subseteq Message /\ marked' \in [DOMAIN marked' -> Delivered]
  BY <1>7, NothingMarked DEF RollBack
<1>8. ASSUME NEW c \in Call, NEW m \in Message, SendRaises(c, m) PROVE TypeOK'
  <2>1. received' \in [Message -> [Channel -> Nat]]
    BY <1>8, TakesCounts DEF SendRaises
  <2>2. /\ attempts' \in [Message -> Nat] /\ RollBack(c) /\ pc' \in [Call -> Steps]
        /\ known' = known /\ row' = row /\ how' = how
    BY <1>8 DEF SendRaises
  <2> QED
    BY <1>7, <2>1, <2>2
<1>9. ASSUME NEW c \in Call, Die(c) PROVE TypeOK'
  BY <1>7, <1>9 DEF Die
<1>10. ASSUME NEW c \in Call, CallAgain(c) PROVE TypeOK'
  BY <1>10 DEF CallAgain
<1>11. CASE UNCHANGED vars
  BY <1>11 DEF vars
<1> QED
  BY <1>1, <1>2, <1>3, <1>4, <1>5, <1>6, <1>8, <1>9, <1>10, <1>11
     DEF Next, Works, Breaks

\* The rows a call selected stay queued until it marks them, and no message of a
\* known artifact is queued a second time.
LEMMA SelectionKept == IInv /\ [Next]_vars => Selection' /\ Stored'
<1> SUFFICES ASSUME IInv, [Next]_vars PROVE Selection' /\ Stored'
  OBVIOUS
<1> USE OutboxAssumption
<1> USE DEF IInv, TypeOK, OneTransaction, Goto, TakeLock, DropLock
<1>1. ASSUME NEW c \in Call, BeginIngest(c) \/ ReturnEarly(c) \/ CallAgain(c)
      PROVE  Selection' /\ Stored'
  BY <1>1 DEF BeginIngest, ReturnEarly, CallAgain, Selection, Stored
<1>2. ASSUME NEW c \in Call, CommitIngest(c) PROVE Selection' /\ Stored'
  <2>1. \A d \in Call : pc[d] # "delivering"
    BY <1>2 DEF CommitIngest
  <2>2. Selection'
    BY <1>2, <2>1 DEF CommitIngest, Selection
  <2>3. Stored'
    BY <1>2 DEF CommitIngest, Stored
  <2> QED
    BY <2>2, <2>3
<1>3. ASSUME NEW c \in Call, BeginDelivery(c) PROVE Selection' /\ Stored'
  BY <1>3 DEF BeginDelivery, Selection, Stored
<1>4. ASSUME NEW c \in Call, NEW m \in Message, Send(c, m) PROVE Selection' /\ Stored'
  <2>1. /\ DOMAIN marked' = DOMAIN marked \cup {m} /\ batch' = batch \ {m} /\ m \in batch
        /\ row' = row /\ known' = known /\ pc' = pc /\ pc[c] = "delivering"
        /\ attempts' = [attempts EXCEPT ![m] = @ + 1]
    BY <1>4 DEF Send
  <2>2. Selection'
    BY <2>1 DEF Selection
  <2>3. Stored'
    BY <2>1 DEF Stored, Selection
  <2> QED
    BY <2>2, <2>3
<1>5. ASSUME NEW c \in Call, CommitDelivery(c) PROVE Selection' /\ Stored'
  <2>1. /\ batch' = {} /\ DOMAIN marked' = {} /\ known' = known /\ attempts' = attempts
        /\ row' = [m \in Message |-> IF m \in DOMAIN marked THEN "recorded" ELSE row[m]]
    BY <1>5 DEF CommitDelivery
  <2>2. \A m \in Message : row'[m] # "absent" <=> row[m] # "absent"
    BY <2>1 DEF Selection
  <2> QED
    BY <2>1, <2>2 DEF Selection, Stored
<1>6. ASSUME NEW c \in Call, RollBack(c), pc' = [pc EXCEPT ![c] = "raised"] \/ pc' = [pc EXCEPT ![c] = "dead"],
             row' = row
      PROVE  Selection'
  BY <1>6 DEF RollBack, Selection
<1>7. ASSUME NEW c \in Call, NEW m \in Message, SendRaises(c, m) PROVE Selection' /\ Stored'
  <2>1. row[m] = "queued"
    BY <1>7 DEF SendRaises, Selection
  <2>2. Stored'
    BY <1>7, <2>1 DEF SendRaises, Stored
  <2> QED
    BY <1>6, <1>7, <2>2 DEF SendRaises
<1>8. ASSUME NEW c \in Call, Die(c) PROVE Selection' /\ Stored'
  BY <1>6, <1>8 DEF Die, Stored
<1>9. CASE UNCHANGED vars
  BY <1>9 DEF vars, Selection, Stored
<1> QED
  BY <1>1, <1>2, <1>3, <1>4, <1>5, <1>7, <1>8, <1>9 DEF Next, Works, Breaks

\* What is handed over is counted, and only what was handed over is recorded.
LEMMA HandedOver == IInv /\ [Next]_vars => Marks' /\ Tries' /\ RecordedWasSent'
<1> SUFFICES ASSUME IInv, [Next]_vars PROVE Marks' /\ Tries' /\ RecordedWasSent'
  OBVIOUS
<1> USE OutboxAssumption
<1>0. /\ row \in [Message -> {"absent", "queued", "recorded"}] /\ attempts \in [Message -> Nat]
      /\ breaks \in Nat /\ batch \subseteq Message /\ DOMAIN marked \subseteq Message
      /\ received \in [Message -> [Channel -> Nat]]
      /\ how \in [Message -> Delivered] /\ marked \in [DOMAIN marked -> Delivered]
      /\ pc \in [Call -> Steps] /\ known \subseteq Artifact
  BY DEF IInv, TypeOK
<1>1. ASSUME UNCHANGED <<row, how, marked, attempts, received, breaks>>
      PROVE  Marks' /\ Tries' /\ RecordedWasSent'
  BY <1>1 DEF IInv, Marks, Tries, RecordedWasSent
<1>2. ASSUME NEW c \in Call, CommitIngest(c) PROVE Marks' /\ Tries' /\ RecordedWasSent'
  <2>1. \A m \in Queues[ArtifactOf[c]] : m \in Message /\ row[m] = "absent" /\ attempts[m] = 0
    <3> SUFFICES ASSUME NEW m \in Queues[ArtifactOf[c]]
                 PROVE  m \in Message /\ row[m] = "absent" /\ attempts[m] = 0
      OBVIOUS
    <3>1. m \in Message /\ ArtifactOf[c] \in Artifact \ known
      BY <1>2 DEF CommitIngest
    <3>2. \A a \in known : m \notin Queues[a]
      BY <1>0, <3>1
    <3>3. row[m] = "absent"
      BY <3>1, <3>2 DEF IInv, Stored
    <3> QED
      BY <1>0, <3>1, <3>3 DEF IInv, Stored
  <2>2. /\ UNCHANGED <<how, marked, attempts, received, breaks>>
        /\ row' = [m \in Message |-> IF m \in Queues[ArtifactOf[c]] THEN "queued" ELSE row[m]]
    BY <1>2 DEF CommitIngest
  <2> QED
    BY <1>0, <2>1, <2>2 DEF IInv, Marks, Tries, RecordedWasSent
<1>3. ASSUME NEW c \in Call, BeginDelivery(c) PROVE Marks' /\ Tries' /\ RecordedWasSent'
  <2>1. DOMAIN marked = {} /\ DOMAIN marked' = {}
    BY <1>3 DEF BeginDelivery, TakeLock, IInv, OneTransaction, Selection, TypeOK
  <2> QED
    BY <1>3, <2>1 DEF BeginDelivery, IInv, Marks, Tries, RecordedWasSent
<1>7. ASSUME UNCHANGED <<row, how>>,
             \A n \in Message : attempts'[n] >= attempts[n],
             \A n \in Message, ch \in Channel :
                received'[n][ch] \in Nat /\ received'[n][ch] >= received[n][ch],
             attempts' \in [Message -> Nat]
      PROVE  RecordedWasSent'
  <2> SUFFICES ASSUME NEW n \in Message, row[n] = "recorded"
               PROVE  /\ attempts'[n] > 0
                      /\ \A ch \in DOMAIN how[n] : how[n][ch] = "sent" => received'[n][ch] > 0
    BY <1>7 DEF RecordedWasSent
  <2>1. attempts'[n] > 0
    BY <1>0, <1>7 DEF IInv, RecordedWasSent
  <2>2. ASSUME NEW ch \in DOMAIN how[n], how[n][ch] = "sent" PROVE received'[n][ch] > 0
    <3>1. ch \in Channel /\ received[n][ch] > 0
      <4>1. \A d \in Delivered : DOMAIN d \subseteq Channel
        BY DEF Delivered, Local
      <4> QED
        BY <1>0, <2>2, <4>1 DEF IInv, RecordedWasSent
    <3> QED
      BY <1>0, <1>7, <3>1
  <2> QED
    BY <2>1, <2>2
<1>4. ASSUME NEW c \in Call, NEW m \in Message, Send(c, m)
      PROVE  Marks' /\ Tries' /\ RecordedWasSent'
  <2>1. /\ UNCHANGED <<row, how, breaks>> /\ m \in batch
        /\ attempts' = [attempts EXCEPT ![m] = @ + 1]
    BY <1>4 DEF Send
  <2>2. PICK o \in Deliveries(m) : \E late \in SUBSET {ch \in DOMAIN o : o[ch] = "failed"} :
           /\ marked' = [n \in DOMAIN marked \cup {m} |-> IF n = m THEN o ELSE marked[n]]
           /\ received' = Takes(m, {ch \in DOMAIN o : o[ch] = "sent"} \cup late)
    BY <1>4 DEF Send
  <2>3. /\ \A n \in Message, ch \in Channel :
              received'[n][ch] \in Nat /\ received'[n][ch] >= received[n][ch]
        /\ \A ch \in DOMAIN o : o[ch] = "sent" => received'[m][ch] > 0
    <3>1. PICK late \in SUBSET {ch \in DOMAIN o : o[ch] = "failed"} :
             received' = Takes(m, {ch \in DOMAIN o : o[ch] = "sent"} \cup late)
      BY <2>2
    <3> QED
      BY <3>1, TakesCounts, DeliveriesType DEF IInv
  <2>4. \A n \in Message : attempts'[n] >= attempts[n] /\ attempts'[m] > 0
    BY <1>0, <2>1
  <2>5. \A d \in Delivered : DOMAIN d \subseteq Channel
    BY DEF Delivered, Local
  <2>6. Marks'
    <3> SUFFICES ASSUME NEW n \in DOMAIN marked \cup {m}
                 PROVE  /\ attempts'[n] > 0
                        /\ \A ch \in DOMAIN marked'[n] :
                              marked'[n][ch] = "sent" => received'[n][ch] > 0
      BY <2>2 DEF Marks
    <3>1. CASE n = m
      BY <2>2, <2>3, <2>4, <3>1
    <3>2. CASE n # m
      <4>1. marked'[n] = marked[n] /\ n \in Message /\ marked[n] \in Delivered
        BY <1>0, <2>2, <3>2
      <4>2. attempts'[n] > 0
        BY <1>0, <2>1, <3>2, <4>1 DEF IInv, Marks
      <4>3. ASSUME NEW ch \in DOMAIN marked[n], marked[n][ch] = "sent" PROVE received'[n][ch] > 0
        <5>1. ch \in Channel /\ received[n][ch] > 0
          BY <2>5, <3>2, <4>1, <4>3 DEF IInv, Marks
        <5> QED
          BY <1>0, <2>3, <4>1, <5>1
      <4> QED
        BY <4>1, <4>2, <4>3
    <3> QED
      BY <3>1, <3>2
  <2>7. Tries'
    <3>1. row[m] = "queued" /\ m \notin DOMAIN marked /\ DOMAIN marked' = DOMAIN marked \cup {m}
      BY <2>1, <2>2 DEF IInv, Selection
    <3>2. attempts[m] <= breaks
      BY <3>1 DEF IInv, Tries
    <3> QED
      BY <1>0, <2>1, <3>1, <3>2 DEF IInv, Tries
  <2>8. RecordedWasSent'
    BY <1>0, <1>7, <2>1, <2>3, <2>4
  <2> QED
    BY <2>6, <2>7, <2>8
<1>5. ASSUME NEW c \in Call, CommitDelivery(c) PROVE Marks' /\ Tries' /\ RecordedWasSent'
  <2>1. /\ UNCHANGED <<attempts, received, breaks>> /\ DOMAIN marked' = {}
        /\ row' = [m \in Message |-> IF m \in DOMAIN marked THEN "recorded" ELSE row[m]]
        /\ how' = [m \in Message |-> IF m \in DOMAIN marked THEN marked[m] ELSE how[m]]
    BY <1>5 DEF CommitDelivery
  <2>2. Marks' /\ Tries'
    BY <1>0, <2>1 DEF IInv, Marks, Tries
  <2>3. RecordedWasSent'
    BY <1>0, <2>1 DEF IInv, Marks, RecordedWasSent
  <2> QED
    BY <2>2, <2>3
<1>6. ASSUME NEW c \in Call, NEW m \in Message, SendRaises(c, m)
      PROVE  Marks' /\ Tries' /\ RecordedWasSent'
  <2>1. /\ UNCHANGED <<row, how>> /\ breaks' = breaks + 1 /\ DOMAIN marked' = {} /\ m \in batch
        /\ attempts' = [attempts EXCEPT ![m] = @ + 1]
    BY <1>6 DEF SendRaises, RollBack
  <2>2. \A n \in Message, ch \in Channel :
           received'[n][ch] \in Nat /\ received'[n][ch] >= received[n][ch]
    BY <1>6, TakesCounts DEF SendRaises, IInv
  <2>3. Marks' /\ RecordedWasSent'
    BY <1>0, <1>7, <2>1, <2>2 DEF Marks
  <2>4. attempts[m] <= breaks
    BY <1>0, <2>1 DEF IInv, Tries, Selection
  <2>5. Tries'
    BY <1>0, <2>1, <2>4 DEF IInv, Tries
  <2> QED
    BY <2>3, <2>5
<1>8. ASSUME NEW c \in Call, Die(c) PROVE Marks' /\ Tries' /\ RecordedWasSent'
  <2>1. /\ UNCHANGED <<row, how, attempts, received>> /\ breaks' = breaks + 1
        /\ marked' = marked \/ DOMAIN marked' = {}
    BY <1>8 DEF Die, RollBack
  <2> QED
    BY <1>0, <2>1 DEF IInv, Marks, Tries, RecordedWasSent
<1> QED
  BY <1>1, <1>2, <1>3, <1>4, <1>5, <1>6, <1>8
     DEF Next, Works, Breaks, BeginIngest, ReturnEarly, CallAgain, vars

\* The four parts of the inductive step.
LEMMA NextIInv == IInv /\ [Next]_vars => IInv'
BY LockKept, TypeKept, SelectionKept, HandedOver DEF IInv

\* The invariant holds in every state of the outbox.
LEMMA Invariance == Spec => []IInv
BY InitIInv, NextIInv, PTL DEF Spec

\* The rows and the calls keep their types.
THEOREM TypesHold == Spec => []TypeOK
<1>1. IInv => TypeOK
  BY DEF IInv
<1> QED
  BY <1>1, Invariance, PTL

\* No two calls are ever inside a transaction at once.
THEOREM OneTransactionAtATime == Spec => []OneTransaction
<1>1. IInv => OneTransaction
  BY DEF IInv
<1> QED
  BY <1>1, Invariance, PTL

\* Nothing is sent that the store does not hold.
THEOREM OnlyStoredIsSent == Spec => []SentIsStored
<1>1. IInv => SentIsStored
  BY DEF IInv, Stored, SentIsStored
<1> QED
  BY <1>1, Invariance, PTL

\* A message is sent at most once, and once more for every break.
THEOREM SentOncePerBreak == Spec => []SentTwiceOnlyAfterABreak
<1>1. IInv => SentTwiceOnlyAfterABreak
  BY DEF IInv, Tries, SentTwiceOnlyAfterABreak
<1> QED
  BY <1>1, Invariance, PTL

\* What the store records as delivered was handed over, to the channels it names.
THEOREM RecordedWasReallySent == Spec => []RecordedWasSent
<1>1. IInv => RecordedWasSent
  BY DEF IInv
<1> QED
  BY <1>1, Invariance, PTL

\* Every send can be accounted for: stored first, repeated only after a break,
\* and recorded as it happened.
THEOREM SendsAreAccountedFor == Spec => []EverySendIsAccountedFor
<1>1. SentIsStored /\ SentTwiceOnlyAfterABreak /\ RecordedWasSent => EverySendIsAccountedFor
  BY DEF EverySendIsAccountedFor
<1> QED
  BY <1>1, OnlyStoredIsSent, SentOncePerBreak, RecordedWasReallySent, PTL

-----------------------------------------------------------------------------

\* Every step of the two transactions is a step of MessageDispatch: queueing an
\* artifact's messages, one attempt, recording what was attempted, or nothing.
LEMMA StepsDispatch == IInv /\ [Next]_vars => [Dispatch!Next]_Dispatch!vars
<1> SUFFICES ASSUME IInv, [Next]_vars PROVE [Dispatch!Next]_Dispatch!vars
  OBVIOUS
<1> USE OutboxAssumption
<1> USE DEF Dispatch!Next, Dispatch!vars
<1>1. CASE UNCHANGED <<row, attempts>>
  BY <1>1
<1>2. ASSUME NEW c \in Call, CommitIngest(c) PROVE Dispatch!Next
  <2>1. Queues[ArtifactOf[c]] \in SUBSET Message
    OBVIOUS
  <2>2. \A m \in Queues[ArtifactOf[c]] : row[m] = "absent"
    BY <1>2 DEF CommitIngest, IInv, Stored, TypeOK
  <2>3. Dispatch!Queue(Queues[ArtifactOf[c]])
    BY <1>2, <2>2 DEF CommitIngest, Dispatch!Queue
  <2> QED
    BY <2>1, <2>3
<1>3. ASSUME NEW c \in Call, NEW m \in Message, Send(c, m) \/ SendRaises(c, m)
      PROVE  Dispatch!Next
  <2>1. Dispatch!Attempt(m)
    BY <1>3 DEF Send, SendRaises, Dispatch!Attempt, IInv, Selection
  <2> QED
    BY <2>1
<1>4. ASSUME NEW c \in Call, CommitDelivery(c) PROVE Dispatch!Next
  <2>1. DOMAIN marked \in SUBSET Message
    BY DEF IInv, TypeOK
  <2>2. Dispatch!Record(DOMAIN marked)
    BY <1>4 DEF CommitDelivery, Dispatch!Record, IInv, Selection, Marks
  <2> QED
    BY <2>1, <2>2
<1> QED
  BY <1>1, <1>2, <1>3, <1>4 DEF Next, Works, Breaks, BeginIngest, ReturnEarly,
     BeginDelivery, Die, CallAgain, vars

\* The desk's two transactions implement the promise of MessageDispatch.
THEOREM OutboxImplementsDispatch == Spec => ImplementsDispatch
<1>1. Init => Dispatch!Init
  BY DEF Init, Dispatch!Init
<1> QED
  BY <1>1, Invariance, StepsDispatch, PTL DEF Spec, ImplementsDispatch, Dispatch!Spec
=============================================================================
