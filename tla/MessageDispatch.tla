-------------------------- MODULE MessageDispatch --------------------------
(***************************************************************************)
(* What the incident desk promises about its messages, whatever processes, *)
(* locks and crashes are behind it: a message is queued with the incident  *)
(* it is about, is sent only once it is queued, and is recorded as         *)
(* delivered only after it was sent. It may be sent more than once.        *)
(***************************************************************************)
EXTENDS Naturals

CONSTANT Message

VARIABLES
    row,      \* the message's row in the store
    attempts  \* how often the desk tried to send the message

vars == <<row, attempts>>

Init ==
    /\ row = [m \in Message |-> "absent"]
    /\ attempts = [m \in Message |-> 0]

Queue(S) ==
    /\ \A m \in S : row[m] = "absent"
    /\ row' = [m \in Message |-> IF m \in S THEN "queued" ELSE row[m]]
    /\ UNCHANGED attempts

Attempt(m) ==
    /\ row[m] = "queued"
    /\ attempts' = [attempts EXCEPT ![m] = @ + 1]
    /\ UNCHANGED row

Record(S) ==
    /\ \A m \in S : row[m] = "queued" /\ attempts[m] > 0
    /\ row' = [m \in Message |-> IF m \in S THEN "recorded" ELSE row[m]]
    /\ UNCHANGED attempts

Next ==
    \/ \E S \in SUBSET Message : Queue(S) \/ Record(S)
    \/ \E m \in Message : Attempt(m)

Spec == Init /\ [][Next]_vars
=============================================================================
