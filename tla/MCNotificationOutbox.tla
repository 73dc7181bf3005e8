------------------------ MODULE MCNotificationOutbox ------------------------
EXTENDS NotificationOutbox

\* Two calls read the same target folder; a third reads another.
MCArtifactOf == [c \in Call |-> IF c \in {"c1", "c2"} THEN "night" ELSE "rerun"]
MCQueues == [a \in Artifact |-> IF a = "night" THEN {"page"} ELSE {"resolved"}]
MCAddressed == [m \in Message |-> [ch \in Channel |-> TRUE]]
=============================================================================
