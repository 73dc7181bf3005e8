SPECIFICATION Spec
CONSTANTS
    k1 = k1
    k2 = k2
    k3 = k3
    v1 = v1
    v2 = v2
    Key = {k1, k2, k3}
    Value = {v1, v2}
    Id = {1, 2}
    Digit = {0, 1}
    Hash <- MCHash
    MAX_DEPTH = 3
    LeafWidth = 1
    Night <- MCNight
    MaxWrites = 2
INVARIANTS
    EveryVerdictStands
    RowCountsAddUp
CHECK_DEADLOCK FALSE
