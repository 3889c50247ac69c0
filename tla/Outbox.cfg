\* Two paths that change together, of two resources of the same name.
CONSTANTS
    Keys = {k1, k2}
    KeySets <- AllKeys
    MaxInflight = 2
    Uids = {u1, u2}
    NoRow = NoRow
    MaxRev = 1
    MaxTopic = 1
SPECIFICATION OutboxFairSpec
INVARIANTS NoLostChange RowIsNewest
PROPERTY OutboxDrains
CHECK_DEADLOCK FALSE
