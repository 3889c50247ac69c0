SPECIFICATION FairSpec
CONSTANTS
    Kinds <- AllKinds
    Absent = Absent
    Bad = Bad
    Terminating = Terminating
    MaxEdits = 3
    MaxFaults = 1
    MaxRetries = 1
    AppGeneration = 7
INVARIANTS  ReconciledIsTrue
PROPERTIES UsersAreHeard 
CHECK_DEADLOCK FALSE
