SPECIFICATION WallSpec
CONSTANTS
    None = None
    n1 = n1  n2 = n2  n3 = n3
    Nonce = {n1, n2, n3}
    Ttl = 2
    MaxTime = 3
SYMMETRY Symmetry
CHECK_DEADLOCK FALSE
INVARIANTS TypeOK AcceptedOnceInTime HeldWasCurrentAtLastIssue
PROPERTIES CurrentLeavesOnlyByUse
