SPECIFICATION LiveSpec
CONSTANTS
    None = None
    w1 = w1  w2 = w2
    x1 = x1  x2 = x2
    i1 = i1
    Call = {w1, w2}
    Tx = {x1, x2}
    Configuration = {"diploma"}
    Notification = {i1}
INVARIANTS TypeOK MintSeesAdmissible CollectionsNeedOverlap
PROPERTIES NoPollAfterCollection OpenIsEventuallyCollected ClosesOnlyWithCredentials AcceptedMeansOpen
