SPECIFICATION Spec
CONSTANTS
    None = None
    t1 = t1  t2 = t2
    k1 = k1  k2 = k2
    n1 = n1  n2 = n2
    Thread = {t1, t2}
    c1 = c1
    Code = {c1}
    Token = {k1, k2}
    Nonce = {n1, n2}
    CodeTtl = 1
    TokenTtl = 1
    NonceTtl = 1
    MaxTime = 2
CONSTRAINT OneStore
SYMMETRY Symmetry
INVARIANTS TypeOK OneTokenPerCode TokenIsInTime NonceAcceptedOnceInTime RefusalIsFinal UntypedErrorsNeedARace
PROPERTIES TicketsAreSingleUse
