SPECIFICATION WallSpec
CONSTANTS
    None = None
    s1 = s1  s2 = s2
    c1 = c1  c2 = c2
    t1 = t1  t2 = t2
    Subject = {s1, s2}
    Configuration = {"diploma"}
    TxCode = {"1234", "0000"}
    NonAscii = {"0000"}
    Client = {"wallet"}
    Code = {c1, c2}
    Token = {t1, t2}
    CodeTtl = 2
    TokenTtl = 1
    AllowAnonymous = FALSE
    MaxTime = 2
SYMMETRY Symmetry
CHECK_DEADLOCK FALSE
INVARIANTS TypeOK TokenIsWhatWasOffered OneTokenPerCode RefusalIsFinal
PROPERTIES LiveCodesAreSafe
