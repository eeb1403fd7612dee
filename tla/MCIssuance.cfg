SPECIFICATION Spec
CONSTANTS
    None = None
    s1 = s1  s2 = s2  c1 = c1  c2 = c2  t1 = t1  t2 = t2
    n1 = n1  n2 = n2  k1 = k1  w1 = w1  w2 = w2
    Subject = {s1, s2}
    Code = {c1, c2}
    Token = {t1, t2}
    Nonce = {n1, n2}
    Key = {k1}
    Session = {w1, w2}
    CodeTtl = 1
    TokenTtl = 1
    NonceTtl = 1
    MaxTime = 1
SYMMETRY Symmetry
CHECK_DEADLOCK FALSE
INVARIANTS TypeOK CredentialIsTraceable NonceAdmitsOneRequest
PROPERTIES CredentialsAreEntitled CodesAreSingleUse NoncesAreSingleUse
