SPECIFICATION Spec
CONSTANTS
    None = None
    v1 = v1
    v2 = v2
    v3 = v3
    ours = ours
    type = type
    key = key
    Value = {v1, v2, v3, ours, type}
    Key = {k1, k2}
    CoseKey = {k1}
    Salt = {s1, s2, s3, s4, s5, s6}
    DigestId = {d1, d2, d3}
    Deployments <- AllDeployments
    Claims <- ClaimsOfFormat
    MaxCredentials = 2
CHECK_DEADLOCK FALSE
SYMMETRY Symmetry
INVARIANTS MountedIssuersAreFound
