SPECIFICATION Spec
CONSTANTS
    Proofs <- TwoDeviations
    Issuers <- FullButOne
CHECK_DEADLOCK FALSE
INVARIANTS InvalidNonceMeansStale
