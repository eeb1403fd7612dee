SPECIFICATION Spec
CONSTANTS
    Proofs <- TwoDeviations
    Issuers <- FullButOne
CHECK_DEADLOCK FALSE
INVARIANTS TypeOK AcceptedIsBound OneRetrySuffices InvalidProofIsFinal UntypedErrorsNeedIllTypedInput
