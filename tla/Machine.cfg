SPECIFICATION Spec
CONSTANTS
    Tests = 2
    MaxFaults = 2
INVARIANT TypeOK
INVARIANT HangNeedsFaultInPrint
INVARIANT VerdictsAreTrue
PROPERTY NothingResumesAfterAFault
PROPERTY FaultsAreReported
PROPERTY KeysAreRead
CHECK_DEADLOCK FALSE
