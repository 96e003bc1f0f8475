CONSTANTS
    MaxAttempts = 2
    MaxRequests = 2
SPECIFICATION Spec
INVARIANTS TypeOK ConnectedMeansReady
PROPERTY StalledSessionRecovers
CHECK_DEADLOCK FALSE
