SPECIFICATION SupervisorFairSpec
INVARIANT SupervisorTypeOK
PROPERTIES NothingHangs ImplementsBackendService
CHECK_DEADLOCK FALSE
