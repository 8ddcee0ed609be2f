SPECIFICATION Spec
CONSTANT N = 2
INVARIANT FailureIsolated
CHECK_DEADLOCK FALSE
