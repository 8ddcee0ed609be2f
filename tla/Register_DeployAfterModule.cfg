SPECIFICATION Spec
CONSTANT N = 2
INVARIANT DeployAfterModule
CHECK_DEADLOCK FALSE
