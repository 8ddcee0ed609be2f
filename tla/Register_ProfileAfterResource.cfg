SPECIFICATION Spec
CONSTANT N = 2
INVARIANT ProfileAfterResource
CHECK_DEADLOCK FALSE
