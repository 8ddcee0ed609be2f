SPECIFICATION Spec
CONSTANT N = 2
INVARIANT DisjointOutputs
CHECK_DEADLOCK FALSE
