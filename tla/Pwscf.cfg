SPECIFICATION Spec
CONSTANT N = 3
INVARIANTS IInv OutputsComplete
CHECK_DEADLOCK FALSE
