SPECIFICATION Spec
CONSTANT N = 2
INVARIANTS TypeOK IInv RefsIssued InterfaceForEveryModule ConsistentRefs
PROPERTIES ImplementsRegistration MembersKept
CHECK_DEADLOCK FALSE
