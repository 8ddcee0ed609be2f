SPECIFICATION Spec
CONSTANTS
    SizeT = 65536
    MaxHostLen = 3
    MaxOutputs = 2
    Values = {v1, v2}
    NoReply = NoReply
INVARIANT UsageWithoutRpc
CHECK_DEADLOCK FALSE
