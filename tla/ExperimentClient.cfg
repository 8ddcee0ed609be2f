SPECIFICATION Spec
CONSTANTS
    SizeT = 65536
    MaxHostLen = 3
    MaxOutputs = 2
    Values = {v1, v2}
    NoReply = NoReply
INVARIANTS TypeOK StripCorrect
CHECK_DEADLOCK FALSE
PROPERTIES ClientEnds ImplementsSingleCall
