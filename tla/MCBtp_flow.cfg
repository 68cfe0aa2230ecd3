SPECIFICATION FairSpec
CONSTANTS
    Modulus = 3
    Windows = {0, 1, 2}
    MaxSegments = 3
    MaxMessages <- MCMessages
INVARIANT FlowSound
PROPERTIES PipeSpec SendEnds
CHECK_DEADLOCK FALSE
