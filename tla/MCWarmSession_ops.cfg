SPECIFICATION FairSpec
CONSTANTS
    Ops = {o1, o2, o3}
INVARIANTS SlotSound NewIsTold
PROPERTIES EachIsAnswered
CHECK_DEADLOCK FALSE
