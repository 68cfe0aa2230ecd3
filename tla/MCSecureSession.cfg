SPECIFICATION FairSpec
CONSTANTS
    Scripts <- MCScripts
    Pipelining = 4
    MaxReplies = 2
    StashCap = 2
    DeferCap = 2
INVARIANTS AnswerIsOurs ExecutedOnce BuffersSound
PROPERTIES HeldIsServed
CHECK_DEADLOCK FALSE
