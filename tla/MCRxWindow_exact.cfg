SPECIFICATION WindowSpec
CONSTANTS
    Width = 3
    Counters <- MCSmall
INVARIANTS
    WindowExact
    VerdictsRight
CHECK_DEADLOCK FALSE
