SPECIFICATION FairSpec
CONSTANTS
    Width = 32
    Handshakes <- MCHandshakes
    TxStarts <- MCStarts
INVARIANTS FirstAttemptShared EstablishedSound AdvanceMeansAccepted
PROPERTIES SlotFreed
CHECK_DEADLOCK FALSE
