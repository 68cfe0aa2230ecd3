SPECIFICATION FairSpec
CONSTANTS
    Values = {"off", "on"}
    Default = "off"
    LogCap = 2
    Fit = 1
    MaxEvents = 3
    MaxBoots = 2
    MaxTrouble = 2
INVARIANTS EventsExact HealthSound
INVARIANTS BlindWindowRecovered
PROPERTY Converges
