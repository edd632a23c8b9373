SPECIFICATION FairSpec
CONSTANTS
    SlaveCount = 2
    RetryBudget = 3
    TripCount = 3
    CounterSize = 5
    Detectable = {"OVERVOLTAGE_LIMIT", "UNDERVOLTAGE_LIMIT"}
INVARIANTS
    TypeOK
    BitsMatchInputs
    HvOnlyOnRunningBms
    SnapshotsTellTheTruth
PROPERTIES
    LastingFaultStopsInverter
    HealthyChainRuns
