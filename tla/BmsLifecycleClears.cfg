SPECIFICATION Spec
CONSTANTS
    SlaveCount = 1
    RetryBudget = 2
    TripCount = 2
    CounterSize = 3
    Detectable = {}
PROPERTIES
    CommunicationFaultClearsOnGoodCycle
