SPECIFICATION AllSpec
CONSTANTS
    Mains = {m1, m2}
    Runnable = {m1}
    BadMain = bad
    DefaultMain = m1
    Rates = {0, 5}
    DefaultRate = 0
    Allowances = {30, 50}
    DefaultAllowance = 30
    None = None
    MaxGeneration = 3
    FirstVersions = {3, 5}
    FirstGenerations = {1, 2}
    Levels = {0, 1}
    Full = 1
    MaxCalibrations = 2
    Denominator = 5
    MaxInterval = 3
    MaxCounter = 3
    MaxPause = 4
    Products = {0, 3, 8}
    SampleSize = 5
    ChargeSize = 8
    MaxCurrent = 1
    MaxSamples = 3
    MaxElapsed = 3
    MaxGap = 6
INVARIANTS
    AllTypeOK
    GenerationsDiffer
    AcceptedFlagIsInForce
    RecordsTellTheTruth
PROPERTIES
    ImplementsRegister
    CountedOnce
