SPECIFICATION AllSpec
CONSTANTS
    SlaveCount = 2
    Cells = {1, 2}
    MaxCells = 1
    Fallbacks = {}
    MaxEvents = 1
    MaxScans = 1
    MaxLimit = 2
    DwellS = 2
    Programs <- DriverPrograms
    Period = 2
INVARIANTS
    AllTypeOK
    BalancingIsContained
    CountedIsDischarging
    DiagnosticsAreSound
    UartHolds
    ScanIsTrusted
    SupervisionHolds
    WifiHolds
PROPERTIES
    ProgrammedWhileOff
    MeasurementsAreWhole
    LimitsHold
