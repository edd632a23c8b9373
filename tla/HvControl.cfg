SPECIFICATION Spec
CONSTANTS
    BmsFault = {"BccCommunication", "ThermalLimit"}
    InvalidSampleLimit = 3
    AdcFailureLimit = 3
INVARIANTS
    TypeOK
    FaultedOutputsAreShutOff
    NoStaleSafeOff
    UpdateHoldsHvOff
    OutputsMatchStage
PROPERTY
    SequenceSpec
