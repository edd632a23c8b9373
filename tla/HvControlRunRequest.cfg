SPECIFICATION Spec
CONSTANTS
    BmsFault = {"BccCommunication"}
    InvalidSampleLimit = 2
    AdcFailureLimit = 1
PROPERTY
    FaultKeepsRunRequest
