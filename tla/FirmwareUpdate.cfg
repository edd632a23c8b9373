SPECIFICATION FairSpec
CONSTANTS
    Images = {"v1", "v2"}
    Blocks = 2
    LineCap = 2
    ExternalResets = TRUE
INVARIANTS
    TypeOK
    InstallationIsAccountedFor
PROPERTIES
    CompleteMeansInstalled
    InstallationEnds
    PendingBootEnds
