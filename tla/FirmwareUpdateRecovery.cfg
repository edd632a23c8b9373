SPECIFICATION Spec
CONSTANTS
    Images = {"v1", "v2"}
    Blocks = 2
    LineCap = 2
    ExternalResets = FALSE
INVARIANT
    RejectsUntilRecovered
