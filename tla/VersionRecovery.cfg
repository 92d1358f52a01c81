SPECIFICATION RSpec
CONSTANTS
    Readers = {}
    L0Trigger = 2
    TopLevel = 2
    ManifestLimit = 3
    ManifestMayFail = FALSE
    PowerLoss = TRUE
    MaxFile = 7
    MaxCrashes = 2
    Torn = Torn
INVARIANTS NumbersAreFresh  TablesSurviveRestart
CHECK_DEADLOCK FALSE
