SPECIFICATION Spec
CONSTANTS
    Readers = {r1}
    L0Trigger = 2
    TopLevel = 2
    ManifestLimit = 3
    ManifestMayFail = TRUE
    MaxFile = 6
    Torn = Torn
INVARIANTS NeededFilesExist EditsFit
