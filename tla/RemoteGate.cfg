SPECIFICATION Spec
CONSTANTS
    Configs <- MCConfigs
    Texts = {1, 2}
    FileSets <- MCFileSets
    MaxCloud = 2
    FilesStable = TRUE
    MaxConfirms = 2
INVARIANTS
    TypeOK
    ConfirmedCallsOnly
    SpendWithinLimit
    ConfirmedOnce
    UploadAsConfirmed
