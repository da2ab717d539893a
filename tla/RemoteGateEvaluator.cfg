SPECIFICATION Spec
CONSTANTS
    Configs <- SelfDecisionConfigs
    Texts = {1}
    FileSets <- MCFileSets
    MaxCloud = 2
    FilesStable = TRUE
    MaxConfirms = 1
INVARIANTS
    EvaluatorIsListed
