SPECIFICATION Spec
CONSTANTS
    s1 = s1
    s2 = s2
    torn = torn
    none = none
    blank = blank
    Sessions <- MCSessions
    Importers <- MCImporters
    Forms <- MCForms
    NoFile = none
    Revisions <- MCRevisions
    Languages <- MCLanguages
    FailureText <- MCFailure
    Blank = blank
    Torn = torn
    Model <- MCModel
    Tags <- MCTags
    Overlap <- MCOverlap
    MaxOps = 4
    MaxJobOps = 3
    MaxStopOps = 2
SYMMETRY ChatSymmetry
INVARIANTS
    EntriesAsAsked
    LexiconInStep
    FinalAnswersPayload
    ImportsComplete
    OfferedIsAudited
