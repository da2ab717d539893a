SPECIFICATION FairSpec
CONSTANTS
    ProviderLists <- MCLists
    Evaluators <- MCEvaluators
    Limits <- MCLimits
    MaxCloud = 2
INVARIANTS
    BudgetRespected
    SpendAccounted
    ApiOffStaysLocal
    FinalizedTextWasValidated
    SelfDecisionStaysGated
    StatusMatchesWorkflow
    WorkflowNeverRefuses
PROPERTIES
    Terminates
