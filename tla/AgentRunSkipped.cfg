SPECIFICATION Spec
CONSTANTS
    ProviderLists <- MCLists
    Evaluators <- MCEvaluators
    Limits <- MCLimits
    MaxCloud = 2
INVARIANTS
    SkippedProvidersAreHarmless
