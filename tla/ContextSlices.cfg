SPECIFICATION Spec
CONSTANTS
    Paragraphs <- MCParagraphs
    Windows = {0, 2, 3}
INVARIANTS
    EveryUnitOnce
    SourceWithinWindow
    PricedAsRun
    PassedIsComplete
    ContinuationsInOrder
