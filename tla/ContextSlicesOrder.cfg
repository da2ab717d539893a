SPECIFICATION Spec
CONSTANTS
    Paragraphs <- MCParagraphs
    Windows = {2, 3}
INVARIANTS
    PassedIsInOrder
