SPECIFICATION Spec
CONSTANTS
    Desks = {d1}
    Runs = {r1}
    Layers = {"terms", "phrases"}
    Sources = {s1}
    MaxEvents = 2
    CanAbandon = FALSE
PROPERTIES
    LedgerKept
