SPECIFICATION Spec
CONSTANTS
    Desks = {d1, d2}
    Runs = {r1}
    Layers = {"terms"}
    Sources = {s1, s2}
    MaxEvents = 2
    CanAbandon = TRUE
SYMMETRY SameDesks
INVARIANTS
    EntriesHaveProposals
PROPERTIES
    DecisionsAreFinal
    ConfirmedAfterWritten
    RunsMoveForward
