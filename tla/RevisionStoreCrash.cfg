SPECIFICATION Spec
CONSTANTS
    Desks = {d1}
    Runs = {r1}
    Layers = {"terms"}
    Sources = {s1}
    MaxEvents = 1
    CanAbandon = TRUE
INVARIANTS
    UnconfirmedStaysOut
