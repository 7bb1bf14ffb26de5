SPECIFICATION Spec
CONSTANTS
    Clients = {c1, c2, c3}
    Commands <- MCCommands
    MaxEdits = 3
    MaxCommands = 3
SYMMETRY MCSymmetry
INVARIANTS ChangesKept RefusedUntouched
CHECK_DEADLOCK FALSE
