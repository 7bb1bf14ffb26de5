SPECIFICATION Spec
CONSTANTS
    Clients = {c1, c2}
    Commands <- MCCommands
    VersionFlags = {"latest", "active", "unset"}
    MaxVersions = 3
    MaxEdits = 2
    MaxCommands = 3
SYMMETRY MCSymmetry
INVARIANTS EditsKept BuildsOnSelection OnlyRacesConflict RefusedUntouched
CHECK_DEADLOCK FALSE
