\* Two processes on one configuration file.
CONSTANTS
    Procs  = {p1, p2}
    Names  = {user, legacy}
    User   = user
    Legacy = legacy
    NoName = NoName
    Overrides <- MCOverrides
    FirstFiles  <- MCFirstFiles
    MaxCommands <- MCMaxCommands
    MaxKills    <- MCMaxKills
SPECIFICATION Spec
SYMMETRY Symmetry
INVARIANTS OneDefault DefaultKept TokensAccepted
PROPERTIES OthersKept
\* All commands have been run, or a login waits for a page that never comes.
CHECK_DEADLOCK FALSE
