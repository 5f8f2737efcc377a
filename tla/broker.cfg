CONSTANTS
    hup = hup
    cmd = cmd
    Maintain = Maintain
    None = None
    Requesters <- MCRequesters
    Reloaders <- MCReloaders
    MaxConns = 2
SPECIFICATION FairSpec
INVARIANTS
    TypeOK
    SerializedUnlessCrossed
PROPERTIES
    LiveAnswersMatch
    ReloadExcludesCommands
    RequestsEnd
CHECK_DEADLOCK FALSE
