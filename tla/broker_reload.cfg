CONSTANTS
    hup = hup
    cmd = cmd
    Maintain = Maintain
    None = None
    Requesters <- MCRequesters
    Reloaders <- MCReloaders
    MaxConns = 2
SPECIFICATION Spec
INVARIANT ReloadAwaitsInitialization
CHECK_DEADLOCK FALSE
