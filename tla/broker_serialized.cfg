CONSTANTS
    hup = hup
    cmd = cmd
    Maintain = Maintain
    None = None
    Requesters <- MCRequesters
    Reloaders <- MCReloaders
    MaxConns = 2
SPECIFICATION Spec
INVARIANT Serialized
CHECK_DEADLOCK FALSE
