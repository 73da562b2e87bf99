\* The first calls race.
CONSTANTS
    Clients = {c1, c2}
    MAX_PORT_NUM = 2
    MaxPlayers = 4
    None = None
SPECIFICATION Spec
INVARIANTS
    OneManager
\* A null dereference ends the process.
CHECK_DEADLOCK FALSE
