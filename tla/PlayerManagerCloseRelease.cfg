\* Clients close their file and then release the port.
CONSTANTS
    Clients = {c1, c2}
    MAX_PORT_NUM = 2
    MaxPlayers = 4
    None = None
SPECIFICATION Spec
INVARIANTS
    HeldUntilReleased
\* A null dereference ends the process.
CHECK_DEADLOCK FALSE
