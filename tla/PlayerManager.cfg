\* The first calls race; clients close, release or do both, in every order.
CONSTANTS
    Clients = {c1, c2}
    MAX_PORT_NUM = 3
    MaxPlayers = 8
    None = None
SPECIFICATION Spec
INVARIANTS
    TypeOK
    PortExclusive
    UsedPortHasPlayer
    MapsSound
\* A null dereference ends the process.
CHECK_DEADLOCK FALSE
