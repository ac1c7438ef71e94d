SPECIFICATION ProfiledSpec
CONSTANTS
    Threads = {t1, t2}
    Rooms = {room1, room2}
    Sessions = {session}
    Names <- ServerLockNames
    Locks <- ServerLockSet
    Nests <- NestsOf
    MaxNest <- NestBounds
INVARIANTS NoSilentDeadlock ServerGetsOn
PROPERTIES ImplementsOrder
CHECK_DEADLOCK FALSE
SYMMETRY Symmetry
