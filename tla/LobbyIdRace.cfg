CONSTANTS
    Sessions = {s1, s2}
    Names = {n1, n2}
    MaxRooms = 2
    Workers = 2
    NoRoom = NoRoom
    NoName = NoName
SPECIFICATION Spec
SYMMETRY Symmetry
INVARIANTS HostStays
