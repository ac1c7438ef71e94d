CONSTANTS
    Sessions = {s1, s2, s3}
    Names = {n1, n2, n3}
    MaxRooms = 2
    Workers = 1
    NoRoom = NoRoom
    NoName = NoName
SPECIFICATION Spec
SYMMETRY Symmetry
INVARIANTS Membership NamesOfLive Screens
