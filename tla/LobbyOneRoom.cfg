CONSTANTS
    Sessions = {s1, s2, s3}
    Names = {n1, n2, n3}
    MaxRooms = 1
    Workers = 2
    NoRoom = NoRoom
    NoName = NoName
SPECIFICATION Spec
SYMMETRY Symmetry
INVARIANT RoomExact
