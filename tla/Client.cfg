SPECIFICATION FairSpec
CONSTANTS
    MaxRooms = 2
    MaxUnits = 2
    MaxMoves = 1
INVARIANTS   SceneFollows
PROPERTIES CatchesUp
