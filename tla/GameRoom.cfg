SPECIFICATION FairSpec
CONSTANTS
    Sessions = {host, guest}
    Host = host
    PlayerOrder <- HostFirst
    Heights <- Shore
    Starts = {2, 4}
    Offsets <- OneUnit
    Clicks = {1}
    Tile = 3
    Step = 2
    CellSize = 3
    Cells = 4
    MaxStarts = 1
    MaxOrders = 2
    None = none
    host = host
    guest = guest
INVARIANTS
    NullOnlyAfterHost
    
    GridCovers
    Walks
PROPERTIES
    Arrives
