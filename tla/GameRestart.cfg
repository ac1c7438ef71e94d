SPECIFICATION Spec
CONSTANTS
    Sessions = {host, guest}
    Host = host
    PlayerOrder <- HostFirst
    Heights <- Shore
    Starts = {1, 2}
    Offsets <- TwoUnits
    Clicks = {1}
    Tile = 3
    Step = 2
    CellSize = 3
    Cells = 4
    MaxStarts = 2
    MaxOrders = 0
    None = none
    host = host
    guest = guest
PROPERTY NeverReplaced
