SPECIFICATION FairSpec
CONSTANTS
    BufferSize = 4
    BufferCount = 3
    HeaderSize = 2
    MaxPackets = 6
INVARIANTS DeliveredInOrder RoomToReceive NoOverlap
PROPERTIES AllDelivered
