SPECIFICATION MapSpec
CONSTANTS
    MaxPacketSize = 4
    MaxPackets = 3
    BlockSizes = {0, 1, 2}
    Shapes <- AllShapes
INVARIANTS
    BufferInBounds
    PortionsOnceInOrder
    FittingPacketsAccounted
CHECK_DEADLOCK FALSE
