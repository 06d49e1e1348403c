SPECIFICATION FairSpec
CONSTANTS
    Thread = {m, w}
    Main = m
    Slots = 4
    FullPacketThreshold = 3
    SatisfactoryCapacity = 4
    MaxPacketSearch = 3
    Packets = 4
    PacketsPerBlock = 1
    MaxPackets = 5
    Objects = 7
    ObjectsLeft = 13
INVARIANTS
    CountersExact
    NoWorkLost
PROPERTIES
    DoneIsDone
    RoomForTwo
    EveryoneLeaves
CHECK_DEADLOCK FALSE
