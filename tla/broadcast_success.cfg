SPECIFICATION Spec
CONSTANTS
    None = None
    c1 = c1  c2 = c2  i1 = i1  i2 = i2  loop1 = loop1  loop2 = loop2
    room = room
    Session <- Channels2
    Id <- Ids2
    Group = {room}
    Loops <- TwoLoops
    Excludes <- NothingExcluded
    Somes <- AnyIds
INVARIANTS SuccessMeansSent
CHECK_DEADLOCK FALSE
