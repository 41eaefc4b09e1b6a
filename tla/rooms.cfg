SPECIFICATION Spec
CONSTANTS
    None = None
    c1 = c1  c2 = c2  c3 = c3  a1 = a1  a2 = a2
    i1 = i1  i2 = i2  i3 = i3  alice = alice  bob = bob
    g1 = g1  room = room  hall = hall  loop1 = loop1  loop2 = loop2
    online = online
    Session <- Channels3
    App <- App1
    Proc <- Procs3App1
    Id <- SharedIds
    Gid <- OneGid
    Group = {online, room, hall}
    AppCalls = {"createGroup", "removeGroup"}
    Loop <- SharersOneLoop
    ShortText <- ShortText3
    HookIds <- SharedHookIds
    HookGroups <- OneJoins
    StartGroups <- RoomOpen
    AutoRegister = TRUE
    Throwing = {"registerBefore", "removeBefore"}
INVARIANTS GoneIsForgotten IndexesAgree
PROPERTIES RemovesOnlyItsOwn
CHECK_DEADLOCK FALSE
