SPECIFICATION FairSpec
CONSTANTS
    None = None
    c1 = c1  c2 = c2  c3 = c3  a1 = a1  a2 = a2
    i1 = i1  i2 = i2  i3 = i3  alice = alice  bob = bob
    g1 = g1  room = room  hall = hall  loop1 = loop1  loop2 = loop2
    online = online
    Session <- Channel1
    App <- App1
    Proc <- Procs1App1
    Id <- AliceIds
    Gid <- OneGid
    Group = {online, room, hall}
    AppCalls = {"ban", "createGroup", "removeGroup", "addSession", "removeSession", "findSessionInGroup"}
    Loop <- TwoLoops
    ShortText <- OneShortText
    HookIds <- OneHookIds
    HookGroups <- AllJoinGroups
    StartGroups <- RoomOpen
    AutoRegister = FALSE
    Throwing = {}
INVARIANTS TypeOK
PROPERTIES CallsEnd
CHECK_DEADLOCK FALSE
