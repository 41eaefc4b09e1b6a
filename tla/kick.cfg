SPECIFICATION FairSpec
CONSTANTS
    None = None
    c1 = c1  c2 = c2  c3 = c3  a1 = a1  a2 = a2
    i1 = i1  i2 = i2  i3 = i3  alice = alice  bob = bob
    g1 = g1  room = room  hall = hall  loop1 = loop1  loop2 = loop2
    online = online
    Session <- Channels2
    App <- App1
    Proc <- Procs2App1
    Id <- AllIds
    Gid <- OneGid
    Group = {online}
    AppCalls = {"kick"}
    Loop <- TwoLoops
    ShortText <- ShortText2
    HookIds <- OwnHookIds
    HookGroups <- NobodyJoinsGroups
    StartGroups <- NoGroups
    AutoRegister = TRUE
    Throwing = {"registerBefore"}
INVARIANTS FoundIsIndexed IndexesAgree GoneIsForgotten RegistryInv
PROPERTIES ImplementsDirectory ClosedIsForgotten
CHECK_DEADLOCK FALSE
