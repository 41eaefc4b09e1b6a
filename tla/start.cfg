SPECIFICATION FairSpec
CONSTANTS
    None = None
    c1 = c1  c2 = c2  c3 = c3  w1 = w1  w2 = w2
    Channel <- Channels2
    Worker = {w1, w2}
    LoopOf <- OneEach
    Adders <- Adder
    HandlerEvent = {"Message"}
    MaxCallbacks = 2
INVARIANTS TypeOK StartInv ReadyBeforeEvents RunnersAreInTime
PROPERTIES StartIsDecided DestroyClosesAll
CHECK_DEADLOCK FALSE
