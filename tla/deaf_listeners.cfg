SPECIFICATION Spec
CONSTANTS
    None = None
    c1 = c1  c2 = c2  c3 = c3  w1 = w1  w2 = w2
    Channel <- Channels3
    Worker = {w1, w2}
    LoopOf <- InTurn
    Adders <- AsTheGuide
    HandlerEvent = {"Active", "Message"}
    MaxCallbacks = 1
PROPERTIES ListenersAreHeard
CHECK_DEADLOCK FALSE
