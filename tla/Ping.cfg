CONSTANTS
    Proc = {1, 2, 3}
    RawPcbs = 2
    Timeout = 2
SPECIFICATION PingSpec
INVARIANTS OnePingAtATime 
PROPERTY PingReturns
