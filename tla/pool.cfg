CONSTANTS
    w1 = w1
    w2 = w2
    w3 = w3
    Workers <- MCWorkers
    MaxTrajectories = 2
SPECIFICATION FairSpec
INVARIANTS
    TypeOK
    OnePlace
    NoTaskOutlivesCall
    NoLostWakeup
PROPERTIES
    ImplementsOptimizeCall
    CallReturns
    PoolIsJoined
