SPECIFICATION FairSpec
CONSTANTS
    Workers = {w1, w2, w3}
    Threshold = 2
    Cooldown = 2
    MaxProbes = 2
    MaxFaults = 2
INVARIANTS
    TypeOK
    Coherent
    ProbeSlotsAccounted
    WrittenThrough
PROPERTIES
    AvailableUnlessLost
