SPECIFICATION FairSpec
CONSTANTS
    Workers = {w1, w2}
    Threshold = 2
    Cooldown = 2
    MaxProbes = 1
    MaxFaults = 1
PROPERTIES
    AvailableAgain
