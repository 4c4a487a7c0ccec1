SPECIFICATION FairSpec
CONSTANTS
    w1 = w1
    w2 = w2
    Workers <- MCWorkers
    TTL = 4
    MinTTL = 2
    MaxPause = 1
    MaxTime = 7
    MaxFaults = 1
INVARIANTS
    NoNilClient
    TokenLasts
PROPERTY SecretsResolved
