SPECIFICATION Spec
CONSTANTS
    k0 = k0
    Keys = {k0, k1, k2, k3}
    Rate <- UniformRate
    Burst <- UniformBurst
    One = 2
    Sub = 1
    PruneInterval = 5
    PruneThrottle = 2
    MaxBuckets = 2
    MaxTime = 9
INVARIANTS
    TypeOK

    
