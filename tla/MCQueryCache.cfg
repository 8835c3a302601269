CONSTANTS
    k1 = k1
    k2 = k2
    k3 = k3
    Keys <- MCKeys
    Batches <- MCBatches
    SizeOf <- MCSizeOf
    Ttls <- MCTtls
    MaxEntries = 2
    MaxBytes = 3
    MaxTime = 2
SPECIFICATION Spec
SYMMETRY Symmetry
INVARIANTS
    TypeOK
    StructuresAgree
PROPERTIES
    NewResultsFit
    EvictsLeastRecentlyUsed
