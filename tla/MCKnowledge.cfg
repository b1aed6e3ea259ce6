SPECIFICATION FairSpec
CONSTANTS
    NDocs = 2
    BatchSize = 1
    MaxEvents = 1
    MaxInits = 2
    MaxProcs = 2
INVARIANTS
    TypeOK
    ServedIsCurrent
    VectorWhole
PROPERTIES
    StartServesUncut
