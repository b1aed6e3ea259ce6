SPECIFICATION Spec
CONSTANTS
    loop = loop
    w1 = w1
    w2 = w2
    Sids = {s1, s2}
    NoThread = NoThread
    NoSid = NoSid
    Loop = loop
    Workers <- TwoWorkers
    Threads <- TwoThreads
    Requests <- Everyday
    MaxTurns = 2
    MaxDeletes = 0
    MaxCrashes = 0
SYMMETRY Symmetric
INVARIANTS TypeOK SavesExclude AckedTurnsKept AudioOfTurn
PROPERTIES ImplementsLog
