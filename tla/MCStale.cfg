SPECIFICATION Spec
CONSTANTS
    loop = loop
    w1 = w1
    w2 = w2
    Sids = {s1}
    NoThread = NoThread
    NoSid = NoSid
    Loop = loop
    Workers <- OneWorker
    Threads <- OneThread
    Requests <- NoDeletes
    MaxTurns = 2
    MaxDeletes = 0
    MaxCrashes = 1
INVARIANTS AckedTurnsSaved
