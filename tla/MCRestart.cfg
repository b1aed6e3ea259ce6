SPECIFICATION Spec
CONSTANTS
    loop = loop
    w1 = w1
    w2 = w2
    Sids = {s1}
    NoThread = NoThread
    NoSid = NoSid
    Loop = loop
    Workers <- OneWorker
    Threads <- OneThread
    Requests <- TurnsOnly
    MaxTurns = 3
    MaxDeletes = 0
    MaxCrashes = 2
CHECK_DEADLOCK FALSE
INVARIANTS AckedTurnsKept AudioOfTurn HistoryOrdered
