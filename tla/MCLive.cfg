SPECIFICATION FairSpec
CONSTANTS
    loop = loop
    w1 = w1
    w2 = w2
    Sids = {s1}
    NoThread = NoThread
    NoSid = NoSid
    Loop = loop
    Workers <- TwoWorkers
    Threads <- TwoThreads
    Requests <- Racing
    MaxTurns = 1
    MaxDeletes = 2
    MaxCrashes = 0
INVARIANTS RefsValid TornOnlyWhileWriting
PROPERTIES EveryRequestEnds GoneForGood
