SPECIFICATION FairSpec
CONSTANTS
    Sids = {s1, s2}
    Keys = {k1, k2}
    NoSid = NoSid
    NoKey = NoKey
    MaxToolSteps = 2
    WebSearch = TRUE
    MaxItems = 3
INVARIANTS TypeOK MemoryIsolated AgentReplies ResultsSeen
PROPERTIES TurnEnds
