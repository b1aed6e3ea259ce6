SPECIFICATION Spec
CONSTANTS
    Sids = {s1}
    Keys = {k1}
    NoSid = NoSid
    NoKey = NoKey
    MaxToolSteps = 2
    WebSearch = FALSE
    MaxItems = 2
INVARIANTS ToolRounds
