SPECIFICATION FairSpec
CONSTANTS
    Turns = {t1, t2}
    Local = {qwen, gemma}
    Remote = {sim}
    Nobody = Nobody
    MaxPieces = 2
    MaxCalls = 2
CHECK_DEADLOCK FALSE
INVARIANTS
    TypeOK
    LoadedOnce
    OneGeneration
    ReplyWhole
PROPERTIES
    TurnsEnd
