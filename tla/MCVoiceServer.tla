--------------------------- MODULE MCVoiceServer ---------------------------
(* Instances of VoiceServer for TLC.                                       *)
EXTENDS VoiceServer, TLC

CONSTANTS loop, w1, w2

AllRequests  == {"create", "get", "audio", "list", "delete", "voice", "text", "spoken"}
NoDeletes    == AllRequests \ {"delete"}
Everyday     == NoDeletes \ {"spoken"}
Racing       == AllRequests \ {"get", "voice", "text"}
TurnsOnly    == {"create", "voice", "text", "spoken"}
OneWorker    == {w1}
TwoWorkers   == {w1, w2}
OneThread    == {w1, loop}
TwoThreads   == {w1, w2, loop}

Symmetric == Permutations({w1, w2}) \cup Permutations(Sids)
=============================================================================
