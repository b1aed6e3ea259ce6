SPECIFICATION FairSpec
CONSTANTS
    Sids = {s1, s2}
    NoSid = NoSid
    OldSids = {s1}
    Calls = {c1, c2}
    Mics = {m1, m2}
    NoMic = NoMic
    Recs = {r1, r2}
    NoRec = NoRec
    Acts <- Patient
INVARIANTS MicAccounted WholeUtterance OneTurnAtATime
PROPERTIES ListeningResumes
