SPECIFICATION Spec
CONSTANTS
    Sids = {s1}
    NoSid = NoSid
    OldSids = {}
    Calls = {c1, c2}
    Mics = {m1, m2}
    NoMic = NoMic
    Recs = {r1, r2}
    NoRec = NoRec
    Acts <- AllActs
SYMMETRY Symmetric
INVARIANTS TypeOK Operable
