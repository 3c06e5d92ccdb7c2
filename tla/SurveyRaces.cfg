\* Two workers: what survives overlapping requests.
CONSTANTS
    Workers = {w1, w2}
    Tasks = {t1, t2}
    Walks = {b1}
    NoWalk = NoWalk
    Photos = {}
    Mismatches = {m1}
SPECIFICATION Spec
SYMMETRY MCSymmetry
PROPERTIES
    FlagRaisedWithItsMismatch
    RecordIsNeverErased
CHECK_DEADLOCK FALSE
