\* One worker: two surveys and their reviews.
\* Deadlock is not an error: every survey may be approved, every mismatch answered.
CONSTANTS
    Workers = {w1}
    Tasks = {t1, t2}
    Walks = {b1, b2}
    NoWalk = NoWalk
    Photos = {p1}
    Mismatches = {m1, m2}
SPECIFICATION Spec
SYMMETRY MCSymmetry
INVARIANTS
    TypeOK
    RecordIsAnApprovedWalk
    FlagIsExplained
PROPERTIES
    SubmittedEvidenceStays
    RecordWrittenOnce
    AnswerClearsOnlyTheLast
CHECK_DEADLOCK FALSE
