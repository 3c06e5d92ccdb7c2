\* Two workers: one proposal through two rounds of scrutiny.
CONSTANTS
    Workers = {w1, w2}
    Proposals = {p1}
    States = {s1, s2}
    Roles = {"REQUIRING_BODY", "DISTRICT_OFFICER"}
    EarlierCases = {}
    MaxReviews = 9
    MaxContent = 1
SPECIFICATION Spec
SYMMETRY MCSymmetry
INVARIANTS
    StatusEndsFileHistory
    OneCasePerSanction
\* Decided and withdrawn proposals move no further.
CHECK_DEADLOCK FALSE
