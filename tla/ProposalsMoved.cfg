\* One worker: a proposal whose village moves to another state.
CONSTANTS
    Workers = {w1}
    Proposals = {p1, p2}
    States = {s1, s2}
    Roles = {"REQUIRING_BODY", "DISTRICT_OFFICER"}
    EarlierCases = {}
    MaxReviews = 2
    MaxContent = 1
SPECIFICATION Spec
SYMMETRY MCSymmetry
INVARIANTS
    NextNumberIsFree
\* Decided and withdrawn proposals move no further.
CHECK_DEADLOCK FALSE
