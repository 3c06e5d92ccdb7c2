\* One worker: one proposal after another, in one state.
CONSTANTS
    Workers = {w1}
    Proposals = {p1, p2}
    States = {s1}
    Roles = {"REQUIRING_BODY", "DISTRICT_OFFICER", "MINISTRY_OFFICER"}
    EarlierCases = {98}
    MaxReviews = 5
    MaxContent = 1
SPECIFICATION Spec
SYMMETRY MCSymmetry
INVARIANTS
    ApprovedIsSanctioned
    FileHistoryIsAPath
    NextCaseNumberIsFree
PROPERTIES
    FileUnchangedUnderScrutiny
\* Decided and withdrawn proposals move no further.
CHECK_DEADLOCK FALSE
