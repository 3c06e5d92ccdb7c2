\* One worker: the thousandth case of a district and year.
CONSTANTS
    Workers = {w1}
    Proposals = {p1}
    States = {s1}
    Roles = {"REQUIRING_BODY", "DISTRICT_OFFICER"}
    EarlierCases = {998, 999}
    MaxReviews = 4
    MaxContent = 0
SPECIFICATION Spec
INVARIANTS
    NextCaseNumberIsFree
\* Decided and withdrawn proposals move no further.
CHECK_DEADLOCK FALSE
