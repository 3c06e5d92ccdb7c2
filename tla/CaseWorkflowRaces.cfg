\* Two workers: requests overlap.
CONSTANTS
    Workers = {w1, w2}
    Objections = {o1}
    Surveys = {s1}
    StandardDays <- MCStandardDays
    StartStages = {3, 8}
    MaxMoves = 3
    MaxDay = 1
SPECIFICATION Spec
SYMMETRY MCSymmetry
INVARIANTS
    TypeOK
    HistoryEndsAtStage
    HistoryRowsLegal
PROPERTIES
    HoldLostOnlyAtTheEnd
