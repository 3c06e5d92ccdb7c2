\* One worker: requests run one after the other, from any stage.
CONSTANTS
    Workers = {w1}
    Objections = {o1, o2}
    Surveys = {s1}
    StandardDays <- MCStandardDays
    StartStages = {1, 3, 4, 7, 9}
    MaxMoves = 4
    MaxDay = 1
SPECIFICATION Spec
SYMMETRY MCSymmetry
INVARIANTS
    HistoryIsAPath
    DueDateDescribesStage
PROPERTIES
    ImplementsLifecycle
