\* One worker: the officer named for a stage.
CONSTANTS
    Workers = {w1}
    Objections = {o1}
    Surveys = {s1}
    StandardDays <- MCStandardDays
    StartStages = {7}
    MaxMoves = 3
    MaxDay = 1
SPECIFICATION Spec
INVARIANT WhoMayAdvanceSeesTheCase
