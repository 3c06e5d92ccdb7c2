\* Two workers: a case that skips a stage.
CONSTANTS
    Workers = {w1, w2}
    Objections = {o1}
    Surveys = {s1}
    StandardDays <- MCStandardDays
    StartStages = {4}
    MaxMoves = 3
    MaxDay = 1
SPECIFICATION Spec
PROPERTY OneStepAtATime
