--------------------------- MODULE CaseLifecycle ---------------------------
(***************************************************************************)
(* What the case workflow promises, without saying how a request is        *)
(* executed: a case is at one stage of the Act and moves one stage at a    *)
(* time, a case on hold does not move and stays on hold until it is        *)
(* resumed, it is closed exactly by reaching the last stage, and it enters *)
(* the two gated stages only when nothing is open against it.              *)
(***************************************************************************)
EXTENDS Stages

VARIABLES
    stage,          \* where the case is
    status,         \* ACTIVE, STALLED (on hold) or CLOSED
    objectionOpen,  \* is some objection filed and not disposed of?
    surveyOpen      \* is some survey task not approved yet?

vars == <<stage, status, objectionOpen, surveyOpen>>

StatusAt(s) == IF s = TERMINAL_STAGE THEN "CLOSED" ELSE "ACTIVE"

Init ==
    /\ stage \in Stage
    /\ status = StatusAt(stage)
    /\ objectionOpen \in BOOLEAN
    /\ surveyOpen \in BOOLEAN

Move(to) ==
    /\ status # "STALLED"
    /\ to \in Stage /\ to \in {stage - 1, stage + 1}
    /\ stage = OBJECTION_PERIOD /\ to = DECLARATION => ~objectionOpen
    /\ stage = LAND_VERIFICATION /\ to = OBJECTION_PERIOD => ~surveyOpen
    /\ stage' = to
    /\ status' = StatusAt(to)
    /\ UNCHANGED <<objectionOpen, surveyOpen>>

Hold ==
    /\ status = "ACTIVE"
    /\ status' = "STALLED"
    /\ UNCHANGED <<stage, objectionOpen, surveyOpen>>

Resume ==
    /\ status = "STALLED"
    /\ status' = "ACTIVE"
    /\ UNCHANGED <<stage, objectionOpen, surveyOpen>>

\* Objections and surveys come and go beside the case.
RecordChanges ==
    /\ objectionOpen' \in BOOLEAN
    /\ surveyOpen' \in BOOLEAN
    /\ UNCHANGED <<stage, status>>

Next ==
    \/ \E to \in Stage : Move(to)
    \/ Hold
    \/ Resume
    \/ RecordChanges

Spec == Init /\ [][Next]_vars
=============================================================================
