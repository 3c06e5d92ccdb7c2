------------------------------- MODULE Stages -------------------------------
(***************************************************************************)
(* The vocabulary of a land acquisition case: the nine stages in the order *)
(* of the RFCTLARR Act, the three case statuses, and which officer works   *)
(* at which stage (app/core/enums.py, app/services/workflow.py).           *)
(***************************************************************************)
EXTENDS Integers

PRELIMINARY_NOTIFICATION    == 1
SOCIAL_IMPACT_ASSESSMENT    == 2
LAND_VERIFICATION           == 3
OBJECTION_PERIOD            == 4
DECLARATION                 == 5
AWARD                       == 6
REHABILITATION_RESETTLEMENT == 7
POSSESSION                  == 8
MONITORING                  == 9

\* STAGE_ORDER: a stage is its position in the Act's order.
Stage == 1..9

TERMINAL_STAGE == MONITORING

\* What from_stage of the first history row holds: the case came from nowhere.
NoStage == 0

CaseStatus == {"ACTIVE", "STALLED", "CLOSED"}

\* The officers who move cases.  ADMIN, DISTRICT_OFFICER and SLAO
\* (CASE_STAGE_OWNERS) are told apart by no rule modelled here.
Role == {"STAGE_OWNER", "FIELD_OFFICER", "RNR_OFFICER"}

\* The specialist STAGE_RESPONSIBLE_ROLE names for a stage; the other stages
\* name an SLAO or a District Officer, who are stage owners anyway.
STAGE_RESPONSIBLE_ROLE ==
    [s \in Stage |->
        IF s \in {LAND_VERIFICATION, POSSESSION} THEN "FIELD_OFFICER"
        ELSE IF s = REHABILITATION_RESETTLEMENT THEN "RNR_OFFICER"
        ELSE "STAGE_OWNER"]

FIELD_OFFICER_STAGES ==
    {SOCIAL_IMPACT_ASSESSMENT, LAND_VERIFICATION, OBJECTION_PERIOD}

\* One step forward or one step back, never further.
AllowedTransitions(s) == {s - 1, s + 1} \cap Stage

CanAdvance(role, s) ==
    \/ role = "STAGE_OWNER"
    \/ STAGE_RESPONSIBLE_ROLE[s] = role
=============================================================================
