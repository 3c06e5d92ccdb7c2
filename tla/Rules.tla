------------------------------- MODULE Rules -------------------------------
(***************************************************************************)
(* What is wrong with a case on a given day: the eight alert rules of app/ *)
(* ai_layer/rules/, over what app/ai_layer/loaders.py reads of a case.     *)
(*                                                                         *)
(* Days are counted; the wording and the details of an alert are left out. *)
(***************************************************************************)
EXTENDS Stages, Sequences, FiniteSets

STALLED_DAYS            == 10
STALLED_CRITICAL_DAYS   == 20
OBJECTION_RESPONSE_DAYS == 21
AWARD_PAYMENT_DAYS      == 30
FIVE_YEARS_DAYS         == 5 * 365

\* SEVERITY_RANK: the worst comes first.
CRITICAL == 0
HIGH     == 1
MEDIUM   == 2

\* A date that is not there.
NoDate == 0

OPEN_STATUSES == {"FILED", "UNDER_REVIEW"}

-----------------------------------------------------------------------------
\* The earliest row of the timeline into POSSESSION.
PossessionSince(c) ==
    LET entered == {c.history[i].on : i \in {j \in DOMAIN c.history :
                                                 c.history[j].to = POSSESSION}}
    IN  IF entered = {} THEN NoDate ELSE CHOOSE d \in entered : \A e \in entered : d <= e

\* Required by the stage and on file in no current version.
MissingDocuments(c, required) == required[c.stage] \ c.docs

Alert(rule, severity) == [rule |-> rule, severity |-> severity, of |-> 0]

\* Mutant of CaseStalled: the critical threshold is met on its own day only.
CaseStalledOnTheDay(c, asOf) ==
    LET days == asOf - c.changed IN
    IF c.status = "CLOSED" \/ days < STALLED_DAYS THEN {}
    ELSE {Alert("case_stalled", IF days = STALLED_CRITICAL_DAYS THEN HIGH ELSE MEDIUM)}

CaseStalled(c, asOf) ==
    LET days == asOf - c.changed IN
    IF c.status = "CLOSED" \/ days < STALLED_DAYS THEN {}
    ELSE {Alert("case_stalled", IF days >= STALLED_CRITICAL_DAYS THEN HIGH ELSE MEDIUM)}

DocumentMissing(c, required) ==
    IF MissingDocuments(c, required) = {} THEN {} ELSE {Alert("document_missing", MEDIUM)}

\* One alert for each late objection.
ObjectionUnanswered(c, asOf) ==
    {[Alert("objection_unanswered", CRITICAL) EXCEPT !.of = o] :
        o \in {p \in DOMAIN c.objections :
                  /\ c.objections[p].status \in OPEN_STATUSES
                  /\ asOf - c.objections[p].filed > OBJECTION_RESPONSE_DAYS}}

AwardUnpaid(c, asOf) ==
    IF c.award.on # NoDate /\ c.award.pending /\ asOf - c.award.on > AWARD_PAYMENT_DAYS
    THEN {Alert("award_unpaid", MEDIUM)} ELSE {}

PossessionBeforeRnr(c) ==
    IF c.stage >= POSSESSION /\ c.rnr \in {"PENDING", "IN_PROGRESS", "DISPUTED"}
    THEN {Alert("possession_before_rnr", CRITICAL)} ELSE {}

TimelineBreach(c, asOf) ==
    IF c.status # "CLOSED" /\ c.due # NoDate /\ asOf > c.due
    THEN {Alert("timeline_breach", HIGH)} ELSE {}

FundDepositMissing(c) ==
    IF c.stage >= AWARD /\ ~c.deposited THEN {Alert("fund_deposit_missing", HIGH)} ELSE {}

UnusedLand(c, asOf) ==
    IF /\ PossessionSince(c) # NoDate
       /\ c.status # "CLOSED"
       /\ asOf - PossessionSince(c) > FIVE_YEARS_DAYS
    THEN {Alert("unused_land", HIGH)} ELSE {}

RunAllRules(c, required, asOf) ==
    CaseStalled(c, asOf) \cup DocumentMissing(c, required) \cup ObjectionUnanswered(c, asOf)
        \cup AwardUnpaid(c, asOf) \cup PossessionBeforeRnr(c) \cup TimelineBreach(c, asOf)
        \cup FundDepositMissing(c) \cup UnusedLand(c, asOf)
=============================================================================
