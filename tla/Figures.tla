------------------------------ MODULE Figures ------------------------------
(***************************************************************************)
(* What the screens say of a case on a given day: app/routers/dashboard.   *)
(* py, app/ai_layer/kpis/, app/services/sla.py and the objection list.     *)
(* Each reader asks the tables itself.  A figure of several cases is the   *)
(* sum of what each of them contributes, which is what is here.            *)
(***************************************************************************)
EXTENDS Forecast

\* timeline_status.  warnDays are the whole days of the warning window
\* standard_days * (1.0 - warn_at_fraction), as floating point has it.
TimelineStatus(due, stage, warnDays, asOf) ==
    IF due = NoDate THEN "ON_TIME"
    ELSE IF asOf > due THEN "BREACHED"
    ELSE IF due - asOf <= warnDays[stage] THEN "AT_RISK" ELSE "ON_TIME"

\* From the best to the worst.
Lateness(status) == CASE status = "ON_TIME" -> 0
                      [] status = "AT_RISK" -> 1
                      [] status = "BREACHED" -> 2

\* timeline_kpis: the count a case goes into.
TimelineKpi(c, warnDays, asOf) ==
    IF c.due = NoDate THEN "UNTRACKED" ELSE TimelineStatus(c.due, c.stage, warnDays, asOf)

\* What a row of the register says of the days.
CaseRow(c, warnDays, asOf) ==
    [days_in_stage |-> asOf - c.changed,
     days_remaining |-> IF c.due = NoDate THEN {} ELSE {c.due - asOf},
     timeline |-> TimelineStatus(c.due, c.stage, warnDays, asOf)]

\* list_cases: the rows the case is there with, everything or what is overdue.
ListCases(c, warnDays, overdueOnly, asOf) ==
    IF overdueOnly /\ (c.due = NoDate \/ c.due >= asOf) THEN {}
    ELSE {CaseRow(c, warnDays, asOf)}

\* get_case
GetCase(c, warnDays, asOf) ==
    [row |-> CaseRow(c, warnDays, asOf), allowed_next_stages |-> AllowedTransitions(c.stage),
     stage_history |-> c.history]

\* missing_documents of the documents desk.
DocumentsDesk(c, required) ==
    [required |-> required[c.stage], present |-> c.docs,
     missing |-> required[c.stage] \ c.docs]

\* The next action the report of a case names.
NextAction(c, required) ==
    IF required[c.stage] \ c.docs # {} THEN "upload"
    ELSE IF c.stage = TERMINAL_STAGE THEN "none" ELSE "advance"

\* cases_by_stage: whether it is in breached_count.
BreachedCount(c, asOf) == c.due # NoDate /\ c.due < asOf

\* Mutant of IsOverdue: late from the last day of the response window.
IsOverdueEarly(objection, asOf) ==
    /\ objection.status \in OPEN_STATUSES
    /\ asOf - objection.filed >= OBJECTION_RESPONSE_DAYS

\* is_overdue of the objection list.
IsOverdue(objection, asOf) ==
    /\ objection.status \in OPEN_STATUSES
    /\ asOf - objection.filed > OBJECTION_RESPONSE_DAYS

\* dashboard_alerts, when the rules have just run.
DashboardAlerts(c, required, asOf) ==
    LET alerts == RunAllRules(c, required, asOf) IN
    [total |-> Cardinality(alerts),
     by_severity |-> [s \in {CRITICAL, HIGH, MEDIUM} |->
                         Cardinality({a \in alerts : a.severity = s})]]

\* cases_requiring_attention, when the rules have just run.
Attention(c, required, asOf) ==
    LET alerts == RunAllRules(c, required, asOf) IN
    [open_alerts |-> Cardinality(alerts),
     priority |-> Min({a.severity : a \in alerts} \cup {MEDIUM + 1}),
     days_remaining |-> IF c.due = NoDate THEN {} ELSE {c.due - asOf},
     open_objections |-> Cardinality({o \in DOMAIN c.objections :
                             c.objections[o].status \in {"FILED", "UNDER_REVIEW"}}),
     compensation_pending |-> c.award.status \notin {"NONE", "PAID"},
     rnr_pending |-> c.rnr \in {"PENDING", "IN_PROGRESS"}]

\* field_work_queue: what a visit would resolve, if anything.
FieldWork(c, required) ==
    IF c.status # "ACTIVE" \/ c.stage \notin FIELD_OFFICER_STAGES THEN {}
    ELSE MissingDocuments(c, required)
         \cup (IF c.parcel = "point" THEN {"boundary"} ELSE {})
         \cup (IF c.parcel = "none" /\ c.stage # SOCIAL_IMPACT_ASSESSMENT
               THEN {"parcels"} ELSE {})

\* area_kpis and possession_kpis: whether the land counts as acquired.
AreaAcquired(c) == c.parcel = "taken"

\* dashboard_trends: the days whose months the acquired land is counted in.
AreaAcquiredOn(c) ==
    LET possession == {i \in DOMAIN c.history : c.history[i].to = POSSESSION} IN
    IF possession = {} \/ ~AreaAcquired(c) THEN {}
    ELSE {Min({c.history[i].on : i \in possession})}

\* dashboard_trends: the day whose month the closed case is counted in.
ClosedOn(c) == IF c.status = "CLOSED" THEN {c.changed} ELSE {}

\* rnr_kpis
RnrOutstanding(c) == c.rnr \in {"PENDING", "IN_PROGRESS", "DISPUTED"}
=============================================================================
