----------------------------- MODULE CaseFiles -----------------------------
(***************************************************************************)
(* The file of one case as officers work on it and days pass, and what the *)
(* rules, the forecast and the screens make of it (Rules, Forecast,        *)
(* Figures).                                                               *)
(*                                                                         *)
(* How the operations that write the file decide and overlap is modelled   *)
(* where they are (CaseWorkflow, Objections, Compensation, Households,     *)
(* Documents, Parcels); here each is what it leaves for the readers.       *)
(***************************************************************************)
EXTENDS Requests, Figures

CONSTANTS
    StandardDays,   \* stage_sla.standard_days
    WarnDays,       \* the warning window of each stage
    Required,       \* required_documents: document types by stage
    FirstStages,    \* stages the case may be at on the first day
    Days,           \* the days looked at
    Others,         \* durations of a stage other cases may have shown
    MaxActs         \* bound: what officers do

VARIABLES
    file,           \* the case with its timeline, documents, objections, money
    others,         \* the durations other cases showed at each stage
    acts,           \* acts so far
    today

vars == <<orderly, request, file, others, acts, today>>

-----------------------------------------------------------------------------
DocType == UNION {Required[s] : s \in Stage}

Objection == [status : {"FILED", "UNDER_REVIEW", "RESOLVED", "REJECTED"}, filed : Days]

Award == [status : {"NONE", "ASSESSED", "DISPUTED", "PAID"}, pending : BOOLEAN,
          on : Days \cup {NoDate}]

\* parcel: the case's only one, if it is captured: with a point, surveyed, or
\* surveyed and taken into possession.
CaseFile ==
    [stage : Stage, status : CaseStatus, changed : Days,
     due : Int, history : Seq([to : Stage, on : Days]), docs : SUBSET DocType,
     objections : Seq(Objection), award : Award,
     rnr : {"NONE", "PENDING", "IN_PROGRESS", "COMPLETED", "DISPUTED"},
     deposited : BOOLEAN, parcel : {"none", "point", "surveyed", "taken"}]

\* A case that came to a stage today; of before deadlines, it has none.
Opened(s, due) ==
    [stage |-> s, status |-> "ACTIVE", changed |-> today, due |-> due,
     history |-> <<[to |-> s, on |-> today]>>, docs |-> {}, objections |-> <<>>,
     award |-> [status |-> "NONE", pending |-> FALSE, on |-> NoDate],
     rnr |-> "NONE", deposited |-> FALSE, parcel |-> "none"]

DueDateFor(s, day) == day + StandardDays[s]

Init ==
    /\ InitRequests
    /\ today = 1
    /\ acts = 0
    /\ others \in Others
    /\ \E s \in FirstStages : file \in {Opened(s, DueDateFor(s, today)), Opened(s, NoDate)}

-----------------------------------------------------------------------------
Write(changed) ==
    /\ acts < MaxActs
    /\ acts' = acts + 1
    /\ file' = changed
    /\ UNCHANGED <<orderly, request, others, today>>

\* advance_case
MoveCase(to) ==
    /\ to \in AllowedTransitions(file.stage)
    /\ file.stage = OBJECTION_PERIOD /\ to = DECLARATION =>
          \A o \in DOMAIN file.objections : file.objections[o].status \notin OPEN_STATUSES
    /\ Write([file EXCEPT
            !.stage = to, !.changed = today, !.due = DueDateFor(to, today),
            !.status = IF to = TERMINAL_STAGE THEN "CLOSED" ELSE "ACTIVE",
            !.history = Append(@, [to |-> to, on |-> today])])

HoldCase == file.status = "ACTIVE" /\ Write([file EXCEPT !.status = "STALLED"])

FileObjection ==
    Write([file EXCEPT !.objections = Append(@, [status |-> "FILED", filed |-> today])])

RespondToObjection(o, status) == Write([file EXCEPT !.objections[o].status = status])

UploadDocument(docType) == Write([file EXCEPT !.docs = @ \cup {docType}])

\* The date of an award may be left out.
DeclareAward(on) ==
    /\ file.award.status = "NONE"
    /\ Write([file EXCEPT !.award = [status |-> "ASSESSED", pending |-> TRUE, on |-> on]])

\* A full payment settles the award, a dispute does not.
UpdateAward(status) ==
    /\ file.award.status \notin {"NONE", "PAID"}
    /\ Write([file EXCEPT !.award.status = status, !.award.pending = status # "PAID"])

RecordFundDeposit == Write([file EXCEPT !.deposited = TRUE])

\* A household is added, or its entitlement moves.
UpdateRnr(status) ==
    /\ status = "PENDING" \/ file.rnr # "NONE"
    /\ Write([file EXCEPT !.rnr = status])

UpdateParcel(parcel) == Write([file EXCEPT !.parcel = parcel])

\* Nobody does anything until another day.
DaysPass ==
    /\ \E day \in Days : day > today /\ today' = day
    /\ UNCHANGED <<orderly, request, file, others, acts>>

Next ==
    \/ \E to \in Stage : MoveCase(to)
    \/ HoldCase
    \/ FileObjection
    \/ \E o \in DOMAIN file.objections, status \in {"UNDER_REVIEW", "RESOLVED"} :
          RespondToObjection(o, status)
    \/ \E docType \in DocType : UploadDocument(docType)
    \/ \E on \in {today, NoDate} : DeclareAward(on)
    \/ \E status \in {"DISPUTED", "PAID"} : UpdateAward(status)
    \/ RecordFundDeposit
    \/ \E status \in {"PENDING", "IN_PROGRESS", "COMPLETED"} : UpdateRnr(status)
    \/ \E parcel \in {"point", "surveyed", "taken"} : UpdateParcel(parcel)
    \/ DaysPass

Spec == orderly \in BOOLEAN /\ Init /\ [][Next]_vars

-----------------------------------------------------------------------------
\* The file is well formed.
TypeOK ==
    /\ RequestsOK({})
    /\ file \in CaseFile
    /\ others \in Others /\ acts \in 0..MaxActs /\ today \in Days

Alerts(day) == RunAllRules(file, Required, day)

AlertsOf(rule) == {a \in Alerts(today) : a.rule = rule}

Outlook(day) == ForecastCase(file, others, Required, StandardDays, day)

Tracking(day) == TimelineStatus(file.due, file.stage, WarnDays, day)

(***************************************************************************)
(* "Same threshold the objection_unanswered rule uses, so the case page    *)
(* and the dashboard alert can never disagree about which objections are   *)
(* late" (objections.py), and the same of the other figures the code works *)
(* out in several places: deadlines, the worst alert, missing documents,   *)
(* open objections, the next action, the day possession was taken.  The    *)
(* pessimistic date is never the sooner.                                   *)
(***************************************************************************)
DeadlinesAgree ==
    LET breached == file.due # NoDate /\ Tracking(today) = "BREACHED"
        detail == GetCase(file, WarnDays, today)
    IN  /\ breached <=> BreachedCount(file, today)
        /\ breached <=> ListCases(file, WarnDays, TRUE, today) = {detail.row}
        /\ breached <=> TimelineKpi(file, WarnDays, today) = "BREACHED"
        /\ AlertsOf("timeline_breach") # {} <=> breached /\ file.status # "CLOSED"
        /\ detail.row.days_in_stage = DaysInStage(file, today)
        /\ ClosedOn(file) \in {{}, {detail.stage_history[Len(detail.stage_history)].on}}
        /\ AreaAcquiredOn(file) \in {{}, {PossessionSince(file)}}
        /\ Outlook(today).projected <= Outlook(today).pessimistic

AlertsAgree ==
    LET attention == Attention(file, Required, today)
        shown == DashboardAlerts(file, Required, today)
        worse == {s \in DOMAIN shown.by_severity : s < attention.priority}
    IN  /\ attention.open_alerts = shown.total
        /\ \A s \in worse : shown.by_severity[s] = 0
        /\ shown.total > 0 => shown.by_severity[attention.priority] > 0
        /\ \A o \in DOMAIN file.objections :
              IsOverdue(file.objections[o], today)
                  <=> \E a \in AlertsOf("objection_unanswered") : a.of = o
        /\ attention.open_objections = Pressure(file, Required).open_objections
        /\ Pressure(file, Required).unpaid_awards > 0 => attention.compensation_pending
        /\ attention.rnr_pending => RnrOutstanding(file)
        /\ GetCase(file, WarnDays, today).row.timeline = "BREACHED"
              <=> \E left \in attention.days_remaining : left < 0
        /\ AlertsOf("possession_before_rnr") # {} => RnrOutstanding(file)

WorkAgrees ==
    LET missing == DocumentsDesk(file, Required).missing IN
    /\ AlertsOf("document_missing") # {} <=> missing # {}
    /\ Cardinality(missing) = Pressure(file, Required).missing_documents
    /\ FieldWork(file, Required) # {} => missing \subseteq FieldWork(file, Required)
    /\ NextAction(file, Required) = "upload" <=> missing # {}
    /\ NextAction(file, Required) = "advance"
          => file.stage + 1 \in GetCase(file, WarnDays, today).allowed_next_stages

ReadersAgree == DeadlinesAgree /\ AlertsAgree /\ WorkAgrees

\* At least as bad.
Covers(later, earlier) ==
    \A a \in earlier : \E b \in later :
        b.rule = a.rule /\ b.of = a.of /\ b.severity <= a.severity

(***************************************************************************)
(* Waiting never helps: over days in which nobody does anything, no alert  *)
(* goes away or gets milder, no deadline looks better, no risk falls, and  *)
(* no forecast comes nearer by more than the day that rounding a half to   *)
(* the even day can make.                                                  *)
(***************************************************************************)
WaitingNeverHelps ==
    LET now == Outlook(today) IN
    \A day \in {d \in Days : d > today} :
        LET later == Outlook(day) IN
        /\ Covers(Alerts(day), Alerts(today))
        /\ Lateness(Tracking(today)) <= Lateness(Tracking(day))
        /\ now.score <= later.score
        /\ now.projected <= later.projected + 1
        /\ now.pessimistic <= later.pessimistic + 1
=============================================================================
