---------------------------- MODULE CaseWorkflow ----------------------------
(***************************************************************************)
(* The life of one acquisition case under the request handlers of          *)
(* app/routers/cases.py and app/services/workflow.py, together with the    *)
(* objections and survey tasks that hold it back.  Cases share no row, so  *)
(* one case is enough.                                                     *)
(*                                                                         *)
(* Workers are the threads that run handlers.  A handler that decides on   *)
(* loaded values is split where other requests can get between its         *)
(* statements: it loads the case, queries the gates, and commits (module   *)
(* UnitOfWork says what a commit writes).  With one worker requests run    *)
(* one after the other, with two they overlap.                             *)
(*                                                                         *)
(* A request refused by a check on its inputs (no remark on a send-back,   *)
(* no step-up token, a role the route rejects) changes nothing and is not  *)
(* a step.  Wording, audit rows and notifications are left out.            *)
(***************************************************************************)
EXTENDS Stages, UnitOfWork, Sequences, FiniteSets

CONSTANTS
    Workers,       \* threads handling requests
    Objections,    \* objections that may be filed against the case
    Surveys,       \* survey tasks that may be created for it
    StandardDays,  \* stage_sla.standard_days of each stage
    StartStages,   \* stages the case may be at when a behaviour begins
    MaxMoves,      \* bound: stage moves per behaviour
    MaxDay         \* bound: days that pass

ASSUME StandardDaysAssumption == StandardDays \in [Stage -> Nat]
ASSUME StartStagesAssumption == StartStages \subseteq Stage
ASSUME BoundsAssumption == MaxMoves \in Nat /\ MaxDay \in Nat

VARIABLES
    case,        \* the row of table cases
    history,     \* the rows of case_stage_history, in commit order
    objections,  \* status of every objection
    surveys,     \* state of every survey task
    request,     \* what each worker is doing, with the row it loaded
    moves,       \* stage moves requested so far (bounded by MaxMoves)
    today

vars == <<case, history, objections, surveys, request, moves, today>>

-----------------------------------------------------------------------------
(***************************************************************************)
(* Rows and requests.                                                      *)
(***************************************************************************)
CaseRow == [stage : Stage, status : CaseStatus, changedAt : Nat, dueOn : Nat]

HistoryRow == [from : Stage \cup {NoStage}, to : Stage, by : Role, on : Nat]

ObjectionStatus == {"UNFILED", "FILED", "UNDER_REVIEW", "RESOLVED", "REJECTED"}

\* ASSIGNED, IN_PROGRESS, SUBMITTED and RETURNED all count as open.
SurveyState == {"NONE", "OPEN", "APPROVED"}

Idle == [op |-> "idle"]

Loaded == [op : {"advance"}, by : Role, to : Stage, loaded : CaseRow]

Ready == [op : {"commitAdvance"}, by : Role, loaded : CaseRow, assigned : CaseRow]
            \cup [op : {"hold", "resume"}, loaded : CaseRow, assigned : CaseRow]

Request == {Idle} \cup Loaded \cup Ready

-----------------------------------------------------------------------------
(***************************************************************************)
(* What the handlers look at.                                              *)
(***************************************************************************)

\* The case rows scope_cases_to_user lets an officer of the district see.
Visible(role) ==
    \/ role = "STAGE_OWNER"
    \/ role = "FIELD_OFFICER" /\ \/ case.stage \in FIELD_OFFICER_STAGES
                                 \/ \E t \in Surveys : surveys[t] # "NONE"
    \/ role = "RNR_OFFICER" /\ case.stage = REHABILITATION_RESETTLEMENT

ObjectionOpen == \E o \in Objections : objections[o] \in {"FILED", "UNDER_REVIEW"}

SurveyOpen == \E t \in Surveys : surveys[t] = "OPEN"

\* Mutant of GateOpen: the survey gate was never added.
GateOpenWithoutSurveys(from, to) ==
    from = OBJECTION_PERIOD /\ to = DECLARATION => ~ObjectionOpen

\* The two counts advance_case makes, after the case was loaded.
GateOpen(from, to) ==
    /\ from = OBJECTION_PERIOD /\ to = DECLARATION => ~ObjectionOpen
    /\ from = LAND_VERIFICATION /\ to = OBJECTION_PERIOD => ~SurveyOpen

\* Mutant of DueDateFor: the allowance is taken off instead of added.
DueDateBackwards(stage, startedOn) == startedOn - StandardDays[stage]

DueDateFor(stage, startedOn) == startedOn + StandardDays[stage]

ApplyDueDate(row) == [row EXCEPT !.dueOn = DueDateFor(row.stage, row.changedAt)]

\* Mutant of Advanced: the deadline is written before the stage is.
AdvancedDueDateFirst(row, to, day) ==
    [ApplyDueDate(row) EXCEPT
        !.stage = to,
        !.changedAt = day,
        !.status = IF to = TERMINAL_STAGE THEN "CLOSED" ELSE "ACTIVE"]

\* The row as advance_case leaves it in the session.
Advanced(row, to, day) ==
    ApplyDueDate([row EXCEPT
        !.stage = to,
        !.changedAt = day,
        !.status = IF to = TERMINAL_STAGE THEN "CLOSED" ELSE "ACTIVE"])

\* Mutant of Commit: the session writes the whole row it holds.
CommitWholeRow(r) == r.assigned

\* The UPDATE a request commits, and what it makes of the stored row.
Commit(r) ==
    [stage     |-> Written(case.stage, r.loaded.stage, r.assigned.stage),
     status    |-> Written(case.status, r.loaded.status, r.assigned.status),
     changedAt |-> Written(case.changedAt, r.loaded.changedAt, r.assigned.changedAt),
     dueOn     |-> Written(case.dueOn, r.loaded.dueOn, r.assigned.dueOn)]

\* Mutant of TimelineRow: from_stage is read after the stage was assigned.
TimelineRowLateFrom(r) == [from |-> r.assigned.stage, to |-> r.assigned.stage,
                           by |-> r.by, on |-> r.assigned.changedAt]

\* The case_stage_history row that lands with an advance.
TimelineRow(r) == [from |-> r.loaded.stage, to |-> r.assigned.stage,
                   by |-> r.by, on |-> r.assigned.changedAt]

-----------------------------------------------------------------------------
(***************************************************************************)
(* A case as create_case leaves it, or as serial moves forward have        *)
(* brought it to one of StartStages on the first day.                      *)
(***************************************************************************)
Opened(s) == [stage |-> s, changedAt |-> 0, dueOn |-> DueDateFor(s, 0),
              status |-> IF s = TERMINAL_STAGE THEN "CLOSED" ELSE "ACTIVE"]

Init ==
    /\ \E s \in StartStages :
        /\ case = Opened(s)
        /\ history = [i \in 1..s |-> [from |-> i - 1, to |-> i,
                                      by |-> "STAGE_OWNER", on |-> 0]]
    /\ objections = [o \in Objections |-> "UNFILED"]
    /\ surveys = [t \in Surveys |-> "NONE"]
    /\ request = [w \in Workers |-> Idle]
    /\ moves = 0
    /\ today = 0

-----------------------------------------------------------------------------
(***************************************************************************)
(* POST /cases/{id}/advance.                                               *)
(***************************************************************************)

\* Mutant of MayAdvance: whoever sees a case may move it.
MayAdvanceIfVisible(role, to) ==
    /\ Visible(role)
    /\ to \in AllowedTransitions(case.stage)
    /\ case.status # "STALLED"

\* Mutant of MayAdvance: a case on hold can be moved.
MayAdvanceOnHold(role, to) ==
    /\ Visible(role)
    /\ CanAdvance(role, case.stage)
    /\ to \in AllowedTransitions(case.stage)

\* The checks on the loaded case, in the route and in advance_case.
MayAdvance(role, to) ==
    /\ Visible(role)
    /\ CanAdvance(role, case.stage)
    /\ to \in AllowedTransitions(case.stage)
    /\ case.status # "STALLED"

BeginAdvance(w, role, to) ==
    /\ request[w] = Idle
    /\ moves < MaxMoves
    /\ MayAdvance(role, to)
    /\ request' = [request EXCEPT ![w] =
            [op |-> "advance", by |-> role, to |-> to, loaded |-> case]]
    /\ moves' = moves + 1
    /\ UNCHANGED <<case, history, objections, surveys, today>>

PassGates(w) ==
    LET r == request[w] IN
    /\ r.op = "advance"
    /\ GateOpen(r.loaded.stage, r.to)
    /\ request' = [request EXCEPT ![w] =
            [op |-> "commitAdvance", by |-> r.by, loaded |-> r.loaded,
             assigned |-> Advanced(r.loaded, r.to, today)]]
    /\ UNCHANGED <<case, history, objections, surveys, moves, today>>

RefusedAtGates(w) ==
    LET r == request[w] IN
    /\ r.op = "advance"
    /\ ~GateOpen(r.loaded.stage, r.to)
    /\ request' = [request EXCEPT ![w] = Idle]
    /\ UNCHANGED <<case, history, objections, surveys, moves, today>>

CommitAdvance(w) ==
    LET r == request[w] IN
    /\ r.op = "commitAdvance"
    /\ case' = Commit(r)
    /\ history' = Append(history, TimelineRow(r))
    /\ request' = [request EXCEPT ![w] = Idle]
    /\ UNCHANGED <<objections, surveys, moves, today>>

(***************************************************************************)
(* POST /cases/{id}/hold and /resume, for CASE_WRITERS (stage owners).     *)
(***************************************************************************)
BeginHold(w) ==
    /\ request[w] = Idle
    /\ case.status # "CLOSED"
    /\ request' = [request EXCEPT ![w] =
            [op |-> "hold", loaded |-> case,
             assigned |-> [case EXCEPT !.status = "STALLED"]]]
    /\ UNCHANGED <<case, history, objections, surveys, moves, today>>

BeginResume(w) ==
    /\ request[w] = Idle
    /\ case.status = "STALLED"
    /\ request' = [request EXCEPT ![w] =
            [op |-> "resume", loaded |-> case,
             assigned |-> [case EXCEPT !.status = "ACTIVE"]]]
    /\ UNCHANGED <<case, history, objections, surveys, moves, today>>

CommitStatus(w, op) ==
    /\ request[w].op = op
    /\ case' = Commit(request[w])
    /\ request' = [request EXCEPT ![w] = Idle]
    /\ UNCHANGED <<history, objections, surveys, moves, today>>

(***************************************************************************)
(* Objections and survey tasks.  These handlers write one row of their own *)
(* and nothing they decide on can change under them as far as the gates    *)
(* can tell, so each is one step of an idle worker.                        *)
(***************************************************************************)
FileObjection(w, o) ==
    /\ request[w] = Idle
    /\ objections[o] = "UNFILED"
    /\ objections' = [objections EXCEPT ![o] = "FILED"]
    /\ UNCHANGED <<case, history, surveys, request, moves, today>>

\* The handler never asks what the objection's status was.
RespondToObjection(w, o, decision) ==
    /\ request[w] = Idle
    /\ objections[o] # "UNFILED"
    /\ objections' = [objections EXCEPT ![o] = decision]
    /\ UNCHANGED <<case, history, surveys, request, moves, today>>

CreateSurveyTask(w, t) ==
    /\ request[w] = Idle
    /\ surveys[t] = "NONE"
    /\ surveys' = [surveys EXCEPT ![t] = "OPEN"]
    /\ UNCHANGED <<case, history, objections, request, moves, today>>

ApproveSurvey(w, t) ==
    /\ request[w] = Idle
    /\ surveys[t] = "OPEN"
    /\ surveys' = [surveys EXCEPT ![t] = "APPROVED"]
    /\ UNCHANGED <<case, history, objections, request, moves, today>>

\* Two reviews of one submission that overlapped: the return that commits
\* after the approval reopens the task (module Survey has the steps).
ReturnAfterApproval(w, v, t) ==
    /\ w # v /\ request[w] = Idle /\ request[v] = Idle
    /\ surveys[t] = "APPROVED"
    /\ surveys' = [surveys EXCEPT ![t] = "OPEN"]
    /\ UNCHANGED <<case, history, objections, request, moves, today>>

NextDay ==
    /\ today < MaxDay
    /\ today' = today + 1
    /\ UNCHANGED <<case, history, objections, surveys, request, moves>>

Next ==
    \/ \E w \in Workers :
        \/ \E role \in Role, to \in Stage : BeginAdvance(w, role, to)
        \/ PassGates(w)
        \/ RefusedAtGates(w)
        \/ CommitAdvance(w)
        \/ BeginHold(w)
        \/ BeginResume(w)
        \/ \E op \in {"hold", "resume"} : CommitStatus(w, op)
        \/ \E o \in Objections :
            \/ FileObjection(w, o)
            \/ \E d \in {"UNDER_REVIEW", "RESOLVED", "REJECTED"} :
                  RespondToObjection(w, o, d)
        \/ \E t \in Surveys :
            \/ CreateSurveyTask(w, t)
            \/ ApproveSurvey(w, t)
            \/ \E v \in Workers : ReturnAfterApproval(w, v, t)
    \/ NextDay

Spec == Init /\ [][Next]_vars

-----------------------------------------------------------------------------
(***************************************************************************)
(* Properties that hold however requests overlap.                          *)
(***************************************************************************)

TypeOK ==
    /\ case \in CaseRow
    /\ history \in Seq(HistoryRow)
    /\ objections \in [Objections -> ObjectionStatus]
    /\ surveys \in [Surveys -> SurveyState]
    /\ request \in [Workers -> Request]
    /\ moves \in Nat
    /\ today \in Nat

LastRow == history[Len(history)]

\* The case is where the last row of its timeline says it is: the stage is
\* never written without its history row in the same commit, and a hold or a
\* resume that was under way meanwhile does not put an older stage back.
HistoryEndsAtStage == history # <<>> /\ LastRow.to = case.stage

\* No row of the timeline skips a stage or was made by a specialist officer
\* out of a stage that is not theirs, whatever the case did while the request
\* was under way.
HistoryRowsLegal ==
    \A i \in 2..Len(history) :
        /\ history[i].to \in AllowedTransitions(history[i].from)
        /\ CanAdvance(history[i].by, history[i].from)

\* What a request under way has settled about the row it loaded: the
\* strengthening that makes the two invariants above inductive.
Settled(r) ==
    /\ r.op = "advance" =>
          /\ r.to \in AllowedTransitions(r.loaded.stage)
          /\ CanAdvance(r.by, r.loaded.stage)
    /\ r.op = "commitAdvance" =>
          /\ r.assigned.stage \in AllowedTransitions(r.loaded.stage)
          /\ CanAdvance(r.by, r.loaded.stage)
    /\ r.op \in {"hold", "resume"} => r.assigned.stage = r.loaded.stage

RequestsSettled == \A w \in Workers : Settled(request[w])

Commits(w, op) == request[w].op = op /\ request'[w] = Idle

\* A hold is lifted by a resume, or overwritten by a move that closes the case
\* or that loaded it closed (the only moves that change the status they loaded),
\* and by nothing else: an advance of an open case, under way when the hold was
\* put, leaves it in place.
HoldLostOnlyAtTheEnd ==
    [][case.status = "STALLED" /\ case'.status # "STALLED"
        => \E w \in Workers :
              \/ Commits(w, "resume")
              \/ /\ Commits(w, "commitAdvance")
                 /\ "CLOSED" \in {request[w].loaded.status, request[w].assigned.status}]_vars

-----------------------------------------------------------------------------
(***************************************************************************)
(* Properties of requests that run one after the other.                    *)
(***************************************************************************)

\* The timeline is one path through the stages, from the opening of the case
\* to where it is, each row leaving the stage the row before it reached.
HistoryIsAPath ==
    /\ history[1].from = NoStage
    /\ \A i \in 2..Len(history) : history[i].from = history[i - 1].to

\* The deadline on the row is that of the stage the case is in, counted from
\* the day the timeline says it got there.
DueDateDescribesStage ==
    /\ case.dueOn = DueDateFor(case.stage, case.changedAt)
    /\ case.changedAt = LastRow.on

\* What one request at a time knows of the stored case: it is still the row the
\* request loaded, and the gates it passed are still open.
Current(r) ==
    /\ r # Idle => r.loaded = case
    /\ r.op \in {"advance", "commitAdvance"} => case.status # "STALLED"
    /\ r.op = "commitAdvance" =>
          /\ GateOpen(case.stage, r.assigned.stage)
          /\ r.assigned = Advanced(case, r.assigned.stage, r.assigned.changedAt)
    /\ r.op = "hold" =>
          /\ case.status # "CLOSED"
          /\ r.assigned = [case EXCEPT !.status = "STALLED"]
    /\ r.op = "resume" =>
          /\ case.status = "STALLED"
          /\ r.assigned = [case EXCEPT !.status = "ACTIVE"]

RequestsCurrent == \A w \in Workers : Current(request[w])

Lifecycle == INSTANCE CaseLifecycle WITH
    stage <- case.stage,
    status <- case.status,
    objectionOpen <- ObjectionOpen,
    surveyOpen <- SurveyOpen

\* One request at a time, the handlers implement what CaseLifecycle promises.
ImplementsLifecycle == Lifecycle!Spec

-----------------------------------------------------------------------------
(***************************************************************************)
(* What the comments say and the code does not keep: the first only when   *)
(* requests overlap, the second even when they do not.                     *)
(***************************************************************************)

\* "A case advances one step at a time and never skips" (workflow.py).
OneStepAtATime ==
    [][case'.stage # case.stage => case'.stage \in AllowedTransitions(case.stage)]_vars

\* "visibility and the Advance Stage action always agree on whose case this
\* is" (dependencies.py): an officer who may advance the case sees it.
WhoMayAdvanceSeesTheCase ==
    \A role \in Role : CanAdvance(role, case.stage) => Visible(role)
=============================================================================
