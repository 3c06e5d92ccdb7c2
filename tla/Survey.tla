------------------------------- MODULE Survey -------------------------------
(***************************************************************************)
(* Field surveys of one parcel: app/routers/survey.py, and the mismatches  *)
(* they open, app/routers/discrepancies.py.  An officer starts a task,     *)
(* saves the measured area and the walked boundary, adds and removes       *)
(* photos, and submits; a reviewer approves or returns; approval writes    *)
(* the parcel, and a mismatch it opened is later answered.                 *)
(*                                                                         *)
(* A handler loads its rows in one step and commits in another (module     *)
(* UnitOfWork), except that approval loads the parcel in a step of its     *)
(* own.  With one worker requests run one after the other.                 *)
(*                                                                         *)
(* Boundaries are members of Walks and an area is what approval makes of   *)
(* it: near the area of record, or farther than AREA_DISCREPANCY_TOLERANCE.*)
(* Refused requests, observations that nothing decides on, audit rows and  *)
(* notifications are left out.  A task without a parcel never touches one. *)
(***************************************************************************)
EXTENDS UnitOfWork, FiniteSets

CONSTANTS
    Workers,     \* threads handling requests
    Tasks,       \* survey tasks of the parcel
    Walks,       \* boundaries that may be walked
    NoWalk,      \* no boundary
    Photos,      \* photos that may be taken
    Mismatches   \* AREA_MISMATCH rows that may be opened (bound)

ASSUME NoWalkAssumption == NoWalk \notin Walks

VARIABLES
    task,      \* rows of survey_tasks
    photos,    \* rows of survey_photos, by task
    parcel,    \* the row of parcels
    mismatch,  \* status of every AREA_MISMATCH row of survey_discrepancies
    request    \* what each worker is doing, with the rows it loaded

vars == <<task, photos, parcel, mismatch, request>>

-----------------------------------------------------------------------------
Boundary == Walks \cup {NoWalk}

Area == {"none", "near", "far"}

SurveyTaskStatus ==
    {"ABSENT", "ASSIGNED", "IN_PROGRESS", "SUBMITTED", "APPROVED", "RETURNED"}

TaskRow == [status : SurveyTaskStatus, area : Area, boundary : Boundary]

ParcelRow == [boundary : Boundary, field : Boundary, flagged : BOOLEAN]

\* AREA_MISMATCH rows, before and after they are filed.
MismatchStatus == {"ABSENT", "OPEN", "RESOLVED"}

Idle == [op |-> "idle"]

Request ==
    {Idle}
    \cup [op : {"update"}, t : Tasks, loaded : TaskRow, assigned : TaskRow]
    \cup [op : {"upload", "remove"}, t : Tasks, p : Photos]
    \cup [op : {"review"}, t : Tasks, loaded : TaskRow]
    \cup [op : {"approve"}, t : Tasks, loaded : TaskRow,
          before : ParcelRow, after : ParcelRow, opens : BOOLEAN]
    \cup [op : {"respond"}, m : Mismatches, before : ParcelRow, after : ParcelRow]

\* Mutant of Editable: a submitted task can still be edited.
EditableWhenSubmitted(row) == row.status \in {"IN_PROGRESS", "RETURNED", "SUBMITTED"}

\* EDITABLE_STATUSES: a returned task is editable again.
Editable(row) == row.status \in {"IN_PROGRESS", "RETURNED"}

HasEvidence(row, taken) == row.area # "none" \/ row.boundary # NoWalk \/ taken # {}

\* A survey walked over a parcel whose boundary is on record.
IsResurvey(row, p) == row.boundary # NoWalk /\ p.boundary # NoWalk

\* What an approved re-survey leaves: the record stays, the walk is kept beside
\* it, and the flag says whether the areas disagree.
Resurveyed(row, p) ==
    [p EXCEPT !.field = row.boundary,
              !.flagged = IF row.area = "none" THEN @ ELSE row.area = "far"]

\* Mutant of Weighed: every approved survey replaces the boundary of record.
WeighedReplacing(row, p) ==
    IF row.boundary = NoWalk THEN p
    ELSE [Resurveyed(row, p) EXCEPT !.boundary = row.boundary]

\* Mutant of Weighed: a survey without a boundary is applied as well.
WeighedUnwalked(row, p) ==
    IF IsResurvey(row, p) THEN Resurveyed(row, p)
    ELSE [p EXCEPT !.field = row.boundary, !.boundary = row.boundary]

\* The parcel as approval leaves it in the session: the first boundary becomes
\* the record, a later one is weighed against it.
Weighed(row, p) ==
    IF row.boundary = NoWalk THEN p
    ELSE IF IsResurvey(row, p) THEN Resurveyed(row, p)
    ELSE [p EXCEPT !.field = row.boundary, !.boundary = row.boundary]

\* Mutant of OpensMismatch: the flag is set but nothing is opened.
OpensNothing(row, p) == FALSE

OpensMismatch(row, p) == IsResurvey(row, p) /\ row.area = "far"

Open == {m \in Mismatches : mismatch[m] = "OPEN"}

\* Mutant of Explained: answering any mismatch clears the flag.
ExplainedAtOnce(m, p) == [p EXCEPT !.flagged = FALSE]

\* The flag is cleared once nothing else open is still explaining it.
Explained(m, p) == [p EXCEPT !.flagged = @ /\ Open \ {m} # {}]

-----------------------------------------------------------------------------
Init ==
    /\ task = [t \in Tasks |-> [status |-> "ABSENT", area |-> "none", boundary |-> NoWalk]]
    /\ photos = [t \in Tasks |-> {}]
    /\ parcel = [boundary |-> NoWalk, field |-> NoWalk, flagged |-> FALSE]
    /\ mismatch = [m \in Mismatches |-> "ABSENT"]
    /\ request = [w \in Workers |-> Idle]

Begin(w, r) ==
    /\ request[w] = Idle
    /\ request' = [request EXCEPT ![w] = r]
    /\ UNCHANGED <<task, photos, parcel, mismatch>>

Finish(w) == request' = [request EXCEPT ![w] = Idle]

\* A handler loaded the row of task t and will write it as row.
BeginUpdate(w, t, row) ==
    Begin(w, [op |-> "update", t |-> t, loaded |-> task[t], assigned |-> row])

-----------------------------------------------------------------------------
(***************************************************************************)
(* The field officer's requests.                                           *)
(***************************************************************************)

\* Self-started, or assigned by a supervisor.  One INSERT, so one step.
CreateSurveyTask(w, t, selfStarted) ==
    /\ request[w] = Idle
    /\ task[t].status = "ABSENT"
    /\ task' = [task EXCEPT ![t].status = IF selfStarted THEN "IN_PROGRESS" ELSE "ASSIGNED"]
    /\ UNCHANGED <<photos, parcel, mismatch, request>>

StartSurveyTask(w, t) ==
    /\ task[t].status = "ASSIGNED"
    /\ BeginUpdate(w, t, [task[t] EXCEPT !.status = "IN_PROGRESS"])

\* The portal saves any of the fields, or clears them.
SaveSurveyTask(w, t, area, boundary) ==
    /\ Editable(task[t])
    /\ <<area, boundary>> # <<task[t].area, task[t].boundary>>
    /\ BeginUpdate(w, t, [task[t] EXCEPT !.area = area, !.boundary = boundary])

SubmitSurveyTask(w, t) ==
    /\ Editable(task[t])
    /\ HasEvidence(task[t], photos[t])
    /\ BeginUpdate(w, t, [task[t] EXCEPT !.status = "SUBMITTED"])

\* The status is checked before the file is received, the row inserted after.
UploadSurveyPhoto(w, t, p) ==
    /\ Editable(task[t])
    /\ \A u \in Tasks : p \notin photos[u]
    /\ \A v \in Workers : request[v].op = "upload" => request[v].p # p
    /\ Begin(w, [op |-> "upload", t |-> t, p |-> p])

DeleteSurveyPhoto(w, t, p) ==
    /\ Editable(task[t])
    /\ p \in photos[t]
    /\ Begin(w, [op |-> "remove", t |-> t, p |-> p])

CommitUpdate(w) ==
    LET r == request[w] IN
    /\ r.op = "update"
    /\ task' = [task EXCEPT ![r.t] = WrittenRow(@, r.loaded, r.assigned)]
    /\ Finish(w)
    /\ UNCHANGED <<photos, parcel, mismatch>>

CommitPhoto(w) ==
    LET r == request[w] IN
    /\ r.op \in {"upload", "remove"}
    /\ photos' = [photos EXCEPT ![r.t] =
            IF r.op = "upload" THEN @ \cup {r.p} ELSE @ \ {r.p}]
    /\ Finish(w)
    /\ UNCHANGED <<task, parcel, mismatch>>

-----------------------------------------------------------------------------
(***************************************************************************)
(* The reviewer's requests.                                                *)
(***************************************************************************)
\* Mutant of ReturnSurveyTask: an approved survey can still be returned.
ReturnEvenApproved(w, t) ==
    /\ task[t].status \in {"SUBMITTED", "APPROVED"}
    /\ BeginUpdate(w, t, [task[t] EXCEPT !.status = "RETURNED"])

ReturnSurveyTask(w, t) ==
    /\ task[t].status = "SUBMITTED"
    /\ BeginUpdate(w, t, [task[t] EXCEPT !.status = "RETURNED"])

ApproveSurveyTask(w, t) ==
    /\ task[t].status = "SUBMITTED"
    /\ Begin(w, [op |-> "review", t |-> t, loaded |-> task[t]])

\* approve_survey_task loads the parcel and weighs the survey against it.
WeighSurvey(w) ==
    LET r == request[w] IN
    /\ r.op = "review"
    /\ request' = [request EXCEPT ![w] =
            [op |-> "approve", t |-> r.t, loaded |-> r.loaded,
             before |-> parcel, after |-> Weighed(r.loaded, parcel),
             opens |-> OpensMismatch(r.loaded, parcel)]]
    /\ UNCHANGED <<task, photos, parcel, mismatch>>

OpenedBy(r, opened) ==
    IF r.opens
    THEN \E m \in Mismatches :
            /\ mismatch[m] = "ABSENT"
            /\ opened = [mismatch EXCEPT ![m] = "OPEN"]
    ELSE opened = mismatch

\* Mutant of CommitApproval: the whole parcel is written, as it was loaded.
CommitApprovalWholeRow(w) ==
    LET r == request[w] IN
    /\ r.op = "approve"
    /\ task' = [task EXCEPT ![r.t].status = "APPROVED"]
    /\ parcel' = r.after
    /\ OpenedBy(r, mismatch')
    /\ Finish(w)
    /\ UNCHANGED photos

CommitApproval(w) ==
    LET r == request[w] IN
    /\ r.op = "approve"
    /\ task' = [task EXCEPT ![r.t].status = "APPROVED"]
    /\ parcel' = WrittenRow(parcel, r.before, r.after)
    /\ OpenedBy(r, mismatch')
    /\ Finish(w)
    /\ UNCHANGED photos

\* An officer may file an AREA_MISMATCH too; it does not touch the parcel.
FileDiscrepancy(w, t, m) ==
    /\ request[w] = Idle
    /\ task[t].status # "ABSENT"
    /\ mismatch[m] = "ABSENT"
    /\ mismatch' = [mismatch EXCEPT ![m] = "OPEN"]
    /\ UNCHANGED <<task, photos, parcel, request>>

RespondToDiscrepancy(w, m) ==
    /\ mismatch[m] = "OPEN"
    /\ Begin(w, [op |-> "respond", m |-> m,
                 before |-> parcel, after |-> Explained(m, parcel)])

\* Mutant of CommitResponse: the mismatch gets a survey task's status.
CommitResponseApproved(w) ==
    LET r == request[w] IN
    /\ r.op = "respond"
    /\ mismatch' = [mismatch EXCEPT ![r.m] = "APPROVED"]
    /\ parcel' = WrittenRow(parcel, r.before, r.after)
    /\ Finish(w)
    /\ UNCHANGED <<task, photos>>

CommitResponse(w) ==
    LET r == request[w] IN
    /\ r.op = "respond"
    /\ mismatch' = [mismatch EXCEPT ![r.m] = "RESOLVED"]
    /\ parcel' = WrittenRow(parcel, r.before, r.after)
    /\ Finish(w)
    /\ UNCHANGED <<task, photos>>

Next ==
    \E w \in Workers :
        \/ \E t \in Tasks :
            \/ \E selfStarted \in BOOLEAN : CreateSurveyTask(w, t, selfStarted)
            \/ StartSurveyTask(w, t)
            \/ \E a \in Area, b \in Boundary : SaveSurveyTask(w, t, a, b)
            \/ SubmitSurveyTask(w, t)
            \/ \E p \in Photos : UploadSurveyPhoto(w, t, p) \/ DeleteSurveyPhoto(w, t, p)
            \/ ReturnSurveyTask(w, t)
            \/ ApproveSurveyTask(w, t)
            \/ \E m \in Mismatches : FileDiscrepancy(w, t, m)
        \/ \E m \in Mismatches : RespondToDiscrepancy(w, m)
        \/ CommitUpdate(w)
        \/ CommitPhoto(w)
        \/ WeighSurvey(w)
        \/ CommitApproval(w)
        \/ CommitResponse(w)

Spec == Init /\ [][Next]_vars

-----------------------------------------------------------------------------
\* Rows and requests are well formed.
TypeOK ==
    /\ task \in [Tasks -> TaskRow]
    /\ photos \in [Tasks -> SUBSET Photos]
    /\ parcel \in ParcelRow
    /\ mismatch \in [Mismatches -> MismatchStatus]
    /\ request \in [Workers -> Request]

-----------------------------------------------------------------------------
(***************************************************************************)
(* Properties that hold however requests overlap.                          *)
(***************************************************************************)

\* A boundary of record is never erased, and the latest walk is kept beside it
\* from the first approval on.
RecordIsNeverErased ==
    [][parcel.boundary # NoWalk => NoWalk \notin {parcel'.boundary, parcel'.field}]_vars

\* The flag of a parcel is "denormalised onto the parcel (rather than computed from
\* survey_discrepancies on every read)" (tables.py): the commit that raises it files
\* the mismatch that explains it.  An approval that loaded the
\* flag before an answer cleared it does not raise it again.
FlagRaisedWithItsMismatch ==
    [][~parcel.flagged /\ parcel'.flagged =>
          \E m \in Mismatches : mismatch[m] = "ABSENT" /\ mismatch'[m] = "OPEN"]_vars

(***************************************************************************)
(* Properties of requests that run one after the other.  Some of them are  *)
(* what the comments say, and overlapping requests break those.            *)
(***************************************************************************)
Submitted == {t \in Tasks : task[t].status \in {"SUBMITTED", "APPROVED"}}

\* What is submitted has a measured area, a boundary or a photo behind it, and
\* stays what it was while it is reviewed and once it is approved.
SubmittedEvidenceStays ==
    [][/\ \A t \in Submitted' : HasEvidence(task'[t], photos'[t])
       /\ \A t \in Submitted :
             <<task[t].area, task[t].boundary, photos[t]>>
                 = <<task'[t].area, task'[t].boundary, photos'[t]>>]_vars

\* "an artefact nobody has reviewed must not carry the authority of one that
\* has been" (survey.py): the boundary of record is the one some approved
\* survey walked.
RecordIsAnApprovedWalk ==
    parcel.boundary # NoWalk =>
        \E t \in Tasks : task[t].status = "APPROVED" /\ task[t].boundary = parcel.boundary

\* "`boundary` is the record and is written only once, by the first approved
\* survey" (survey.py, tables.py).
RecordWrittenOnce ==
    [][parcel.boundary # NoWalk => parcel'.boundary = parcel.boundary]_vars

\* "Clear the parcel's map flag once nothing open is still explaining it"
\* (discrepancies.py): a flagged parcel has an open mismatch.
FlagIsExplained == parcel.flagged => Open # {}

Answers == \E m \in Mismatches : mismatch[m] = "OPEN" /\ mismatch'[m] = "RESOLVED"

\* "resolving one must not silently clear a flag the other still earns"
\* (discrepancies.py): an answer that clears the flag leaves no mismatch open.
AnswerClearsOnlyTheLast ==
    [][Answers /\ parcel.flagged /\ ~parcel'.flagged => Open' = {}]_vars
=============================================================================
