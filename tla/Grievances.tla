----------------------------- MODULE Grievances -----------------------------
(***************************************************************************)
(* Grievances of one year, with the timeline of each: app/routers/         *)
(* grievances.py, app/services/grievances.py, next_grievance_number.       *)
(*                                                                         *)
(* Filing runs in the event loop of the one server process: with an        *)
(* attachment it mints the number, awaits the upload, and inserts;         *)
(* without one nothing comes in between.  An answer runs in a thread and   *)
(* may set any status the filer's grievance is not closed in.              *)
(***************************************************************************)
EXTENDS Requests, NumberSequence, Sequences

CONSTANTS
    Answers,        \* statuses that officers set (some of GrievanceStatus)
    MaxGrievances,  \* bound: rows of grievances
    MaxMoves        \* bound: rows of the history of one

VARIABLE grievances \* rows of grievances, by id, with their history

vars == <<orderly, request, grievances>>

-----------------------------------------------------------------------------
GrievanceStatus == {"SUBMITTED", "ASSIGNED", "UNDER_REVIEW", "INFO_REQUIRED",
                    "RESPONSE_PROVIDED", "RESOLVED", "CLOSED"}

Final == {"RESOLVED", "CLOSED"}

\* Statuses that set responded_on.
IsAnswer(status) == status \in {"RESPONSE_PROVIDED"} \cup Final

\* from_status of the first row of a history.
NoStatus == "NONE"

Move == [from : GrievanceStatus \cup {NoStatus}, to : GrievanceStatus]

\* The columns an answer may change.
GrievanceRow == [status : GrievanceStatus, responded : BOOLEAN]

Id == 1..MaxGrievances

Request ==
    [op : {"file"}, number : 1..MaxGrievances + 1]
    \cup [op : {"respond"}, g : Id, loaded : GrievanceRow, assigned : GrievanceRow]

Rows == DOMAIN grievances

Init == InitRequests /\ grievances = <<>>

-----------------------------------------------------------------------------
GrievanceNumberWidth == 5

Issued == {grievances[g].number : g \in Rows}

\* Mutant of NextGrievanceNumber: the first of a year is number 0.
NextGrievanceNumberFromZero ==
    IF Issued = {} THEN 0 ELSE NextNumber(Issued, GrievanceNumberWidth)

NextGrievanceNumber == NextNumber(Issued, GrievanceNumberWidth)

Filed(number) ==
    grievances' = Append(grievances,
        [number |-> number, row |-> [status |-> "SUBMITTED", responded |-> FALSE],
         history |-> <<[from |-> NoStatus, to |-> "SUBMITTED"]>>])

\* POST /grievances without an attachment.
FileGrievance(w) ==
    /\ AtOnce(w)
    /\ Len(grievances) < MaxGrievances
    /\ Filed(NextGrievanceNumber)

\* POST /grievances with one, up to the await of save_upload_file.
BeginFiling(w) ==
    /\ Len(grievances) < MaxGrievances
    /\ Begin(w, [op |-> "file", number |-> NextGrievanceNumber])
    /\ UNCHANGED grievances

CommitFiling(w) ==
    LET r == request[w] IN
    /\ r.op = "file"
    /\ Len(grievances) < MaxGrievances
    /\ r.number \notin Issued
    /\ Filed(r.number)
    /\ Finish(w)

\* A number issued during the upload: the unique constraint refuses the row.
NumberTaken(w) ==
    /\ request[w].op = "file"
    /\ request[w].number \in Issued
    /\ Finish(w)
    /\ UNCHANGED grievances

-----------------------------------------------------------------------------
\* Mutant of RespondToGrievance: only a closed grievance cannot be updated.
RespondUnlessClosed(w, g, status) ==
    LET row == grievances[g].row IN
    /\ row.status # "CLOSED"
    /\ Begin(w, [op |-> "respond", g |-> g, loaded |-> row,
                 assigned |-> [status |-> status,
                               responded |-> row.responded \/ IsAnswer(status)]])
    /\ UNCHANGED grievances

\* POST /grievances/{id}/respond.
RespondToGrievance(w, g, status) ==
    LET row == grievances[g].row IN
    /\ row.status \notin Final
    /\ Begin(w, [op |-> "respond", g |-> g, loaded |-> row,
                 assigned |-> [status |-> status,
                               responded |-> row.responded \/ IsAnswer(status)]])
    /\ UNCHANGED grievances

\* The row's columns and the row of record_status_change, in one transaction.
CommitResponse(w) ==
    LET r == request[w] IN
    /\ r.op = "respond"
    /\ Len(grievances[r.g].history) < MaxMoves
    /\ grievances' = [grievances EXCEPT
            ![r.g].row = WrittenRow(@, r.loaded, r.assigned),
            ![r.g].history = Append(@, [from |-> r.loaded.status, to |-> r.assigned.status])]
    /\ Finish(w)

FailRequest(w) == Fail(w) /\ UNCHANGED grievances

Next ==
    \E w \in Workers :
        \/ FileGrievance(w)
        \/ BeginFiling(w)
        \/ CommitFiling(w)
        \/ NumberTaken(w)
        \/ \E g \in Rows, status \in Answers : RespondToGrievance(w, g, status)
        \/ CommitResponse(w)
        \/ FailRequest(w)

Spec == orderly \in BOOLEAN /\ Init /\ [][Next]_vars

-----------------------------------------------------------------------------
\* Rows, histories and requests are well formed.
TypeOK ==
    /\ RequestsOK(Request)
    /\ grievances \in Seq([number : Id, row : GrievanceRow, history : Seq(Move)])
    /\ Len(grievances) <= MaxGrievances

\* "append a row that makes it a real timeline" (record_status_change), "already
\* ... and cannot be updated further" (respond_to_grievance): when requests come
\* one after the other, the history of a grievance is a path from its filing to
\* its status, it never leaves a final status, and the date of an answer is
\* there exactly when some row is an answer.
HistoryIsAPath ==
    orderly => \A g \in Rows :
        LET history == grievances[g].history IN
        /\ Head(history) = [from |-> NoStatus, to |-> "SUBMITTED"]
        /\ \A i \in 2..Len(history) :
              history[i].from = history[i - 1].to /\ history[i].from \notin Final
        /\ history[Len(history)].to = grievances[g].row.status
        /\ grievances[g].row.responded <=> \E i \in DOMAIN history : IsAnswer(history[i].to)
=============================================================================
