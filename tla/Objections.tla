----------------------------- MODULE Objections -----------------------------
(***************************************************************************)
(* Objections and what their filers hear of the answers: app/routers/      *)
(* objections.py, with notify_objection_filer of app/services/notify.py    *)
(* and notify_account_holder_sms of app/services/landowner_notify.py.      *)
(*                                                                         *)
(* An answer may be given in any status and as often as officers like.  A  *)
(* decision is told to the filer twice: by an SMS, which leaves before the *)
(* commit, and by an item in the inbox, which the commit brings.           *)
(***************************************************************************)
EXTENDS Requests, Naturals, Sequences

CONSTANTS
    ResponseTexts,  \* texts of answers
    MaxObjections,  \* bound: rows of objections
    LastDay         \* bound: the days that pass

VARIABLES
    objections,     \* rows of objections, by id
    inbox,          \* by objection: the last answer in the filer's inbox
    texted,         \* by objection: the answers sent to the filer's phone
    today

vars == <<orderly, request, objections, inbox, texted, today>>

-----------------------------------------------------------------------------
ObjectionStatus == {"FILED", "UNDER_REVIEW", "RESOLVED", "REJECTED"}

Decision == {"RESOLVED", "REJECTED"}

\* responded_on and response of a row that has none.
NoDate == 0

NoText == "none"

\* How a filer is reached: an account of their own, and a phone with it.
Reach == {"nowhere", "inbox", "phone"}

\* The columns an answer may change.
ObjectionRow == [status : ObjectionStatus, response : ResponseTexts \cup {NoText},
                 responded : NoDate..LastDay]

Answer == [status : Decision, response : ResponseTexts]

NoAnswer == [status |-> "none"]

Ids == 1..MaxObjections

Request == [op : {"answer", "told"}, o : Ids, loaded : ObjectionRow, assigned : ObjectionRow]

Rows == DOMAIN objections

Init ==
    /\ InitRequests
    /\ objections = <<>>
    /\ inbox = [o \in Ids |-> NoAnswer]
    /\ texted = [o \in Ids |-> {}]
    /\ today = 1

-----------------------------------------------------------------------------
\* POST /objections: by a landowner, who has an account, or on somebody's behalf.
FileObjection(w, reach) ==
    /\ AtOnce(w)
    /\ Len(objections) < MaxObjections
    /\ objections' = Append(objections,
            [reach |-> reach,
             row |-> [status |-> "FILED", response |-> NoText, responded |-> NoDate]])
    /\ UNCHANGED <<inbox, texted, today>>

\* Mutant of RespondToObjection: the date of an answer is never taken back.
RespondKeepingDate(w, o, status, response) ==
    LET row == objections[o].row IN
    /\ Begin(w, [op |-> "answer", o |-> o, loaded |-> row,
                 assigned |-> [status |-> status, response |-> response,
                               responded |-> IF status \in Decision THEN today
                                             ELSE row.responded]])
    /\ UNCHANGED <<objections, inbox, texted, today>>

\* POST /objections/{id}/respond.
RespondToObjection(w, o, status, response) ==
    /\ Begin(w, [op |-> "answer", o |-> o, loaded |-> objections[o].row,
                 assigned |-> [status |-> status, response |-> response,
                               responded |-> IF status \in Decision THEN today ELSE NoDate]])
    /\ UNCHANGED <<objections, inbox, texted, today>>

AnswerOf(r) == [status |-> r.assigned.status, response |-> r.assigned.response]

\* notify_objection_filer, while the answer is not committed yet.
NotifyFiler(w) ==
    LET r == request[w] IN
    /\ r.op = "answer" /\ r.assigned.status \in Decision
    /\ texted' = IF objections[r.o].reach = "phone"
                 THEN [texted EXCEPT ![r.o] = @ \cup {AnswerOf(r)}] ELSE texted
    /\ GoOn(w, [r EXCEPT !.op = "told"])
    /\ UNCHANGED <<objections, inbox, today>>

\* The columns the answer changed, and the inbox item of a decision.
CommitAnswer(w) ==
    LET r == request[w] IN
    /\ r.op \in {"answer", "told"}
    /\ r.op = "told" <=> r.assigned.status \in Decision
    /\ objections' = [objections EXCEPT ![r.o].row = WrittenRow(@, r.loaded, r.assigned)]
    /\ inbox' = IF r.op = "told" /\ objections[r.o].reach # "nowhere"
                THEN [inbox EXCEPT ![r.o] = AnswerOf(r)] ELSE inbox
    /\ Finish(w)
    /\ UNCHANGED <<texted, today>>

FailRequest(w) == Fail(w) /\ UNCHANGED <<objections, inbox, texted, today>>

DayPasses ==
    /\ today < LastDay
    /\ today' = today + 1
    /\ UNCHANGED <<orderly, request, objections, inbox, texted>>

Next ==
    \/ \E w \in Workers :
        \/ \E reach \in Reach : FileObjection(w, reach)
        \/ \E o \in Rows, status \in ObjectionStatus \ {"FILED"}, response \in ResponseTexts :
              RespondToObjection(w, o, status, response)
        \/ NotifyFiler(w)
        \/ CommitAnswer(w)
        \/ FailRequest(w)
    \/ DayPasses

Spec == orderly \in BOOLEAN /\ Init /\ [][Next]_vars

-----------------------------------------------------------------------------
\* Rows, messages and requests are well formed.
TypeOK ==
    /\ RequestsOK(Request)
    /\ objections \in Seq([reach : Reach, row : ObjectionRow])
    /\ Len(objections) <= MaxObjections
    /\ inbox \in [Ids -> Answer \cup {NoAnswer}]
    /\ texted \in [Ids -> SUBSET Answer]
    /\ today \in 1..LastDay

(***************************************************************************)
(* "only a resolved or rejected objection counts as answered" (objections. *)
(* py) and "A landowner IS notified about their own case ... an objection  *)
(* answered" (notify.py).  However answers overlap or fail, what is in an  *)
(* inbox was sent to the phone too, where there is one.  When they come    *)
(* one by one, a row has a date of answer exactly when it is decided, and  *)
(* a filer who can be reached has heard the decision that stands.          *)
(***************************************************************************)
DecisionsAreTold ==
    \A o \in Rows :
        LET row == objections[o].row
            decided == row.status \in Decision
        IN  /\ objections[o].reach = "phone" /\ inbox[o] # NoAnswer => inbox[o] \in texted[o]
            /\ orderly =>
                /\ decided <=> row.responded # NoDate
                /\ decided /\ objections[o].reach # "nowhere" =>
                      inbox[o] = [status |-> row.status, response |-> row.response]
=============================================================================
