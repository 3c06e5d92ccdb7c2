----------------------------- MODULE Proposals -----------------------------
(***************************************************************************)
(* The approval chain of app/routers/proposals.py and                      *)
(* app/services/proposals.py: a requiring body opens a proposal and edits  *)
(* it, the offices move it along, and sanctioning it opens a case in the   *)
(* same transaction.  The sanctioned cases are opened in one district.     *)
(*                                                                         *)
(* A handler loads the proposal, mints the number it needs, and commits    *)
(* (module UnitOfWork); a number that was taken meanwhile fails the whole  *)
(* transaction.  What a proposal says is one value, `content`, counted up  *)
(* by every edit.  Notifications, projects and audit rows are left out.    *)
(***************************************************************************)
EXTENDS UnitOfWork, NumberSequence, Sequences, FiniteSets

CONSTANTS
    Workers,      \* threads handling requests
    Proposals,    \* proposals that may be opened
    States,       \* states of the Union, which number proposals separately
    Roles,        \* the roles that take part in a run, of Role
    EarlierCases, \* numbers of the last cases opened in the district before
    MaxReviews,   \* bound: rows of one proposal's file history
    MaxContent    \* bound: edits of one proposal

Role == {"REQUIRING_BODY", "STATE_OFFICER", "DISTRICT_OFFICER", "MINISTRY_OFFICER", "ADMIN"}

ASSUME RolesAssumption == Roles \subseteq Role
ASSUME EarlierCasesAssumption == EarlierCases \subseteq Nat \ {0}
ASSUME BoundsAssumption == MaxReviews \in Nat /\ MaxContent \in Nat

VARIABLES
    proposal,   \* rows of proposals: status, content, state (state_id, which an edit
                \* may change), numberedIn and number (the proposal_number, which
                \* nothing changes) and case
    reviews,    \* rows of proposal_reviews, by proposal, in commit order
    cases,      \* cases opened by sanction: their number and their proposal
    request     \* what each worker is doing, with the row it loaded

vars == <<proposal, reviews, cases, request>>

-----------------------------------------------------------------------------
ProposalStatus == {"ABSENT", "DRAFT", "SUBMITTED", "UNDER_SCRUTINY", "RETURNED",
                   "APPROVED", "REJECTED", "WITHDRAWN"}

NoCase == 0

ReviewRow == [from : ProposalStatus, to : ProposalStatus, by : Role]

Author == {"REQUIRING_BODY", "ADMIN"}

Scrutineer == {"STATE_OFFICER", "DISTRICT_OFFICER", "ADMIN"}

\* TRANSITIONS: the roles that may move a proposal between two statuses.
MayMove(from, to) ==
    CASE <<from, to>> \in {<<"DRAFT", "SUBMITTED">>, <<"RETURNED", "DRAFT">>} -> Author
      [] from \in {"DRAFT", "SUBMITTED", "UNDER_SCRUTINY", "RETURNED"} /\ to = "WITHDRAWN" -> Author
      [] from = "SUBMITTED" /\ to \in {"UNDER_SCRUTINY", "RETURNED"} -> Scrutineer
      [] from = "UNDER_SCRUTINY" /\ to = "APPROVED" ->
            {"MINISTRY_OFFICER", "DISTRICT_OFFICER", "ADMIN"}
      [] from = "UNDER_SCRUTINY" /\ to = "REJECTED" -> {"MINISTRY_OFFICER", "ADMIN"}
      [] from = "UNDER_SCRUTINY" /\ to = "RETURNED" -> Scrutineer \cup {"MINISTRY_OFFICER"}
      [] OTHER -> {}

Opened == {p \in Proposals : proposal[p].status # "ABSENT"}

\* The proposal numbers next_proposal_number finds: of rows of the state, with
\* the state's prefix.
IssuedIn(s) == {proposal[p].number : p \in
                    {q \in Opened : proposal[q].state = s /\ proposal[q].numberedIn = s}}

\* The proposal numbers of the state that are taken, whoever's row it is on.
TakenIn(s) == {proposal[p].number : p \in {q \in Opened : proposal[q].numberedIn = s}}

CaseNumbers == EarlierCases \cup {c.number : c \in cases}

\* The padding of build_proposal_number and of build_case_number.
ProposalWidth == 4

CaseWidth == 3

Idle == [op |-> "idle"]

-----------------------------------------------------------------------------
Init ==
    /\ \E s \in States : proposal = [p \in Proposals |->
            [status |-> "ABSENT", content |-> 0, state |-> s,
             numberedIn |-> s, number |-> 0, case |-> NoCase]]
    /\ reviews = [p \in Proposals |-> <<>>]
    /\ cases = {}
    /\ request = [w \in Workers |-> Idle]

Begin(w, r) ==
    /\ request[w] = Idle
    /\ request' = [request EXCEPT ![w] = r]
    /\ UNCHANGED <<proposal, reviews, cases>>

Finish(w) == request' = [request EXCEPT ![w] = Idle]

Reviewed(p, from, to, role) ==
    reviews' = [reviews EXCEPT ![p] = Append(@, [from |-> from, to |-> to, by |-> role])]

\* POST /proposals mints a number ...
CreateProposal(w, p, s) ==
    /\ proposal[p].status = "ABSENT"
    /\ \A v \in Workers : request[v].op = "create" => request[v].p # p
    /\ Begin(w, [op |-> "create", p |-> p, state |-> s,
                 number |-> NextNumber(IssuedIn(s), ProposalWidth)])

\* ... and inserts the draft.
CommitCreate(w) ==
    LET r == request[w] IN
    /\ r.op = "create"
    /\ r.number \notin TakenIn(r.state)
    /\ proposal' = [proposal EXCEPT ![r.p] =
            [status |-> "DRAFT", content |-> 0, state |-> r.state,
             numberedIn |-> r.state, number |-> r.number, case |-> NoCase]]
    /\ Reviewed(r.p, "ABSENT", "DRAFT", "REQUIRING_BODY")
    /\ Finish(w)
    /\ UNCHANGED cases

\* Mutant of UpdateProposal: a proposal under scrutiny can be edited.
UpdateAnyTime(w, p, s) ==
    /\ proposal[p].status \notin {"ABSENT", "APPROVED"}
    /\ proposal[p].content < MaxContent
    /\ Begin(w, [op |-> "edit", p |-> p, loaded |-> proposal[p],
                 assigned |-> [proposal[p] EXCEPT !.content = @ + 1, !.state = s]])

\* PATCH /proposals/{id}: what it asks for, or the village and with it the state.
UpdateProposal(w, p, s) ==
    /\ proposal[p].status \in {"DRAFT", "RETURNED"}
    /\ proposal[p].content < MaxContent
    /\ Begin(w, [op |-> "edit", p |-> p, loaded |-> proposal[p],
                 assigned |-> [proposal[p] EXCEPT !.content = @ + 1, !.state = s]])

CommitEdit(w) ==
    LET r == request[w] IN
    /\ r.op = "edit"
    /\ proposal' = [proposal EXCEPT ![r.p] = WrittenRow(@, r.loaded, r.assigned)]
    /\ Finish(w)
    /\ UNCHANGED <<reviews, cases>>

\* Mutant of TransitionProposal: sanctioning opens no case.
TransitionWithoutCase(w, p, to, role) ==
    /\ role \in MayMove(proposal[p].status, to)
    /\ Len(reviews[p]) < MaxReviews
    /\ Begin(w, [op |-> "move", p |-> p, by |-> role, loaded |-> proposal[p],
                 assigned |-> [proposal[p] EXCEPT !.status = to]])

\* Mutant of TransitionProposal: the move is checked, but not whose it is.
TransitionByAnyone(w, p, to, role) ==
    /\ MayMove(proposal[p].status, to) # {}
    /\ Len(reviews[p]) < MaxReviews
    /\ Begin(w, [op |-> IF to = "APPROVED" THEN "sanction" ELSE "move",
                 p |-> p, by |-> role, loaded |-> proposal[p],
                 assigned |-> [proposal[p] EXCEPT !.status = to]])

\* POST /proposals/{id}/transition loads the proposal and checks the move.
TransitionProposal(w, p, to, role) ==
    /\ role \in MayMove(proposal[p].status, to)
    /\ Len(reviews[p]) < MaxReviews
    /\ Begin(w, [op |-> IF to = "APPROVED" THEN "sanction" ELSE "move",
                 p |-> p, by |-> role, loaded |-> proposal[p],
                 assigned |-> [proposal[p] EXCEPT !.status = to]])

\* sanction_to_case refuses a loaded proposal that has a case, and mints.
SanctionToCase(w) ==
    LET r == request[w] IN
    /\ r.op = "sanction"
    /\ r.loaded.case = NoCase
    /\ request' = [request EXCEPT ![w] =
            [r EXCEPT !.op = "open", !.assigned.case = NextNumber(CaseNumbers, CaseWidth)]]
    /\ UNCHANGED <<proposal, reviews, cases>>

\* A proposal that was sanctioned, and then moved on by a request that was
\* under way, is not sanctioned again.
SanctionRefused(w) ==
    /\ request[w].op = "sanction"
    /\ request[w].loaded.case # NoCase
    /\ Finish(w)
    /\ UNCHANGED <<proposal, reviews, cases>>

\* The case a sanction opens, and none for any other move.
CasesAfter(r) ==
    IF r.op = "open" THEN cases \cup {[number |-> r.assigned.case, of |-> r.p]} ELSE cases

\* Mutant of CommitMove: a returned proposal is taken up again without a row of
\* the file history.
CommitMoveUnreviewed(w) ==
    LET r == request[w] IN
    /\ r.op \in {"move", "open"}
    /\ r.op = "open" => r.assigned.case \notin CaseNumbers
    /\ proposal' = [proposal EXCEPT ![r.p] = WrittenRow(@, r.loaded, r.assigned)]
    /\ cases' = CasesAfter(r)
    /\ IF r.assigned.status = "DRAFT" THEN UNCHANGED reviews
       ELSE Reviewed(r.p, r.loaded.status, r.assigned.status, r.by)
    /\ Finish(w)

\* The move, its row of the file history and the case, in one transaction.
CommitMove(w) ==
    LET r == request[w] IN
    /\ r.op \in {"move", "open"}
    /\ r.op = "open" => r.assigned.case \notin CaseNumbers
    /\ proposal' = [proposal EXCEPT ![r.p] = WrittenRow(@, r.loaded, r.assigned)]
    /\ cases' = CasesAfter(r)
    /\ Reviewed(r.p, r.loaded.status, r.assigned.status, r.by)
    /\ Finish(w)

\* A number taken since it was minted fails the request with everything in it.
NumberTaken(w) ==
    LET r == request[w] IN
    /\ \/ r.op = "create" /\ r.number \in TakenIn(r.state)
       \/ r.op = "open" /\ r.assigned.case \in CaseNumbers
    /\ Finish(w)
    /\ UNCHANGED <<proposal, reviews, cases>>

Next ==
    \E w \in Workers :
        \/ \E p \in Proposals :
            \/ \E s \in States : CreateProposal(w, p, s) \/ UpdateProposal(w, p, s)
            \/ \E to \in ProposalStatus, role \in Roles : TransitionProposal(w, p, to, role)
        \/ CommitCreate(w)
        \/ CommitEdit(w)
        \/ SanctionToCase(w)
        \/ SanctionRefused(w)
        \/ CommitMove(w)
        \/ NumberTaken(w)

Spec == Init /\ [][Next]_vars

-----------------------------------------------------------------------------
(***************************************************************************)
(* Properties that hold however requests overlap.                          *)
(***************************************************************************)
LastReview(p) == reviews[p][Len(reviews[p])]

\* A proposal is where the last row of its file history took it, and every row
\* is a hand-off its actor's office may make.
StatusEndsFileHistory ==
    \A p \in Opened :
        /\ LastReview(p).to = proposal[p].status
        /\ \A i \in 2..Len(reviews[p]) :
              reviews[p][i].by \in MayMove(reviews[p][i].from, reviews[p][i].to)

Sanctions(p) == {i \in 1..Len(reviews[p]) : reviews[p][i].to = "APPROVED"}

\* Every sanction on file opened a case and no case was opened without one.
OneCasePerSanction ==
    \A p \in Proposals :
        Cardinality({c \in cases : c.of = p}) = Cardinality(Sanctions(p))

(***************************************************************************)
(* Properties of requests that run one after the other.  Most are what the *)
(* comments say, and overlapping requests break those.                     *)
(***************************************************************************)

\* "an approval that did not produce a case, or a case with no approval behind
\* it, would both be worse" (proposals.py): a proposal is approved exactly when
\* one case was opened for it, and that case is the one it names.
ApprovedIsSanctioned ==
    \A p \in Proposals :
        {c.number : c \in {d \in cases : d.of = p}}
            = IF proposal[p].status = "APPROVED" THEN {proposal[p].case} ELSE {}

\* "the reviewer would have approved something other than what is now on file"
\* (proposals.py): nothing is edited while an office has the file.
FileUnchangedUnderScrutiny ==
    [][\A p \in Opened : proposal[p].status \notin {"DRAFT", "RETURNED"}
          => proposal'[p].content = proposal[p].content]_vars

\* A file history is one path, and nothing follows a decision.
FileHistoryIsAPath ==
    \A p \in Proposals : \A i \in 2..Len(reviews[p]) :
        reviews[p][i].from = reviews[p][i - 1].to

\* "Next free proposal number for this state and year" (numbering.py): a number
\* minted now is on no row.
NextNumberIsFree ==
    \A s \in States : NextNumber(IssuedIn(s), ProposalWidth) \notin TakenIn(s)

\* "Next free case number for this district and year" (numbering.py): a sanction
\* can always open its case.
NextCaseNumberIsFree == NextNumber(CaseNumbers, CaseWidth) \notin CaseNumbers
=============================================================================
