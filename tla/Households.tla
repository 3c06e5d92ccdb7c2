----------------------------- MODULE Households -----------------------------
(***************************************************************************)
(* The households a case affects, the resettlement each is owed and its    *)
(* benefits: app/routers/persons.py, beside the awards (Compensation).     *)
(*                                                                         *)
(* A benefit is moved along one field at a time.  Whether a note is needed *)
(* is judged on what the request gives and, for the rest, on the row it    *)
(* loaded.                                                                 *)
(***************************************************************************)
EXTENDS Requests, Naturals, Sequences

CONSTANTS
    Deliveries,     \* statuses benefits are given (some of BenefitDeliveryStatus)
    MaxHouseholds,  \* bound: households of the case
    MaxBenefits     \* bound: rows of rnr_benefits

VARIABLES
    households,     \* households of the case, by id, each with its R&R record
    benefits        \* rows of rnr_benefits, by id

vars == <<orderly, request, households, benefits>>

-----------------------------------------------------------------------------
BenefitDeliveryStatus == {"PENDING", "APPROVED", "IN_PROCESS", "DELIVERED",
                          "FAILED", "REVIEW_REQUIRED"}

BENEFIT_NOTE_REQUIRED_STATUSES == {"FAILED", "REVIEW_REQUIRED"}

\* The statuses of an R&R record, as far as anything decides on them.
RnRStatus == {"PENDING", "COMPLETED"}

\* is_landowner stands for is_displaced and consent_given too.
HouseholdRow == [is_landowner : BOOLEAN, rnr : RnRStatus]

\* Whether there is a note and a document of the case as evidence.
BenefitRow == [status : BenefitDeliveryStatus, note : BOOLEAN, evidence : BOOLEAN]

HouseholdIds == 1..MaxHouseholds

BenefitIds == 1..MaxBenefits

Request ==
    [op : {"household"}, h : HouseholdIds, loaded : HouseholdRow, assigned : HouseholdRow]
    \cup [op : {"benefit"}, b : BenefitIds, loaded : BenefitRow, assigned : BenefitRow]

Init ==
    /\ InitRequests
    /\ households = <<>>
    /\ benefits = <<>>

-----------------------------------------------------------------------------
\* POST /persons: a village of another district is refused.
AddAffectedPerson(w, isLandowner) ==
    /\ AtOnce(w)
    /\ Len(households) < MaxHouseholds
    /\ households' = Append(households, [is_landowner |-> isLandowner, rnr |-> "PENDING"])
    /\ UNCHANGED benefits

\* PATCH /persons/{id}, which ends here when nothing would change.
UpdateAffectedPerson(w, h, isLandowner) ==
    LET row == households[h] IN
    /\ isLandowner # row.is_landowner
    /\ Begin(w, [op |-> "household", h |-> h, loaded |-> row,
                 assigned |-> [row EXCEPT !.is_landowner = isLandowner]])
    /\ UNCHANGED <<households, benefits>>

\* PATCH /rnr/{id}.
UpdateRnr(w, h, status) ==
    LET row == households[h] IN
    /\ Begin(w, [op |-> "household", h |-> h, loaded |-> row,
                 assigned |-> [row EXCEPT !.rnr = status]])
    /\ UNCHANGED <<households, benefits>>

CommitHousehold(w) ==
    LET r == request[w] IN
    /\ r.op = "household"
    /\ households' = [households EXCEPT ![r.h] = WrittenRow(@, r.loaded, r.assigned)]
    /\ Finish(w)
    /\ UNCHANGED benefits

\* POST /rnr/{id}/benefits.
CreateRnrBenefit(w, h) ==
    /\ AtOnce(w)
    /\ Len(benefits) < MaxBenefits
    /\ benefits' = Append(benefits,
            [of |-> h, row |-> [status |-> "PENDING", note |-> FALSE, evidence |-> FALSE]])
    /\ UNCHANGED households

\* PATCH /rnr/benefits/{id}: the row with the fields the request gives.
UpdateRnrBenefit(w, b, assigned) ==
    LET row == benefits[b].row IN
    /\ assigned.status \in BENEFIT_NOTE_REQUIRED_STATUSES => assigned.note
    /\ Begin(w, [op |-> "benefit", b |-> b, loaded |-> row, assigned |-> assigned])
    /\ UNCHANGED <<households, benefits>>

CommitBenefit(w) ==
    LET r == request[w] IN
    /\ r.op = "benefit"
    /\ benefits' = [benefits EXCEPT ![r.b].row = WrittenRow(@, r.loaded, r.assigned)]
    /\ Finish(w)
    /\ UNCHANGED households

FailRequest(w) == Fail(w) /\ UNCHANGED <<households, benefits>>

Next ==
    \E w \in Workers :
        \/ \E isLandowner \in BOOLEAN : AddAffectedPerson(w, isLandowner)
        \/ \E h \in DOMAIN households :
              \/ \E isLandowner \in BOOLEAN : UpdateAffectedPerson(w, h, isLandowner)
              \/ \E status \in RnRStatus : UpdateRnr(w, h, status)
              \/ CreateRnrBenefit(w, h)
        \/ CommitHousehold(w)
        \/ \E b \in DOMAIN benefits, assigned \in [status : Deliveries, note : BOOLEAN,
                                                   evidence : BOOLEAN] :
              UpdateRnrBenefit(w, b, assigned)
        \/ CommitBenefit(w)
        \/ FailRequest(w)

Spec == orderly \in BOOLEAN /\ Init /\ [][Next]_vars

-----------------------------------------------------------------------------
\* Rows and requests are well formed.
TypeOK ==
    /\ RequestsOK(Request)
    /\ households \in Seq(HouseholdRow) /\ Len(households) <= MaxHouseholds
    /\ benefits \in Seq([of : HouseholdIds, row : BenefitRow])
    /\ Len(benefits) <= MaxBenefits
=============================================================================
