---------------------------- MODULE Compensation ----------------------------
(***************************************************************************)
(* The award of one household on one case: app/services/compensation.py    *)
(* and the compensation routes of app/routers/persons.py.  Declaring an    *)
(* award inserts its row; an update records a payment, a revision or both, *)
(* and derives the amount awarded and the settled status anew.             *)
(*                                                                         *)
(* A request leaves a field out by sending Unset.  The date of the award   *)
(* is left out: nothing is decided on it.                                  *)
(***************************************************************************)
EXTENDS Requests, Rounding

CONSTANTS
    MarketValues,   \* market values that may be assessed
    SolatiumRates,  \* solatium rates, percent
    Interests,      \* amounts of delay interest
    Payments,       \* totals that may be recorded as paid
    NamedStatuses,  \* statuses that officers set by hand
    Unset           \* a field an update does not name

VARIABLE award      \* the household's row of compensation

vars == <<orderly, request, award>>

-----------------------------------------------------------------------------
CompensationStatus == {"PENDING", "ASSESSED", "AWARDED", "PAID", "DISPUTED"}

SolatiumAmount(market, rate) == Round(market * rate, 100)

ComputeAward(market, rate, interest) == market + SolatiumAmount(market, rate) + interest

AwardRow == [declared : BOOLEAN, market : Int, rate : Int, interest : Int,
             awarded : Int, paid : Int, status : CompensationStatus]

NoAward == [declared |-> FALSE, market |-> 0, rate |-> 100, interest |-> 0,
            awarded |-> 0, paid |-> 0, status |-> "PENDING"]

Assessed(market, rate, interest) ==
    [declared |-> TRUE, market |-> market, rate |-> rate, interest |-> interest,
     awarded |-> ComputeAward(market, rate, interest), paid |-> 0, status |-> "ASSESSED"]

Request == [op : {"declare", "update"}, loaded : AwardRow, assigned : AwardRow]

Init == InitRequests /\ award = NoAward

-----------------------------------------------------------------------------
\* POST /compensation, for a household without an award.
CreateCompensation(w, market, rate, interest) ==
    /\ ~award.declared
    /\ Begin(w, [op |-> "declare", loaded |-> award,
                 assigned |-> Assessed(market, rate, interest)])
    /\ UNCHANGED award

\* The insert, which the unique constraint refuses if there is a row by then.
CommitCreate(w) ==
    LET r == request[w] IN
    /\ r.op = "declare"
    /\ award' = IF award.declared THEN award ELSE r.assigned
    /\ Finish(w)

Given(field, loaded) == IF field = Unset THEN loaded ELSE field

\* The status an update leaves: the one it names, or what the amounts say.
Settled(row, named) ==
    IF named # Unset THEN named
    ELSE IF row.awarded > 0 /\ row.paid >= row.awarded THEN "PAID"
    ELSE IF row.awarded > 0 /\ row.status = "PAID" THEN "AWARDED"
    ELSE row.status

\* The loaded row with the amounts an update names, and the award they make.
Revised(market, rate, interest, paid) ==
    LET row == [award EXCEPT !.market = Given(market, @), !.rate = Given(rate, @),
                             !.interest = Given(interest, @), !.paid = Given(paid, @)]
    IN  [row EXCEPT !.awarded = ComputeAward(row.market, row.rate, row.interest)]

\* Mutant of UpdateCompensation: a payment is held against the award of record.
UpdateAgainstOldAward(w, market, rate, interest, paid, named) ==
    LET row == Revised(market, rate, interest, paid) IN
    /\ award.declared
    /\ row.paid <= award.awarded
    /\ Begin(w, [op |-> "update", loaded |-> award,
                 assigned |-> [row EXCEPT !.status = Settled(row, named)]])
    /\ UNCHANGED award

\* PATCH /compensation/{id}.
UpdateCompensation(w, market, rate, interest, paid, named) ==
    LET row == Revised(market, rate, interest, paid) IN
    /\ award.declared
    /\ row.paid <= row.awarded
    /\ Begin(w, [op |-> "update", loaded |-> award,
                 assigned |-> [row EXCEPT !.status = Settled(row, named)]])
    /\ UNCHANGED award

CommitUpdate(w) ==
    LET r == request[w] IN
    /\ r.op = "update"
    /\ award' = WrittenRow(award, r.loaded, r.assigned)
    /\ Finish(w)

FailRequest(w) == Fail(w) /\ UNCHANGED award

Next ==
    \E w \in Workers :
        \/ \E market \in MarketValues, rate \in SolatiumRates, interest \in Interests :
              CreateCompensation(w, market, rate, interest)
        \/ CommitCreate(w)
        \/ \E market \in MarketValues \cup {Unset}, rate \in SolatiumRates \cup {Unset},
              interest \in Interests \cup {Unset}, paid \in Payments \cup {Unset},
              named \in NamedStatuses \cup {Unset} :
                UpdateCompensation(w, market, rate, interest, paid, named)
        \/ CommitUpdate(w)
        \/ FailRequest(w)

Spec == orderly \in BOOLEAN /\ Init /\ [][Next]_vars

-----------------------------------------------------------------------------
\* The row and the requests are well formed.
TypeOK == RequestsOK(Request) /\ award \in AwardRow

(***************************************************************************)
(* "that combination is not a state the Act allows" (schemas/person.py),   *)
(* "a record still reading "paid" with money outstanding is counted as     *)
(* settled by every figure downstream of it" (persons.py): no household is *)
(* recorded as paid more than it was awarded, the award is the arithmetic  *)
(* of the three amounts beside it, and one that reads paid is paid in      *)
(* full unless officers set that status by hand, when requests come one    *)
(* by one.                                                                 *)
(***************************************************************************)
PaidWithinAward ==
    orderly =>
        /\ award.paid <= award.awarded
        /\ award.awarded = ComputeAward(award.market, award.rate, award.interest)
        /\ award.status = "PAID" /\ "PAID" \notin NamedStatuses =>
              award.paid = award.awarded
=============================================================================
