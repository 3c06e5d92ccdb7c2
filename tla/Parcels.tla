------------------------------ MODULE Parcels ------------------------------
(***************************************************************************)
(* The parcels of a village, their corrections, what the state's portal    *)
(* says of them and the ownership changes pushed to it: app/routers/       *)
(* parcels.py, app/services/landrecords.py, app/integrations/.             *)
(*                                                                         *)
(* A push goes out before the row that records it is inserted, and nothing *)
(* asks whether an earlier one was acknowledged.  The coordinates are left *)
(* out, and so are the areas of the rows: nothing here depends on them but *)
(* what a report says, which is looked at for any areas on file.           *)
(***************************************************************************)
EXTENDS Requests, LandRecords, Sequences, FiniteSets

CONSTANTS
    Cases,           \* cases of the village
    SurveyNumbers,   \* survey numbers a parcel may be given
    Ulpins,          \* ULPINs a parcel may be given
    NoUlpin,         \* a parcel has none yet
    Areas,           \* areas that may be on file, in square metres
    MaxParcels,      \* bound: rows of parcels
    MaxPushes        \* bound: ownership changes pushed

VARIABLES
    parcels,         \* rows of parcels, by id
    pushes,          \* ownership changes the state's portal was sent, in order
    mutations        \* rows of mutation_requests, in commit order

vars == <<orderly, request, parcels, pushes, mutations>>

-----------------------------------------------------------------------------
\* The statuses nothing decides on are one here.
ParcelStatus == {"UNDER_ACQUISITION", "POSSESSION_TAKEN"}

\* The columns a correction may change.
ParcelRow == [survey : SurveyNumbers, ulpin : Ulpins \cup {NoUlpin}, status : ParcelStatus]

\* What is both sent and recorded.  The survey number goes out too and is on no
\* row; the portal's answer is left out, for nothing is decided on it.
Push == [p : 1..MaxParcels, ulpin : Ulpins \cup {NoUlpin}]

Request ==
    [op : {"create"}, case : Cases, row : ParcelRow]
    \cup [op : {"update"}, p : 1..MaxParcels, loaded : ParcelRow, assigned : ParcelRow]
    \cup [op : {"push", "pushed"}, push : Push]

Ids == DOMAIN parcels

Init ==
    /\ InitRequests
    /\ parcels = <<>>
    /\ pushes = <<>>
    /\ mutations = <<>>

-----------------------------------------------------------------------------
\* Whether a row other than p has the ULPIN.
UlpinTaken(ulpin, p) == ulpin # NoUlpin /\ \E q \in Ids \ {p} : parcels[q].row.ulpin = ulpin

OnCase(survey, case) == \E p \in Ids : parcels[p].case = case /\ parcels[p].row.survey = survey

\* POST /parcels, with the status a parcel has unless another is asked for.
CreateParcel(w, case, row) ==
    /\ row.status = "UNDER_ACQUISITION"
    /\ Len(parcels) < MaxParcels
    /\ ~OnCase(row.survey, case)
    /\ ~UlpinTaken(row.ulpin, 0)
    /\ Begin(w, [op |-> "create", case |-> case, row |-> row])
    /\ UNCHANGED <<parcels, pushes, mutations>>

CommitCreate(w) ==
    LET r == request[w] IN
    /\ r.op = "create"
    /\ Len(parcels) < MaxParcels
    /\ ~UlpinTaken(r.row.ulpin, 0)
    /\ parcels' = Append(parcels, [case |-> r.case, row |-> r.row])
    /\ Finish(w)
    /\ UNCHANGED <<pushes, mutations>>

\* PATCH /parcels/{id}.  A ULPIN, once there, is replaced and never removed.
UpdateParcel(w, p, assigned) ==
    LET row == parcels[p].row IN
    /\ assigned.ulpin = NoUlpin => row.ulpin = NoUlpin
    /\ assigned.ulpin # row.ulpin => ~UlpinTaken(assigned.ulpin, p)
    /\ assigned # row
    /\ Begin(w, [op |-> "update", p |-> p, loaded |-> row, assigned |-> assigned])
    /\ UNCHANGED <<parcels, pushes, mutations>>

CommitUpdate(w) ==
    LET r == request[w] IN
    /\ r.op = "update"
    /\ r.assigned.ulpin # r.loaded.ulpin => ~UlpinTaken(r.assigned.ulpin, r.p)
    /\ parcels' = [parcels EXCEPT ![r.p].row = WrittenRow(@, r.loaded, r.assigned)]
    /\ Finish(w)
    /\ UNCHANGED <<pushes, mutations>>

\* Taken since it was looked for: the unique constraint refuses the row.
UlpinRefused(w) ==
    LET r == request[w] IN
    /\ \/ r.op = "create" /\ UlpinTaken(r.row.ulpin, 0)
       \/ /\ r.op = "update" /\ r.assigned.ulpin # r.loaded.ulpin
          /\ UlpinTaken(r.assigned.ulpin, r.p)
    /\ Finish(w)
    /\ UNCHANGED <<parcels, pushes, mutations>>

-----------------------------------------------------------------------------
\* POST /parcels/{id}/mutation-request, as far as its check.
RequestMutation(w, p) ==
    /\ parcels[p].row.status = "POSSESSION_TAKEN"
    /\ Begin(w, [op |-> "push", push |-> [p |-> p, ulpin |-> parcels[p].row.ulpin]])
    /\ UNCHANGED <<parcels, pushes, mutations>>

\* push_mutation, whatever the portal answers.
PushMutation(w) ==
    LET r == request[w] IN
    /\ r.op = "push"
    /\ Len(pushes) < MaxPushes
    /\ pushes' = Append(pushes, r.push)
    /\ GoOn(w, [r EXCEPT !.op = "pushed"])
    /\ UNCHANGED <<parcels, mutations>>

\* Mutant of CommitMutation: what is recorded is read from the parcel again.
CommitMutationReread(w) ==
    LET r == request[w] IN
    /\ r.op = "pushed"
    /\ mutations' = Append(mutations,
            [r.push EXCEPT !.ulpin = parcels[r.push.p].row.ulpin])
    /\ Finish(w)
    /\ UNCHANGED <<parcels, pushes>>

CommitMutation(w) ==
    /\ request[w].op = "pushed"
    /\ mutations' = Append(mutations, request[w].push)
    /\ Finish(w)
    /\ UNCHANGED <<parcels, pushes>>

FailRequest(w) == Fail(w) /\ UNCHANGED <<parcels, pushes, mutations>>

Next ==
    \E w \in Workers :
        \/ \E case \in Cases, row \in ParcelRow : CreateParcel(w, case, row)
        \/ CommitCreate(w)
        \/ \E p \in Ids, assigned \in ParcelRow : UpdateParcel(w, p, assigned)
        \/ CommitUpdate(w)
        \/ UlpinRefused(w)
        \/ \E p \in Ids : RequestMutation(w, p)
        \/ PushMutation(w)
        \/ CommitMutation(w)
        \/ FailRequest(w)

Spec == orderly \in BOOLEAN /\ Init /\ [][Next]_vars

-----------------------------------------------------------------------------
\* The land on file as an adapter reads it; every parcel has its own owner.
OnFile(p, area) == [area |-> area[p], owner |-> p]

\* What reconcile_case may report of p, with these areas on file, when the portal's
\* entry for its survey number is this: the adapter takes any row of the village
\* with the number.
Reports(p, area, a, entry) ==
    CASE entry.found = "unreachable" -> {"unavailable"}
      [] entry.found = "absent" -> {"not_found_upstream"}
      [] entry.found = "yes" ->
            {Compare(OnFile(p, area), Record(a, OnFile(q, area), entry)) :
                q \in {r \in Ids : parcels[r].row.survey = parcels[p].row.survey}}

\* Rows and requests are well formed.
TypeOK ==
    /\ RequestsOK(Request)
    /\ parcels \in Seq([case : Cases, row : ParcelRow])
    /\ pushes \in Seq(Push) /\ mutations \in Seq(Push)

(***************************************************************************)
(* "so an officer can see whether a stalled mutation was ever actually     *)
(* sent, and what the portal said when it was" (parcels.py).  However      *)
(* requests overlap or fail, what is on record was sent, word for word;    *)
(* when they come one by one, what was sent is on record.                  *)
(***************************************************************************)
MutationsWereSent ==
    /\ \A m \in DOMAIN mutations :
          Cardinality({i \in DOMAIN mutations : mutations[i] = mutations[m]})
              <= Cardinality({i \in DOMAIN pushes : pushes[i] = mutations[m]})
    /\ orderly /\ AllIdle => mutations = pushes

\* How far the roundings of an adapter may move an area, in hundredths of a
\* square metre: half a square metre for an area it changes; half a thousandth of
\* an acre (2.03 m2) where the portal counts in those, another one for an area it
\* changes by up to 9 percent there, and half a square metre on the way back.
Coarseness(a, drift) ==
    CASE a = "mock" /\ drift = 0 -> 0
      [] a = "mock" /\ drift # 0 -> 50
      [] a # "mock" /\ drift = 0 -> 253
      [] a # "mock" /\ drift # 0 -> 473

\* What may be said of a parcel of this area: that the areas differ, if they do
\* before any rounding or come so near to it that rounding may tell otherwise; what
\* the names say, if the areas agree or come so near to it.
Tellable(area, a, entry) ==
    LET off == Abs(entry.drift) * area        \* hundredths of a square metre, as is
        allowed == AreaTolerance * area       \* the one percent allowed
        doubt == Coarseness(a, entry.drift)
        named == IF entry.name = "variant" THEN "owner_mismatch" ELSE "matched"
    IN  {said \in {"area_mismatch", named} :
            IF said = "area_mismatch" THEN off + doubt > allowed ELSE off - doubt <= allowed}

(***************************************************************************)
(* "telling an officer ... that the portal shows a different surveyed      *)
(* area, a different owner", with a tolerance "tight enough to catch a     *)
(* real transcription error and loose enough to stay quiet about           *)
(* measurement noise" (landrecords.py).  Of a parcel of any area whose     *)
(* survey number no other of the village has, the report names the first   *)
(* thing the portal's record really differs in, but for the roundings the  *)
(* adapter makes.  From 474 square metres on that leaves one answer; on    *)
(* small plots it does not, against what the comment promises.             *)
(***************************************************************************)
ReconcileTellsTheDifference ==
    AllIdle => \A p \in Ids :
        (\A q \in Ids \ {p} : parcels[q].row.survey # parcels[p].row.survey) =>
            \A area \in [Ids -> Areas], a \in Adapter, entry \in PortalEntry :
                Reports(p, area, a, entry) \subseteq
                    CASE entry.found = "unreachable" -> {"unavailable"}
                      [] entry.found = "absent" -> {"not_found_upstream"}
                      [] entry.found = "yes" -> Tellable(area[p], a, entry)
=============================================================================
