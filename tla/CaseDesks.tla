----------------------------- MODULE CaseDesks -----------------------------
(***************************************************************************)
(* The desks around a case: documents, compensation, households, parcels,  *)
(* objections, grievances, notices, invitations, sign-in, authenticators,  *)
(* and the file the dashboards read.  Their handlers share the threads of  *)
(* the backend and no rows, so what requests of two desks do to each other *)
(* is take turns, and a behaviour of all of them is seen by looking at one *)
(* desk.  The desk, and whether its requests overlap, are chosen at the    *)
(* start.                                                                  *)
(***************************************************************************)
EXTENDS Requests, Integers, Sequences, FiniteSets

CONSTANTS
    OrderlyDesks,      \* desks looked at when requests come one by one
    OverlappingDesks,  \* desks looked at when they overlap or fail
    MaxVersions, MaxContents,                                         \* Documents
    MarketValues, SolatiumRates, Interests, Payments, NamedStatuses, Unset,
                                                                      \* Compensation
    Deliveries, MaxHouseholds, MaxBenefits,                           \* Households
    Cases, SurveyNumbers, Ulpins, NoUlpin, Areas, Drifts, MaxParcels, MaxPushes,
                                                                      \* Parcels
    ResponseTexts, MaxObjections, LastDay,                            \* Objections
    Answers, MaxGrievances, MaxMoves,                                 \* Grievances
    NoticeTypes, Numbers, CaseStages, MaxSubscriptions,               \* Notices
    Usernames, MaxUses,                                               \* Invitations
    Attempts, Window, TicksPerSecond, LastTick,                       \* SignIns
    Secrets, NoSecret, MaxFaces,                                      \* Authenticators
    StandardDays, WarnDays, Required, FirstStages, Days, Others, MaxActs
                                                                      \* CaseFiles

\* A desk to look at is one of those below.
ASSUME DesksAssumption ==
    OrderlyDesks \cup OverlappingDesks \subseteq
        {"documents", "compensation", "households", "parcels", "objections", "grievances",
         "notices", "invitations", "sign-in", "authenticators", "files"}

\* The amounts of CompensationCreate and CompensationUpdate are not negative.
ASSUME AmountsAssumption ==
    /\ MarketValues \subseteq Nat /\ SolatiumRates \subseteq Nat
    /\ Interests \subseteq Nat /\ Payments \subseteq Nat

\* ParcelCreate and ParcelUpdate ask for an area above zero; the adapters let one
\* drift by up to 9 percent.
ASSUME LandAssumption == Areas \subseteq Nat \ {0} /\ Drifts \subseteq -9..9

\* The bounds are numbers; a document may be seeded and a day begins.
ASSUME BoundsAssumption ==
    /\ MaxVersions \in Nat \ {0} /\ MaxContents \in Nat \ {0}
    /\ MaxHouseholds \in Nat /\ MaxBenefits \in Nat /\ MaxParcels \in Nat
    /\ MaxObjections \in Nat /\ LastDay \in Nat \ {0}
    /\ MaxSubscriptions \in Nat /\ LastTick \in Nat /\ MaxFaces \in Nat

\* The numbers of the grievances of a year fit their width.
ASSUME GrievanceBoundsAssumption == MaxGrievances \in Nat /\ MaxGrievances < 100000

\* InviteCodeCreate asks for one use at least.
ASSUME MaxUsesAssumption == MaxUses \in Nat \ {0}

\* A window of whole ticks with a limit that lets somebody in.
ASSUME LimiterAssumption ==
    Attempts \in Nat \ {0} /\ Window \in Nat /\ TicksPerSecond \in Nat \ {0}

\* The thread pool is finite.
ASSUME WorkersAssumption == IsFiniteSet(Workers)

VARIABLES
    desk,
    documents, disk, written,
    award,
    households, benefits,
    parcels, pushes, mutations,
    objections, inbox, texted,
    grievances,
    stage, notices, subscriptions, logins, heard, cut,
    invite, expired, accounts,
    failures, now, promised,
    totp, shown, minted, faces,
    file, others, acts,
    today                   \* of objections and of the file

documentVars == <<documents, disk, written>>
householdVars == <<households, benefits>>
parcelVars == <<parcels, pushes, mutations>>
objectionVars == <<objections, inbox, texted>>
noticeVars == <<stage, notices, subscriptions, logins, heard, cut>>
inviteVars == <<invite, expired, accounts>>
signInVars == <<failures, now, promised>>
factorVars == <<totp, shown, minted, faces>>
fileVars == <<file, others, acts>>

vars == <<desk, orderly, request, documentVars, award, householdVars, parcelVars,
          objectionVars, grievances, noticeVars, inviteVars, signInVars, factorVars,
          fileVars, today>>

Docs == INSTANCE Documents
Comp == INSTANCE Compensation
Homes == INSTANCE Households
Land == INSTANCE Parcels
Objs == INSTANCE Objections
Griev == INSTANCE Grievances
Notes == INSTANCE Notices
Invites == INSTANCE Invitations
Doors == INSTANCE SignIns
Factors == INSTANCE Authenticators
Files == INSTANCE CaseFiles

\* What officers choose is on the lists the schemas know.
ASSUME ListsAssumption ==
    /\ NamedStatuses \subseteq Comp!CompensationStatus
    /\ Deliveries \subseteq Homes!BenefitDeliveryStatus
    /\ Answers \subseteq Griev!GrievanceStatus
    /\ NoticeTypes \subseteq Notes!NoticeType
    /\ CaseStages \subseteq Notes!Stage

\* Every row of stage_sla allows some days; other cases showed whole days.
ASSUME ReadersAssumption ==
    /\ FirstStages \subseteq Files!Stage
    /\ \A s \in Files!Stage : StandardDays[s] \in Nat \ {0} /\ WarnDays[s] \in Int
    /\ \A s \in Files!Stage : IsFiniteSet(Required[s])
    /\ Days \subseteq Nat \ {0} /\ 1 \in Days
    /\ Others \subseteq Seq(Nat)
    /\ MaxActs \in Nat

-----------------------------------------------------------------------------
\* A desk that is not looked at stays as it begins.
Init ==
    /\ \/ orderly = TRUE /\ desk \in OrderlyDesks
       \/ orderly = FALSE /\ desk \in OverlappingDesks
    /\ Docs!Init /\ Comp!Init /\ Homes!Init /\ Land!Init /\ Objs!Init /\ Griev!Init
    /\ Notes!Init /\ Invites!Init /\ Doors!Init /\ Factors!Init /\ Files!Init
    /\ desk # "documents" => documents = <<>>
    /\ desk # "notices" => stage = CHOOSE s \in CaseStages : TRUE
    /\ desk # "files" =>
          /\ file.due = Files!NoDate
          /\ file.stage = CHOOSE s \in FirstStages : TRUE
          /\ others = CHOOSE o \in Others : TRUE

Keep(own, d, v) == IF d = own THEN TRUE ELSE UNCHANGED v

\* What a step of desk d leaves alone.
Elsewhere(d) ==
    /\ UNCHANGED desk
    /\ Keep("documents", d, documentVars)
    /\ Keep("compensation", d, award)
    /\ Keep("households", d, householdVars)
    /\ Keep("parcels", d, parcelVars)
    /\ Keep("objections", d, objectionVars)
    /\ Keep("grievances", d, grievances)
    /\ Keep("notices", d, noticeVars)
    /\ Keep("invitations", d, inviteVars)
    /\ Keep("sign-in", d, signInVars)
    /\ Keep("authenticators", d, factorVars)
    /\ Keep("files", d, fileVars)
    /\ IF d \in {"objections", "files"} THEN TRUE ELSE UNCHANGED today

DocumentsNext == desk = "documents" /\ Docs!Next /\ Elsewhere("documents")

CompensationNext == desk = "compensation" /\ Comp!Next /\ Elsewhere("compensation")

HouseholdsNext == desk = "households" /\ Homes!Next /\ Elsewhere("households")

ParcelsNext == desk = "parcels" /\ Land!Next /\ Elsewhere("parcels")

ObjectionsNext == desk = "objections" /\ Objs!Next /\ Elsewhere("objections")

GrievancesNext == desk = "grievances" /\ Griev!Next /\ Elsewhere("grievances")

NoticesNext == desk = "notices" /\ Notes!Next /\ Elsewhere("notices")

InvitationsNext == desk = "invitations" /\ Invites!Next /\ Elsewhere("invitations")

SignInsNext == desk = "sign-in" /\ Doors!Next /\ Elsewhere("sign-in")

AuthenticatorsNext == desk = "authenticators" /\ Factors!Next /\ Elsewhere("authenticators")

CaseFilesNext == desk = "files" /\ Files!Next /\ Elsewhere("files")

Next ==
    \/ DocumentsNext
    \/ CompensationNext
    \/ HouseholdsNext
    \/ ParcelsNext
    \/ ObjectionsNext
    \/ GrievancesNext
    \/ NoticesNext
    \/ InvitationsNext
    \/ SignInsNext
    \/ AuthenticatorsNext
    \/ CaseFilesNext

Spec == Init /\ [][Next]_vars

-----------------------------------------------------------------------------
\* The rows and requests of the desk are well formed.
TypeOK ==
    \/ desk = "documents" /\ Docs!TypeOK
    \/ desk = "compensation" /\ Comp!TypeOK
    \/ desk = "households" /\ Homes!TypeOK
    \/ desk = "parcels" /\ Land!TypeOK
    \/ desk = "objections" /\ Objs!TypeOK
    \/ desk = "grievances" /\ Griev!TypeOK
    \/ desk = "notices" /\ Notes!TypeOK
    \/ desk = "invitations" /\ Invites!TypeOK
    \/ desk = "sign-in" /\ Doors!TypeOK
    \/ desk = "authenticators" /\ Factors!TypeOK
    \/ desk = "files" /\ Files!TypeOK

\* documents.py: "the history stays complete", however requests overlap.
VersionsFormAChain == Docs!VersionsFormAChain

\* documents.py: a file at rest is the one its row has the digest of, when
\* requests come one by one.
DigestDescribesFile == Docs!DigestDescribesFile

\* persons.py: nobody is recorded as paid more than was awarded, and an award
\* that reads paid is paid, when requests come one by one.
PaidWithinAward == Comp!PaidWithinAward

\* parcels.py: what is on record was sent, however requests overlap or fail.
MutationsWereSent == Land!MutationsWereSent

\* landrecords.py: the report names what the portal's record differs in.
ReconcileTellsTheDifference == Land!ReconcileTellsTheDifference

\* objections.py: who filed an objection hears the decision that stands.
DecisionsAreTold == Objs!DecisionsAreTold

\* grievances.py: the history of a grievance is a path to its status that never
\* leaves a final one, when requests come one by one.
GrievanceHistoryIsAPath == Griev!HistoryIsAPath

\* notices.py: one subscription of a recipient and one account of an owner,
\* when requests come one by one.
RegisteredOnce == Notes!RegisteredOnce

\* notices.py: every subscription is told what it is owed, however requests
\* overlap, unless the request that owes it ends between its commits.
SubscribersAreTold == Notes!SubscribersAreTold

\* auth.py, invites.py: no use of an invitation without an account, however
\* requests overlap, and no more accounts than uses, when they come one by one.
AccountsMatchUses == Invites!AccountsMatchUses

\* ratelimit.py: a refusal says when to come back, and keeps its word.
RefusalsArePromises == Doors!RefusalsArePromises

\* mfa.py, biometrics.py: a factor that guards an account was shown to work.
FactorsAreProven == Factors!FactorsAreProven

\* dashboard.py, objections.py, ai_layer: the screens never disagree.
ReadersAgree == desk = "files" => Files!ReadersAgree

\* ai_layer: while nobody does anything, nothing looks better.
WaitingNeverHelps == desk = "files" => Files!WaitingNeverHelps
=============================================================================
