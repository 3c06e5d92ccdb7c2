\* Every desk with requests one by one, seven of them with requests that overlap.
CONSTANTS
    Workers = {w1, w2}
    OrderlyDesks = {"documents", "compensation", "households", "parcels", "objections", "grievances", "notices", "invitations", "sign-in", "authenticators", "files"}
    OverlappingDesks = {"documents", "parcels", "objections", "notices", "invitations", "sign-in", "authenticators"}
    MaxVersions = 2
    MaxContents = 3
    MarketValues = {1, 3}
    SolatiumRates = {50, 100}
    Interests = {0, 1}
    Payments = {0, 2, 6}
    NamedStatuses = {"DISPUTED", "AWARDED"}
    Unset = Unset
    Deliveries = {"PENDING", "APPROVED", "FAILED"}
    MaxHouseholds = 1
    MaxBenefits = 1
    Cases = {c1, c2}
    SurveyNumbers = {sn1}
    Ulpins = {ul1}
    NoUlpin = NoUlpin
    Areas <- MCAreas
    Drifts <- MCDrifts
    MaxParcels = 2
    MaxPushes = 2
    ResponseTexts = {t1}
    MaxObjections = 1
    LastDay = 2
    Answers = {"ASSIGNED", "RESPONSE_PROVIDED", "RESOLVED", "CLOSED"}
    MaxGrievances = 2
    MaxMoves = 4
    NoticeTypes = {"PRELIMINARY_NOTIFICATION", "DECLARATION"}
    Numbers = {n1, n2}
    CaseStages = {4, 5}
    MaxSubscriptions = 2
    Usernames = {u1, u2, u3}
    MaxUses = 2
    Attempts = 2
    Window = 5
    TicksPerSecond = 2
    LastTick = 8
    Secrets = {k1, k2}
    NoSecret = NoSecret
    MaxFaces = 2
    StandardDays <- MCStandardDays
    WarnDays <- MCWarnDays
    Required <- MCRequired
    FirstStages = {4, 6, 8}
    Days = {1, 2, 11, 22, 32, 1827}
    Others <- MCOthers
    MaxActs = 2
SPECIFICATION Spec
SYMMETRY MCSymmetry
INVARIANTS
    TypeOK
    VersionsFormAChain
    DigestDescribesFile
    PaidWithinAward
    MutationsWereSent
    ReconcileTellsTheDifference
    DecisionsAreTold
    GrievanceHistoryIsAPath
    RegisteredOnce
    SubscribersAreTold
    AccountsMatchUses
    RefusalsArePromises
    FactorsAreProven
    ReadersAgree
    WaitingNeverHelps
CHECK_DEADLOCK FALSE
