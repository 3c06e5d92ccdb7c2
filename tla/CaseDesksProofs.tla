--------------------------- MODULE CaseDesksProofs ---------------------------
(***************************************************************************)
(* A step is one of the desk that is looked at, and the other desks keep   *)
(* the rows they begin with.  So what is proved of a desk by itself        *)
(* (DocumentsProofs, NoticesProofs) holds of it among the others; the      *)
(* invariants of seven more desks are here.  Most say what a request under *)
(* way carries: the count a registration raised, the row an update loaded, *)
(* the change that was sent and not yet recorded.  The file the screens    *)
(* read is in CaseFilesProofs.  The types of all the desks come last.      *)
(***************************************************************************)
EXTENDS CaseFilesProofs

DocFacts == INSTANCE DocumentsProofs
NoteFacts == INSTANCE NoticesProofs

\* A step is one of the desk that is looked at.
LEMMA StepsOfADesk ==
    ASSUME [Next]_vars
    PROVE  /\ desk' = desk
           /\ IF desk = "documents" THEN [Docs!Next]_(Docs!vars) ELSE UNCHANGED documentVars
           /\ IF desk = "notices" THEN [Notes!Next]_(Notes!vars) ELSE UNCHANGED noticeVars
           /\ IF desk = "authenticators" THEN [Factors!Next]_(Factors!vars)
              ELSE UNCHANGED factorVars
           /\ IF desk = "invitations" THEN [Invites!Next]_(Invites!vars)
              ELSE UNCHANGED inviteVars
           /\ IF desk = "compensation" THEN [Comp!Next]_(Comp!vars) ELSE UNCHANGED award
           /\ IF desk = "objections" THEN [Objs!Next]_(Objs!vars) ELSE UNCHANGED objectionVars
           /\ IF desk = "grievances" THEN [Griev!Next]_(Griev!vars) ELSE UNCHANGED grievances
           /\ IF desk = "parcels" THEN [Land!Next]_(Land!vars) ELSE UNCHANGED parcelVars
           /\ IF desk = "sign-in" THEN [Doors!Next]_(Doors!vars) ELSE UNCHANGED signInVars
<1>1. CASE UNCHANGED vars
  BY <1>1
  DEF vars, documentVars, noticeVars, factorVars, inviteVars, objectionVars, parcelVars,
      signInVars, Docs!vars, Notes!vars, Factors!vars, Invites!vars, Comp!vars, Objs!vars,
      Griev!vars, Land!vars, Doors!vars
<1>2. CASE Next
  BY <1>2
  DEF Next, DocumentsNext, CompensationNext, HouseholdsNext, ParcelsNext, ObjectionsNext,
      GrievancesNext, NoticesNext, InvitationsNext, SignInsNext, AuthenticatorsNext,
      CaseFilesNext, Elsewhere, Keep
<1> QED
  BY <1>1, <1>2

-----------------------------------------------------------------------------
\* The desk of CaseDesks is the desk the theorems are about.

LEMMA SameDocuments ==
    /\ Docs!Init <=> DocFacts!Init
    /\ [Docs!Next]_(Docs!vars) <=> [DocFacts!Next]_(DocFacts!vars)
    /\ VersionsFormAChain <=> DocFacts!VersionsFormAChain
    /\ DigestDescribesFile <=> DocFacts!DigestDescribesFile
    /\ Docs!TypeOK <=> DocFacts!TypeOK
<1>1. Docs!Init <=> DocFacts!Init
  BY DEF Docs!Init, Docs!InitRequests, Docs!Idle, Docs!StoredName, Docs!NoFile,
         DocFacts!Init, DocFacts!InitRequests, DocFacts!Idle, DocFacts!StoredName,
         DocFacts!NoFile
<1>2. Docs!Next <=> DocFacts!Next
  BY DEF Docs!Next, Docs!UploadDocument, Docs!FileDocument, Docs!VerifyDocument,
         Docs!DownloadDocument, Docs!WritePlaceholder, Docs!CommitRow, Docs!FailRequest,
         Docs!Restart, Docs!Fail, Docs!Finish, Docs!GoOn, Docs!Begin, Docs!AllIdle,
         Docs!Idle, Docs!WrittenRow, Docs!Written, Docs!Rows, Docs!Previous,
         Docs!IsPrevious, Docs!NoFile, Docs!VerificationStatus,
         DocFacts!Next, DocFacts!UploadDocument, DocFacts!FileDocument,
         DocFacts!VerifyDocument, DocFacts!DownloadDocument, DocFacts!WritePlaceholder,
         DocFacts!CommitRow, DocFacts!FailRequest, DocFacts!Restart, DocFacts!Fail,
         DocFacts!Finish, DocFacts!GoOn, DocFacts!Begin, DocFacts!AllIdle, DocFacts!Idle,
         DocFacts!WrittenRow, DocFacts!Written, DocFacts!Rows, DocFacts!Previous,
         DocFacts!IsPrevious, DocFacts!NoFile, DocFacts!VerificationStatus
<1>3. Docs!vars = DocFacts!vars
  BY DEF Docs!vars, DocFacts!vars
<1>4. VersionsFormAChain <=> DocFacts!VersionsFormAChain
  BY DEF VersionsFormAChain, Docs!VersionsFormAChain, DocFacts!VersionsFormAChain,
         Docs!Rows, DocFacts!Rows
<1>5. DigestDescribesFile <=> DocFacts!DigestDescribesFile
  BY DEF DigestDescribesFile, Docs!DigestDescribesFile, DocFacts!DigestDescribesFile,
         Docs!Rows, DocFacts!Rows, Docs!AllIdle, DocFacts!AllIdle, Docs!Idle,
         DocFacts!Idle, Docs!NoFile, DocFacts!NoFile
<1>6. Docs!TypeOK <=> DocFacts!TypeOK
  BY DEF Docs!TypeOK, Docs!RequestsOK, Docs!Request, Docs!Idle, Docs!Id, Docs!DocumentRow,
         Docs!StoredName, Docs!Contents, Docs!VerificationStatus, Docs!Rows,
         DocFacts!TypeOK, DocFacts!RequestsOK, DocFacts!Request, DocFacts!Idle,
         DocFacts!Id, DocFacts!DocumentRow, DocFacts!StoredName, DocFacts!Contents,
         DocFacts!VerificationStatus, DocFacts!Rows
<1> QED
  BY <1>1, <1>2, <1>3, <1>4, <1>5, <1>6 DEF Docs!vars, DocFacts!vars

LEMMA SameNotices ==
    /\ Notes!Init <=> NoteFacts!Init
    /\ [Notes!Next]_(Notes!vars) <=> [NoteFacts!Next]_(NoteFacts!vars)
    /\ RegisteredOnce <=> NoteFacts!RegisteredOnce
    /\ SubscribersAreTold <=> NoteFacts!SubscribersAreTold
<1>1. Notes!Init <=> NoteFacts!Init
  BY DEF Notes!Init, Notes!InitRequests, Notes!Idle,
         NoteFacts!Init, NoteFacts!InitRequests, NoteFacts!Idle
<1>2. Notes!Next <=> NoteFacts!Next
  <2> USE DEF Notes!Fail, Notes!Finish, Notes!GoOn, Notes!Begin, Notes!AllIdle,
              Notes!Idle, Notes!Rows, Notes!Subscribed,
              NoteFacts!Fail, NoteFacts!Finish, NoteFacts!GoOn, NoteFacts!Begin,
              NoteFacts!AllIdle, NoteFacts!Idle, NoteFacts!Rows, NoteFacts!Subscribed
  <2>1. Notes!CaseMoves <=> NoteFacts!CaseMoves
    BY DEF Notes!CaseMoves, Notes!AllowedTransitions, Notes!Stage,
           NoteFacts!CaseMoves, NoteFacts!AllowedTransitions, NoteFacts!Stage
  <2>2. ASSUME NEW w \in Workers, NEW kind \in NoticeTypes
        PROVE  Notes!IssueNotice(w, kind) <=> NoteFacts!IssueNotice(w, kind)
    <3>1. Notes!MINIMUM_STAGE_FOR = NoteFacts!MINIMUM_STAGE_FOR
      BY DEF Notes!MINIMUM_STAGE_FOR, Notes!NoticeType, Notes!PRELIMINARY_NOTIFICATION,
             Notes!DECLARATION, Notes!AWARD, Notes!POSSESSION,
             NoteFacts!MINIMUM_STAGE_FOR, NoteFacts!NoticeType,
             NoteFacts!PRELIMINARY_NOTIFICATION, NoteFacts!DECLARATION,
             NoteFacts!AWARD, NoteFacts!POSSESSION
    <3> QED
      BY <3>1 DEF Notes!IssueNotice, NoteFacts!IssueNotice
  <2>3. ASSUME NEW w \in Workers
        PROVE  /\ Notes!CommitNotice(w) <=> NoteFacts!CommitNotice(w)
               /\ Notes!NoticeRefused(w) <=> NoteFacts!NoticeRefused(w)
               /\ Notes!CommitSubscription(w) <=> NoteFacts!CommitSubscription(w)
               /\ Notes!NotifySubscribers(w) <=> NoteFacts!NotifySubscribers(w)
               /\ Notes!CommitLog(w) <=> NoteFacts!CommitLog(w)
               /\ Notes!ProvisionLandowner(w) <=> NoteFacts!ProvisionLandowner(w)
               /\ Notes!CommitAccount(w) <=> NoteFacts!CommitAccount(w)
               /\ Notes!FailRequest(w) <=> NoteFacts!FailRequest(w)
    BY DEF Notes!CommitNotice, Notes!NoticeRefused, Notes!CommitSubscription,
           Notes!NotifySubscribers, Notes!CommitLog, Notes!ProvisionLandowner,
           Notes!CommitAccount, Notes!FailRequest,
           NoteFacts!CommitNotice, NoteFacts!NoticeRefused, NoteFacts!CommitSubscription,
           NoteFacts!NotifySubscribers, NoteFacts!CommitLog, NoteFacts!ProvisionLandowner,
           NoteFacts!CommitAccount, NoteFacts!FailRequest
  <2>4. ASSUME NEW w \in Workers, NEW number \in Numbers
        PROVE  Notes!Subscribe(w, number) <=> NoteFacts!Subscribe(w, number)
    BY DEF Notes!Subscribe, NoteFacts!Subscribe
  <2> QED
    BY <2>1, <2>2, <2>3, <2>4 DEF Notes!Next, NoteFacts!Next
<1>3. RegisteredOnce <=> NoteFacts!RegisteredOnce
  BY DEF RegisteredOnce, Notes!RegisteredOnce, NoteFacts!RegisteredOnce, Notes!Rows,
         NoteFacts!Rows
<1>4. SubscribersAreTold <=> NoteFacts!SubscribersAreTold
  BY DEF SubscribersAreTold, Notes!SubscribersAreTold, NoteFacts!SubscribersAreTold,
         Notes!Rows, NoteFacts!Rows, Notes!Owed, NoteFacts!Owed
<1> QED
  BY <1>1, <1>2, <1>3, <1>4 DEF Notes!vars, NoteFacts!vars

-----------------------------------------------------------------------------
\* Of the threads of a desk.

\* When requests come one by one, at most one is under way.
OneByOne ==
    orderly => \A v, w \in Workers : request[v] # Idle /\ request[w] # Idle => v = w

Threads == request = [w \in Workers |-> request[w]] /\ OneByOne

\* One request changed, and in an orderly behaviour it was the only one.
LEMMA OneRequestChanged ==
    ASSUME Threads, NEW w \in Workers, NEW r, request' = [request EXCEPT ![w] = r],
           orderly' = orderly,
           orderly => r = Idle \/ request[w] # Idle \/ AllIdle
    PROVE  /\ Threads'
           /\ request'[w] = r /\ \A v \in Workers \ {w} : request'[v] = request[v]
           /\ orderly => \A v \in Workers \ {w} : request'[v] = Idle \/ r = Idle
<1>1. request'[w] = r /\ \A v \in Workers \ {w} : request'[v] = request[v]
  BY DEF Threads
<1>2. request' = [v \in Workers |-> request'[v]]
  BY DEF Threads
<1>3. ASSUME orderly, r # Idle, NEW v \in Workers \ {w} PROVE request'[v] = Idle
  BY <1>1, <1>3 DEF Threads, OneByOne, AllIdle
<1>4. ASSUME orderly, NEW u \in Workers, NEW v \in Workers,
             request'[u] # Idle, request'[v] # Idle
      PROVE  u = v
  BY <1>1, <1>3, <1>4 DEF Threads, OneByOne
<1> QED
  BY <1>1, <1>2, <1>3, <1>4 DEF Threads, OneByOne

-----------------------------------------------------------------------------
\* Of sequences of anything.

IsSeq(s) == \E S : s \in Seq(S)

LEMMA Appended ==
    ASSUME NEW s, IsSeq(s), NEW e
    PROVE  /\ IsSeq(Append(s, e)) /\ Len(s) \in Nat /\ Len(Append(s, e)) = Len(s) + 1
           /\ \A i \in 1..Len(s) : Append(s, e)[i] = s[i]
           /\ Append(s, e)[Len(s) + 1] = e
<1>1. PICK S : s \in Seq(S)
  BY DEF IsSeq
<1>2. s \in Seq(S \cup {e})
  BY <1>1
<1> QED
  BY <1>1, <1>2, AppendProperties DEF IsSeq

-----------------------------------------------------------------------------
\* Invitations.

\* A registration raises the count it loaded, which was not above the accounts.
RegistrationOK(r) ==
    /\ r.op = "register" =>
          /\ r.loaded.used \in Nat /\ r.assigned.used = r.loaded.used + 1
          /\ r.loaded.used <= Cardinality(accounts)
          /\ orderly => r.loaded.used = invite.used /\ r.loaded.used < MaxUses
    /\ r.op \in {"revoke", "wipe"} => r.assigned.used = r.loaded.used

UsesInv ==
    /\ Threads
    /\ \A w \in Workers : RegistrationOK(request[w])
    /\ "used" \in DOMAIN invite /\ invite.used \in Nat
    /\ IsFiniteSet(accounts)
    /\ invite.used <= Cardinality(accounts)
    /\ orderly => invite.used = Cardinality(accounts) /\ invite.used <= MaxUses

LEMMA UsesInductive == UsesInv /\ [Invites!Next]_(Invites!vars) => UsesInv'
<1> SUFFICES ASSUME UsesInv, [Invites!Next]_(Invites!vars) PROVE UsesInv'
  OBVIOUS
<1> USE MaxUsesAssumption
<1>c. Cardinality(accounts) \in Nat
  BY FS_CardinalityType DEF UsesInv
<1>i. Invites!Idle = Idle /\ RegistrationOK(Idle) /\ RegistrationOK(Idle)'
  BY DEF Invites!Idle, Idle, RegistrationOK
\* A step that leaves the count and the accounts alone.
<1>a. ASSUME NEW w \in Workers, NEW r, request' = [request EXCEPT ![w] = r],
             orderly' = orderly, orderly => r = Idle \/ request[w] # Idle \/ AllIdle,
             RegistrationOK(r), invite'.used = invite.used, "used" \in DOMAIN invite',
             UNCHANGED accounts
      PROVE  UsesInv'
  <2>1. /\ Threads' /\ request'[w] = r
        /\ \A v \in Workers \ {w} : request'[v] = request[v]
    BY <1>a, OneRequestChanged DEF UsesInv
  <2>2. ASSUME NEW v \in Workers PROVE RegistrationOK(request[v])'
    BY <1>a, <2>1 DEF UsesInv, RegistrationOK
  <2> QED
    BY <1>a, <2>1, <2>2 DEF UsesInv
<1>1. ASSUME NEW w \in Workers, Invites!IssueInviteCode(w) PROVE UsesInv'
  BY <1>1 DEF Invites!IssueInviteCode, UsesInv, Threads, OneByOne, RegistrationOK
<1>2. ASSUME NEW w \in Workers, NEW name \in Usernames, Invites!Register(w, name)
      PROVE  UsesInv'
  <2> DEFINE r == [op |-> "register", name |-> name, loaded |-> invite,
                   assigned |-> [invite EXCEPT !.used = @ + 1]]
  <2>1. r.assigned.used = invite.used + 1
    BY DEF UsesInv
  <2>2. RegistrationOK(r)
    BY <1>2, <2>1 DEF Invites!Register, Invites!Redeemable, RegistrationOK, UsesInv
  <2> QED
    BY <1>2, <1>a, <1>i, <2>2
    DEF Invites!Register, Invites!Begin, Invites!AllIdle, AllIdle, UsesInv
<1>3. ASSUME NEW w \in Workers, Invites!CommitRegister(w) PROVE UsesInv'
  <2> DEFINE r == request[w]
  <2>1. /\ r.op = "register" /\ r.name \notin accounts /\ accounts' = accounts \cup {r.name}
        /\ invite' = Invites!WrittenRow(invite, r.loaded, r.assigned)
        /\ request' = [request EXCEPT ![w] = Idle] /\ orderly' = orderly
    BY <1>3, <1>i DEF Invites!CommitRegister, Invites!Finish, Invites!GoOn
  <2>2. IsFiniteSet(accounts') /\ Cardinality(accounts') = Cardinality(accounts) + 1
    BY <2>1, FS_AddElement DEF UsesInv
  <2>3. RegistrationOK(r)
    BY DEF UsesInv
  <2>4. "used" \in DOMAIN invite' /\ invite'.used = r.loaded.used + 1
    BY <2>1, <2>3 DEF UsesInv, RegistrationOK, Invites!WrittenRow, Invites!Written
  <2>5. /\ Threads' /\ request'[w] = Idle
        /\ \A v \in Workers \ {w} : request'[v] = request[v]
    BY <2>1, OneRequestChanged DEF UsesInv
  <2>6. orderly => \A v \in Workers : request'[v] = Idle
    BY <2>1, <2>5 DEF UsesInv, Threads, OneByOne, Idle
  <2>7. ASSUME NEW v \in Workers PROVE RegistrationOK(request[v])'
    <3>1. CASE orderly
      BY <1>i, <2>6, <3>1
    <3>2. CASE ~orderly
      BY <1>c, <1>i, <2>1, <2>2, <2>5, <3>2 DEF UsesInv, RegistrationOK
    <3> QED
      BY <3>1, <3>2
  <2>8. /\ invite'.used \in Nat /\ invite'.used <= Cardinality(accounts')
        /\ orderly => invite'.used = Cardinality(accounts') /\ invite'.used <= MaxUses
    BY <1>c, <2>1, <2>2, <2>3, <2>4 DEF UsesInv, RegistrationOK
  <2> QED
    BY <2>1, <2>2, <2>4, <2>5, <2>7, <2>8 DEF UsesInv
<1>4. ASSUME NEW w \in Workers,
             Invites!UsernameTaken(w) \/ Invites!FailRequest(w)
      PROVE  UsesInv'
  <2>1. request' = [request EXCEPT ![w] = Idle] /\ UNCHANGED <<orderly, invite, accounts>>
    BY <1>4, <1>i
    DEF Invites!UsernameTaken, Invites!FailRequest, Invites!Fail, Invites!Finish, Invites!GoOn
  <2> QED
    BY <1>a, <1>i, <2>1 DEF UsesInv
<1>5. ASSUME NEW w \in Workers, Invites!RevokeInviteCode(w) \/ Invites!ListInviteCodes(w)
      PROVE  UsesInv'
  <2>1. PICK op, assigned :
            /\ op \in {"revoke", "wipe"}
            /\ request' = [request EXCEPT ![w] =
                              [op |-> op, loaded |-> invite, assigned |-> assigned]]
            /\ assigned \in {[invite EXCEPT !.revoked = TRUE, !.plain = FALSE],
                             [invite EXCEPT !.plain = FALSE]}
    BY <1>5 DEF Invites!RevokeInviteCode, Invites!ListInviteCodes, Invites!Begin
  <2>2. RegistrationOK([op |-> op, loaded |-> invite, assigned |-> assigned])
    BY <2>1 DEF RegistrationOK, UsesInv
  <2>3. UNCHANGED <<orderly, invite, accounts>> /\ (orderly => AllIdle)
    BY <1>5, <1>i
    DEF Invites!RevokeInviteCode, Invites!ListInviteCodes, Invites!Begin,
        Invites!AllIdle, AllIdle
  <2> QED
    BY <1>a, <2>1, <2>2, <2>3 DEF UsesInv
<1>6. ASSUME NEW w \in Workers, Invites!CommitInvite(w) PROVE UsesInv'
  <2>1. RegistrationOK(request[w])
    BY DEF UsesInv
  <2>2. "used" \in DOMAIN invite' /\ invite'.used = invite.used
    BY <1>6, <2>1
    DEF Invites!CommitInvite, Invites!WrittenRow, Invites!Written, UsesInv, RegistrationOK
  <2>3. request' = [request EXCEPT ![w] = Idle] /\ UNCHANGED <<orderly, accounts>>
    BY <1>6, <1>i DEF Invites!CommitInvite, Invites!Finish, Invites!GoOn
  <2> QED
    BY <1>a, <1>i, <2>2, <2>3
<1>7. ASSUME Invites!Expire \/ UNCHANGED Invites!vars PROVE UsesInv'
  BY <1>7
  DEF Invites!Expire, Invites!vars, UsesInv, Threads, OneByOne, RegistrationOK
<1> QED
  BY <1>1, <1>2, <1>3, <1>4, <1>5, <1>6, <1>7 DEF Invites!Next

LEMMA UsesHaveAccounts == UsesInv => AccountsMatchUses
<1>1. \A S : Invites!Cardinality(S) = Cardinality(S)
  BY DEF Invites!Cardinality, Cardinality
<1> QED
  BY <1>1 DEF UsesInv, AccountsMatchUses, Invites!AccountsMatchUses

-----------------------------------------------------------------------------
\* Compensation.

Amounts == {"declared", "market", "rate", "interest", "awarded", "paid", "status"}

\* A row that reads as the Act allows.
Sound(row) ==
    /\ DOMAIN row = Amounts
    /\ row.market \in Nat /\ row.rate \in Nat /\ row.interest \in Nat /\ row.paid \in Nat
    /\ row.awarded = Comp!ComputeAward(row.market, row.rate, row.interest)
    /\ row.paid <= row.awarded
    /\ row.status = "PAID" /\ "PAID" \notin NamedStatuses => row.paid = row.awarded

AwardInv ==
    /\ Threads
    /\ orderly =>
          /\ Sound(award)
          /\ \A w \in Workers : request[w] # Idle =>
                request[w].loaded = award /\ Sound(request[w].assigned)

\* An award is a natural number of rupees.
LEMMA AwardIsNat ==
    ASSUME NEW market \in Nat, NEW rate \in Nat, NEW interest \in Nat
    PROVE  Comp!ComputeAward(market, rate, interest) \in Nat
<1>1. market * rate \in Nat
  OBVIOUS
<1>2. ASSUME NEW n \in Nat PROVE Comp!Round(n, 100) \in Nat
  BY DEF Comp!Round
<1> QED
  BY <1>1, <1>2 DEF Comp!ComputeAward, Comp!SolatiumAmount

LEMMA AwardInductive == AwardInv /\ [Comp!Next]_(Comp!vars) => AwardInv'
<1> SUFFICES ASSUME AwardInv, [Comp!Next]_(Comp!vars) PROVE AwardInv'
  OBVIOUS
<1>i. Comp!Idle = Idle /\ (Comp!AllIdle <=> AllIdle)
  BY DEF Comp!Idle, Idle, Comp!AllIdle, AllIdle
\* A request that begins on the award as it is.
<1>a. ASSUME NEW w \in Workers, NEW r, request' = [request EXCEPT ![w] = r],
             UNCHANGED <<orderly, award>>, orderly => AllIdle,
             orderly => r.loaded = award /\ Sound(r.assigned)
      PROVE  AwardInv'
  <2>1. /\ Threads' /\ request'[w] = r
        /\ \A v \in Workers \ {w} : request'[v] = request[v]
    BY <1>a, OneRequestChanged DEF AwardInv
  <2> QED
    BY <1>a, <2>1 DEF AwardInv
\* A request that ends, and the award it leaves.
<1>b. ASSUME NEW w \in Workers, request' = [request EXCEPT ![w] = Idle], request[w] # Idle,
             UNCHANGED orderly, orderly => Sound(award')
      PROVE  AwardInv'
  <2>1. Threads' /\ request'[w] = Idle
    BY <1>b, OneRequestChanged DEF AwardInv
  <2>2. orderly => \A v \in Workers : request'[v] = Idle
    BY <1>b, <2>1 DEF AwardInv, Threads, OneByOne
  <2> QED
    BY <1>b, <2>1, <2>2 DEF AwardInv
<1>1. ASSUME NEW w \in Workers, NEW market \in MarketValues, NEW rate \in SolatiumRates,
             NEW interest \in Interests, Comp!CreateCompensation(w, market, rate, interest)
      PROVE  AwardInv'
  <2> DEFINE r == [op |-> "declare", loaded |-> award,
                   assigned |-> Comp!Assessed(market, rate, interest)]
  <2>1. market \in Nat /\ rate \in Nat /\ interest \in Nat
    BY AmountsAssumption
  <2>2. Comp!ComputeAward(market, rate, interest) \in Nat
    BY <2>1, AwardIsNat
  <2>3. Sound(r.assigned)
    BY <2>1, <2>2 DEF Sound, Comp!Assessed, Amounts
  <2>4. /\ request' = [request EXCEPT ![w] = r]
        /\ UNCHANGED <<orderly, award>> /\ (orderly => AllIdle)
    BY <1>1, <1>i DEF Comp!CreateCompensation, Comp!Begin
  <2> QED
    BY <1>a, <2>3, <2>4
<1>2. ASSUME NEW w \in Workers, Comp!CommitCreate(w) PROVE AwardInv'
  <2>1. /\ request[w] # Idle /\ request' = [request EXCEPT ![w] = Idle] /\ UNCHANGED orderly
        /\ award' \in {award, request[w].assigned}
    BY <1>2, <1>i DEF Comp!CommitCreate, Comp!Finish, Comp!GoOn, Idle
  <2>2. orderly => Sound(award')
    BY <2>1 DEF AwardInv
  <2> QED
    BY <1>b, <2>1, <2>2
<1>3. ASSUME NEW w \in Workers, NEW market \in MarketValues \cup {Unset},
             NEW rate \in SolatiumRates \cup {Unset}, NEW interest \in Interests \cup {Unset},
             NEW paid \in Payments \cup {Unset}, NEW named \in NamedStatuses \cup {Unset},
             Comp!UpdateCompensation(w, market, rate, interest, paid, named)
      PROVE  AwardInv'
  <2> DEFINE row == Comp!Revised(market, rate, interest, paid)
             new == [row EXCEPT !.status = Comp!Settled(row, named)]
             r == [op |-> "update", loaded |-> award, assigned |-> new]
  <2>1. ASSUME orderly PROVE Sound(new)
    <3>1. Sound(award)
      BY <2>1 DEF AwardInv
    <3> DEFINE base == [award EXCEPT !.market = Comp!Given(market, @),
                                     !.rate = Comp!Given(rate, @),
                                     !.interest = Comp!Given(interest, @),
                                     !.paid = Comp!Given(paid, @)]
    <3>2. /\ DOMAIN base = Amounts /\ base.market = Comp!Given(market, award.market)
          /\ base.rate = Comp!Given(rate, award.rate)
          /\ base.interest = Comp!Given(interest, award.interest)
          /\ base.paid = Comp!Given(paid, award.paid)
          /\ base.status = award.status
      BY <3>1 DEF Sound, Amounts
    <3>3. base.market \in Nat /\ base.rate \in Nat /\ base.interest \in Nat /\ base.paid \in Nat
      BY <3>1, <3>2, AmountsAssumption DEF Sound, Comp!Given
    <3>4. row = [base EXCEPT !.awarded =
                    Comp!ComputeAward(base.market, base.rate, base.interest)]
      BY DEF Comp!Revised
    <3> HIDE DEF base, row
    <3>5. /\ DOMAIN row = Amounts /\ row.market = base.market /\ row.rate = base.rate
          /\ row.interest = base.interest /\ row.paid = base.paid /\ row.status = base.status
          /\ row.awarded = Comp!ComputeAward(base.market, base.rate, base.interest)
      BY <3>2, <3>4 DEF Amounts
    <3>6. row.awarded \in Nat
      <4>1. Comp!ComputeAward(base.market, base.rate, base.interest) \in Nat
        BY <3>3, AwardIsNat
      <4> QED
        BY <3>5, <4>1
    <3>7. row.paid <= row.awarded
      BY <1>3 DEF Comp!UpdateCompensation, row
    <3>8. /\ DOMAIN new = Amounts /\ new.market = row.market /\ new.rate = row.rate
          /\ new.interest = row.interest /\ new.paid = row.paid /\ new.awarded = row.awarded
          /\ new.status = Comp!Settled(row, named)
      BY <3>5 DEF Amounts
    <3>9. new.status = "PAID" /\ "PAID" \notin NamedStatuses => new.paid = new.awarded
      BY <3>3, <3>5, <3>6, <3>7, <3>8 DEF Comp!Settled
    <3> HIDE DEF new
    <3> QED
      BY <3>3, <3>5, <3>7, <3>8, <3>9 DEF Sound
  <2>2. /\ request' = [request EXCEPT ![w] = r]
        /\ UNCHANGED <<orderly, award>> /\ (orderly => AllIdle)
    BY <1>3, <1>i DEF Comp!UpdateCompensation, Comp!Begin
  <2> HIDE DEF new
  <2> QED
    BY <1>a, <2>1, <2>2
<1>4. ASSUME NEW w \in Workers, Comp!CommitUpdate(w) PROVE AwardInv'
  <2>1. /\ request[w] # Idle /\ request' = [request EXCEPT ![w] = Idle] /\ UNCHANGED orderly
        /\ award' = Comp!WrittenRow(award, request[w].loaded, request[w].assigned)
    BY <1>4, <1>i DEF Comp!CommitUpdate, Comp!Finish, Comp!GoOn, Idle
  <2>2. ASSUME orderly PROVE Sound(award')
    <3>1. request[w].loaded = award /\ Sound(request[w].assigned) /\ Sound(award)
      BY <2>1, <2>2 DEF AwardInv
    <3>2. DOMAIN award' = Amounts /\ \A column \in Amounts :
                award'[column] = request[w].assigned[column]
      BY <2>1, <3>1 DEF Comp!WrittenRow, Comp!Written, Sound
    <3> QED
      BY <3>1, <3>2 DEF Sound, Amounts
  <2> QED
    BY <1>b, <2>1, <2>2
<1>5. ASSUME NEW w \in Workers, Comp!FailRequest(w) PROVE AwardInv'
  <2>1. /\ request[w] # Idle /\ request' = [request EXCEPT ![w] = Idle] /\ ~orderly
        /\ UNCHANGED orderly
    BY <1>5, <1>i DEF Comp!FailRequest, Comp!Fail, Comp!Finish, Comp!GoOn
  <2> QED
    BY <1>b, <2>1
<1>6. ASSUME UNCHANGED Comp!vars PROVE AwardInv'
  BY <1>6 DEF Comp!vars, AwardInv, Threads, OneByOne
<1> QED
  BY <1>1, <1>2, <1>3, <1>4, <1>5, <1>6 DEF Comp!Next

LEMMA AwardsSound == AwardInv => PaidWithinAward
BY DEF AwardInv, Sound, PaidWithinAward, Comp!PaidWithinAward

-----------------------------------------------------------------------------
\* Objections.

\* What an answer under way has decided and said.
AnswerOK(r) ==
    /\ r # Idle => r.o \in Objs!Rows
    /\ r.op = "told" =>
          /\ r.assigned.status \in Objs!Decision
          /\ objections[r.o].reach = "phone" => Objs!AnswerOf(r) \in texted[r.o]
    /\ orderly /\ r # Idle =>
          /\ r.loaded = objections[r.o].row
          /\ r.assigned.status \in Objs!Decision <=> r.assigned.responded # Objs!NoDate

\* What the filer of one objection has heard.
FilerTold(o, row, reach) ==
    LET decided == row.status \in Objs!Decision IN
    /\ reach = "phone" /\ inbox[o] # Objs!NoAnswer => inbox[o] \in texted[o]
    /\ orderly =>
          /\ decided <=> row.responded # Objs!NoDate
          /\ decided /\ reach # "nowhere" =>
                inbox[o] = [status |-> row.status, response |-> row.response]

ObjectionShape ==
    [reach : Objs!Reach,
     row : [status : Objs!ObjectionStatus, response : ResponseTexts \cup {Objs!NoText},
            responded : Nat]]

AnswerShape ==
    [op : {"answer", "told"}, o : Objs!Ids,
     loaded : [status : Objs!ObjectionStatus, response : ResponseTexts \cup {Objs!NoText},
               responded : Nat],
     assigned : [status : Objs!ObjectionStatus, response : ResponseTexts \cup {Objs!NoText},
                 responded : Nat]]

FilersInv ==
    /\ Threads
    /\ \A w \in Workers : request[w] \in {Idle} \cup AnswerShape /\ AnswerOK(request[w])
    /\ objections \in Seq(ObjectionShape) /\ Len(objections) <= MaxObjections
    /\ inbox = [o \in Objs!Ids |-> inbox[o]] /\ texted = [o \in Objs!Ids |-> texted[o]]
    /\ today \in Nat \ {0}
    /\ \A o \in Objs!Ids \ Objs!Rows : inbox[o] = Objs!NoAnswer
    /\ \A o \in Objs!Rows : FilerTold(o, objections[o].row, objections[o].reach)

LEMMA FilersInductive == FilersInv /\ [Objs!Next]_(Objs!vars) => FilersInv'
<1> SUFFICES ASSUME FilersInv, [Objs!Next]_(Objs!vars) PROVE FilersInv'
  OBVIOUS
<1> USE BoundsAssumption
<1>i. /\ Objs!Idle = Idle /\ (Objs!AllIdle <=> AllIdle) /\ Idle.op = "idle"
      /\ \A r \in AnswerShape : r.op # "idle" /\ r # Idle
      /\ AnswerOK(Idle)'
  BY DEF Objs!Idle, Idle, Objs!AllIdle, AllIdle, AnswerShape, AnswerOK
<1>r. Objs!Rows = 1..Len(objections) /\ Objs!Rows \subseteq Objs!Ids /\ Len(objections) \in Nat
  BY DEF FilersInv, Objs!Rows, Objs!Ids
\* A request that changes while rows and messages stay.
<1>a. ASSUME NEW w \in Workers, NEW r \in {Idle} \cup AnswerShape,
             request' = [request EXCEPT ![w] = r],
             UNCHANGED <<orderly, objections, inbox, today>>,
             orderly => r = Idle \/ request[w] # Idle \/ AllIdle, AnswerOK(r)',
             texted' = [o \in Objs!Ids |-> texted'[o]],
             \A o \in Objs!Ids : texted[o] \subseteq texted'[o]
      PROVE  FilersInv'
  <2>1. /\ Threads' /\ request'[w] = r
        /\ \A v \in Workers \ {w} : request'[v] = request[v]
    BY <1>a, OneRequestChanged DEF FilersInv
  <2>2. Objs!Rows' = Objs!Rows
    BY <1>a DEF Objs!Rows
  <2>3. ASSUME NEW v \in Workers PROVE AnswerOK(request[v])'
    <3>1. CASE v = w
      BY <1>a, <2>1, <3>1
    <3>2. CASE v # w
      <4>1. AnswerOK(request[v]) /\ request'[v] = request[v]
        BY <2>1, <3>2 DEF FilersInv
      <4>2. request[v].op = "told" => request[v].o \in Objs!Ids
        BY <1>r, <4>1 DEF AnswerOK, Idle
      <4> QED
        BY <1>a, <2>2, <4>1, <4>2 DEF AnswerOK, Objs!AnswerOf
    <3> QED
      BY <3>1, <3>2
  <2>4. ASSUME NEW o \in Objs!Rows
        PROVE  FilerTold(o, objections[o].row, objections[o].reach)'
    <3>1. FilerTold(o, objections[o].row, objections[o].reach) /\ o \in Objs!Ids
      BY <1>r DEF FilersInv
    <3> QED
      BY <1>a, <3>1 DEF FilerTold
  <2>5. \A v \in Workers : request'[v] \in {Idle} \cup AnswerShape
    BY <1>a, <2>1 DEF FilersInv
  <2> QED
    BY <1>a, <2>1, <2>2, <2>3, <2>4, <2>5 DEF FilersInv
<1>1. ASSUME NEW w \in Workers, NEW reach \in Objs!Reach, Objs!FileObjection(w, reach)
      PROVE  FilersInv'
  <2> DEFINE new == [reach |-> reach,
                     row |-> [status |-> "FILED", response |-> Objs!NoText,
                              responded |-> Objs!NoDate]]
             n == Len(objections)
  <2>1. /\ new \in ObjectionShape /\ new.row.status \notin Objs!Decision
        /\ new.row.responded = Objs!NoDate
    BY DEF ObjectionShape, Objs!ObjectionStatus, Objs!NoDate, Objs!Decision
  <2>2. /\ objections' = Append(objections, new) /\ n < MaxObjections
        /\ UNCHANGED <<orderly, request, inbox, texted, today>>
    BY <1>1 DEF Objs!FileObjection, Objs!AtOnce
  <2> HIDE DEF new
  <2>3. /\ objections' \in Seq(ObjectionShape) /\ Len(objections') = n + 1
        /\ objections'[n + 1] = new /\ \A o \in 1..n : objections'[o] = objections[o]
    BY <2>1, <2>2, AppendProperties DEF FilersInv
  <2>4. /\ Len(objections') <= MaxObjections /\ Objs!Rows' = Objs!Rows \cup {n + 1}
        /\ n + 1 \in Objs!Ids \ Objs!Rows
    BY <1>r, <2>2, <2>3 DEF Objs!Rows, Objs!Ids
  <2>5. ASSUME NEW v \in Workers PROVE AnswerOK(request[v])'
    <3>1. AnswerOK(request[v])
      BY DEF FilersInv
    <3>2. CASE request[v] = Idle
      BY <1>i, <2>2, <3>2
    <3>3. CASE request[v] # Idle
      <4>1. request[v].o \in 1..n
        BY <1>r, <3>1, <3>3 DEF AnswerOK
      <4>2. objections'[request[v].o] = objections[request[v].o]
        BY <2>3, <4>1
      <4>3. request[v].o \in Objs!Rows'
        BY <1>r, <2>4, <4>1
      <4> QED
        BY <2>2, <3>1, <3>3, <4>2, <4>3 DEF AnswerOK, Objs!AnswerOf
    <3> QED
      BY <3>2, <3>3
  <2>6. ASSUME NEW o \in Objs!Rows'
        PROVE  FilerTold(o, objections[o].row, objections[o].reach)'
    <3>1. CASE o = n + 1
      BY <2>1, <2>2, <2>3, <2>4, <3>1 DEF FilerTold, FilersInv
    <3>2. CASE o \in Objs!Rows
      <4>1. objections'[o] = objections[o] /\ FilerTold(o, objections[o].row, objections[o].reach)
        BY <1>r, <2>3, <3>2 DEF FilersInv
      <4> QED
        BY <2>2, <4>1 DEF FilerTold
    <3> QED
      BY <2>4, <3>1, <3>2
  <2> QED
    BY <2>2, <2>3, <2>4, <2>5, <2>6 DEF FilersInv, Threads, OneByOne
<1>2. ASSUME NEW w \in Workers, NEW o \in Objs!Rows,
             NEW status \in Objs!ObjectionStatus \ {"FILED"}, NEW response \in ResponseTexts,
             Objs!RespondToObjection(w, o, status, response)
      PROVE  FilersInv'
  <2> DEFINE new == [status |-> status, response |-> response,
                     responded |-> IF status \in Objs!Decision THEN today ELSE Objs!NoDate]
             r == [op |-> "answer", o |-> o, loaded |-> objections[o].row, assigned |-> new]
  <2>1. /\ objections[o].row \in [status : Objs!ObjectionStatus,
                                  response : ResponseTexts \cup {Objs!NoText}, responded : Nat]
        /\ o \in Objs!Ids
    <3>1. objections[o] \in ObjectionShape
      BY <1>r DEF FilersInv
    <3> QED
      BY <1>r, <3>1 DEF ObjectionShape
  <2>2. /\ new \in [status : Objs!ObjectionStatus,
                    response : ResponseTexts \cup {Objs!NoText}, responded : Nat]
        /\ new.status \in Objs!Decision <=> new.responded # Objs!NoDate
    BY DEF FilersInv, Objs!NoDate
  <2>3. /\ request' = [request EXCEPT ![w] = r] /\ (orderly => AllIdle)
        /\ UNCHANGED <<orderly, objections, inbox, texted, today>>
    BY <1>2, <1>i DEF Objs!RespondToObjection, Objs!Begin
  <2> HIDE DEF new
  <2>4. PICK q : q = r
    OBVIOUS
  <2>8. /\ q \in AnswerShape /\ q.op = "answer" /\ q.o = o
        /\ q.assigned = new /\ q.loaded = objections[o].row
    BY <2>1, <2>2, <2>4 DEF AnswerShape
  <2>5. /\ request' = [request EXCEPT ![w] = q]
        /\ q.loaded = objections'[q.o].row /\ q.o \in Objs!Rows'
        /\ q.assigned.status \in Objs!Decision <=> q.assigned.responded # Objs!NoDate
    BY <2>2, <2>3, <2>4, <2>8 DEF Objs!Rows
  <2>6. AnswerOK(q)'
    BY <2>8, <2>5 DEF AnswerOK
  <2>7. texted' = [a \in Objs!Ids |-> texted'[a]]
    BY <2>3 DEF FilersInv
  <2> HIDE DEF r
  <2> QED
    BY <1>a, <2>3, <2>5, <2>6, <2>7, <2>8
<1>3. ASSUME NEW w \in Workers, Objs!NotifyFiler(w) PROVE FilersInv'
  <2>0. PICK q : q = request[w]
    OBVIOUS
  <2> DEFINE r == [q EXCEPT !.op = "told"]
  <2>1. /\ q \in AnswerShape /\ q.assigned.status \in Objs!Decision /\ AnswerOK(q) /\ q # Idle
    BY <1>3, <1>i, <2>0 DEF Objs!NotifyFiler, FilersInv
  <2>2. /\ r \in AnswerShape /\ r.op = "told" /\ r.o = q.o /\ r.loaded = q.loaded
        /\ r.assigned = q.assigned
    BY <2>1 DEF AnswerShape
  <2>3. /\ texted' = IF objections[q.o].reach = "phone"
                     THEN [texted EXCEPT ![q.o] = @ \cup {Objs!AnswerOf(q)}] ELSE texted
        /\ request' = [request EXCEPT ![w] = r]
        /\ UNCHANGED <<orderly, objections, inbox, today>>
    BY <1>3, <2>0 DEF Objs!NotifyFiler, Objs!GoOn
  <2>4. Objs!AnswerOf(r) = Objs!AnswerOf(q) /\ q.o \in Objs!Rows /\ q.o \in Objs!Ids
    BY <1>r, <2>1, <2>2 DEF Objs!AnswerOf, AnswerOK
  <2>5. /\ texted' = [o \in Objs!Ids |-> texted'[o]]
        /\ \A o \in Objs!Ids : texted[o] \subseteq texted'[o]
        /\ objections[q.o].reach = "phone" => Objs!AnswerOf(q) \in texted'[q.o]
    BY <2>3, <2>4 DEF FilersInv
  <2> HIDE DEF r
  <2>6. Objs!AnswerOf(r)' = Objs!AnswerOf(q)
    BY <2>2, <2>4 DEF Objs!AnswerOf
  <2>7. AnswerOK(r)'
    BY <2>1, <2>2, <2>3, <2>4, <2>5, <2>6 DEF AnswerOK, Objs!Rows
  <2> QED
    BY <1>a, <2>0, <2>1, <2>2, <2>3, <2>5, <2>7
<1>4. ASSUME NEW w \in Workers, Objs!CommitAnswer(w) PROVE FilersInv'
  <2>0. PICK r : r = request[w]
    OBVIOUS
  <2> DEFINE row == objections[r.o].row
             new == Objs!WrittenRow(row, r.loaded, r.assigned)
  <2>1. r \in AnswerShape /\ AnswerOK(r) /\ r # Idle /\ r.o \in Objs!Rows
    BY <1>4, <1>i, <2>0 DEF Objs!CommitAnswer, FilersInv, AnswerOK
  <2>2. /\ r.op = "told" <=> r.assigned.status \in Objs!Decision
        /\ objections' = [objections EXCEPT ![r.o].row = new]
        /\ inbox' = IF r.op = "told" /\ objections[r.o].reach # "nowhere"
                    THEN [inbox EXCEPT ![r.o] = Objs!AnswerOf(r)] ELSE inbox
        /\ request' = [request EXCEPT ![w] = Idle]
        /\ UNCHANGED <<orderly, texted, today>>
    BY <1>4, <1>i, <2>0 DEF Objs!CommitAnswer, Objs!Finish, Objs!GoOn
  <2>3. /\ r.o \in 1..Len(objections) /\ r.o \in Objs!Ids
        /\ objections[r.o] \in ObjectionShape
    BY <1>r, <2>1 DEF FilersInv
  <2> DEFINE Shape == [status : Objs!ObjectionStatus,
                       response : ResponseTexts \cup {Objs!NoText}, responded : Nat]
  <2>4. row \in Shape /\ r.loaded \in Shape /\ r.assigned \in Shape
    BY <2>1, <2>3 DEF ObjectionShape, AnswerShape
  <2>5. new \in Shape /\ (r.loaded = row => new = r.assigned)
    <3> HIDE DEF row
    <3>1. DOMAIN row = {"status", "response", "responded"}
      BY <2>4
    <3>2. new = [status |-> new.status, response |-> new.response,
                 responded |-> new.responded]
      BY <3>1 DEF Objs!WrittenRow
    <3>3. /\ new.status \in {row.status, r.assigned.status}
          /\ new.response \in {row.response, r.assigned.response}
          /\ new.responded \in {row.responded, r.assigned.responded}
      BY <3>1 DEF Objs!WrittenRow, Objs!Written
    <3>4. r.loaded = row => /\ new.status = r.assigned.status
                            /\ new.response = r.assigned.response
                            /\ new.responded = r.assigned.responded
      BY <3>1 DEF Objs!WrittenRow, Objs!Written
    <3>5. r.assigned = [status |-> r.assigned.status, response |-> r.assigned.response,
                        responded |-> r.assigned.responded]
      BY <2>4
    <3> HIDE DEF new
    <3>6. new \in Shape
      BY <2>4, <3>2, <3>3
    <3> QED
      BY <3>2, <3>4, <3>5, <3>6
  <2>6. /\ objections' \in Seq(ObjectionShape) /\ Len(objections') = Len(objections)
        /\ objections'[r.o] = [objections[r.o] EXCEPT !.row = new]
        /\ \A o \in 1..Len(objections) \ {r.o} : objections'[o] = objections[o]
    <3> DEFINE one == [objections[r.o] EXCEPT !.row = new]
    <3>1. one \in ObjectionShape
      BY <2>3, <2>5 DEF ObjectionShape
    <3>2. objections' = [objections EXCEPT ![r.o] = one]
      BY <2>2
    <3> HIDE DEF one
    <3>3. objections \in Seq(ObjectionShape)
      BY DEF FilersInv
    <3>4. objections' \in Seq(ObjectionShape) /\ Len(objections') = Len(objections)
      BY <2>3, <3>1, <3>2, <3>3
    <3>5. objections'[r.o] = one /\ \A o \in 1..Len(objections) \ {r.o} : objections'[o] = objections[o]
      BY <2>3, <3>2, <3>3
    <3> QED
      BY <3>4, <3>5 DEF one
  <2>7. /\ objections'[r.o].row = new /\ objections'[r.o].reach = objections[r.o].reach
        /\ Objs!Rows' = Objs!Rows
    BY <1>r, <2>3, <2>6 DEF ObjectionShape, Objs!Rows
  <2>8. /\ Threads' /\ request'[w] = Idle
        /\ \A v \in Workers \ {w} : request'[v] = request[v]
    BY <2>2, OneRequestChanged DEF FilersInv
  <2>9. orderly => \A v \in Workers : request'[v] = Idle
    BY <2>0, <2>1, <2>8 DEF FilersInv, Threads, OneByOne
  <2> HIDE DEF new
  <2>10. ASSUME NEW v \in Workers
         PROVE  AnswerOK(request[v])' /\ request'[v] \in {Idle} \cup AnswerShape
    <3>1. CASE request'[v] = Idle
      BY <1>i, <3>1
    <3>2. CASE request'[v] # Idle
      <4>1. request'[v] = request[v] /\ AnswerOK(request[v]) /\ request[v] \in AnswerShape
        BY <2>8, <3>2 DEF FilersInv
      <4>2. ~orderly /\ ~orderly'
        BY <2>2, <2>9, <3>2
      <4>3. objections'[request[v].o].reach = objections[request[v].o].reach
        BY <1>i, <1>r, <2>6, <2>7, <4>1 DEF AnswerOK
      <4>4. Objs!AnswerOf(request[v])' = Objs!AnswerOf(request[v])
        BY <4>1 DEF Objs!AnswerOf
      <4> QED
        BY <2>2, <2>7, <4>1, <4>2, <4>3, <4>4 DEF AnswerOK
    <3> QED
      BY <3>1, <3>2
  <2>11. inbox' = [o \in Objs!Ids |-> inbox'[o]] /\ \A o \in Objs!Ids \ {r.o} : inbox'[o] = inbox[o]
    BY <2>2, <2>3 DEF FilersInv
  <2>12. inbox'[r.o] = IF r.op = "told" /\ objections[r.o].reach # "nowhere"
                       THEN Objs!AnswerOf(r) ELSE inbox[r.o]
    BY <2>2, <2>3 DEF FilersInv
  <2>13. FilerTold(r.o, objections[r.o].row, objections[r.o].reach)
    BY <2>1 DEF FilersInv
  <2>14. (FilerTold(r.o, objections[r.o].row, objections[r.o].reach))'
    <3>1. /\ r.op = "told" /\ objections[r.o].reach = "phone" => Objs!AnswerOf(r) \in texted[r.o]
      BY <2>1 DEF AnswerOK
    <3>2. objections[r.o].reach = "phone" /\ inbox'[r.o] # Objs!NoAnswer
            => inbox'[r.o] \in texted'[r.o]
      BY <2>2, <2>12, <2>13, <3>1 DEF FilerTold
    <3>3. ASSUME orderly
          PROVE  /\ new = r.assigned
                 /\ new.status \in Objs!Decision <=> new.responded # Objs!NoDate
      BY <2>1, <2>5, <3>3 DEF AnswerOK
    <3>4. ASSUME orderly, new.status \in Objs!Decision, objections[r.o].reach # "nowhere"
          PROVE  inbox'[r.o] = [status |-> new.status, response |-> new.response]
      BY <2>2, <2>12, <3>3, <3>4 DEF Objs!AnswerOf
    <3> QED
      BY <2>2, <2>7, <3>2, <3>3, <3>4 DEF FilerTold
  <2>15. ASSUME NEW o \in Objs!Rows, o # r.o
         PROVE  FilerTold(o, objections[o].row, objections[o].reach)'
    <3>1. /\ FilerTold(o, objections[o].row, objections[o].reach)
          /\ objections'[o] = objections[o] /\ inbox'[o] = inbox[o]
      BY <1>r, <2>6, <2>11, <2>15 DEF FilersInv
    <3> QED
      BY <2>2, <3>1 DEF FilerTold
  <2> QED
    BY <1>r, <2>1, <2>2, <2>6, <2>7, <2>8, <2>10, <2>11, <2>14, <2>15 DEF FilersInv
<1>5. ASSUME NEW w \in Workers, Objs!FailRequest(w) PROVE FilersInv'
  <2>1. /\ request' = [request EXCEPT ![w] = Idle]
        /\ UNCHANGED <<orderly, objections, inbox, texted, today>>
    BY <1>5, <1>i DEF Objs!FailRequest, Objs!Fail, Objs!Finish, Objs!GoOn
  <2> QED
    BY <1>a, <1>i, <2>1 DEF FilersInv
<1>6. ASSUME Objs!DayPasses PROVE FilersInv'
  <2>1. /\ today' \in Nat \ {0} /\ UNCHANGED <<orderly, request, objections, inbox, texted>>
    BY <1>6 DEF Objs!DayPasses, FilersInv
  <2> QED
    BY <2>1 DEF FilersInv, Threads, OneByOne, AnswerOK, FilerTold, Objs!AnswerOf, Objs!Rows
<1>7. ASSUME UNCHANGED Objs!vars PROVE FilersInv'
  BY <1>7
  DEF Objs!vars, FilersInv, Threads, OneByOne, AnswerOK, FilerTold, Objs!AnswerOf, Objs!Rows
<1> QED
  BY <1>1, <1>2, <1>3, <1>4, <1>5, <1>6, <1>7 DEF Objs!Next

LEMMA FilersTold == FilersInv => DecisionsAreTold
BY DEF FilersInv, FilerTold, DecisionsAreTold, Objs!DecisionsAreTold

-----------------------------------------------------------------------------
\* Grievances.

\* One grievance, with its history.
HistoryTold(row, history) ==
    /\ DOMAIN row = {"status", "responded"}
    /\ IsSeq(history) /\ Len(history) >= 1
    /\ history[1] = [from |-> Griev!NoStatus, to |-> "SUBMITTED"]
    /\ \A i \in 2..Len(history) :
          history[i].from = history[i - 1].to /\ history[i].from \notin Griev!Final
    /\ history[Len(history)].to = row.status
    /\ row.responded <=> \E i \in 1..Len(history) : Griev!IsAnswer(history[i].to)

\* An answer adds the date it is given and the move it makes.
ResponseOK(r) ==
    r.op = "respond" =>
        /\ r.g \in DOMAIN grievances
        /\ r.loaded = grievances[r.g].row
        /\ r.loaded.status \notin Griev!Final
        /\ r.assigned.responded <=> (r.loaded.responded \/ Griev!IsAnswer(r.assigned.status))

HistoriesInv ==
    /\ Threads
    /\ orderly =>
          /\ IsSeq(grievances)
          /\ \A w \in Workers : ResponseOK(request[w])
          /\ \A g \in 1..Len(grievances) :
                /\ DOMAIN grievances[g] = {"number", "row", "history"}
                /\ HistoryTold(grievances[g].row, grievances[g].history)

LEMMA HistoryGrows ==
    ASSUME NEW row, NEW history, HistoryTold(row, history), row.status \notin Griev!Final,
           NEW new, DOMAIN new = {"status", "responded"},
           new.responded <=> (row.responded \/ Griev!IsAnswer(new.status))
    PROVE  HistoryTold(new, Append(history, [from |-> row.status, to |-> new.status]))
<1> DEFINE move == [from |-> row.status, to |-> new.status]
           longer == Append(history, move)
           n == Len(history)
<1>1. /\ IsSeq(longer) /\ n \in Nat /\ Len(longer) = n + 1 /\ longer[n + 1] = move
      /\ \A i \in 1..n : longer[i] = history[i]
  BY Appended DEF HistoryTold
<1>2. move.from = row.status /\ move.to = new.status
  OBVIOUS
<1> HIDE DEF move, longer
<1>3. n >= 1 /\ 1 \in 1..n /\ n \in 1..n /\ history[n].to = row.status
  BY <1>1 DEF HistoryTold
<1>4. ASSUME NEW i \in 2..Len(longer)
      PROVE  longer[i].from = longer[i - 1].to /\ longer[i].from \notin Griev!Final
  <2>1. CASE i = n + 1
    BY <1>1, <1>2, <1>3, <2>1
  <2>2. CASE i # n + 1
    <3>1. i \in 2..n /\ i \in 1..n /\ i - 1 \in 1..n
      BY <1>1, <2>2
    <3> QED
      BY <1>1, <3>1 DEF HistoryTold
  <2> QED
    BY <2>1, <2>2
<1>5. (\E i \in 1..n + 1 : Griev!IsAnswer(longer[i].to))
        <=> (\E i \in 1..n : Griev!IsAnswer(history[i].to)) \/ Griev!IsAnswer(new.status)
  <2>1. 1..n + 1 = 1..n \cup {n + 1}
    BY <1>1
  <2> QED
    BY <1>1, <1>2, <2>1
<1>6. longer[1] = history[1] /\ longer[Len(longer)].to = new.status /\ Len(longer) >= 1
  BY <1>1, <1>2, <1>3
<1>7. new.responded <=> \E i \in 1..Len(longer) : Griev!IsAnswer(longer[i].to)
  BY <1>1, <1>5 DEF HistoryTold
<1> QED
  BY <1>1, <1>4, <1>6, <1>7 DEF HistoryTold, longer, move

LEMMA HistoriesInductive == HistoriesInv /\ [Griev!Next]_(Griev!vars) => HistoriesInv'
<1> SUFFICES ASSUME HistoriesInv, [Griev!Next]_(Griev!vars) PROVE HistoriesInv'
  OBVIOUS
<1>i. Griev!Idle = Idle /\ (Griev!AllIdle <=> AllIdle) /\ Idle.op = "idle"
  BY DEF Griev!Idle, Idle, Griev!AllIdle, AllIdle
\* A request that begins or ends while the grievances stay.
<1>a. ASSUME NEW w \in Workers, NEW r, request' = [request EXCEPT ![w] = r],
             UNCHANGED <<orderly, grievances>>,
             orderly => r = Idle \/ request[w] # Idle \/ AllIdle, orderly => ResponseOK(r)
      PROVE  HistoriesInv'
  <2>1. /\ Threads' /\ request'[w] = r
        /\ \A v \in Workers \ {w} : request'[v] = request[v]
    BY <1>a, OneRequestChanged DEF HistoriesInv
  <2>2. ASSUME orderly, NEW v \in Workers PROVE ResponseOK(request[v])'
    BY <1>a, <2>1, <2>2 DEF HistoriesInv, ResponseOK
  <2> QED
    BY <1>a, <2>1, <2>2 DEF HistoriesInv
\* A grievance that is filed, as the only thing that happens.
<1>b. ASSUME NEW number, Griev!Filed(number), UNCHANGED orderly, Threads',
             orderly => \A w \in Workers : request'[w] = Idle
      PROVE  HistoriesInv'
  <2> SUFFICES ASSUME orderly PROVE HistoriesInv'
    BY <1>b DEF HistoriesInv
  <2> DEFINE row == [status |-> "SUBMITTED", responded |-> FALSE]
             first == [from |-> Griev!NoStatus, to |-> "SUBMITTED"]
             new == [number |-> number, row |-> row, history |-> <<first>>]
             n == Len(grievances)
  <2>1. HistoryTold(row, <<first>>)
    <3>1. IsSeq(<<first>>)
      <4>1. <<first>> \in Seq({first})
        OBVIOUS
      <4> QED
        BY <4>1 DEF IsSeq
    <3>2. ~Griev!IsAnswer("SUBMITTED")
      BY DEF Griev!IsAnswer, Griev!Final
    <3> QED
      BY <3>1, <3>2 DEF HistoryTold
  <2>2. grievances' = Append(grievances, new)
    BY <1>b DEF Griev!Filed
  <2>3. DOMAIN new = {"number", "row", "history"} /\ HistoryTold(new.row, new.history)
    BY <2>1
  <2> HIDE DEF new
  <2>4. /\ IsSeq(grievances') /\ n \in Nat /\ Len(grievances') = n + 1
        /\ \A g \in 1..n : grievances'[g] = grievances[g]
        /\ grievances'[n + 1] = new
    BY <2>2, Appended DEF HistoriesInv
  <2>5. ASSUME NEW g \in 1..Len(grievances')
        PROVE  /\ DOMAIN grievances'[g] = {"number", "row", "history"}
               /\ HistoryTold(grievances'[g].row, grievances'[g].history)
    <3>1. CASE g = n + 1
      BY <2>3, <2>4, <3>1
    <3>2. CASE g # n + 1
      <4>1. g \in 1..n
        BY <2>4, <3>2
      <4> QED
        BY <2>4, <4>1 DEF HistoriesInv
    <3> QED
      BY <3>1, <3>2
  <2>6. \A w \in Workers : ResponseOK(request[w])'
    BY <1>b, <1>i DEF ResponseOK
  <2> QED
    BY <1>b, <2>4, <2>5, <2>6 DEF HistoriesInv
<1>1. ASSUME NEW w \in Workers, Griev!FileGrievance(w) PROVE HistoriesInv'
  <2>1. UNCHANGED <<orderly, request>> /\ (orderly => AllIdle)
    BY <1>1, <1>i DEF Griev!FileGrievance, Griev!AtOnce
  <2>2. Threads' /\ (orderly => \A v \in Workers : request'[v] = Idle)
    BY <2>1 DEF HistoriesInv, Threads, OneByOne, AllIdle
  <2>3. Griev!Filed(Griev!NextGrievanceNumber)
    BY <1>1 DEF Griev!FileGrievance
  <2> QED
    BY <1>b, <2>1, <2>2, <2>3
<1>2. ASSUME NEW w \in Workers, Griev!BeginFiling(w) PROVE HistoriesInv'
  <2>1. PICK r : /\ request' = [request EXCEPT ![w] = r] /\ r.op = "file"
                 /\ UNCHANGED <<orderly, grievances>> /\ (orderly => AllIdle)
    BY <1>2, <1>i DEF Griev!BeginFiling, Griev!Begin
  <2>2. ResponseOK(r)
    BY <2>1 DEF ResponseOK
  <2> QED
    BY <1>a, <2>1, <2>2
<1>3. ASSUME NEW w \in Workers, Griev!CommitFiling(w) PROVE HistoriesInv'
  <2>1. PICK number : Griev!Filed(number)
    BY <1>3 DEF Griev!CommitFiling
  <2>2. /\ request' = [request EXCEPT ![w] = Idle] /\ UNCHANGED orderly /\ request[w] # Idle
    BY <1>3, <1>i DEF Griev!CommitFiling, Griev!Finish, Griev!GoOn
  <2>3. Threads' /\ request'[w] = Idle /\ \A v \in Workers \ {w} : request'[v] = request[v]
    BY <2>2, OneRequestChanged DEF HistoriesInv
  <2>4. orderly => \A v \in Workers : request'[v] = Idle
    BY <2>2, <2>3 DEF HistoriesInv, Threads, OneByOne
  <2> QED
    BY <1>b, <2>1, <2>2, <2>3, <2>4
<1>4. ASSUME NEW w \in Workers, Griev!NumberTaken(w) \/ Griev!FailRequest(w)
      PROVE  HistoriesInv'
  <2>1. request' = [request EXCEPT ![w] = Idle] /\ UNCHANGED <<orderly, grievances>>
    BY <1>4, <1>i
    DEF Griev!NumberTaken, Griev!FailRequest, Griev!Fail, Griev!Finish, Griev!GoOn
  <2>2. ResponseOK(Idle)
    BY <1>i DEF ResponseOK
  <2> QED
    BY <1>a, <2>1, <2>2
<1>5. ASSUME NEW w \in Workers, NEW g \in Griev!Rows, NEW status \in Answers,
             Griev!RespondToGrievance(w, g, status)
      PROVE  HistoriesInv'
  <2> DEFINE row == grievances[g].row
             r == [op |-> "respond", g |-> g, loaded |-> row,
                   assigned |-> [status |-> status,
                                 responded |-> row.responded \/ Griev!IsAnswer(status)]]
  <2>1. /\ request' = [request EXCEPT ![w] = r] /\ UNCHANGED <<orderly, grievances>>
        /\ orderly => AllIdle
        /\ row.status \notin Griev!Final
    BY <1>5, <1>i DEF Griev!RespondToGrievance, Griev!Begin
  <2>2. ResponseOK(r)
    BY <2>1 DEF ResponseOK, Griev!Rows
  <2> QED
    BY <1>a, <2>1, <2>2
<1>6. ASSUME NEW w \in Workers, Griev!CommitResponse(w) PROVE HistoriesInv'
  <2>0. PICK r, g : r = request[w] /\ g = r.g
    OBVIOUS
  <2>1. /\ r.op = "respond" /\ request' = [request EXCEPT ![w] = Idle] /\ UNCHANGED orderly
        /\ request[w] # Idle
        /\ grievances' = [grievances EXCEPT
              ![g].row = Griev!WrittenRow(@, r.loaded, r.assigned),
              ![g].history = Append(@, [from |-> r.loaded.status, to |-> r.assigned.status])]
    BY <1>6, <1>i, <2>0 DEF Griev!CommitResponse, Griev!Finish, Griev!GoOn
  <2>2. Threads' /\ request'[w] = Idle /\ \A v \in Workers \ {w} : request'[v] = request[v]
    BY <2>1, OneRequestChanged DEF HistoriesInv
  <2> SUFFICES ASSUME orderly PROVE HistoriesInv'
    BY <2>1, <2>2 DEF HistoriesInv
  <2>3. \A v \in Workers : ResponseOK(request[v])'
    <3>1. \A v \in Workers : request'[v] = Idle
      BY <2>1, <2>2 DEF HistoriesInv, Threads, OneByOne
    <3> QED
      BY <1>i, <3>1 DEF ResponseOK
  <2>4. PICK S : grievances \in Seq(S)
    BY DEF HistoriesInv, IsSeq
  <2>5. /\ g \in 1..Len(grievances) /\ r.loaded = grievances[g].row
        /\ r.loaded.status \notin Griev!Final
        /\ r.assigned.responded <=> (r.loaded.responded \/ Griev!IsAnswer(r.assigned.status))
        /\ DOMAIN grievances[g] = {"number", "row", "history"}
        /\ HistoryTold(grievances[g].row, grievances[g].history)
    BY <2>0, <2>1, <2>4 DEF HistoriesInv, ResponseOK
  <2> DEFINE row == Griev!WrittenRow(grievances[g].row, r.loaded, r.assigned)
             move == [from |-> r.loaded.status, to |-> r.assigned.status]
             history == Append(grievances[g].history, move)
             new == [grievances[g] EXCEPT !.row = row, !.history = history]
  <2>6. HistoryTold(row, history)
    <3>1. DOMAIN row = {"status", "responded"} /\ row.status = r.assigned.status
      BY <2>5 DEF Griev!WrittenRow, Griev!Written, HistoryTold
    <3>2. row.responded = r.assigned.responded
      BY <2>5 DEF Griev!WrittenRow, Griev!Written, HistoryTold
    <3>3. row.responded <=> (r.loaded.responded \/ Griev!IsAnswer(row.status))
      BY <2>5, <3>1, <3>2, Zenon
    <3> HIDE DEF row
    <3> QED
      BY <2>5, <3>1, <3>3, HistoryGrows
  <2>7. grievances' = [grievances EXCEPT ![g] = new]
    BY <2>1
  <2>8. DOMAIN new = {"number", "row", "history"} /\ new.row = row /\ new.history = history
    BY <2>5
  <2> HIDE DEF new, row, history
  <2>9. grievances' \in Seq(S \cup {new}) /\ Len(grievances') = Len(grievances)
    BY <2>4, <2>5, <2>7
  <2>10. IsSeq(grievances')
    BY <2>9 DEF IsSeq
  <2>11. ASSUME NEW h \in 1..Len(grievances')
         PROVE  /\ DOMAIN grievances'[h] = {"number", "row", "history"}
                /\ HistoryTold(grievances'[h].row, grievances'[h].history)
    <3>1. grievances'[h] = IF h = g THEN new ELSE grievances[h]
      BY <2>4, <2>7, <2>9
    <3> QED
      BY <2>6, <2>8, <2>9, <3>1 DEF HistoriesInv
  <2> QED
    BY <2>2, <2>3, <2>10, <2>11 DEF HistoriesInv
<1>7. ASSUME UNCHANGED Griev!vars PROVE HistoriesInv'
  BY <1>7 DEF Griev!vars, HistoriesInv, Threads, OneByOne, ResponseOK
<1> QED
  BY <1>1, <1>2, <1>3, <1>4, <1>5, <1>6, <1>7 DEF Griev!Next

LEMMA HistoriesTold == HistoriesInv => GrievanceHistoryIsAPath
<1> SUFFICES ASSUME HistoriesInv, orderly, NEW g \in Griev!Rows
             PROVE  LET history == grievances[g].history IN
                    /\ Head(history) = [from |-> Griev!NoStatus, to |-> "SUBMITTED"]
                    /\ \A i \in 2..Len(history) :
                          /\ history[i].from = history[i - 1].to
                          /\ history[i].from \notin Griev!Final
                    /\ history[Len(history)].to = grievances[g].row.status
                    /\ grievances[g].row.responded
                          <=> \E i \in DOMAIN history : Griev!IsAnswer(history[i].to)
  BY DEF GrievanceHistoryIsAPath, Griev!HistoryIsAPath
<1>1. g \in 1..Len(grievances)
  BY DEF HistoriesInv, Griev!Rows, IsSeq
<1>2. HistoryTold(grievances[g].row, grievances[g].history)
  BY <1>1 DEF HistoriesInv
<1>3. /\ DOMAIN grievances[g].history = 1..Len(grievances[g].history)
      /\ Head(grievances[g].history) = grievances[g].history[1]
  BY <1>2 DEF HistoryTold, IsSeq
<1> QED
  BY <1>2, <1>3 DEF HistoryTold

-----------------------------------------------------------------------------
\* Ownership changes pushed to the portal of the state.

Places(x, s) == {i \in DOMAIN s : s[i] = x}

LEMMA PlacesAppended ==
    ASSUME NEW s, IsSeq(s), NEW e, NEW x
    PROVE  /\ IsFiniteSet(Places(x, s)) /\ Cardinality(Places(x, s)) \in Nat
           /\ Cardinality(Places(x, Append(s, e)))
                = Cardinality(Places(x, s)) + (IF x = e THEN 1 ELSE 0)
<1> DEFINE n == Len(s)
           longer == Append(s, e)
<1>1. /\ n \in Nat /\ Len(longer) = n + 1 /\ longer[n + 1] = e
      /\ \A i \in 1..n : longer[i] = s[i]
      /\ DOMAIN s = 1..n /\ DOMAIN longer = 1..(n + 1)
  BY Appended DEF IsSeq
<1> HIDE DEF longer, n
<1>2. IsFiniteSet(1..n) /\ Places(x, s) \subseteq 1..n
  BY <1>1, FS_Interval DEF Places
<1>3. IsFiniteSet(Places(x, s)) /\ Cardinality(Places(x, s)) \in Nat
  BY <1>2, FS_Subset, FS_CardinalityType
<1>4. n + 1 \notin Places(x, s)
  BY <1>1 DEF Places
<1>5. CASE x = e
  <2>1. Places(x, longer) = Places(x, s) \cup {n + 1}
    BY <1>1, <1>5 DEF Places
  <2> QED
    BY <1>3, <1>4, <1>5, <2>1, FS_AddElement DEF longer
<1>6. CASE x # e
  <2>1. Places(x, longer) = Places(x, s)
    BY <1>1, <1>6 DEF Places
  <2> QED
    BY <1>3, <1>6, <2>1 DEF longer
<1> QED
  BY <1>5, <1>6

\* The threads that have sent a change and not recorded it, and those of change x.
Senders == {w \in Workers : request[w].op = "pushed"}

SendersOf(x) == {w \in Senders : request[w].push = x}

\* What is on record and what is about to be was sent as often.
SentInv ==
    /\ Threads
    /\ \A w \in Workers : request[w].op = "push" =>
          request[w] = [op |-> "push", push |-> request[w].push]
    /\ IsSeq(pushes) /\ IsSeq(mutations) /\ IsFiniteSet(Senders)
    /\ \A x : Cardinality(Places(x, mutations)) + Cardinality(SendersOf(x))
                <= Cardinality(Places(x, pushes))
    /\ orderly =>
          /\ Senders = {} => pushes = mutations
          /\ \A w \in Senders : pushes = Append(mutations, request[w].push)

LEMMA SentInductive == SentInv /\ [Land!Next]_(Land!vars) => SentInv'
<1> SUFFICES ASSUME SentInv, [Land!Next]_(Land!vars) PROVE SentInv'
  OBVIOUS
<1>i. /\ Land!Idle = Idle /\ (Land!AllIdle <=> AllIdle)
      /\ Idle.op \notin {"push", "pushed"}
  BY DEF Land!Idle, Idle, Land!AllIdle, AllIdle
<1>f. \A x : IsFiniteSet(SendersOf(x)) /\ Cardinality(SendersOf(x)) \in Nat
  BY FS_Subset, FS_CardinalityType DEF SentInv, SendersOf
\* A request that neither was nor is between its push and its row.
<1>a. ASSUME NEW w \in Workers, NEW r, request' = [request EXCEPT ![w] = r],
             UNCHANGED <<orderly, pushes, mutations>>,
             orderly => r = Idle \/ request[w] # Idle \/ AllIdle,
             r.op # "pushed", r.op = "push" => r = [op |-> "push", push |-> r.push],
             orderly => request[w].op # "pushed"
      PROVE  SentInv'
  <2>1. /\ Threads' /\ request'[w] = r
        /\ \A v \in Workers \ {w} : request'[v] = request[v]
    BY <1>a, OneRequestChanged DEF SentInv
  <2>2. Senders' = Senders \ {w}
    BY <1>a, <2>1 DEF Senders
  <2>3. IsFiniteSet(Senders')
    BY <2>2, FS_Subset DEF SentInv
  <2>4. ASSUME NEW x
        PROVE  (Cardinality(Places(x, mutations)) + Cardinality(SendersOf(x))
                  <= Cardinality(Places(x, pushes)))'
    <3>1. SendersOf(x)' \subseteq SendersOf(x)
      BY <2>1, <2>2 DEF SendersOf, Senders
    <3>2. Cardinality(SendersOf(x)') <= Cardinality(SendersOf(x))
          /\ Cardinality(SendersOf(x)') \in Nat
      BY <1>f, <3>1, FS_Subset, FS_CardinalityType
    <3>3. /\ Cardinality(Places(x, mutations)) \in Nat /\ Cardinality(Places(x, pushes)) \in Nat
          /\ Cardinality(Places(x, mutations)) + Cardinality(SendersOf(x))
               <= Cardinality(Places(x, pushes))
      BY PlacesAppended DEF SentInv
    <3>4. Places(x, mutations)' = Places(x, mutations) /\ Places(x, pushes)' = Places(x, pushes)
      BY <1>a DEF Places
    <3> QED
      BY <1>f, <3>2, <3>3, <3>4
  <2>5. ASSUME NEW v \in Workers PROVE (request[v].op = "push" =>
                 request[v] = [op |-> "push", push |-> request[v].push])'
    BY <1>a, <2>1 DEF SentInv
  <2>6. ASSUME orderly
        PROVE  (/\ Senders = {} => pushes = mutations
                /\ \A v \in Senders : pushes = Append(mutations, request[v].push))'
    <3>1. Senders' = Senders /\ \A v \in Senders : request'[v] = request[v]
      BY <1>a, <2>1, <2>2, <2>6 DEF Senders
    <3> QED
      BY <1>a, <2>6, <3>1 DEF SentInv
  <2> QED
    BY <1>a, <2>1, <2>3, <2>4, <2>5, <2>6 DEF SentInv
<1>1. ASSUME NEW w \in Workers, NEW case \in Cases, NEW row \in Land!ParcelRow,
             Land!CreateParcel(w, case, row)
      PROVE  SentInv'
  <2>1. PICK r : /\ request' = [request EXCEPT ![w] = r] /\ r.op = "create"
                 /\ UNCHANGED <<orderly, pushes, mutations>> /\ (orderly => AllIdle)
    BY <1>1, <1>i DEF Land!CreateParcel, Land!Begin
  <2>2. AllIdle => request[w].op # "pushed"
    BY <1>i DEF AllIdle
  <2> QED
    BY <1>a, <2>1, <2>2
<1>2. ASSUME NEW w \in Workers, NEW p \in Land!Ids, NEW assigned \in Land!ParcelRow,
             Land!UpdateParcel(w, p, assigned)
      PROVE  SentInv'
  <2>1. PICK r : /\ request' = [request EXCEPT ![w] = r] /\ r.op = "update"
                 /\ UNCHANGED <<orderly, pushes, mutations>> /\ (orderly => AllIdle)
    BY <1>2, <1>i DEF Land!UpdateParcel, Land!Begin
  <2>2. AllIdle => request[w].op # "pushed"
    BY <1>i DEF AllIdle
  <2> QED
    BY <1>a, <2>1, <2>2
<1>3. ASSUME NEW w \in Workers,
             Land!CommitCreate(w) \/ Land!CommitUpdate(w) \/ Land!UlpinRefused(w)
                \/ Land!FailRequest(w)
      PROVE  SentInv'
  <2>1. /\ request' = [request EXCEPT ![w] = Idle] /\ UNCHANGED <<orderly, pushes, mutations>>
        /\ orderly => request[w].op # "pushed"
    BY <1>3, <1>i
    DEF Land!CommitCreate, Land!CommitUpdate, Land!UlpinRefused, Land!FailRequest,
        Land!Fail, Land!Finish, Land!GoOn
  <2> QED
    BY <1>a, <1>i, <2>1
<1>4. ASSUME NEW w \in Workers, NEW p \in Land!Ids, Land!RequestMutation(w, p)
      PROVE  SentInv'
  <2>1. PICK push : /\ request' = [request EXCEPT ![w] = [op |-> "push", push |-> push]]
                    /\ UNCHANGED <<orderly, pushes, mutations>> /\ (orderly => AllIdle)
    BY <1>4, <1>i DEF Land!RequestMutation, Land!Begin
  <2>2. AllIdle => request[w].op # "pushed"
    BY <1>i DEF AllIdle
  <2> DEFINE r == [op |-> "push", push |-> push]
  <2>3. r.op = "push" /\ r = [op |-> "push", push |-> r.push]
    OBVIOUS
  <2>4. request' = [request EXCEPT ![w] = r]
    BY <2>1
  <2> HIDE DEF r
  <2> QED
    BY <1>a, <2>1, <2>2, <2>3, <2>4
<1>5. ASSUME NEW w \in Workers, Land!PushMutation(w) PROVE SentInv'
  <2>1. PICK r, x : r = request[w] /\ x = r.push
    OBVIOUS
  <2>2. r.op = "push" /\ r = [op |-> "push", push |-> x]
    BY <1>5, <2>1 DEF Land!PushMutation, SentInv
  <2>a. [r EXCEPT !.op = "pushed"] = [op |-> "pushed", push |-> x]
    BY <2>2
  <2>3. /\ request' = [request EXCEPT ![w] = [op |-> "pushed", push |-> x]]
        /\ pushes' = Append(pushes, x) /\ UNCHANGED <<orderly, mutations>>
    BY <1>5, <2>1, <2>a DEF Land!PushMutation, Land!GoOn
  <2>4. /\ Threads' /\ request'[w] = [op |-> "pushed", push |-> x]
        /\ \A v \in Workers \ {w} : request'[v] = request[v]
    BY <2>1, <2>2, <2>3, <1>i, OneRequestChanged DEF SentInv
  <2>b. /\ request'[w].op = "pushed" /\ request'[w].push = x
        /\ request[w].op # "pushed"
    BY <2>1, <2>2, <2>4
  <2>5. Senders' = Senders \cup {w} /\ w \notin Senders
    BY <2>4, <2>b DEF Senders
  <2>6. IsFiniteSet(Senders') /\ IsSeq(pushes')
    BY <2>3, <2>5, FS_AddElement, Appended DEF SentInv
  <2>7. ASSUME NEW y
        PROVE  (Cardinality(Places(y, mutations)) + Cardinality(SendersOf(y))
                  <= Cardinality(Places(y, pushes)))'
    <3>1. SendersOf(y)' = IF y = x THEN SendersOf(y) \cup {w} ELSE SendersOf(y)
      BY <2>4, <2>5, <2>b DEF SendersOf, Senders
    <3>2. w \notin SendersOf(y)
      BY <2>5 DEF SendersOf
    <3>3. Cardinality(SendersOf(y)') = Cardinality(SendersOf(y)) + (IF y = x THEN 1 ELSE 0)
      <4>1. CASE y = x
        BY <1>f, <3>1, <3>2, <4>1, FS_AddElement
      <4>2. CASE y # x
        <5>1. SendersOf(y)' = SendersOf(y)
          BY <3>1, <4>2
        <5> QED
          BY <1>f, <4>2, <5>1
      <4> QED
        BY <4>1, <4>2
    <3>4. Cardinality(Places(y, pushes)') =
            Cardinality(Places(y, pushes)) + (IF y = x THEN 1 ELSE 0)
      <4>1. Places(y, pushes)' = Places(y, Append(pushes, x)) /\ IsSeq(pushes)
        BY <2>3 DEF Places, SentInv
      <4> QED
        BY <4>1, PlacesAppended
    <3>5. /\ Cardinality(Places(y, mutations)) \in Nat /\ Cardinality(Places(y, pushes)) \in Nat
          /\ Cardinality(Places(y, mutations)) + Cardinality(SendersOf(y))
               <= Cardinality(Places(y, pushes))
      BY PlacesAppended DEF SentInv
    <3>6. Places(y, mutations)' = Places(y, mutations)
      BY <2>3 DEF Places
    <3> QED
      BY <1>f, <3>3, <3>4, <3>5, <3>6
  <2>8. ASSUME NEW v \in Workers PROVE (request[v].op = "push" =>
                 request[v] = [op |-> "push", push |-> request[v].push])'
    BY <2>4 DEF SentInv
  <2>9. ASSUME orderly
        PROVE  (/\ Senders = {} => pushes = mutations
                /\ \A v \in Senders : pushes = Append(mutations, request[v].push))'
    <3>1. Senders = {}
      BY <1>i, <2>1, <2>2, <2>5, <2>9 DEF SentInv, Threads, OneByOne, Senders
    <3> QED
      BY <2>3, <2>4, <2>5, <2>9, <3>1 DEF SentInv
  <2> QED
    BY <2>3, <2>4, <2>6, <2>7, <2>8, <2>9 DEF SentInv
<1>6. ASSUME NEW w \in Workers, Land!CommitMutation(w) PROVE SentInv'
  <2>1. PICK x : x = request[w].push
    OBVIOUS
  <2>2. /\ request[w].op = "pushed" /\ request' = [request EXCEPT ![w] = Idle]
        /\ mutations' = Append(mutations, x) /\ UNCHANGED <<orderly, pushes>>
    BY <1>6, <1>i, <2>1 DEF Land!CommitMutation, Land!Finish, Land!GoOn
  <2>3. /\ Threads' /\ request'[w] = Idle
        /\ \A v \in Workers \ {w} : request'[v] = request[v]
    BY <2>2, OneRequestChanged DEF SentInv
  <2>4. Senders' = Senders \ {w} /\ w \in Senders
    BY <1>i, <2>2, <2>3 DEF Senders
  <2>5. IsFiniteSet(Senders') /\ IsSeq(mutations')
    BY <2>2, <2>4, FS_Subset, Appended DEF SentInv
  <2>6. ASSUME NEW y
        PROVE  (Cardinality(Places(y, mutations)) + Cardinality(SendersOf(y))
                  <= Cardinality(Places(y, pushes)))'
    <3>a. \A v \in Senders' : request'[v] = request[v]
      BY <2>3, <2>4 DEF Senders
    <3>b. SendersOf(y)' = {v \in Senders' : request'[v].push = y}
      BY DEF SendersOf
    <3>1. SendersOf(y)' = SendersOf(y) \ {w} /\ (w \in SendersOf(y) <=> y = x)
      BY <2>1, <2>4, <3>a, <3>b DEF SendersOf
    <3>2. Cardinality(SendersOf(y)') = Cardinality(SendersOf(y)) - (IF y = x THEN 1 ELSE 0)
      <4>1. CASE y = x
        BY <1>f, <3>1, <4>1, FS_RemoveElement
      <4>2. CASE y # x
        <5>1. SendersOf(y)' = SendersOf(y)
          BY <3>1, <4>2
        <5> QED
          BY <1>f, <4>2, <5>1
      <4> QED
        BY <4>1, <4>2
    <3>3. Cardinality(Places(y, mutations)') =
            Cardinality(Places(y, mutations)) + (IF y = x THEN 1 ELSE 0)
      <4>1. Places(y, mutations)' = Places(y, Append(mutations, x)) /\ IsSeq(mutations)
        BY <2>2 DEF Places, SentInv
      <4> QED
        BY <4>1, PlacesAppended
    <3>4. /\ Cardinality(Places(y, mutations)) \in Nat /\ Cardinality(Places(y, pushes)) \in Nat
          /\ Cardinality(Places(y, mutations)) + Cardinality(SendersOf(y))
               <= Cardinality(Places(y, pushes))
      BY PlacesAppended DEF SentInv
    <3>5. Places(y, pushes)' = Places(y, pushes)
      BY <2>2 DEF Places
    <3> QED
      BY <1>f, <3>2, <3>3, <3>4, <3>5
  <2>7. ASSUME NEW v \in Workers PROVE (request[v].op = "push" =>
                 request[v] = [op |-> "push", push |-> request[v].push])'
    BY <1>i, <2>3 DEF SentInv
  <2>8. ASSUME orderly
        PROVE  (/\ Senders = {} => pushes = mutations
                /\ \A v \in Senders : pushes = Append(mutations, request[v].push))'
    <3>1. Senders' = {}
      BY <1>i, <2>2, <2>4, <2>8 DEF SentInv, Threads, OneByOne, Senders
    <3> QED
      BY <2>1, <2>2, <2>4, <2>8, <3>1 DEF SentInv
  <2> QED
    BY <2>2, <2>3, <2>5, <2>6, <2>7, <2>8 DEF SentInv
<1>7. ASSUME UNCHANGED Land!vars PROVE SentInv'
  BY <1>7 DEF Land!vars, SentInv, Threads, OneByOne, Senders, SendersOf, Places
<1> QED
  BY <1>1, <1>2, <1>3, <1>4, <1>5, <1>6, <1>7 DEF Land!Next

LEMMA RecordsWereSent == SentInv => MutationsWereSent
<1> SUFFICES ASSUME SentInv PROVE MutationsWereSent
  OBVIOUS
<1>1. ASSUME NEW m \in DOMAIN mutations
      PROVE  Cardinality(Places(mutations[m], mutations))
                <= Cardinality(Places(mutations[m], pushes))
  <2>1. Cardinality(SendersOf(mutations[m])) \in Nat
    BY FS_Subset, FS_CardinalityType DEF SentInv, SendersOf
  <2> QED
    BY <2>1, PlacesAppended DEF SentInv
<1>2. Land!AllIdle => Senders = {}
  BY DEF Land!AllIdle, Land!Idle, Senders
<1>3. Land!MutationsWereSent
  <2>1. orderly /\ Land!AllIdle => mutations = pushes
    BY <1>2 DEF SentInv
  <2>2. ASSUME NEW m \in DOMAIN mutations
        PROVE  Cardinality({i \in DOMAIN mutations : mutations[i] = mutations[m]})
                  <= Cardinality({i \in DOMAIN pushes : pushes[i] = mutations[m]})
    BY <1>1, Zenon DEF Places
  <2>3. \A S : Land!Cardinality(S) = Cardinality(S)
    BY DEF Land!Cardinality, Cardinality
  <2> QED
    BY <2>1, <2>2, <2>3 DEF Land!MutationsWereSent
<1> QED
  BY <1>3 DEF MutationsWereSent

-----------------------------------------------------------------------------
\* What the portal says of a parcel.

\* A quotient is rounded to a neighbour no more than half away.
LEMMA RoundToNearest ==
    ASSUME NEW n \in Nat, NEW d \in Nat \ {0}
    PROVE  \E q, r \in Nat :
              /\ n = d * q + r
              /\ \/ Land!Round(n, d) = q /\ 2 * r <= d
                 \/ Land!Round(n, d) = q + 1 /\ r < d /\ 2 * r >= d
<1> DEFINE q == n \div d
           r == n % d
<1>1. q \in Nat /\ r \in Nat /\ r < d /\ n = d * q + r
  BY SMT
<1>2. Land!Round(n, d) = IF 2 * r < d \/ (2 * r = d /\ q % 2 = 0) THEN q ELSE q + 1
  BY DEF Land!Round
<1> HIDE DEF q, r
<1>3. \/ Land!Round(n, d) = q /\ 2 * r <= d
      \/ Land!Round(n, d) = q + 1 /\ r < d /\ 2 * r >= d
  BY <1>1, <1>2, SMT
<1> QED
  BY <1>1, <1>3

\* The quotients the adapters round.
LEMMA RoundIsNear ==
    ASSUME NEW n \in Nat
    PROVE  /\ /\ Land!Round(n, 100) \in Nat
              /\ 100 * Land!Round(n, 100) - n <= 50 /\ n - 100 * Land!Round(n, 100) <= 50
           /\ /\ Land!Round(n, 1000000) \in Nat
              /\ 1000000 * Land!Round(n, 1000000) - n <= 500000
              /\ n - 1000000 * Land!Round(n, 1000000) <= 500000
           /\ /\ Land!Round(n, 247105) \in Nat
              /\ 247105 * Land!Round(n, 247105) - n <= 123552
              /\ n - 247105 * Land!Round(n, 247105) <= 123552
<1>1. /\ Land!Round(n, 100) \in Nat
      /\ 100 * Land!Round(n, 100) - n <= 50 /\ n - 100 * Land!Round(n, 100) <= 50
  <2>1. 100 \in Nat \ {0}
    BY SMT
  <2>2. PICK q \in Nat, r \in Nat :
            /\ n = 100 * q + r
            /\ \/ Land!Round(n, 100) = q /\ 2 * r <= 100
               \/ Land!Round(n, 100) = q + 1 /\ r < 100 /\ 2 * r >= 100
    BY <2>1, RoundToNearest, SMT
  <2> QED
    BY <2>2, SMT
<1>2. /\ Land!Round(n, 1000000) \in Nat
      /\ 1000000 * Land!Round(n, 1000000) - n <= 500000 /\ n - 1000000 * Land!Round(n, 1000000) <= 500000
  <2>1. 1000000 \in Nat \ {0}
    BY SMT
  <2>2. PICK q \in Nat, r \in Nat :
            /\ n = 1000000 * q + r
            /\ \/ Land!Round(n, 1000000) = q /\ 2 * r <= 1000000
               \/ Land!Round(n, 1000000) = q + 1 /\ r < 1000000 /\ 2 * r >= 1000000
    BY <2>1, RoundToNearest, SMT
  <2> QED
    BY <2>2, SMT
<1>3. /\ Land!Round(n, 247105) \in Nat
      /\ 247105 * Land!Round(n, 247105) - n <= 123552 /\ n - 247105 * Land!Round(n, 247105) <= 123552
  <2>1. 247105 \in Nat \ {0}
    BY SMT
  <2>2. PICK q \in Nat, r \in Nat :
            /\ n = 247105 * q + r
            /\ \/ Land!Round(n, 247105) = q /\ 2 * r <= 247105
               \/ Land!Round(n, 247105) = q + 1 /\ r < 247105 /\ 2 * r >= 247105
    BY <2>1, RoundToNearest, SMT
  <2> QED
    BY <2>2, SMT
<1> QED
  BY <1>1, <1>2, <1>3, SMT

\* How far the roundings of a portal carry an area, whatever its size: first, a
\* bounded number stays bounded when it is multiplied.
LEMMA ScaledIsNear ==
    ASSUME NEW x \in Int, NEW c \in Nat, NEW k \in Nat, x <= c, -x <= c
    PROVE  x * k <= c * k /\ -(x * k) <= c * k
<1>1. ASSUME NEW y \in Int, y <= c PROVE y * k <= c * k
  <2>1. c - y \in Nat
    BY <1>1
  <2>2. (c - y) * k >= 0
    BY <2>1, SMT
  <2> QED
    BY <1>1, <2>2, SMT
<1>2. x * k <= c * k
  BY <1>1
<1>3. -x \in Int /\ (-x) * k <= c * k
  BY <1>1
<1>4. (-x) * k = -(x * k)
  BY SMT
<1> QED
  BY <1>2, <1>3, <1>4, SMT

\* What rounding makes of n changed by drift percent.
NearDrifted(n, drift, up) ==
    /\ up \in Nat
    /\ drift = 0 => up = n
    /\ 100 * up - n * (100 + drift) <= 50
    /\ n * (100 + drift) - 100 * up <= 50

LEMMA DriftedIsNear ==
    ASSUME NEW n \in Nat, NEW drift \in -9..9
    PROVE  NearDrifted(n, drift, Land!Drifted(n, drift))
<1>1. 100 + drift \in Nat
  BY SMT
<1>2. n * (100 + drift) \in Nat
  BY <1>1, SMT
<1> DEFINE m == n * (100 + drift)
<1>3. Land!Drifted(n, drift) = IF drift = 0 THEN n ELSE Land!Round(m, 100)
  BY DEF Land!Drifted
<1>4. drift = 0 => m = 100 * n
  BY SMT
<1> HIDE DEF m
<1>5. /\ Land!Round(m, 100) \in Nat
      /\ 100 * Land!Round(m, 100) - m <= 50 /\ m - 100 * Land!Round(m, 100) <= 50
  BY <1>2, RoundIsNear, SMT DEF m
<1>6. /\ Land!Drifted(n, drift) \in Nat
      /\ drift = 0 => Land!Drifted(n, drift) = n
      /\ 100 * Land!Drifted(n, drift) - m <= 50 /\ m - 100 * Land!Drifted(n, drift) <= 50
  BY <1>3, <1>4, <1>5, SMT
<1> QED
  BY <1>6 DEF m, NearDrifted

\* An area comes back from the portal within its coarseness.
LEMMA UpstreamIsNear ==
    ASSUME NEW a \in Land!Adapter, NEW area \in Nat, NEW drift \in -9..9
    PROVE  \E up \in Nat :
              /\ Land!AreaUpstream(a, area, drift) = up
              /\ 100 * up - area * (100 + drift) <= Land!Coarseness(a, drift)
              /\ area * (100 + drift) - 100 * up <= Land!Coarseness(a, drift)
<1>1. CASE a = "mock"
  <2>1. PICK up : up = Land!Drifted(area, drift)
    OBVIOUS
  <2>2. /\ up \in Nat /\ (drift = 0 => up = area)
        /\ 100 * up - area * (100 + drift) <= 50
        /\ area * (100 + drift) - 100 * up <= 50
    <3>1. NearDrifted(area, drift, up)
      BY <2>1, DriftedIsNear
    <3> QED
      BY <3>1 DEF NearDrifted
  <2>3. Land!AreaUpstream(a, area, drift) = up
    BY <1>1, <2>1 DEF Land!AreaUpstream
  <2>4. Land!Coarseness(a, drift) = IF drift = 0 THEN 0 ELSE 50
    BY <1>1 DEF Land!Coarseness
  <2>5. drift = 0 => 100 * up - area * (100 + drift) = 0
    BY <2>2, SMT
  <2>6. 100 * up - area * (100 + drift) <= Land!Coarseness(a, drift)
        /\ area * (100 + drift) - 100 * up <= Land!Coarseness(a, drift)
    BY <2>2, <2>4, <2>5, SMT
  <2> QED
    BY <2>2, <2>3, <2>6
<1>2. CASE a # "mock"
  <2> DEFINE k == 100 + drift
  <2>1. PICK extent, moved, up :
            /\ extent = Land!ToExtent(area) /\ moved = Land!Drifted(extent, drift)
            /\ up = Land!FromExtent(moved)
    OBVIOUS
  <2>2. k \in Nat /\ k <= 109 /\ (drift = 0 => k = 100)
    BY SMT
  <2>3. /\ extent \in Nat
        /\ 1000000 * extent - area * 247105 <= 500000
        /\ area * 247105 - 1000000 * extent <= 500000
    <3>1. area * 247105 \in Nat
      BY SMT
    <3> QED
      BY <2>1, <3>1, RoundIsNear, SMT DEF Land!ToExtent
  <2>4. /\ moved \in Nat /\ (drift = 0 => moved = extent)
        /\ 100 * moved - extent * k <= 50
        /\ extent * k - 100 * moved <= 50
    <3>1. extent \in Nat
      BY <2>3, SMT
    <3>2. NearDrifted(extent, drift, moved)
      BY <2>1, <3>1, DriftedIsNear
    <3> QED
      BY <3>2 DEF k, NearDrifted
  <2>5. /\ up \in Nat
        /\ 247105 * up - moved * 1000000 <= 123552
        /\ moved * 1000000 - 247105 * up <= 123552
    <3>1. moved * 1000000 \in Nat
      BY <2>4, SMT
    <3> QED
      BY <2>1, <3>1, RoundIsNear, SMT DEF Land!FromExtent
  <2>6. Land!AreaUpstream(a, area, drift) = up
    BY <1>2, <2>1 DEF Land!AreaUpstream
  <2>7. Land!Coarseness(a, drift) = IF drift = 0 THEN 253 ELSE 473
    BY <1>2 DEF Land!Coarseness
  <2> HIDE DEF k
  <2>8. PICK x, ak, ek :
            /\ x = 1000000 * extent - area * 247105 /\ ak = area * k /\ ek = extent * k
            /\ x \in Int /\ ak \in Int /\ ek \in Int
    <3>1. 1000000 * extent - area * 247105 \in Int /\ area * k \in Int /\ extent * k \in Int
      BY <2>2, <2>3, SMT
    <3> QED
      BY <3>1, SMT
  <2>9. x * k = 1000000 * ek - 247105 * ak
    BY <2>2, <2>3, <2>8, SMT
  <2>10. x * k <= 54500000 /\ -(x * k) <= 54500000
    <3>1. x * k <= 500000 * k /\ -(x * k) <= 500000 * k
      BY <2>2, <2>3, <2>8, ScaledIsNear, SMT
    <3> QED
      BY <2>2, <2>8, <3>1, SMT
  <2>11. 100 * up - ak <= 473 /\ ak - 100 * up <= 473
    BY <2>2, <2>4, <2>5, <2>8, <2>9, <2>10, SMT
  <2>12. drift = 0 => 100 * up - ak <= 253 /\ ak - 100 * up <= 253
    BY <2>2, <2>3, <2>4, <2>5, <2>8, SMT
  <2>13. 100 * up - ak <= Land!Coarseness(a, drift) /\ ak - 100 * up <= Land!Coarseness(a, drift)
    BY <2>7, <2>11, <2>12, SMT
  <2> QED
    BY <2>5, <2>6, <2>8, <2>13 DEF k
<1> QED
  BY <1>1, <1>2

\* Whether the areas differ is told but for that much.
LEMMA DriftIsSeen ==
    ASSUME NEW a \in Land!Adapter, NEW area \in Nat, NEW drift \in -9..9
    PROVE  LET off == Land!Abs(drift) * area
               differs == Land!AreaDiffers(area, Land!AreaUpstream(a, area, drift))
           IN  /\ differs => off + Land!Coarseness(a, drift) > Land!AreaTolerance * area
               /\ ~differs => off - Land!Coarseness(a, drift) <= Land!AreaTolerance * area
<1> DEFINE off == Land!Abs(drift) * area
           doubt == Land!Coarseness(a, drift)
<1>1. PICK up \in Nat :
          /\ Land!AreaUpstream(a, area, drift) = up
          /\ 100 * up - area * (100 + drift) <= doubt
          /\ area * (100 + drift) - 100 * up <= doubt
  BY UpstreamIsNear
<1>2. doubt \in Nat
  BY DEF Land!Coarseness, Land!Adapter
<1>3. PICK z \in Int : z = area * drift
  BY SMT
<1>4. off \in Nat /\ ((off = z /\ z >= 0) \/ (off = -z /\ z <= 0))
  BY <1>3, SMT DEF Land!Abs
<1>5. (up - area) * 100 - z <= doubt /\ z - (up - area) * 100 <= doubt
  BY <1>1, <1>2, <1>3, SMT
<1>6. Land!AreaDiffers(area, up) <=> (up - area) * 100 > area \/ (area - up) * 100 > area
  BY SMT DEF Land!AreaDiffers, Land!AreaTolerance, Land!Abs
<1>7. Land!AreaTolerance * area = area
  BY SMT DEF Land!AreaTolerance
<1> HIDE DEF off, doubt
<1>8. /\ Land!AreaDiffers(area, up) => off + doubt > area
      /\ ~Land!AreaDiffers(area, up) => off - doubt <= area
  BY <1>2, <1>3, <1>4, <1>5, <1>6, SMT
<1> QED
  BY <1>1, <1>7, <1>8 DEF off, doubt

LEMMA DifferencesAreTold == ReconcileTellsTheDifference
<1> SUFFICES ASSUME NEW p \in Land!Ids, NEW area \in [Land!Ids -> Areas],
                    NEW a \in Land!Adapter, NEW entry \in Land!PortalEntry,
                    \A q \in Land!Ids \ {p} : parcels[q].row.survey # parcels[p].row.survey
             PROVE  Land!Reports(p, area, a, entry) \subseteq
                        CASE entry.found = "unreachable" -> {"unavailable"}
                          [] entry.found = "absent" -> {"not_found_upstream"}
                          [] entry.found = "yes" -> Land!Tellable(area[p], a, entry)
  BY DEF ReconcileTellsTheDifference, Land!ReconcileTellsTheDifference
<1> DEFINE record == Land!Record(a, Land!OnFile(p, area), entry)
           said == Land!Compare(Land!OnFile(p, area), record)
           differs == Land!AreaDiffers(area[p], Land!AreaUpstream(a, area[p], entry.drift))
<1>1. area[p] \in Nat
  BY LandAssumption
<1>2. entry.found \in {"yes", "absent", "unreachable"} /\ entry.drift \in -9..9
  <2>1. entry.found \in {"yes", "absent", "unreachable"} /\ entry.drift \in Drifts \cup {0}
    BY DEF Land!PortalEntry
  <2>2. 0 \in -9..9
    BY SMT
  <2> QED
    BY <2>1, <2>2, LandAssumption, Zenon
<1>3. said = IF differs THEN "area_mismatch"
             ELSE IF entry.name = "variant" THEN "owner_mismatch" ELSE "matched"
  BY DEF Land!Compare, Land!Record, Land!OnFile
<1>4. said \in Land!Tellable(area[p], a, entry)
  BY <1>1, <1>2, <1>3, DriftIsSeen DEF Land!Tellable
<1>5. {q \in Land!Ids : parcels[q].row.survey = parcels[p].row.survey} = {p}
  OBVIOUS
<1>6. entry.found = "yes" => Land!Reports(p, area, a, entry) = {said}
  BY <1>5 DEF Land!Reports
<1>7. /\ entry.found = "unreachable" => Land!Reports(p, area, a, entry) = {"unavailable"}
      /\ entry.found = "absent" => Land!Reports(p, area, a, entry) = {"not_found_upstream"}
  BY DEF Land!Reports
<1> HIDE DEF said
<1> QED
  BY <1>2, <1>4, <1>6, <1>7

-----------------------------------------------------------------------------
\* Sign-in.

\* Of the failures f, those in the window at time t.
Live(f, t) == {i \in DOMAIN f : t - f[i] < Window}

OldestOf(f, t) == Doors!Min(Live(f, t) \cup {Len(f) + 1})

RecentOf(f, t) == SubSeq(f, OldestOf(f, t), Len(f))

InOrder(f) == \A i, j \in DOMAIN f : i <= j => f[i] <= f[j]

\* A filter that keeps what follows the first it keeps.
LEMMA RecentIsSuffix ==
    ASSUME NEW f \in Seq(Nat), NEW t \in Nat, InOrder(f)
    PROVE  \E k \in 1..Len(f) + 1 :
              /\ k \notin Live(f, t) => k = Len(f) + 1
              /\ \A i \in 1..Len(f) : i \in Live(f, t) <=> k <= i
              /\ RecentOf(f, t) \in Seq(Nat) /\ Len(RecentOf(f, t)) = Len(f) + 1 - k
              /\ \A i \in 1..Len(RecentOf(f, t)) : RecentOf(f, t)[i] = f[k + i - 1]
<1> USE LimiterAssumption
<1> DEFINE S == Live(f, t) \cup {Len(f) + 1}
<1>1. S \subseteq 1..Len(f) + 1 /\ S # {} /\ 1..Len(f) + 1 \subseteq Nat
  BY DEF Live
<1>2. PICK k \in S : \A m \in S : k <= m
  BY <1>1, LeastNatural
<1>3. OldestOf(f, t) = k
  <2>1. \A x \in S : (\A m \in S : x <= m) => x = k
    BY <1>1, <1>2
  <2> HIDE DEF S
  <2>2. Doors!Min(S) = k
    BY <1>2, <2>1 DEF Doors!Min
  <2> QED
    BY <2>2 DEF OldestOf, S
<1>4. k \in 1..Len(f) + 1 /\ (k \notin Live(f, t) => k = Len(f) + 1)
  BY <1>1, <1>2
<1>5. ASSUME NEW i \in 1..Len(f) PROVE i \in Live(f, t) <=> k <= i
  <2>1. i \in Live(f, t) => k <= i
    BY <1>2
  <2>2. ASSUME k <= i PROVE i \in Live(f, t)
    <3>1. k \in 1..Len(f) /\ k \in Live(f, t)
      BY <1>4, <2>2
    <3>2. f[k] \in Nat /\ f[i] \in Nat /\ f[k] <= f[i] /\ t - f[k] < Window
      BY <2>2, <3>1 DEF Live, InOrder
    <3> QED
      BY <3>2 DEF Live
  <2> QED
    BY <2>1, <2>2
<1>6. /\ RecentOf(f, t) \in Seq(Nat) /\ Len(RecentOf(f, t)) = Len(f) + 1 - k
      /\ \A i \in 1..Len(RecentOf(f, t)) : RecentOf(f, t)[i] = f[k + i - 1]
  <2>1. \A i \in k..Len(f) : f[i] \in Nat
    BY <1>4
  <2>2. /\ SubSeq(f, k, Len(f)) \in Seq(Nat)
        /\ Len(SubSeq(f, k, Len(f))) = IF k <= Len(f) THEN Len(f) - k + 1 ELSE 0
        /\ \A i \in 1..Len(f) - k + 1 : SubSeq(f, k, Len(f))[i] = f[k + i - 1]
    BY <1>4, <2>1, SubSeqProperties
  <2> QED
    BY <1>3, <1>4, <2>2 DEF RecentOf
<1> QED
  BY <1>4, <1>5, <1>6

\* What asking, waiting and failing make of the recent failures.
LEMMA RecentFailures ==
    ASSUME NEW f \in Seq(Nat), NEW t \in Nat, InOrder(f), \A i \in DOMAIN f : f[i] <= t
    PROVE  /\ RecentOf(f, t) \in Seq(Nat) /\ InOrder(RecentOf(f, t))
           /\ \A i \in DOMAIN RecentOf(f, t) : RecentOf(f, t)[i] <= t
           /\ Len(RecentOf(f, t)) <= Len(f)
           /\ Len(RecentOf(f, t)) = Len(f) => RecentOf(f, t) = f
           /\ Len(f) > 0 /\ f[1] + Window <= t => Len(RecentOf(f, t)) < Len(f)
           /\ RecentOf(f, t) # <<>> => t - RecentOf(f, t)[1] < Window
           /\ Len(RecentOf(f, t + 1)) <= Len(RecentOf(f, t))
           /\ Append(f, t) \in Seq(Nat) /\ InOrder(Append(f, t))
           /\ \A i \in DOMAIN Append(f, t) : Append(f, t)[i] <= t
           /\ Len(RecentOf(Append(f, t), t)) <= Len(RecentOf(f, t)) + 1
<1> USE LimiterAssumption
<1> DEFINE r == RecentOf(f, t)
           g == Append(f, t)
<1>1. PICK k \in 1..Len(f) + 1 :
            /\ k \notin Live(f, t) => k = Len(f) + 1
            /\ \A i \in 1..Len(f) : i \in Live(f, t) <=> k <= i
            /\ r \in Seq(Nat) /\ Len(r) = Len(f) + 1 - k
            /\ \A i \in 1..Len(r) : r[i] = f[k + i - 1]
  BY RecentIsSuffix
<1>2. DOMAIN f = 1..Len(f) /\ Len(f) \in Nat /\ DOMAIN r = 1..Len(r) /\ Len(r) \in Nat
  BY <1>1
<1>20. \A i \in 1..Len(f) : f[i] \in Nat /\ f[i] <= t
  BY <1>2
<1>21. \A i, j \in 1..Len(f) : i <= j => f[i] <= f[j]
  BY <1>2 DEF InOrder
<1> HIDE DEF r
<1>3. InOrder(r) /\ \A i \in DOMAIN r : r[i] <= t
  <2>1. \A i \in 1..Len(r) : k + i - 1 \in 1..Len(f) /\ r[i] = f[k + i - 1]
    BY <1>1, <1>2
  <2>2. ASSUME NEW i \in 1..Len(r), NEW j \in 1..Len(r), i <= j PROVE r[i] <= r[j]
    <3>1. k + i - 1 <= k + j - 1
      BY <2>2
    <3> QED
      BY <1>21, <2>1, <3>1
  <2>3. InOrder(r)
    BY <1>2, <2>2 DEF InOrder
  <2> QED
    BY <1>2, <1>20, <2>1, <2>3
<1>4. Len(r) = Len(f) => r = f
  <2> SUFFICES ASSUME Len(r) = Len(f) PROVE r = f
    OBVIOUS
  <2>1. k = 1
    BY <1>1, <1>2
  <2>2. ASSUME NEW i \in 1..Len(r) PROVE r[i] = f[i]
    <3>1. k + i - 1 = i
      BY <2>1
    <3> QED
      BY <1>1, <3>1
  <2> QED
    BY <1>1, <2>2, SeqEqual
<1>5. Len(f) > 0 /\ f[1] + Window <= t => Len(r) < Len(f)
  <2> SUFFICES ASSUME Len(f) > 0, f[1] + Window <= t PROVE Len(r) < Len(f)
    OBVIOUS
  <2>1. 1 \notin Live(f, t)
    <3>1. 1 \in 1..Len(f) /\ f[1] \in Nat
      BY <1>2
    <3> QED
      BY <3>1 DEF Live
  <2> QED
    BY <1>1, <1>2, <2>1
<1>6. r # <<>> => t - r[1] < Window
  <2> SUFFICES ASSUME r # <<>> PROVE t - r[1] < Window
    OBVIOUS
  <2>1. Len(r) >= 1 /\ k \in 1..Len(f)
    BY <1>1, <1>2
  <2>2. k \in Live(f, t) /\ k + 1 - 1 = k /\ 1 \in 1..Len(r)
    BY <1>1, <1>2, <2>1
  <2>3. r[1] = f[k]
    BY <1>1, <2>2
  <2> QED
    BY <2>2, <2>3 DEF Live
<1>7. Len(RecentOf(f, t + 1)) <= Len(r)
  <2>1. t + 1 \in Nat
    OBVIOUS
  <2>2. PICK m \in 1..Len(f) + 1 :
            /\ m \notin Live(f, t + 1) => m = Len(f) + 1
            /\ Len(RecentOf(f, t + 1)) = Len(f) + 1 - m
    BY <2>1, RecentIsSuffix
  <2>3. m \in Live(f, t + 1) => m \in Live(f, t) /\ m \in 1..Len(f)
    BY <1>2 DEF Live
  <2>4. k <= m
    BY <1>1, <1>2, <2>2, <2>3
  <2> QED
    BY <1>1, <1>2, <2>2, <2>4
<1>8. /\ g \in Seq(Nat) /\ Len(g) = Len(f) + 1 /\ DOMAIN g = 1..Len(g)
      /\ \A i \in 1..Len(f) : g[i] = f[i]
      /\ g[Len(f) + 1] = t
  OBVIOUS
<1> HIDE DEF g
<1>22. Len(f) \in Nat /\ Len(g) = Len(f) + 1
  BY <1>2, <1>8
<1>9. \A i \in DOMAIN g : g[i] <= t
  <2> SUFFICES ASSUME NEW i \in 1..Len(g) PROVE g[i] <= t
    BY <1>8
  <2>1. CASE i = Len(f) + 1
    BY <1>8, <2>1
  <2>2. CASE i # Len(f) + 1
    <3>1. i \in 1..Len(f)
      BY <1>22, <2>2
    <3> QED
      BY <1>8, <1>20, <3>1
  <2> QED
    BY <2>1, <2>2
<1>10. InOrder(g)
  <2> SUFFICES ASSUME NEW i \in 1..Len(g), NEW j \in 1..Len(g), i <= j PROVE g[i] <= g[j]
    BY <1>8 DEF InOrder
  <2>1. CASE j = Len(f) + 1
    BY <1>8, <1>9, <2>1
  <2>2. CASE j # Len(f) + 1
    <3>1. i \in 1..Len(f) /\ j \in 1..Len(f)
      BY <1>22, <2>2
    <3> QED
      BY <1>8, <1>21, <3>1
  <2> QED
    BY <2>1, <2>2
<1>11. Len(RecentOf(g, t)) <= Len(r) + 1
  <2>1. PICK m \in 1..Len(g) + 1 :
            /\ m \notin Live(g, t) => m = Len(g) + 1
            /\ Len(RecentOf(g, t)) = Len(g) + 1 - m
    BY <1>8, <1>10, RecentIsSuffix
  <2>2. m \in 1..Len(f) /\ m \in Live(g, t) => m \in Live(f, t)
    BY <1>2, <1>8 DEF Live
  <2>3. k <= m
    <3>1. CASE m \in 1..Len(f)
      <4>1. m # Len(g) + 1
        BY <1>2, <1>8, <3>1
      <4> QED
        BY <1>1, <2>1, <2>2, <3>1, <4>1
    <3>2. CASE m \notin 1..Len(f)
      BY <1>1, <1>2, <1>8, <2>1, <3>2
    <3> QED
      BY <3>1, <3>2
  <2> QED
    BY <1>1, <1>2, <1>8, <2>1, <2>3
<1>12. Len(r) <= Len(f)
  BY <1>1, <1>2
<1> QED
  BY <1>1, <1>3, <1>4, <1>5, <1>6, <1>7, <1>8, <1>9, <1>10, <1>11, <1>12, Zenon DEF r, g

LEMMA NothingRecent ==
    ASSUME NEW t \in Nat
    PROVE  /\ <<>> \in Seq(Nat) /\ InOrder(<<>>) /\ \A i \in DOMAIN <<>> : <<>>[i] <= t
           /\ Len(RecentOf(<<>>, t)) = 0
<1>1. <<>> \in Seq(Nat) /\ InOrder(<<>>) /\ \A i \in DOMAIN <<>> : <<>>[i] <= t
  BY DEF InOrder
<1>2. RecentOf(<<>>, t) \in Seq(Nat) /\ Len(RecentOf(<<>>, t)) <= 0
  BY <1>1, RecentFailures
<1> QED
  BY <1>1, <1>2

\* The threads between their question to the limiter and its answer.
Trying == {w \in Workers : request[w] # Idle}

\* A refusal names a time at which the oldest of the failures is out of the window.
Promised ==
    promised # 0 =>
        /\ AllIdle
        /\ \/ Len(failures) < Attempts
           \/ Len(failures) = Attempts /\ failures[1] + Window <= promised

LimiterInv ==
    /\ Threads
    /\ \A w \in Workers : request[w] # Idle => request[w] \in Doors!Request
    /\ now \in Nat /\ promised \in Nat
    /\ failures \in Seq(Nat) /\ InOrder(failures)
    /\ \A i \in DOMAIN failures : failures[i] <= now
    /\ Len(RecentOf(failures, now)) + Cardinality(Trying) < Attempts + Cardinality(Workers)
    /\ orderly => Promised /\ Len(RecentOf(failures, now)) + Cardinality(Trying) <= Attempts

LEMMA RecentIs == Doors!Recent = RecentOf(failures, now)
BY DEF Doors!Recent, Doors!Oldest, Doors!InWindow, RecentOf, OldestOf, Live

\* Threads that try are threads.
LEMMA TryingAreFew ==
    /\ IsFiniteSet(Trying) /\ Cardinality(Trying) \in Nat /\ Cardinality(Workers) \in Nat
    /\ Cardinality(Trying) <= Cardinality(Workers)
    /\ Trying # Workers => Cardinality(Trying) < Cardinality(Workers)
<1>1. Trying \subseteq Workers
  BY DEF Trying
<1> QED
  BY <1>1, WorkersAssumption, FS_Subset, FS_CardinalityType

\* The wait that is named, in whole seconds, is longer than what is left.
LEMMA FullSeconds ==
    ASSUME NEW left \in Nat
    PROVE  /\ left \div TicksPerSecond \in Nat
           /\ (left \div TicksPerSecond + 1) * TicksPerSecond \in Nat
           /\ left < (left \div TicksPerSecond + 1) * TicksPerSecond
<1>1. TicksPerSecond \in Nat \ {0}
  BY LimiterAssumption
<1>2. left \div TicksPerSecond + 1 \in Nat
  BY <1>1
<1>3. (left \div TicksPerSecond + 1) * TicksPerSecond \in Nat
  BY <1>1, <1>2
<1>4. left < (left \div TicksPerSecond + 1) * TicksPerSecond
  BY <1>1
<1> QED
  BY <1>1, <1>3, <1>4

LEMMA LimiterInductive == LimiterInv /\ [Doors!Next]_(Doors!vars) => LimiterInv'
<1> USE LimiterAssumption
<1> SUFFICES ASSUME LimiterInv, [Doors!Next]_(Doors!vars)
             PROVE  LimiterInv'
  OBVIOUS
<1> DEFINE f == failures
           r == RecentOf(failures, now)
<1>1. Doors!Recent = r
  BY RecentIs
<1>2. /\ r \in Seq(Nat) /\ InOrder(r)
      /\ \A i \in DOMAIN r : r[i] <= now
      /\ Len(r) <= Len(f)
      /\ Len(r) = Len(f) => r = f
      /\ Len(f) > 0 /\ f[1] + Window <= now => Len(r) < Len(f)
      /\ r # <<>> => now - r[1] < Window
      /\ Len(RecentOf(f, now + 1)) <= Len(r)
      /\ Append(f, now) \in Seq(Nat) /\ InOrder(Append(f, now))
      /\ \A i \in DOMAIN Append(f, now) : Append(f, now)[i] <= now
      /\ Len(RecentOf(Append(f, now), now)) <= Len(r) + 1
  BY RecentFailures DEF LimiterInv
<1>3. Len(RecentOf(r, now)) <= Len(r)
  BY <1>2, RecentFailures DEF LimiterInv
<1>4. /\ IsFiniteSet(Trying) /\ Cardinality(Trying) \in Nat /\ Cardinality(Workers) \in Nat
      /\ Cardinality(Trying) <= Cardinality(Workers) /\ IsFiniteSet(Trying')
      /\ Cardinality(Trying') \in Nat /\ Cardinality(Trying') <= Cardinality(Workers)
  BY TryingAreFew, FS_Subset, FS_CardinalityType, WorkersAssumption DEF Trying
<1>5. /\ Len(r) \in Nat /\ Len(r) + Cardinality(Trying) < Attempts + Cardinality(Workers)
      /\ orderly => Len(r) + Cardinality(Trying) <= Attempts
  BY <1>2 DEF LimiterInv
<1> HIDE DEF f, r
<1>6. ASSUME UNCHANGED request PROVE Trying' = Trying /\ (AllIdle' <=> AllIdle)
  BY <1>6 DEF Trying, AllIdle
\* A limiter that is asked keeps what it finds recent.
<1>10. ASSUME NEW w \in Workers, NEW factor \in Doors!Factor,
              NEW outcome \in Doors!Outcomes(factor),
              Doors!TryToSignIn(w, factor, outcome)
       PROVE  LimiterInv'
  <2> DEFINE q == [op |-> factor, outcome |-> outcome]
  <2>1. /\ Len(r) < Attempts /\ request[w] = Idle /\ (orderly => AllIdle)
        /\ request' = [request EXCEPT ![w] = q]
        /\ failures' = r /\ now' = now /\ promised' = 0 /\ orderly' = orderly
    BY <1>1, <1>10
    DEF Doors!TryToSignIn, Doors!AskLimiter, Doors!NoPromise, Doors!Begin, Doors!Idle,
        Doors!AllIdle, Idle, AllIdle
  <2>2. q # Idle /\ q \in Doors!Request
    BY DEF Idle, Doors!Factor, Doors!Request, Doors!Outcomes
  <2>3. /\ Threads'
        /\ request'[w] = q /\ \A v \in Workers \ {w} : request'[v] = request[v]
        /\ orderly => \A v \in Workers \ {w} : request'[v] = Idle \/ q = Idle
    <3> HIDE DEF q
    <3> QED
      BY <2>1, OneRequestChanged DEF LimiterInv
  <2> HIDE DEF q
  <2>4. Trying' = Trying \cup {w} /\ w \notin Trying
    BY <2>1, <2>2, <2>3 DEF Trying
  <2>5. Cardinality(Trying') = Cardinality(Trying) + 1
    BY <1>4, <2>4, FS_AddElement
  <2>6. orderly => Trying = {} /\ Cardinality(Trying) = 0
    BY <2>1, FS_EmptySet DEF Trying, AllIdle
  <2>7. Len(RecentOf(failures', now')) <= Len(r) /\ Len(RecentOf(failures', now')) \in Nat
    BY <1>2, <1>3, <2>1, RecentFailures DEF LimiterInv
  <2>8. /\ Len(RecentOf(failures', now')) + Cardinality(Trying') < Attempts + Cardinality(Workers)
        /\ orderly => Len(RecentOf(failures', now')) + Cardinality(Trying') <= Attempts
    <3>1. Len(r) < Attempts /\ Len(r) \in Nat
      BY <1>5, <2>1
    <3>2. Cardinality(Trying) + 1 <= Cardinality(Workers)
      BY <1>4, <2>5
    <3>3. orderly => Cardinality(Trying') = 1
      BY <2>5, <2>6
    <3> QED
      BY <1>4, <2>5, <2>7, <3>1, <3>2, <3>3
  <2>9. \A v \in Workers : request'[v] # Idle => request'[v] \in Doors!Request
    BY <2>2, <2>3 DEF LimiterInv
  <2> QED
    BY <1>2, <2>1, <2>3, <2>8, <2>9 DEF LimiterInv, Promised
<1>11. ASSUME NEW w \in Workers, Doors!Refuse(w) PROVE LimiterInv'
  <2>1. /\ Len(r) >= Attempts /\ request[w] = Idle /\ (orderly => AllIdle)
        /\ UNCHANGED <<orderly, request, now>> /\ failures' = r
        /\ promised' = now + Doors!RetryAfter * TicksPerSecond
    BY <1>1, <1>11
    DEF Doors!Refuse, Doors!AtOnce, Doors!AskLimiter, Doors!Idle, Doors!AllIdle, Idle,
        AllIdle
  <2>2. r \in Seq(Nat) /\ Len(r) \in Nat /\ r # <<>> /\ r[1] \in Nat /\ r[1] <= now
    <3>1. r \in Seq(Nat) /\ Len(r) \in Nat /\ Len(r) > 0
      BY <1>2, <1>5, <2>1
    <3>2. 1 \in DOMAIN r /\ r # <<>> /\ r[1] \in Nat
      BY <3>1
    <3> QED
      BY <1>2, <3>1, <3>2
  <2>3. now \in Nat /\ now - r[1] < Window
    BY <1>2, <2>2 DEF LimiterInv
  <2> DEFINE left == Window - (now - r[1])
  <2>4. left \in Nat
    BY <2>2, <2>3
  <2> HIDE DEF left
  <2>5. /\ left \div TicksPerSecond \in Nat
        /\ (left \div TicksPerSecond + 1) * TicksPerSecond \in Nat
        /\ left < (left \div TicksPerSecond + 1) * TicksPerSecond
    BY <2>4, FullSeconds
  <2>6. Doors!RetryAfter = left \div TicksPerSecond + 1
    <3>1. Doors!RetryAfter
            = LET seconds == left \div TicksPerSecond + 1
              IN  IF seconds < 1 THEN 1 ELSE seconds
      BY <1>1 DEF Doors!RetryAfter, left
    <3> QED
      BY <2>5, <3>1
  <2>7. promised' \in Nat /\ r[1] + Window <= promised'
    <3>1. PICK x \in Nat : x = (left \div TicksPerSecond + 1) * TicksPerSecond /\ left < x
      BY <2>5
    <3>2. promised' = now + x
      BY <2>1, <2>6, <3>1
    <3>3. Window - (now - r[1]) < x
      BY <3>1 DEF left
    <3> QED
      BY <2>2, <2>3, <3>2, <3>3
  <2>8. Trying' = Trying /\ (AllIdle' <=> AllIdle)
    BY <1>6, <2>1
  <2>9. Len(RecentOf(failures', now')) <= Len(r) /\ Len(RecentOf(failures', now')) \in Nat
    BY <1>2, <1>3, <2>1, RecentFailures DEF LimiterInv
  <2>10. /\ Len(RecentOf(failures', now')) + Cardinality(Trying') < Attempts + Cardinality(Workers)
         /\ orderly => Len(RecentOf(failures', now')) + Cardinality(Trying') <= Attempts
         /\ orderly => Len(r) = Attempts
    BY <1>4, <1>5, <2>1, <2>8, <2>9
  <2>11. orderly => Promised'
    BY <2>1, <2>7, <2>8, <2>10 DEF Promised
  <2> QED
    BY <1>2, <2>1, <2>7, <2>10, <2>11 DEF LimiterInv, Threads, OneByOne
<1>12. ASSUME NEW w \in Workers, request[w] # Idle, request' = [request EXCEPT ![w] = Idle],
              orderly' = orderly
       PROVE  /\ Threads' /\ Cardinality(Trying') = Cardinality(Trying) - 1
              /\ \A v \in Workers : request'[v] # Idle => request'[v] \in Doors!Request
              /\ ~AllIdle
  <2>1. /\ Threads' /\ request'[w] = Idle
        /\ \A v \in Workers \ {w} : request'[v] = request[v]
    BY <1>12, OneRequestChanged DEF LimiterInv
  <2>2. Trying' = Trying \ {w} /\ w \in Trying
    BY <1>12, <2>1 DEF Trying
  <2>3. Cardinality(Trying') = Cardinality(Trying) - 1
    BY <1>4, <2>2, FS_RemoveElement
  <2> QED
    BY <1>12, <2>1, <2>3 DEF LimiterInv, AllIdle
\* An attempt that ends records what it learned, or nothing.
<1>13. ASSUME NEW w \in Workers, request[w] # Idle,
              request' = [request EXCEPT ![w] = Idle], UNCHANGED <<orderly, now, promised>>,
              failures' \in {Append(f, now), <<>>, f}
       PROVE  LimiterInv'
  <2>1. /\ Threads' /\ Cardinality(Trying') = Cardinality(Trying) - 1
        /\ \A v \in Workers : request'[v] # Idle => request'[v] \in Doors!Request
        /\ ~AllIdle
    BY <1>12, <1>13
  <2>2. /\ failures' \in Seq(Nat) /\ InOrder(failures')
        /\ \A i \in DOMAIN failures' : failures'[i] <= now'
        /\ Len(RecentOf(failures', now')) \in Nat
        /\ Len(RecentOf(failures', now')) <= Len(r) + 1
    <3>1. CASE failures' = Append(f, now)
      <4>1. failures' = Append(f, now) /\ now' = now
        BY <1>13, <3>1
      <4>2. now \in Nat
        BY DEF LimiterInv
      <4>3. RecentOf(Append(f, now), now) \in Seq(Nat)
        BY <1>2, <4>2, RecentFailures
      <4>4. Len(RecentOf(Append(f, now), now)) \in Nat
        BY <4>3
      <4> QED
        BY <1>2, <4>1, <4>4
    <3>2. CASE failures' = <<>>
      BY <1>5, <1>13, <3>2, NothingRecent DEF LimiterInv
    <3>3. CASE failures' = f
      BY <1>5, <1>13, <3>3 DEF LimiterInv, f, r
    <3> QED
      BY <1>13, <3>1, <3>2, <3>3
  <2>3. /\ Len(RecentOf(failures', now')) + Cardinality(Trying') < Attempts + Cardinality(Workers)
        /\ orderly => Len(RecentOf(failures', now')) + Cardinality(Trying') <= Attempts
    BY <1>4, <1>5, <2>1, <2>2
  <2>4. orderly => promised = 0
    BY <2>1 DEF LimiterInv, Promised
  <2> QED
    BY <1>13, <2>1, <2>2, <2>3, <2>4 DEF LimiterInv, Promised
<1>14. ASSUME NEW w \in Workers, Doors!EndAttempt(w) PROVE LimiterInv'
  <2>1. request[w].op \in Doors!Factor
    BY <1>14 DEF Doors!EndAttempt
  <2>2. request[w] # Idle
    BY <2>1 DEF Idle, Doors!Factor
  <2>3. request[w].outcome \in {"wrong", "right", "void"}
    BY <2>2 DEF LimiterInv, Doors!Request
  <2>4. /\ request' = [request EXCEPT ![w] = Idle] /\ UNCHANGED <<orderly, now, promised>>
        /\ failures' \in {Append(f, now), <<>>, f}
    BY <1>14, <2>3 DEF Doors!EndAttempt, Doors!Finish, Doors!GoOn, Doors!Idle, Idle, f
  <2> QED
    BY <1>13, <2>2, <2>4
<1>15. ASSUME NEW w \in Workers, Doors!FailRequest(w) PROVE LimiterInv'
  BY <1>13, <1>15
  DEF Doors!FailRequest, Doors!Fail, Doors!Finish, Doors!GoOn, Doors!Idle, Idle, f
<1>16. CASE Doors!Tick
  <2>1. now' = now + 1 /\ UNCHANGED <<orderly, request, failures, promised>>
    BY <1>16 DEF Doors!Tick
  <2>2. Trying' = Trying /\ (AllIdle' <=> AllIdle)
    BY <1>6, <2>1
  <2>3. /\ Len(RecentOf(failures', now')) + Cardinality(Trying') < Attempts + Cardinality(Workers)
        /\ orderly => Len(RecentOf(failures', now')) + Cardinality(Trying') <= Attempts
        /\ now' \in Nat /\ \A i \in DOMAIN failures' : failures'[i] <= now'
    <3>1. now + 1 \in Nat /\ failures \in Seq(Nat)
      BY DEF LimiterInv
    <3>2. ASSUME NEW i \in DOMAIN failures PROVE failures[i] <= now + 1
      <4>1. failures[i] <= now /\ failures[i] \in Nat /\ now \in Nat
        BY <3>2 DEF LimiterInv
      <4> QED
        BY <4>1
    <3>3. \A i \in DOMAIN failures : failures[i] <= now + 1
      BY <3>2
    <3>4. InOrder(failures)
      BY DEF LimiterInv
    <3>5. /\ Len(RecentOf(failures, now + 1)) \in Nat
          /\ Len(RecentOf(failures, now + 1)) <= Len(r)
      BY <1>2, <3>1, <3>3, <3>4, RecentFailures DEF f
    <3> QED
      BY <1>4, <1>5, <2>1, <2>2, <3>1, <3>3, <3>5
  <2> QED
    BY <2>1, <2>2, <2>3 DEF LimiterInv, Promised, Threads, OneByOne
<1>17. CASE Doors!Prune
  <2>1. failures' = r /\ UNCHANGED <<orderly, request, now, promised>>
    BY <1>1, <1>17 DEF Doors!Prune, Doors!AskLimiter
  <2>2. Trying' = Trying /\ (AllIdle' <=> AllIdle)
    BY <1>6, <2>1
  <2>3. Len(RecentOf(failures', now')) <= Len(r) /\ Len(RecentOf(failures', now')) \in Nat
    BY <1>2, <1>3, <2>1, RecentFailures DEF LimiterInv
  <2>4. /\ Len(RecentOf(failures', now')) + Cardinality(Trying') < Attempts + Cardinality(Workers)
        /\ orderly => Len(RecentOf(failures', now')) + Cardinality(Trying') <= Attempts
    BY <1>4, <1>5, <2>1, <2>2, <2>3
  <2>5. orderly => Promised'
    <3>1. SUFFICES ASSUME orderly, promised # 0 PROVE Promised'
      BY <2>1 DEF Promised
    <3>2. Promised /\ failures \in Seq(Nat)
      BY <3>1 DEF LimiterInv
    <3>3. /\ AllIdle /\ Len(f) \in Nat
          /\ \/ Len(f) < Attempts
             \/ Len(f) = Attempts /\ f[1] + Window <= promised
      <4>1. /\ AllIdle
            /\ \/ Len(failures) < Attempts
               \/ Len(failures) = Attempts /\ failures[1] + Window <= promised
        BY <3>1, <3>2 DEF Promised
      <4>2. Len(failures) \in Nat
        BY <3>2
      <4> QED
        BY <4>1, <4>2 DEF f
    <3>4. CASE Len(r) = Len(f)
      BY <1>2, <2>1, <2>2, <3>3, <3>4 DEF Promised
    <3>5. CASE Len(r) < Len(f)
      <4>1. Len(r) < Attempts
        BY <1>5, <3>3, <3>5
      <4> QED
        BY <2>1, <2>2, <3>3, <4>1 DEF Promised
    <3> QED
      BY <1>2, <1>5, <3>3, <3>4, <3>5
  <2> QED
    BY <1>2, <2>1, <2>2, <2>4, <2>5 DEF LimiterInv, Threads, OneByOne
<1>18. CASE Doors!Restart
  <2>1. /\ ~orderly /\ failures' = <<>> /\ request' = [w \in Workers |-> Idle]
        /\ promised' = 0 /\ UNCHANGED <<orderly, now>>
    BY <1>18 DEF Doors!Restart, Doors!Idle, Idle, Doors!NoPromise
  <2>2. Trying' = {} /\ Cardinality(Trying') = 0
    BY <2>1, FS_EmptySet DEF Trying
  <2>3. /\ failures' \in Seq(Nat) /\ InOrder(failures')
        /\ \A i \in DOMAIN failures' : failures'[i] <= now'
        /\ Len(RecentOf(failures', now')) = 0
    BY <2>1, NothingRecent DEF LimiterInv
  <2>4. Threads' /\ \A w \in Workers : request'[w] = Idle
    BY <2>1 DEF Threads, OneByOne
  <2> QED
    BY <1>4, <2>1, <2>2, <2>3, <2>4 DEF LimiterInv
<1>19. CASE UNCHANGED Doors!vars
  <2>1. UNCHANGED <<orderly, request, failures, now, promised>>
    BY <1>19 DEF Doors!vars
  <2>2. Trying' = Trying /\ (AllIdle' <=> AllIdle)
    BY <1>6, <2>1
  <2> QED
    BY <2>1, <2>2 DEF LimiterInv, Promised, Threads, OneByOne
<1> QED
  BY <1>10, <1>11, <1>14, <1>15, <1>16, <1>17, <1>18, <1>19 DEF Doors!Next

\* No refusal and no number of failures breaks the promise.
LEMMA LimiterKeepsItsWord == LimiterInv => RefusalsArePromises
<1> SUFFICES ASSUME LimiterInv PROVE RefusalsArePromises
  OBVIOUS
<1> USE LimiterAssumption
<1> DEFINE r == RecentOf(failures, now)
<1>1. /\ r \in Seq(Nat) /\ Len(r) <= Len(failures)
      /\ Len(failures) > 0 /\ failures[1] + Window <= now => Len(r) < Len(failures)
  BY RecentFailures DEF LimiterInv
<1>2. Doors!Recent = r
  BY RecentIs
<1>3. /\ Cardinality(Trying) \in Nat
      /\ Len(r) + Cardinality(Trying) < Attempts + Cardinality(Workers)
  BY TryingAreFew DEF LimiterInv
<1>4. Len(r) < Attempts + Cardinality(Workers)
  BY <1>1, <1>3, TryingAreFew
<1>5. ASSUME orderly, promised # 0, promised <= now PROVE Len(r) < Attempts
  <2>1. \/ Len(failures) < Attempts
        \/ Len(failures) = Attempts /\ failures[1] + Window <= promised
    BY <1>5 DEF LimiterInv, Promised
  <2>2. CASE Len(failures) < Attempts
    BY <1>1, <2>2 DEF LimiterInv
  <2>3. CASE Len(failures) = Attempts /\ failures[1] + Window <= promised
    <3>1. failures[1] \in Nat /\ promised \in Nat /\ now \in Nat
      BY <2>3 DEF LimiterInv
    <3> QED
      BY <1>1, <1>5, <2>3, <3>1
  <2> QED
    BY <2>1, <2>2, <2>3
<1> HIDE DEF r
<1>6. Doors!Cardinality(Workers) = Cardinality(Workers)
  BY DEF Doors!Cardinality, Cardinality
<1> QED
  BY <1>2, <1>4, <1>5, <1>6
  DEF RefusalsArePromises, Doors!RefusalsArePromises, Doors!NoPromise

LEMMA LimiterInitially == Threads /\ AllIdle /\ Doors!Init => LimiterInv
<1> SUFFICES ASSUME Threads, AllIdle, Doors!Init PROVE LimiterInv
  OBVIOUS
<1> USE LimiterAssumption
<1>1. failures = <<>> /\ now = 0 /\ promised = 0
  BY DEF Doors!Init, Doors!NoPromise
<1>2. Trying = {} /\ Cardinality(Trying) = 0 /\ Cardinality(Workers) \in Nat
  BY FS_EmptySet, TryingAreFew DEF Trying, AllIdle
<1>3. /\ failures \in Seq(Nat) /\ InOrder(failures)
      /\ \A i \in DOMAIN failures : failures[i] <= now
      /\ Len(RecentOf(failures, now)) = 0
  BY <1>1, NothingRecent
<1> QED
  BY <1>1, <1>2, <1>3 DEF LimiterInv, Promised, AllIdle

-----------------------------------------------------------------------------
\* Authenticators.

\* What the UPDATE of the account's two columns leaves.
LEMMA WrittenTotp ==
    ASSUME NEW stored \in Factors!TotpRow, NEW loaded \in Factors!TotpRow,
           NEW assigned \in Factors!TotpRow
    PROVE  /\ Factors!WrittenRow(stored, loaded, assigned) \in Factors!TotpRow
           /\ Factors!WrittenRow(stored, loaded, assigned).active
                = Factors!Written(stored.active, loaded.active, assigned.active)
<1>1. stored = [active |-> stored.active, pending |-> stored.pending]
  BY DEF Factors!TotpRow
<1>2. DOMAIN stored = {"active", "pending"}
  BY <1>1
<1> DEFINE row == Factors!WrittenRow(stored, loaded, assigned)
<1>3. /\ row.active = Factors!Written(stored.active, loaded.active, assigned.active)
      /\ row.pending = Factors!Written(stored.pending, loaded.pending, assigned.pending)
  BY <1>2 DEF Factors!WrittenRow
<1>4. row = [active |-> row.active, pending |-> row.pending]
  BY <1>2 DEF Factors!WrittenRow
<1> QED
  BY <1>3, <1>4 DEF Factors!TotpRow, Factors!Written

(***************************************************************************)
(* What overlapping requests cannot break: a request to confirm holds a    *)
(* secret that was shown, a setup leaves the active secret as it loaded    *)
(* it, and of the face credentials exactly the last is active.             *)
(***************************************************************************)
TotpRequest ==
    [op : {"setup", "confirm", "disable"}, loaded : Factors!TotpRow,
     assigned : Factors!TotpRow]

EnrolRequest == [op : {"enrol"}, existing : Nat]

ShownFirst(r) ==
    /\ r.op = "setup" => r.assigned.active = r.loaded.active
    /\ r.op \in {"confirm", "disable"} => r.assigned.active \in shown \cup {NoSecret}

FactorInv ==
    /\ totp \in Factors!TotpRow /\ totp.active \in shown \cup {NoSecret}
    /\ request \in [Workers -> {Factors!Idle} \cup TotpRequest \cup EnrolRequest]
    /\ \A w \in Workers : ShownFirst(request[w])
    /\ faces \in Seq(BOOLEAN)
    /\ Factors!Active = IF faces = <<>> THEN {} ELSE {Len(faces)}

\* A request that begins or ends leaves the others as they were.
LEMMA OneFactorRequest ==
    ASSUME FactorInv, NEW w \in Workers,
           NEW r \in {Factors!Idle} \cup TotpRequest \cup EnrolRequest,
           request' = [request EXCEPT ![w] = r], shown \subseteq shown', ShownFirst(r)'
    PROVE  /\ request' \in [Workers -> {Factors!Idle} \cup TotpRequest \cup EnrolRequest]
           /\ \A v \in Workers : ShownFirst(request[v])'
<1>1. ASSUME NEW v \in Workers PROVE ShownFirst(request[v])'
  <2>1. CASE v = w
    BY <2>1 DEF FactorInv, ShownFirst
  <2>2. CASE v # w
    <3>1. request'[v] = request[v]
      BY <2>2 DEF FactorInv
    <3> QED
      BY <3>1 DEF FactorInv, ShownFirst
  <2> QED
    BY <2>1, <2>2
<1> QED
  BY <1>1 DEF FactorInv

LEMMA FactorInductive == FactorInv /\ [Factors!Next]_(Factors!vars) => FactorInv'
<1> SUFFICES ASSUME FactorInv, [Factors!Next]_(Factors!vars) PROVE FactorInv'
  OBVIOUS
<1>0. Factors!Active \subseteq Nat
  BY DEF FactorInv, Factors!Active
<1>1. ASSUME NEW w \in Workers, NEW secret \in Secrets, Factors!SetupTotp(w, secret)
      PROVE  FactorInv'
  <2> DEFINE r == [op |-> "setup", loaded |-> totp,
                   assigned |-> [totp EXCEPT !.pending = secret]]
  <2>1. r \in TotpRequest /\ r.assigned.active = r.loaded.active
    BY DEF FactorInv, Factors!TotpRow, TotpRequest
  <2>2. ShownFirst(r)'
    BY <1>1, <2>1 DEF ShownFirst, Factors!SetupTotp
  <2> QED
    BY <1>1, <2>1, <2>2, OneFactorRequest
    DEF Factors!SetupTotp, Factors!Begin, FactorInv, Factors!Active
<1>2. ASSUME NEW w \in Workers, Factors!ConfirmTotp(w) PROVE FactorInv'
  <2> DEFINE r == [op |-> "confirm", loaded |-> totp,
                   assigned |-> [active |-> totp.pending, pending |-> NoSecret]]
  <2>1. r \in TotpRequest
    BY DEF FactorInv, Factors!TotpRow, TotpRequest
  <2>2. ShownFirst(r)'
    BY <1>2 DEF ShownFirst, Factors!ConfirmTotp
  <2> QED
    BY <1>2, <2>1, <2>2, OneFactorRequest
    DEF Factors!ConfirmTotp, Factors!Begin, FactorInv, Factors!Active
<1>3. ASSUME NEW w \in Workers, Factors!DisableTotp(w) PROVE FactorInv'
  <2> DEFINE r == [op |-> "disable", loaded |-> totp,
                   assigned |-> [active |-> NoSecret, pending |-> NoSecret]]
  <2>1. r \in TotpRequest
    BY DEF FactorInv, Factors!TotpRow, TotpRequest
  <2>2. ShownFirst(r)'
    BY <1>3 DEF ShownFirst, Factors!DisableTotp
  <2> QED
    BY <1>3, <2>1, <2>2, OneFactorRequest
    DEF Factors!DisableTotp, Factors!Begin, FactorInv, Factors!Active
<1>4. ASSUME NEW w \in Workers, Factors!CommitTotp(w) PROVE FactorInv'
  <2> DEFINE r == request[w]
  <2>1. r.loaded \in Factors!TotpRow /\ r.assigned \in Factors!TotpRow /\ ShownFirst(r)
    BY <1>4 DEF Factors!CommitTotp, FactorInv, TotpRequest, EnrolRequest, Factors!Idle
  <2>2. totp' \in Factors!TotpRow
        /\ totp'.active = Factors!Written(totp.active, r.loaded.active, r.assigned.active)
    BY <1>4, <2>1, WrittenTotp DEF Factors!CommitTotp, FactorInv
  <2>3. totp'.active \in shown' \cup {NoSecret}
    BY <1>4, <2>1, <2>2 DEF Factors!CommitTotp, FactorInv, Factors!Written, ShownFirst
  <2>4. ShownFirst(Factors!Idle)'
    BY DEF ShownFirst, Factors!Idle
  <2> QED
    BY <1>4, <2>2, <2>3, <2>4, OneFactorRequest
    DEF Factors!CommitTotp, Factors!Finish, Factors!GoOn, FactorInv, Factors!Active
<1>5. ASSUME NEW w \in Workers, Factors!EnrolFace(w) PROVE FactorInv'
  <2> DEFINE r == [op |-> "enrol",
                   existing |-> IF Factors!Active = {} THEN Factors!NoFace
                                ELSE CHOOSE f \in Factors!Active : TRUE]
  <2>1. r \in EnrolRequest
    BY <1>0 DEF EnrolRequest, Factors!NoFace
  <2>2. ShownFirst(r)'
    BY DEF ShownFirst
  <2> QED
    BY <1>5, <2>1, <2>2, OneFactorRequest
    DEF Factors!EnrolFace, Factors!Begin, FactorInv, Factors!Active
<1>6. ASSUME NEW w \in Workers, Factors!CommitFace(w) PROVE FactorInv'
  <2> DEFINE old == Factors!Retired(request[w].existing)
  <2>1. old \in Seq(BOOLEAN) /\ Len(old) = Len(faces)
        /\ \A f \in DOMAIN faces : old[f] = FALSE
    <3>1. \A f \in DOMAIN faces : (faces[f] /\ f # request[w].existing) = FALSE
      BY <1>6 DEF Factors!CommitFace, Factors!Active, FactorInv
    <3>2. DOMAIN faces = 1..Len(faces) /\ Len(faces) \in Nat
      BY DEF FactorInv
    <3>3. old = [f \in 1..Len(faces) |-> FALSE]
      BY <3>1, <3>2 DEF Factors!Retired
    <3> QED
      BY <3>2, <3>3
  <2>2. faces' = Append(old, TRUE)
    BY <1>6 DEF Factors!CommitFace
  <2>3. /\ faces' \in Seq(BOOLEAN) /\ faces' # <<>>
        /\ Len(faces') = Len(faces) + 1 /\ DOMAIN faces' = 1..(Len(faces) + 1)
        /\ faces'[Len(faces) + 1] = TRUE
        /\ \A f \in 1..Len(faces) : faces'[f] = FALSE
    <3>0. TRUE \in BOOLEAN /\ old \in Seq(BOOLEAN)
      BY <2>1, Zenon
    <3>1. /\ Append(old, TRUE) \in Seq(BOOLEAN) /\ Append(old, TRUE) # <<>>
          /\ Len(Append(old, TRUE)) = Len(old) + 1
          /\ \A i \in 1..Len(old) : Append(old, TRUE)[i] = old[i]
          /\ Append(old, TRUE)[Len(old) + 1] = TRUE
      <4> HIDE DEF old
      <4>1. ASSUME NEW S, NEW seq \in Seq(S), NEW e \in S
            PROVE  /\ Append(seq, e) \in Seq(S) /\ Append(seq, e) # <<>>
                   /\ Len(Append(seq, e)) = Len(seq) + 1
                   /\ \A i \in 1..Len(seq) : Append(seq, e)[i] = seq[i]
                   /\ Append(seq, e)[Len(seq) + 1] = e
        BY AppendProperties
      <4> QED
        BY <3>0, <4>1, Zenon
    <3>2. /\ faces' \in Seq(BOOLEAN) /\ faces' # <<>>
          /\ Len(faces') = Len(old) + 1
          /\ \A i \in 1..Len(old) : faces'[i] = old[i]
          /\ faces'[Len(old) + 1] = TRUE
      BY <2>2, <3>1, Zenon
    <3>3. DOMAIN faces' = 1..Len(faces') /\ DOMAIN faces = 1..Len(faces)
      BY <3>2 DEF FactorInv
    <3>4. \A f \in 1..Len(faces) : faces'[f] = FALSE
      BY <2>1, <3>2, <3>3
    <3> HIDE DEF old
    <3> QED
      BY <2>1, <3>2, <3>3, <3>4
  <2>4. Factors!Active' = {Len(faces')}
    <3>1. Len(faces) \in Nat
      BY DEF FactorInv
    <3>2. ASSUME NEW f \in 1..(Len(faces) + 1) PROVE faces'[f] <=> f = Len(faces) + 1
      <4>1. CASE f = Len(faces) + 1
        BY <2>3, <4>1
      <4>2. CASE f # Len(faces) + 1
        <5>1. f \in 1..Len(faces)
          BY <3>1, <4>2
        <5> QED
          BY <2>3, <4>2, <5>1
      <4> QED
        BY <4>1, <4>2
    <3>3. Factors!Active' = {f \in 1..(Len(faces) + 1) : faces'[f]}
      BY <2>3 DEF Factors!Active
    <3> QED
      BY <2>3, <3>1, <3>2, <3>3
  <2>5. ShownFirst(Factors!Idle)'
    BY DEF ShownFirst, Factors!Idle
  <2> QED
    BY <1>6, <2>3, <2>4, <2>5, OneFactorRequest
    DEF Factors!CommitFace, Factors!Finish, Factors!GoOn, FactorInv
<1>7. ASSUME NEW w \in Workers, Factors!FaceRefused(w) \/ Factors!FailRequest(w)
      PROVE  FactorInv'
  <2>1. ShownFirst(Factors!Idle)'
    BY DEF ShownFirst, Factors!Idle
  <2> QED
    BY <1>7, <2>1, OneFactorRequest
    DEF Factors!FaceRefused, Factors!FailRequest, Factors!Fail, Factors!Finish,
        Factors!GoOn, FactorInv, Factors!Active
<1>8. ASSUME UNCHANGED Factors!vars PROVE FactorInv'
  BY <1>8 DEF Factors!vars, FactorInv, ShownFirst, Factors!Active
<1> QED
  BY <1>1, <1>2, <1>3, <1>4, <1>5, <1>6, <1>7, <1>8 DEF Factors!Next

LEMMA FactorInitially == Factors!Init => FactorInv
BY DEF Factors!Init, Factors!InitRequests, FactorInv, ShownFirst, Factors!Idle,
       Factors!TotpRow, Factors!Active

LEMMA FactorsInvProven == FactorInv => FactorsAreProven
BY DEF FactorInv, FactorsAreProven, Factors!FactorsAreProven, Factors!Active

-----------------------------------------------------------------------------
\* The types of each desk.  Some need more than themselves to stay.

\* A row more, and a row that is replaced.
LEMMA RowAdded ==
    ASSUME NEW Row, NEW rows \in Seq(Row), NEW row \in Row
    PROVE  Append(rows, row) \in Seq(Row) /\ Len(Append(rows, row)) = Len(rows) + 1
BY AppendProperties

LEMMA RowReplaced ==
    ASSUME NEW Row, NEW rows \in Seq(Row), NEW i, NEW row, i \in 1..Len(rows) => row \in Row
    PROVE  /\ [rows EXCEPT ![i] = row] \in Seq(Row)
           /\ Len([rows EXCEPT ![i] = row]) = Len(rows)
<1>1. CASE i \in 1..Len(rows)
  BY <1>1, ExceptSeq
<1>2. CASE i \notin 1..Len(rows)
  <2>1. [rows EXCEPT ![i] = row] = rows
    BY <1>2
  <2> QED
    BY <2>1
<1> QED
  BY <1>1, <1>2

LEMMA RowsAre ==
    ASSUME NEW Row, NEW rows \in Seq(Row)
    PROVE  /\ DOMAIN rows = 1..Len(rows) /\ Len(rows) \in Nat
           /\ \A i \in DOMAIN rows : rows[i] \in Row
BY ElementOfSeq

-----------------------------------------------------------------------------
\* Compensation.

LEMMA AwardIsInt ==
    ASSUME NEW market \in Int, NEW rate \in Int, NEW interest \in Int
    PROVE  Comp!ComputeAward(market, rate, interest) \in Int
<1>1. market * rate \in Int
  OBVIOUS
<1>2. ASSUME NEW n \in Int PROVE Comp!Round(n, 100) \in Int
  BY DEF Comp!Round
<1> QED
  BY <1>1, <1>2 DEF Comp!ComputeAward, Comp!SolatiumAmount

LEMMA WrittenAward ==
    ASSUME NEW stored \in Comp!AwardRow, NEW loaded \in Comp!AwardRow,
           NEW assigned \in Comp!AwardRow
    PROVE  Comp!WrittenRow(stored, loaded, assigned) \in Comp!AwardRow
<1> DEFINE row == Comp!WrittenRow(stored, loaded, assigned)
<1>1. DOMAIN stored = {"declared", "market", "rate", "interest", "awarded", "paid", "status"}
  BY DEF Comp!AwardRow
<1>2. \A column \in DOMAIN stored : row[column] \in {stored[column], assigned[column]}
  BY DEF Comp!WrittenRow, Comp!Written
<1>3. row = [declared |-> row.declared, market |-> row.market, rate |-> row.rate,
             interest |-> row.interest, awarded |-> row.awarded, paid |-> row.paid,
             status |-> row.status]
  BY <1>1 DEF Comp!WrittenRow
<1>4. row.declared \in BOOLEAN
  <2>1. stored.declared \in BOOLEAN /\ assigned.declared \in BOOLEAN
    BY DEF Comp!AwardRow
  <2>2. row.declared \in {stored.declared, assigned.declared}
    BY <1>1, <1>2
  <2> QED
    BY <2>1, <2>2, Zenon
<1>5. /\ row.market \in Int /\ row.rate \in Int /\ row.interest \in Int
      /\ row.awarded \in Int /\ row.paid \in Int /\ row.status \in Comp!CompensationStatus
  BY <1>1, <1>2 DEF Comp!AwardRow
<1> HIDE DEF row
<1>7. row \in Comp!AwardRow
  BY <1>3, <1>4, <1>5 DEF Comp!AwardRow
<1> QED
  BY <1>7 DEF row

LEMMA AwardTypes == Comp!TypeOK /\ [Comp!Next]_(Comp!vars) => Comp!TypeOK'
<1> SUFFICES ASSUME Comp!TypeOK, [Comp!Next]_(Comp!vars) PROVE Comp!TypeOK'
  OBVIOUS
<1> USE DEF Comp!TypeOK, Comp!RequestsOK, Comp!Finish, Comp!GoOn, Comp!Begin
<1>f. ASSUME NEW r \in Comp!Request PROVE r.loaded \in Comp!AwardRow /\ r.assigned \in Comp!AwardRow
  BY DEF Comp!Request
<1>r. ASSUME NEW op \in {"declare", "update"}, NEW assigned \in Comp!AwardRow
      PROVE  [op |-> op, loaded |-> award, assigned |-> assigned] \in Comp!Request
  BY DEF Comp!Request
<1>1. ASSUME NEW w \in Workers, NEW market \in MarketValues, NEW rate \in SolatiumRates,
             NEW interest \in Interests,
             Comp!CreateCompensation(w, market, rate, interest)
      PROVE  Comp!TypeOK'
  <2>1. market \in Int /\ rate \in Int /\ interest \in Int
    BY AmountsAssumption
  <2>2. Comp!Assessed(market, rate, interest) \in Comp!AwardRow
    BY <2>1, AwardIsInt DEF Comp!Assessed, Comp!AwardRow, Comp!CompensationStatus
  <2> QED
    BY <1>1, <1>r, <2>2 DEF Comp!CreateCompensation
<1>2. ASSUME NEW w \in Workers, Comp!CommitCreate(w) PROVE Comp!TypeOK'
  <2>1. request[w] \in Comp!Request
    BY <1>2 DEF Comp!CommitCreate, Comp!Idle
  <2> QED
    BY <1>2, <1>f, <2>1 DEF Comp!CommitCreate
<1>3. ASSUME NEW w \in Workers, NEW market \in MarketValues \cup {Unset},
             NEW rate \in SolatiumRates \cup {Unset},
             NEW interest \in Interests \cup {Unset}, NEW paid \in Payments \cup {Unset},
             NEW named \in NamedStatuses \cup {Unset},
             Comp!UpdateCompensation(w, market, rate, interest, paid, named)
      PROVE  Comp!TypeOK'
  <2> DEFINE row == Comp!Revised(market, rate, interest, paid)
             assigned == [row EXCEPT !.status = Comp!Settled(row, named)]
  <2>1. row \in Comp!AwardRow
    <3>1. /\ Comp!Given(market, award.market) \in Int /\ Comp!Given(rate, award.rate) \in Int
          /\ Comp!Given(interest, award.interest) \in Int /\ Comp!Given(paid, award.paid) \in Int
      BY AmountsAssumption DEF Comp!Given, Comp!AwardRow
    <3> DEFINE given == [award EXCEPT !.market = Comp!Given(market, @),
                                      !.rate = Comp!Given(rate, @),
                                      !.interest = Comp!Given(interest, @),
                                      !.paid = Comp!Given(paid, @)]
    <3>2. given \in Comp!AwardRow
      BY <3>1 DEF Comp!AwardRow
    <3>3. row = [given EXCEPT
                    !.awarded = Comp!ComputeAward(given.market, given.rate, given.interest)]
      BY DEF Comp!Revised
    <3> HIDE DEF given
    <3>4. Comp!ComputeAward(given.market, given.rate, given.interest) \in Int
      BY <3>2, AwardIsInt DEF Comp!AwardRow
    <3> HIDE DEF row
    <3> QED
      BY <3>2, <3>3, <3>4 DEF Comp!AwardRow
  <2> HIDE DEF row
  <2>2. Comp!Settled(row, named) \in Comp!CompensationStatus
    BY <2>1, ListsAssumption DEF Comp!Settled, Comp!AwardRow, Comp!CompensationStatus
  <2>3. assigned \in Comp!AwardRow
    BY <2>1, <2>2 DEF Comp!AwardRow
  <2>4. request' = [request EXCEPT ![w] =
                        [op |-> "update", loaded |-> award, assigned |-> assigned]]
        /\ UNCHANGED <<orderly, award>>
    BY <1>3 DEF Comp!UpdateCompensation, row
  <2> HIDE DEF assigned
  <2> QED
    BY <1>r, <2>3, <2>4
<1>4. ASSUME NEW w \in Workers, Comp!CommitUpdate(w) PROVE Comp!TypeOK'
  <2>1. request[w] \in Comp!Request
    BY <1>4 DEF Comp!CommitUpdate, Comp!Idle
  <2>2. award' \in Comp!AwardRow
    BY <1>4, <1>f, <2>1, WrittenAward DEF Comp!CommitUpdate
  <2> QED
    BY <1>4, <2>2 DEF Comp!CommitUpdate
<1>5. ASSUME NEW w \in Workers, Comp!FailRequest(w) PROVE Comp!TypeOK'
  BY <1>5 DEF Comp!FailRequest, Comp!Fail
<1>6. ASSUME UNCHANGED Comp!vars PROVE Comp!TypeOK'
  BY <1>6 DEF Comp!vars
<1> QED
  BY <1>1, <1>2, <1>3, <1>4, <1>5, <1>6 DEF Comp!Next

-----------------------------------------------------------------------------
\* Households.

LEMMA WrittenHousehold ==
    ASSUME NEW stored \in Homes!HouseholdRow, NEW loaded \in Homes!HouseholdRow,
           NEW assigned \in Homes!HouseholdRow
    PROVE  Homes!WrittenRow(stored, loaded, assigned) \in Homes!HouseholdRow
<1> DEFINE row == Homes!WrittenRow(stored, loaded, assigned)
<1>1. DOMAIN stored = {"is_landowner", "rnr"}
  BY DEF Homes!HouseholdRow
<1>2. \A column \in DOMAIN stored : row[column] \in {stored[column], assigned[column]}
  BY DEF Homes!WrittenRow, Homes!Written
<1>3. row = [is_landowner |-> row.is_landowner, rnr |-> row.rnr]
  BY <1>1 DEF Homes!WrittenRow
<1>4. /\ stored.is_landowner \in BOOLEAN /\ assigned.is_landowner \in BOOLEAN
      /\ row.is_landowner \in {stored.is_landowner, assigned.is_landowner}
  BY <1>1, <1>2 DEF Homes!HouseholdRow
<1>5. row.is_landowner \in BOOLEAN
  BY <1>4, Zenon
<1>6. row.rnr \in Homes!RnRStatus
  BY <1>1, <1>2 DEF Homes!HouseholdRow
<1> HIDE DEF row
<1>7. row \in Homes!HouseholdRow
  BY <1>3, <1>5, <1>6 DEF Homes!HouseholdRow
<1> QED
  BY <1>7 DEF row

LEMMA WrittenBenefit ==
    ASSUME NEW stored \in Homes!BenefitRow, NEW loaded \in Homes!BenefitRow,
           NEW assigned \in Homes!BenefitRow
    PROVE  Homes!WrittenRow(stored, loaded, assigned) \in Homes!BenefitRow
<1> DEFINE row == Homes!WrittenRow(stored, loaded, assigned)
<1>1. DOMAIN stored = {"status", "note", "evidence"}
  BY DEF Homes!BenefitRow
<1>2. \A column \in DOMAIN stored : row[column] \in {stored[column], assigned[column]}
  BY DEF Homes!WrittenRow, Homes!Written
<1>3. row = [status |-> row.status, note |-> row.note, evidence |-> row.evidence]
  BY <1>1 DEF Homes!WrittenRow
<1>4. /\ stored.note \in BOOLEAN /\ assigned.note \in BOOLEAN
      /\ row.note \in {stored.note, assigned.note}
      /\ stored.evidence \in BOOLEAN /\ assigned.evidence \in BOOLEAN
      /\ row.evidence \in {stored.evidence, assigned.evidence}
  BY <1>1, <1>2 DEF Homes!BenefitRow
<1>5. row.note \in BOOLEAN /\ row.evidence \in BOOLEAN
  BY <1>4, Zenon
<1>6. row.status \in Homes!BenefitDeliveryStatus
  BY <1>1, <1>2 DEF Homes!BenefitRow
<1> HIDE DEF row
<1>7. row \in Homes!BenefitRow
  BY <1>3, <1>5, <1>6 DEF Homes!BenefitRow
<1> QED
  BY <1>7 DEF row

LEMMA HouseholdTypes == Homes!TypeOK /\ [Homes!Next]_(Homes!vars) => Homes!TypeOK'
<1> SUFFICES ASSUME Homes!TypeOK, [Homes!Next]_(Homes!vars) PROVE Homes!TypeOK'
  OBVIOUS
<1> USE BoundsAssumption DEF Homes!RequestsOK, Homes!Finish, Homes!GoOn, Homes!Begin
<1> DEFINE Benefit == [of : Homes!HouseholdIds, row : Homes!BenefitRow]
<1>t. /\ orderly \in BOOLEAN
      /\ request \in [Workers -> {Homes!Idle} \cup Homes!Request]
      /\ households \in Seq(Homes!HouseholdRow) /\ Len(households) <= MaxHouseholds
      /\ benefits \in Seq(Benefit) /\ Len(benefits) <= MaxBenefits
  BY DEF Homes!TypeOK
<1>d. /\ DOMAIN households = 1..Len(households) /\ Len(households) \in Nat
      /\ \A h \in DOMAIN households : households[h] \in Homes!HouseholdRow
      /\ DOMAIN benefits = 1..Len(benefits) /\ Len(benefits) \in Nat
      /\ \A b \in DOMAIN benefits : benefits[b].row \in Homes!BenefitRow
  <2>1. \A b \in DOMAIN benefits : benefits[b] \in Benefit
    BY <1>t, RowsAre
  <2> QED
    BY <1>t, <2>1, RowsAre
<1>f. ASSUME NEW r \in {Homes!Idle} \cup Homes!Request
      PROVE  /\ r.op = "household" =>
                    r.loaded \in Homes!HouseholdRow /\ r.assigned \in Homes!HouseholdRow
             /\ r.op = "benefit" =>
                    r.loaded \in Homes!BenefitRow /\ r.assigned \in Homes!BenefitRow
  BY DEF Homes!Request, Homes!Idle
<1>h. ASSUME NEW w \in Workers, NEW h \in DOMAIN households,
             NEW assigned \in Homes!HouseholdRow, UNCHANGED <<orderly, households, benefits>>,
             request' = [request EXCEPT ![w] = [op |-> "household", h |-> h,
                                loaded |-> households[h], assigned |-> assigned]]
      PROVE  Homes!TypeOK'
  <2>1. h \in Homes!HouseholdIds
    BY <1>d, <1>t DEF Homes!HouseholdIds
  <2>2. [op |-> "household", h |-> h, loaded |-> households[h], assigned |-> assigned]
            \in Homes!Request
    BY <1>d, <2>1 DEF Homes!Request
  <2> QED
    BY <1>h, <1>t, <2>2 DEF Homes!TypeOK
<1>1. ASSUME NEW w \in Workers, NEW isLandowner \in BOOLEAN,
             Homes!AddAffectedPerson(w, isLandowner)
      PROVE  Homes!TypeOK'
  <2>1. [is_landowner |-> isLandowner, rnr |-> "PENDING"] \in Homes!HouseholdRow
    BY Zenon DEF Homes!HouseholdRow, Homes!RnRStatus
  <2>2. households' \in Seq(Homes!HouseholdRow) /\ Len(households') = Len(households) + 1
    BY <1>1, <1>t, <2>1, RowAdded, Zenon DEF Homes!AddAffectedPerson
  <2> QED
    BY <1>1, <1>d, <1>t, <2>2 DEF Homes!AddAffectedPerson, Homes!AtOnce, Homes!TypeOK
<1>2. ASSUME NEW w \in Workers, NEW h \in DOMAIN households,
             NEW isLandowner \in BOOLEAN, Homes!UpdateAffectedPerson(w, h, isLandowner)
      PROVE  Homes!TypeOK'
  <2>1. [households[h] EXCEPT !.is_landowner = isLandowner] \in Homes!HouseholdRow
    BY <1>d, Zenon DEF Homes!HouseholdRow
  <2> QED
    BY <1>2, <1>h, <2>1 DEF Homes!UpdateAffectedPerson
<1>3. ASSUME NEW w \in Workers, NEW h \in DOMAIN households,
             NEW status \in Homes!RnRStatus, Homes!UpdateRnr(w, h, status)
      PROVE  Homes!TypeOK'
  <2>1. [households[h] EXCEPT !.rnr = status] \in Homes!HouseholdRow
    BY <1>d DEF Homes!HouseholdRow
  <2> QED
    BY <1>3, <1>h, <2>1 DEF Homes!UpdateRnr
<1>4. ASSUME NEW w \in Workers, Homes!CommitHousehold(w) PROVE Homes!TypeOK'
  <2> DEFINE r == request[w]
             row == Homes!WrittenRow(households[r.h], r.loaded, r.assigned)
  <2>1. r.loaded \in Homes!HouseholdRow /\ r.assigned \in Homes!HouseholdRow
    BY <1>4, <1>f, <1>t DEF Homes!CommitHousehold
  <2>2. r.h \in 1..Len(households) => row \in Homes!HouseholdRow
    BY <1>d, <2>1, WrittenHousehold
  <2>3. households' = [households EXCEPT ![r.h] = row]
    BY <1>4 DEF Homes!CommitHousehold
  <2>4. UNCHANGED <<orderly, benefits>> /\ request' = [request EXCEPT ![w] = Homes!Idle]
    BY <1>4 DEF Homes!CommitHousehold
  <2> HIDE DEF row, r
  <2>5. households' \in Seq(Homes!HouseholdRow) /\ Len(households') = Len(households)
    BY <1>t, <2>2, <2>3, RowReplaced
  <2> QED
    BY <1>t, <2>4, <2>5 DEF Homes!TypeOK
<1>5. ASSUME NEW w \in Workers, NEW h \in DOMAIN households, Homes!CreateRnrBenefit(w, h)
      PROVE  Homes!TypeOK'
  <2> DEFINE benefit ==
                [of |-> h, row |-> [status |-> "PENDING", note |-> FALSE, evidence |-> FALSE]]
  <2>1. benefit \in Benefit
    BY <1>d, <1>t DEF Homes!HouseholdIds, Homes!BenefitRow, Homes!BenefitDeliveryStatus
  <2>2. benefits' = Append(benefits, benefit)
    BY <1>5 DEF Homes!CreateRnrBenefit
  <2> HIDE DEF benefit, Benefit
  <2>3. benefits' \in Seq(Benefit) /\ Len(benefits') = Len(benefits) + 1
    BY <1>t, <2>1, <2>2, RowAdded
  <2> QED
    BY <1>5, <1>d, <1>t, <2>3 DEF Homes!CreateRnrBenefit, Homes!AtOnce, Homes!TypeOK, Benefit
<1>6. ASSUME NEW w \in Workers, NEW b \in DOMAIN benefits,
             NEW assigned \in [status : Deliveries, note : BOOLEAN, evidence : BOOLEAN],
             Homes!UpdateRnrBenefit(w, b, assigned)
      PROVE  Homes!TypeOK'
  <2>1. assigned \in Homes!BenefitRow
    BY ListsAssumption DEF Homes!BenefitRow
  <2>2. b \in Homes!BenefitIds
    BY <1>d, <1>t DEF Homes!BenefitIds
  <2>3. [op |-> "benefit", b |-> b, loaded |-> benefits[b].row, assigned |-> assigned]
            \in Homes!Request
    BY <1>d, <2>1, <2>2 DEF Homes!Request
  <2> QED
    BY <1>6, <1>t, <2>3 DEF Homes!UpdateRnrBenefit, Homes!TypeOK
<1>7. ASSUME NEW w \in Workers, Homes!CommitBenefit(w) PROVE Homes!TypeOK'
  <2> DEFINE r == request[w]
             row == Homes!WrittenRow(benefits[r.b].row, r.loaded, r.assigned)
             benefit == [benefits[r.b] EXCEPT !.row = row]
  <2>1. r.loaded \in Homes!BenefitRow /\ r.assigned \in Homes!BenefitRow
    BY <1>7, <1>f, <1>t DEF Homes!CommitBenefit
  <2>2. ASSUME r.b \in 1..Len(benefits) PROVE benefit \in Benefit
    <3>1. benefits[r.b] \in Benefit
      BY <1>t, <2>2, ElementOfSeq
    <3>2. row \in Homes!BenefitRow
      BY <2>1, <3>1, WrittenBenefit
    <3> HIDE DEF row
    <3> QED
      BY <3>1, <3>2
  <2>3. benefits' = [benefits EXCEPT ![r.b] = benefit]
    BY <1>7 DEF Homes!CommitBenefit
  <2>4. UNCHANGED <<orderly, households>> /\ request' = [request EXCEPT ![w] = Homes!Idle]
    BY <1>7 DEF Homes!CommitBenefit
  <2> HIDE DEF benefit, Benefit
  <2>5. benefits' \in Seq(Benefit) /\ Len(benefits') = Len(benefits)
    BY <1>t, <2>2, <2>3, RowReplaced
  <2> QED
    BY <1>t, <2>4, <2>5 DEF Homes!TypeOK, Benefit
<1>8. ASSUME NEW w \in Workers, Homes!FailRequest(w) PROVE Homes!TypeOK'
  BY <1>8, <1>t DEF Homes!FailRequest, Homes!Fail, Homes!TypeOK
<1>9. ASSUME UNCHANGED Homes!vars PROVE Homes!TypeOK'
  BY <1>9, <1>t DEF Homes!vars, Homes!TypeOK
<1> QED
  BY <1>1, <1>2, <1>3, <1>4, <1>5, <1>6, <1>7, <1>8, <1>9 DEF Homes!Next

-----------------------------------------------------------------------------
\* Parcels.

LEMMA WrittenParcel ==
    ASSUME NEW stored \in Land!ParcelRow, NEW loaded \in Land!ParcelRow,
           NEW assigned \in Land!ParcelRow
    PROVE  Land!WrittenRow(stored, loaded, assigned) \in Land!ParcelRow
<1> DEFINE row == Land!WrittenRow(stored, loaded, assigned)
<1>1. DOMAIN stored = {"survey", "ulpin", "status"}
  BY DEF Land!ParcelRow
<1>2. \A column \in DOMAIN stored : row[column] \in {stored[column], assigned[column]}
  BY DEF Land!WrittenRow, Land!Written
<1>3. row = [survey |-> row.survey, ulpin |-> row.ulpin, status |-> row.status]
  BY <1>1 DEF Land!WrittenRow
<1>4. /\ row.survey \in SurveyNumbers /\ row.ulpin \in Ulpins \cup {NoUlpin}
      /\ row.status \in Land!ParcelStatus
  BY <1>1, <1>2 DEF Land!ParcelRow
<1> HIDE DEF row
<1>5. row \in Land!ParcelRow
  BY <1>3, <1>4 DEF Land!ParcelRow
<1> QED
  BY <1>5 DEF row

ParcelTypes == Land!TypeOK /\ Len(parcels) <= MaxParcels

LEMMA ParcelTypesInductive == ParcelTypes /\ [Land!Next]_(Land!vars) => ParcelTypes'
<1> SUFFICES ASSUME ParcelTypes, [Land!Next]_(Land!vars) PROVE ParcelTypes'
  OBVIOUS
<1> USE BoundsAssumption DEF Land!RequestsOK, Land!Finish, Land!GoOn, Land!Begin
<1> DEFINE Parcel == [case : Cases, row : Land!ParcelRow]
<1>t. /\ orderly \in BOOLEAN
      /\ request \in [Workers -> {Land!Idle} \cup Land!Request]
      /\ parcels \in Seq(Parcel) /\ Len(parcels) <= MaxParcels
      /\ pushes \in Seq(Land!Push) /\ mutations \in Seq(Land!Push)
  BY DEF ParcelTypes, Land!TypeOK
<1>d. /\ Land!Ids = 1..Len(parcels) /\ Len(parcels) \in Nat
      /\ \A p \in Land!Ids : parcels[p].row \in Land!ParcelRow /\ p \in 1..MaxParcels
  <2>1. \A p \in DOMAIN parcels : parcels[p] \in Parcel
    BY <1>t, RowsAre
  <2>2. Land!Ids = 1..Len(parcels) /\ Len(parcels) \in Nat
    BY <1>t, RowsAre DEF Land!Ids
  <2> QED
    BY <1>t, <2>1, <2>2 DEF Land!Ids
<1>f. ASSUME NEW r \in {Land!Idle} \cup Land!Request
      PROVE  /\ r.op = "create" => r.case \in Cases /\ r.row \in Land!ParcelRow
             /\ r.op = "update" => r.loaded \in Land!ParcelRow /\ r.assigned \in Land!ParcelRow
             /\ r.op \in {"push", "pushed"} =>
                    /\ r.push \in Land!Push
                    /\ [r EXCEPT !.op = "pushed"] \in Land!Request
  BY DEF Land!Request, Land!Idle
<1>1. ASSUME NEW w \in Workers, NEW case \in Cases, NEW row \in Land!ParcelRow,
             Land!CreateParcel(w, case, row)
      PROVE  ParcelTypes'
  <2>1. [op |-> "create", case |-> case, row |-> row] \in Land!Request
    BY DEF Land!Request
  <2> QED
    BY <1>1, <1>t, <2>1 DEF Land!CreateParcel, ParcelTypes, Land!TypeOK
<1>2. ASSUME NEW w \in Workers, Land!CommitCreate(w) PROVE ParcelTypes'
  <2> DEFINE parcel == [case |-> request[w].case, row |-> request[w].row]
  <2>1. parcel \in Parcel
    BY <1>2, <1>f, <1>t DEF Land!CommitCreate
  <2>2. parcels' = Append(parcels, parcel)
    BY <1>2 DEF Land!CommitCreate
  <2> HIDE DEF parcel, Parcel
  <2>3. parcels' \in Seq(Parcel) /\ Len(parcels') = Len(parcels) + 1
    BY <1>t, <2>1, <2>2, RowAdded
  <2> QED
    BY <1>2, <1>d, <1>t, <2>3 DEF Land!CommitCreate, ParcelTypes, Land!TypeOK, Parcel
<1>3. ASSUME NEW w \in Workers, NEW p \in Land!Ids, NEW assigned \in Land!ParcelRow,
             Land!UpdateParcel(w, p, assigned)
      PROVE  ParcelTypes'
  <2>1. [op |-> "update", p |-> p, loaded |-> parcels[p].row, assigned |-> assigned]
            \in Land!Request
    BY <1>d DEF Land!Request
  <2> QED
    BY <1>3, <1>t, <2>1 DEF Land!UpdateParcel, ParcelTypes, Land!TypeOK
<1>4. ASSUME NEW w \in Workers, Land!CommitUpdate(w) PROVE ParcelTypes'
  <2> DEFINE r == request[w]
             row == Land!WrittenRow(parcels[r.p].row, r.loaded, r.assigned)
             parcel == [parcels[r.p] EXCEPT !.row = row]
  <2>1. r.loaded \in Land!ParcelRow /\ r.assigned \in Land!ParcelRow
    BY <1>4, <1>f, <1>t DEF Land!CommitUpdate
  <2>2. ASSUME r.p \in 1..Len(parcels) PROVE parcel \in Parcel
    <3>1. parcels[r.p] \in Parcel
      BY <1>t, <2>2, ElementOfSeq
    <3>2. row \in Land!ParcelRow
      BY <2>1, <3>1, WrittenParcel
    <3> HIDE DEF row
    <3> QED
      BY <3>1, <3>2
  <2>3. parcels' = [parcels EXCEPT ![r.p] = parcel]
    BY <1>4 DEF Land!CommitUpdate
  <2>4. /\ UNCHANGED <<orderly, pushes, mutations>>
        /\ request' = [request EXCEPT ![w] = Land!Idle]
    BY <1>4 DEF Land!CommitUpdate
  <2> HIDE DEF parcel, Parcel
  <2>5. parcels' \in Seq(Parcel) /\ Len(parcels') = Len(parcels)
    BY <1>t, <2>2, <2>3, RowReplaced
  <2> QED
    BY <1>t, <2>4, <2>5 DEF ParcelTypes, Land!TypeOK, Parcel
<1>5. ASSUME NEW w \in Workers, NEW p \in Land!Ids, Land!RequestMutation(w, p)
      PROVE  ParcelTypes'
  <2>1. [op |-> "push", push |-> [p |-> p, ulpin |-> parcels[p].row.ulpin]] \in Land!Request
    BY <1>d DEF Land!Request, Land!Push, Land!ParcelRow
  <2> QED
    BY <1>5, <1>t, <2>1 DEF Land!RequestMutation, ParcelTypes, Land!TypeOK
<1>6. ASSUME NEW w \in Workers, Land!PushMutation(w) PROVE ParcelTypes'
  <2>1. request[w].push \in Land!Push /\ [request[w] EXCEPT !.op = "pushed"] \in Land!Request
    BY <1>6, <1>f, <1>t DEF Land!PushMutation
  <2>2. pushes' \in Seq(Land!Push)
    BY <1>6, <1>t, <2>1, RowAdded DEF Land!PushMutation
  <2> QED
    BY <1>6, <1>t, <2>1, <2>2 DEF Land!PushMutation, ParcelTypes, Land!TypeOK
<1>7. ASSUME NEW w \in Workers, Land!CommitMutation(w) PROVE ParcelTypes'
  <2>1. request[w].push \in Land!Push
    BY <1>7, <1>f, <1>t DEF Land!CommitMutation
  <2>2. mutations' \in Seq(Land!Push)
    BY <1>7, <1>t, <2>1, RowAdded DEF Land!CommitMutation
  <2> QED
    BY <1>7, <1>t, <2>2 DEF Land!CommitMutation, ParcelTypes, Land!TypeOK
<1>8. ASSUME NEW w \in Workers, Land!UlpinRefused(w) \/ Land!FailRequest(w) PROVE ParcelTypes'
  BY <1>8, <1>t DEF Land!UlpinRefused, Land!FailRequest, Land!Fail, ParcelTypes, Land!TypeOK
<1>9. ASSUME UNCHANGED Land!vars PROVE ParcelTypes'
  BY <1>9, <1>t DEF Land!vars, ParcelTypes, Land!TypeOK
<1> QED
  BY <1>1, <1>2, <1>3, <1>4, <1>5, <1>6, <1>7, <1>8, <1>9 DEF Land!Next

-----------------------------------------------------------------------------
\* Objections.

LEMMA WrittenObjection ==
    ASSUME NEW stored \in Objs!ObjectionRow, NEW loaded \in Objs!ObjectionRow,
           NEW assigned \in Objs!ObjectionRow
    PROVE  Objs!WrittenRow(stored, loaded, assigned) \in Objs!ObjectionRow
<1> DEFINE row == Objs!WrittenRow(stored, loaded, assigned)
<1>1. DOMAIN stored = {"status", "response", "responded"}
  BY DEF Objs!ObjectionRow
<1>2. \A column \in DOMAIN stored : row[column] \in {stored[column], assigned[column]}
  BY DEF Objs!WrittenRow, Objs!Written
<1>3. row = [status |-> row.status, response |-> row.response, responded |-> row.responded]
  BY <1>1 DEF Objs!WrittenRow
<1>4. /\ row.status \in Objs!ObjectionStatus
      /\ row.response \in ResponseTexts \cup {Objs!NoText}
      /\ row.responded \in Objs!NoDate..LastDay
  <2>1. /\ row.status \in {stored.status, assigned.status}
        /\ row.response \in {stored.response, assigned.response}
        /\ row.responded \in {stored.responded, assigned.responded}
    BY <1>1, <1>2
  <2> HIDE DEF row
  <2> QED
    BY <2>1 DEF Objs!ObjectionRow
<1> HIDE DEF row
<1>5. row \in Objs!ObjectionRow
  BY <1>3, <1>4 DEF Objs!ObjectionRow
<1> QED
  BY <1>5 DEF row

\* An answer under way has a text.
ObjectionTypes ==
    /\ Objs!TypeOK
    /\ \A w \in Workers : request[w] # Objs!Idle => request[w].assigned.response \in ResponseTexts

LEMMA ObjectionTypesInductive ==
    ObjectionTypes /\ [Objs!Next]_(Objs!vars) => ObjectionTypes'
<1> SUFFICES ASSUME ObjectionTypes, [Objs!Next]_(Objs!vars) PROVE ObjectionTypes'
  OBVIOUS
<1> USE BoundsAssumption DEF Objs!RequestsOK, Objs!Finish, Objs!GoOn, Objs!Begin
<1> DEFINE Objection == [reach : Objs!Reach, row : Objs!ObjectionRow]
<1>t. /\ orderly \in BOOLEAN
      /\ request \in [Workers -> {Objs!Idle} \cup Objs!Request]
      /\ objections \in Seq(Objection) /\ Len(objections) <= MaxObjections
      /\ inbox \in [Objs!Ids -> Objs!Answer \cup {Objs!NoAnswer}]
      /\ texted \in [Objs!Ids -> SUBSET Objs!Answer]
      /\ today \in 1..LastDay
  BY DEF ObjectionTypes, Objs!TypeOK
<1>d. /\ Objs!Rows = 1..Len(objections) /\ Len(objections) \in Nat
      /\ \A o \in Objs!Rows : objections[o].row \in Objs!ObjectionRow /\ o \in Objs!Ids
  <2>1. \A o \in DOMAIN objections : objections[o] \in Objection
    BY <1>t, RowsAre
  <2>2. Objs!Rows = 1..Len(objections) /\ Len(objections) \in Nat
    BY <1>t, RowsAre DEF Objs!Rows
  <2> QED
    BY <1>t, <2>1, <2>2 DEF Objs!Rows, Objs!Ids
<1>f. ASSUME NEW w \in Workers, request[w].op \in {"answer", "told"}
      PROVE  /\ request[w] \in Objs!Request
             /\ request[w].loaded \in Objs!ObjectionRow
             /\ request[w].assigned \in Objs!ObjectionRow
             /\ request[w].assigned.response \in ResponseTexts
  <2>1. request[w] # Objs!Idle
    BY <1>f DEF Objs!Idle
  <2> QED
    BY <1>t, <2>1 DEF ObjectionTypes, Objs!Request
<1>r. ASSUME NEW w \in Workers, NEW r \in {Objs!Idle} \cup Objs!Request,
             request' = [request EXCEPT ![w] = r],
             r # Objs!Idle => r.assigned.response \in ResponseTexts
      PROVE  /\ request' \in [Workers -> {Objs!Idle} \cup Objs!Request]
             /\ \A v \in Workers : request'[v] # Objs!Idle
                                    => request'[v].assigned.response \in ResponseTexts
  BY <1>r, <1>t DEF ObjectionTypes
<1>1. ASSUME NEW w \in Workers, NEW reach \in Objs!Reach, Objs!FileObjection(w, reach)
      PROVE  ObjectionTypes'
  <2> DEFINE objection == [reach |-> reach,
                           row |-> [status |-> "FILED", response |-> Objs!NoText,
                                    responded |-> Objs!NoDate]]
  <2>1. objection \in Objection
    BY DEF Objs!ObjectionRow, Objs!ObjectionStatus, Objs!NoDate
  <2>2. objections' = Append(objections, objection)
    BY <1>1 DEF Objs!FileObjection
  <2> HIDE DEF objection, Objection
  <2>3. objections' \in Seq(Objection) /\ Len(objections') = Len(objections) + 1
    BY <1>t, <2>1, <2>2, RowAdded
  <2> QED
    BY <1>1, <1>d, <1>t, <2>3
    DEF Objs!FileObjection, Objs!AtOnce, ObjectionTypes, Objs!TypeOK, Objection
<1>2. ASSUME NEW w \in Workers, NEW o \in Objs!Rows,
             NEW status \in Objs!ObjectionStatus \ {"FILED"}, NEW response \in ResponseTexts,
             Objs!RespondToObjection(w, o, status, response)
      PROVE  ObjectionTypes'
  <2> DEFINE assigned == [status |-> status, response |-> response,
                          responded |-> IF status \in Objs!Decision THEN today ELSE Objs!NoDate]
             r == [op |-> "answer", o |-> o, loaded |-> objections[o].row,
                   assigned |-> assigned]
  <2>1. assigned \in Objs!ObjectionRow /\ assigned.response \in ResponseTexts
    BY <1>t DEF Objs!ObjectionRow, Objs!NoDate
  <2>2. request' = [request EXCEPT ![w] = r]
    BY <1>2 DEF Objs!RespondToObjection
  <2> HIDE DEF assigned
  <2>3. r \in Objs!Request /\ r.assigned.response \in ResponseTexts
    BY <1>d, <2>1 DEF Objs!Request
  <2> HIDE DEF r
  <2> QED
    BY <1>2, <1>r, <1>t, <2>2, <2>3 DEF Objs!RespondToObjection, ObjectionTypes, Objs!TypeOK
<1>a. ASSUME NEW w \in Workers, request[w].op \in {"answer", "told"},
             request[w].assigned.status \in Objs!Decision
      PROVE  Objs!AnswerOf(request[w]) \in Objs!Answer
  BY <1>a, <1>f DEF Objs!AnswerOf, Objs!Answer
<1>3. ASSUME NEW w \in Workers, Objs!NotifyFiler(w) PROVE ObjectionTypes'
  <2> DEFINE r == [request[w] EXCEPT !.op = "told"]
  <2>1. r \in Objs!Request /\ r.assigned.response \in ResponseTexts
    BY <1>3, <1>f DEF Objs!NotifyFiler, Objs!Request
  <2>2. request' = [request EXCEPT ![w] = r]
    BY <1>3 DEF Objs!NotifyFiler
  <2>3. texted' \in [Objs!Ids -> SUBSET Objs!Answer]
    BY <1>3, <1>a, <1>t DEF Objs!NotifyFiler
  <2> HIDE DEF r
  <2> QED
    BY <1>3, <1>r, <1>t, <2>1, <2>2, <2>3 DEF Objs!NotifyFiler, ObjectionTypes, Objs!TypeOK
<1>4. ASSUME NEW w \in Workers, Objs!CommitAnswer(w) PROVE ObjectionTypes'
  <2> DEFINE r == request[w]
             row == Objs!WrittenRow(objections[r.o].row, r.loaded, r.assigned)
             objection == [objections[r.o] EXCEPT !.row = row]
  <2>1. r.loaded \in Objs!ObjectionRow /\ r.assigned \in Objs!ObjectionRow
    BY <1>4, <1>f DEF Objs!CommitAnswer
  <2>2. ASSUME r.o \in 1..Len(objections) PROVE objection \in Objection
    <3>1. objections[r.o] \in Objection
      BY <1>t, <2>2, ElementOfSeq
    <3>2. row \in Objs!ObjectionRow
      BY <2>1, <3>1, WrittenObjection
    <3> HIDE DEF row
    <3> QED
      BY <3>1, <3>2
  <2>3. objections' = [objections EXCEPT ![r.o] = objection]
    BY <1>4 DEF Objs!CommitAnswer
  <2>4. inbox' \in [Objs!Ids -> Objs!Answer \cup {Objs!NoAnswer}]
    BY <1>4, <1>a, <1>t DEF Objs!CommitAnswer
  <2>5. UNCHANGED <<orderly, texted, today>> /\ request' = [request EXCEPT ![w] = Objs!Idle]
    BY <1>4 DEF Objs!CommitAnswer
  <2> HIDE DEF objection, Objection
  <2>6. objections' \in Seq(Objection) /\ Len(objections') = Len(objections)
    BY <1>t, <2>2, <2>3, RowReplaced
  <2> QED
    BY <1>r, <1>t, <2>4, <2>5, <2>6 DEF ObjectionTypes, Objs!TypeOK, Objection
<1>5. ASSUME NEW w \in Workers, Objs!FailRequest(w) PROVE ObjectionTypes'
  BY <1>5, <1>r, <1>t DEF Objs!FailRequest, Objs!Fail, ObjectionTypes, Objs!TypeOK
<1>6. ASSUME Objs!DayPasses \/ UNCHANGED Objs!vars PROVE ObjectionTypes'
  BY <1>6, <1>t DEF Objs!DayPasses, Objs!vars, ObjectionTypes, Objs!TypeOK
<1> QED
  BY <1>1, <1>2, <1>3, <1>4, <1>5, <1>6 DEF Objs!Next

-----------------------------------------------------------------------------
\* Invitations.

LEMMA WrittenInvite ==
    ASSUME NEW stored \in Invites!InviteRow, NEW loaded \in Invites!InviteRow,
           NEW assigned \in Invites!InviteRow
    PROVE  Invites!WrittenRow(stored, loaded, assigned) \in Invites!InviteRow
<1> DEFINE row == Invites!WrittenRow(stored, loaded, assigned)
<1>1. DOMAIN stored = {"issued", "used", "revoked", "plain"}
  BY DEF Invites!InviteRow
<1>2. \A column \in DOMAIN stored : row[column] \in {stored[column], assigned[column]}
  BY DEF Invites!WrittenRow, Invites!Written
<1>3. row = [issued |-> row.issued, used |-> row.used, revoked |-> row.revoked,
             plain |-> row.plain]
  BY <1>1 DEF Invites!WrittenRow
<1>4. /\ stored.issued \in BOOLEAN /\ assigned.issued \in BOOLEAN
      /\ stored.revoked \in BOOLEAN /\ assigned.revoked \in BOOLEAN
      /\ stored.plain \in BOOLEAN /\ assigned.plain \in BOOLEAN
      /\ row.issued \in {stored.issued, assigned.issued}
      /\ row.revoked \in {stored.revoked, assigned.revoked}
      /\ row.plain \in {stored.plain, assigned.plain}
  BY <1>1, <1>2 DEF Invites!InviteRow
<1>5. row.issued \in BOOLEAN /\ row.revoked \in BOOLEAN /\ row.plain \in BOOLEAN
  BY <1>4, Zenon
<1>6. row.used \in Nat
  BY <1>1, <1>2 DEF Invites!InviteRow
<1> HIDE DEF row
<1>7. row \in Invites!InviteRow
  BY <1>3, <1>5, <1>6 DEF Invites!InviteRow
<1> QED
  BY <1>7 DEF row

LEMMA InviteTypes == Invites!TypeOK /\ [Invites!Next]_(Invites!vars) => Invites!TypeOK'
<1> SUFFICES ASSUME Invites!TypeOK, [Invites!Next]_(Invites!vars) PROVE Invites!TypeOK'
  OBVIOUS
<1> USE DEF Invites!TypeOK, Invites!RequestsOK, Invites!Finish, Invites!GoOn, Invites!Begin
<1>f. ASSUME NEW r \in {Invites!Idle} \cup Invites!Request
      PROVE  /\ r # Invites!Idle =>
                    r.loaded \in Invites!InviteRow /\ r.assigned \in Invites!InviteRow
             /\ r.op = "register" => r.name \in Usernames
  BY DEF Invites!Request, Invites!Idle
<1>e. /\ [invite EXCEPT !.issued = TRUE, !.plain = TRUE] \in Invites!InviteRow
      /\ [invite EXCEPT !.revoked = TRUE, !.plain = FALSE] \in Invites!InviteRow
      /\ [invite EXCEPT !.plain = FALSE] \in Invites!InviteRow
      /\ [invite EXCEPT !.used = @ + 1] \in Invites!InviteRow
  <2>1. invite \in Invites!InviteRow
    OBVIOUS
  <2>2. [invite EXCEPT !.used = @ + 1] \in Invites!InviteRow
    BY <2>1 DEF Invites!InviteRow
  <2>3. ASSUME NEW row \in Invites!InviteRow
        PROVE  /\ [row EXCEPT !.issued = TRUE] \in Invites!InviteRow
               /\ [row EXCEPT !.revoked = TRUE] \in Invites!InviteRow
               /\ [row EXCEPT !.plain = TRUE] \in Invites!InviteRow
               /\ [row EXCEPT !.plain = FALSE] \in Invites!InviteRow
    BY Zenon DEF Invites!InviteRow
  <2> QED
    BY <2>1, <2>2, <2>3
<1>1. ASSUME NEW w \in Workers, Invites!IssueInviteCode(w) PROVE Invites!TypeOK'
  BY <1>1, <1>e DEF Invites!IssueInviteCode
<1>2. ASSUME NEW w \in Workers, NEW name \in Usernames, Invites!Register(w, name)
      PROVE  Invites!TypeOK'
  <2>1. [op |-> "register", name |-> name, loaded |-> invite,
         assigned |-> [invite EXCEPT !.used = @ + 1]] \in Invites!Request
    BY <1>e DEF Invites!Request
  <2> QED
    BY <1>2, <2>1 DEF Invites!Register
<1>3. ASSUME NEW w \in Workers, Invites!CommitRegister(w) PROVE Invites!TypeOK'
  <2>1. request[w] # Invites!Idle
    BY <1>3 DEF Invites!CommitRegister, Invites!Idle
  <2>2. invite' \in Invites!InviteRow /\ accounts' \subseteq Usernames
    BY <1>3, <1>f, <2>1, WrittenInvite DEF Invites!CommitRegister
  <2> QED
    BY <1>3, <2>2 DEF Invites!CommitRegister
<1>4. ASSUME NEW w \in Workers, NEW op \in {"revoke", "wipe"},
             NEW assigned \in Invites!InviteRow, UNCHANGED <<orderly, invite, expired, accounts>>,
             request' = [request EXCEPT ![w] =
                            [op |-> op, loaded |-> invite, assigned |-> assigned]]
      PROVE  Invites!TypeOK'
  <2>1. [op |-> op, loaded |-> invite, assigned |-> assigned] \in Invites!Request
    BY DEF Invites!Request
  <2> QED
    BY <1>4, <2>1
<1>5. ASSUME NEW w \in Workers, Invites!RevokeInviteCode(w) PROVE Invites!TypeOK'
  BY <1>4, <1>5, <1>e DEF Invites!RevokeInviteCode
<1>6. ASSUME NEW w \in Workers, Invites!ListInviteCodes(w) PROVE Invites!TypeOK'
  BY <1>4, <1>6, <1>e DEF Invites!ListInviteCodes
<1>7. ASSUME NEW w \in Workers, Invites!CommitInvite(w) PROVE Invites!TypeOK'
  <2>1. request[w] # Invites!Idle
    BY <1>7 DEF Invites!CommitInvite, Invites!Idle
  <2>2. invite' \in Invites!InviteRow
    BY <1>7, <1>f, <2>1, WrittenInvite DEF Invites!CommitInvite
  <2> QED
    BY <1>7, <2>2 DEF Invites!CommitInvite
<1>8. ASSUME NEW w \in Workers, Invites!UsernameTaken(w) \/ Invites!FailRequest(w)
      PROVE  Invites!TypeOK'
  BY <1>8 DEF Invites!UsernameTaken, Invites!FailRequest, Invites!Fail
<1>9. ASSUME Invites!Expire \/ UNCHANGED Invites!vars PROVE Invites!TypeOK'
  BY <1>9 DEF Invites!Expire, Invites!vars
<1> QED
  BY <1>1, <1>2, <1>3, <1>5, <1>6, <1>7, <1>8, <1>9 DEF Invites!Next

-----------------------------------------------------------------------------
\* Grievances.

LEMMA WrittenGrievance ==
    ASSUME NEW stored \in Griev!GrievanceRow, NEW loaded \in Griev!GrievanceRow,
           NEW assigned \in Griev!GrievanceRow
    PROVE  Griev!WrittenRow(stored, loaded, assigned) \in Griev!GrievanceRow
<1> DEFINE row == Griev!WrittenRow(stored, loaded, assigned)
<1>1. DOMAIN stored = {"status", "responded"}
  BY DEF Griev!GrievanceRow
<1>2. \A column \in DOMAIN stored : row[column] \in {stored[column], assigned[column]}
  BY DEF Griev!WrittenRow, Griev!Written
<1>3. row = [status |-> row.status, responded |-> row.responded]
  BY <1>1 DEF Griev!WrittenRow
<1>4. /\ stored.responded \in BOOLEAN /\ assigned.responded \in BOOLEAN
      /\ row.responded \in {stored.responded, assigned.responded}
  BY <1>1, <1>2 DEF Griev!GrievanceRow
<1>5. row.responded \in BOOLEAN
  BY <1>4, Zenon
<1>6. row.status \in Griev!GrievanceStatus
  BY <1>1, <1>2 DEF Griev!GrievanceRow
<1> HIDE DEF row
<1>7. row \in Griev!GrievanceRow
  BY <1>3, <1>5, <1>6 DEF Griev!GrievanceRow
<1> QED
  BY <1>7 DEF row

\* Numbers written with the same number of digits are in order.
LEMMA PaddedOrder ==
    ASSUME NEW m \in Nat, NEW n \in Nat, NEW width \in Nat,
           Griev!Digits(m, width) = width, Griev!Digits(n, width) = width
    PROVE  Griev!SortsBefore(m, n, width) <=> m < n
<1>1. 10 ^ (width - width) = 1
  <2>1. width - width = 0
    OBVIOUS
  <2>2. 10 ^ 0 = 1
    OBVIOUS
  <2> QED
    BY <2>1, <2>2, Zenon
<1>2. m \div 1 = m /\ n \div 1 = n /\ ~(width < width)
  OBVIOUS
<1>3. Griev!SortsBefore(m, n, width)
        <=> m \div 10 ^ (width - width) < n \div 10 ^ (width - width)
  BY <1>2 DEF Griev!SortsBefore
<1> QED
  BY <1>1, <1>2, <1>3

LEMMA OrderOfGrievances ==
    ASSUME NEW m \in Nat, NEW n \in Nat, m < 100000, n < 100000
    PROVE  Griev!SortsBefore(m, n, Griev!GrievanceNumberWidth) <=> m < n
<1> DEFINE width == Griev!GrievanceNumberWidth
<1>1. Griev!Digits(m, width) = width /\ Griev!Digits(n, width) = width /\ width \in Nat
  BY SMT DEF Griev!Digits, Griev!GrievanceNumberWidth
<1> HIDE DEF width
<1>2. Griev!SortsBefore(m, n, width) <=> m < n
  BY <1>1, PaddedOrder, SMT
<1> QED
  BY <1>2, SMT DEF width

\* A number minted after numbers in order is one more than one of them.
LEMMA MintedAfter ==
    ASSUME NEW top \in Nat, NEW issued, issued \subseteq 1..top, NEW width,
           \A m, n \in 1..top : Griev!SortsBefore(m, n, width) <=> m < n
    PROVE  Griev!NextNumber(issued, width) \in 1..top + 1
<1>1. CASE issued = {}
  BY <1>1 DEF Griev!NextNumber
<1>2. CASE issued # {}
  <2>1. PICK g \in issued : \A m \in issued : m <= g
    <3>1. issued \subseteq Nat /\ 1 \in Int /\ top \in Int
      OBVIOUS
    <3>2. IsFiniteSet(issued)
      BY <3>1, FS_Interval, FS_Subset, Zenon
    <3> QED
      BY <1>2, <3>1, <3>2, GreatestNatural, Zenon
  <2>2. ASSUME NEW m \in issued PROVE ~Griev!SortsBefore(g, m, width)
    <3>1. g \in 1..top /\ m \in 1..top /\ m <= g
      BY <2>1
    <3>2. Griev!SortsBefore(g, m, width) <=> g < m
      BY <3>1, Zenon
    <3> QED
      BY <3>1, <3>2
  <2>3. \A m \in issued : ~Griev!SortsBefore(g, m, width)
    BY <2>2, Zenon
  <2>4. Griev!Latest(issued, width) \in issued
    BY <2>3, Zenon DEF Griev!Latest
  <2>5. Griev!NextNumber(issued, width) = Griev!Latest(issued, width) + 1
    BY <1>2, Zenon DEF Griev!NextNumber
  <2>6. Griev!Latest(issued, width) + 1 \in 1..top + 1
    <3> DEFINE last == Griev!Latest(issued, width)
    <3>1. last \in 1..top
      BY <2>4
    <3> HIDE DEF last
    <3>2. last + 1 \in 1..top + 1
      BY <3>1
    <3> QED
      BY <3>2 DEF last
  <2> QED
    BY <2>5, <2>6, Zenon
<1> QED
  BY <1>1, <1>2, Zenon

LEMMA MintedIsNear ==
    ASSUME NEW top \in Nat, top <= MaxGrievances, Griev!Issued \subseteq 1..top
    PROVE  Griev!NextGrievanceNumber \in 1..top + 1
<1>1. \A m, n \in 1..top : Griev!SortsBefore(m, n, Griev!GrievanceNumberWidth) <=> m < n
  BY OrderOfGrievances, GrievanceBoundsAssumption, SMT
<1> QED
  BY <1>1, MintedAfter, Zenon DEF Griev!NextGrievanceNumber

\* No number is higher than the grievances are many, or than that and one.
GrievanceTypes ==
    /\ Griev!TypeOK
    /\ Griev!Issued \subseteq 1..Len(grievances)
    /\ \A w \in Workers : request[w].op = "file" => request[w].number <= Len(grievances) + 1

Grievance ==
    [number : Griev!Id, row : Griev!GrievanceRow, history : Seq(Griev!Move)]

\* A grievance is added with a number that is not too high.
LEMMA FiledType ==
    ASSUME GrievanceTypes, NEW number \in 1..Len(grievances) + 1,
           Len(grievances) < MaxGrievances, Griev!Filed(number)
    PROVE  /\ grievances' \in Seq(Grievance) /\ Len(grievances') = Len(grievances) + 1
           /\ Griev!Issued' \subseteq 1..Len(grievances')
<1> DEFINE grievance ==
        [number |-> number, row |-> [status |-> "SUBMITTED", responded |-> FALSE],
         history |-> <<[from |-> Griev!NoStatus, to |-> "SUBMITTED"]>>]
<1>1. /\ grievances \in Seq(Grievance) /\ Len(grievances) \in Nat
      /\ MaxGrievances \in Nat
  BY GrievanceBoundsAssumption, SMT DEF GrievanceTypes, Griev!TypeOK, Grievance
<1>2. grievance \in Grievance /\ grievance.number = number
  <2>1. number \in Griev!Id
    BY <1>1 DEF Griev!Id
  <2>2. [status |-> "SUBMITTED", responded |-> FALSE] \in Griev!GrievanceRow
    BY DEF Griev!GrievanceRow, Griev!GrievanceStatus
  <2>3. <<[from |-> Griev!NoStatus, to |-> "SUBMITTED"]>> \in Seq(Griev!Move)
    BY DEF Griev!Move, Griev!GrievanceStatus
  <2> QED
    BY <2>1, <2>2, <2>3 DEF Grievance
<1>3. grievances' = Append(grievances, grievance)
  BY DEF Griev!Filed
<1> HIDE DEF grievance
<1>4. /\ grievances' \in Seq(Grievance) /\ Len(grievances') = Len(grievances) + 1
      /\ \A g \in 1..Len(grievances) : grievances'[g] = grievances[g]
      /\ grievances'[Len(grievances) + 1] = grievance
  <2> HIDE DEF Grievance
  <2> QED
    BY <1>1, <1>2, <1>3, AppendProperties
<1>5. ASSUME NEW g \in DOMAIN grievances' PROVE grievances'[g].number \in 1..Len(grievances')
  <2>1. g \in 1..Len(grievances) + 1
    BY <1>4, <1>5
  <2>2. CASE g = Len(grievances) + 1
    BY <1>1, <1>2, <1>4, <2>2
  <2>3. CASE g # Len(grievances) + 1
    <3>1. g \in 1..Len(grievances) /\ g \in Griev!Rows
      BY <1>1, <2>1, <2>3 DEF Griev!Rows
    <3>2. grievances'[g].number \in Griev!Issued
      BY <1>4, <3>1 DEF Griev!Issued
    <3>3. grievances'[g].number \in 1..Len(grievances)
      BY <3>2, Zenon DEF GrievanceTypes
    <3> QED
      BY <1>1, <1>4, <3>3
  <2> QED
    BY <2>2, <2>3
<1> QED
  BY <1>4, <1>5 DEF Griev!Issued, Griev!Rows

LEMMA GrievanceTypesInductive ==
    GrievanceTypes /\ [Griev!Next]_(Griev!vars) => GrievanceTypes'
<1> SUFFICES ASSUME GrievanceTypes, [Griev!Next]_(Griev!vars) PROVE GrievanceTypes'
  OBVIOUS
<1> USE DEF Griev!RequestsOK, Griev!Finish, Griev!GoOn, Griev!Begin
<1>t. /\ orderly \in BOOLEAN
      /\ request \in [Workers -> {Griev!Idle} \cup Griev!Request]
      /\ grievances \in Seq(Grievance) /\ Len(grievances) <= MaxGrievances
      /\ Len(grievances) \in Nat /\ MaxGrievances \in Nat
  BY GrievanceBoundsAssumption, SMT DEF GrievanceTypes, Griev!TypeOK, Grievance
<1>d. /\ Griev!Rows = 1..Len(grievances)
      /\ \A g \in Griev!Rows : grievances[g] \in Grievance /\ g \in Griev!Id
  <2>1. Griev!Rows = 1..Len(grievances)
    BY <1>t DEF Griev!Rows
  <2>2. \A g \in Griev!Rows : grievances[g] \in Grievance
    <3> HIDE DEF Grievance
    <3> QED
      BY <1>t, <2>1, ElementOfSeq
  <2> QED
    BY <1>t, <2>1, <2>2 DEF Griev!Id
<1>n. Griev!NextGrievanceNumber \in 1..Len(grievances) + 1
  BY <1>t, MintedIsNear DEF GrievanceTypes
<1>i. Griev!Idle.op # "file"
  BY DEF Griev!Idle
\* A request changes, and there are no fewer grievances.
<1>r. ASSUME NEW w \in Workers, NEW r \in {Griev!Idle} \cup Griev!Request,
             request' = [request EXCEPT ![w] = r], orderly' = orderly,
             r.op = "file" => r.number <= Len(grievances) + 1,
             grievances' \in Seq(Grievance), Len(grievances') <= MaxGrievances,
             Len(grievances) <= Len(grievances'),
             Griev!Issued' \subseteq 1..Len(grievances')
      PROVE  GrievanceTypes'
  <2>1. Griev!TypeOK'
    BY <1>r, <1>t DEF Griev!TypeOK, Grievance
  <2>2. ASSUME NEW v \in Workers, request'[v].op = "file"
        PROVE  request'[v].number <= Len(grievances') + 1
    <3>1. request'[v].number <= Len(grievances) + 1 /\ request'[v].number \in Nat
      <4>1. request'[v] = IF v = w THEN r ELSE request[v]
        BY <1>r, <1>t
      <4>2. request'[v] \in Griev!Request
        BY <1>r, <1>t, <1>i, <2>2, <4>1
      <4>3. request'[v].number \in Nat
        BY <2>2, <4>2 DEF Griev!Request
      <4> QED
        BY <1>r, <2>2, <4>1, <4>3 DEF GrievanceTypes
    <3> QED
      BY <1>r, <1>t, <3>1
  <2> QED
    BY <1>r, <2>1, <2>2 DEF GrievanceTypes
<1>k. ASSUME NEW w \in Workers, NEW r \in {Griev!Idle} \cup Griev!Request,
             request' = [request EXCEPT ![w] = r], UNCHANGED <<orderly, grievances>>,
             r.op = "file" => r.number <= Len(grievances) + 1
      PROVE  GrievanceTypes'
  <2>1. Griev!Issued' = Griev!Issued /\ Len(grievances) <= Len(grievances')
    BY <1>k, <1>t DEF Griev!Issued, Griev!Rows
  <2>2. Griev!Issued' \subseteq 1..Len(grievances')
    BY <1>k, <2>1 DEF GrievanceTypes
  <2> HIDE DEF Grievance
  <2> QED
    BY <1>k, <1>r, <1>t, <2>1, <2>2
<1>1. ASSUME NEW w \in Workers, Griev!FileGrievance(w) PROVE GrievanceTypes'
  <2>1. Len(grievances) < MaxGrievances /\ Griev!Filed(Griev!NextGrievanceNumber)
        /\ UNCHANGED <<orderly, request>>
    BY <1>1 DEF Griev!FileGrievance, Griev!AtOnce
  <2>2. /\ grievances' \in Seq(Grievance) /\ Len(grievances') = Len(grievances) + 1
        /\ Griev!Issued' \subseteq 1..Len(grievances')
    BY <1>n, <2>1, FiledType
  <2>3. request' = [request EXCEPT ![w] = request[w]]
    BY <1>t, <2>1
  <2>4. request[w] \in {Griev!Idle} \cup Griev!Request
        /\ (request[w].op = "file" => request[w].number <= Len(grievances) + 1)
    BY <1>t DEF GrievanceTypes
  <2>5. Len(grievances') <= MaxGrievances /\ Len(grievances) <= Len(grievances')
    BY <1>t, <2>1, <2>2
  <2> DEFINE r == request[w]
  <2>6. /\ r \in {Griev!Idle} \cup Griev!Request /\ request' = [request EXCEPT ![w] = r]
        /\ r.op = "file" => r.number <= Len(grievances) + 1
    BY <2>3, <2>4, Zenon
  <2> HIDE DEF r
  <2> QED
    BY <1>r, <2>1, <2>2, <2>5, <2>6
<1>2. ASSUME NEW w \in Workers, Griev!BeginFiling(w) PROVE GrievanceTypes'
  <2>1. [op |-> "file", number |-> Griev!NextGrievanceNumber] \in Griev!Request
    BY <1>2, <1>n, <1>t DEF Griev!BeginFiling, Griev!Request
  <2> DEFINE r == [op |-> "file", number |-> Griev!NextGrievanceNumber]
  <2>2. r \in Griev!Request /\ (r.op = "file" => r.number <= Len(grievances) + 1)
    BY <1>n, <1>t, <2>1
  <2>3. request' = [request EXCEPT ![w] = r] /\ UNCHANGED <<orderly, grievances>>
    BY <1>2 DEF Griev!BeginFiling
  <2> HIDE DEF r
  <2> QED
    BY <1>k, <2>2, <2>3
<1>3. ASSUME NEW w \in Workers, Griev!CommitFiling(w) PROVE GrievanceTypes'
  <2>1. /\ request[w].op = "file" /\ Len(grievances) < MaxGrievances
        /\ Griev!Filed(request[w].number)
        /\ request' = [request EXCEPT ![w] = Griev!Idle] /\ orderly' = orderly
    BY <1>3 DEF Griev!CommitFiling
  <2>2. request[w].number \in 1..Len(grievances) + 1
    <3>1. request[w] \in Griev!Request
      BY <1>i, <1>t, <2>1
    <3>2. request[w].number \in 1..MaxGrievances + 1
      BY <2>1, <3>1 DEF Griev!Request
    <3> QED
      BY <1>t, <2>1, <3>2 DEF GrievanceTypes
  <2>3. /\ grievances' \in Seq(Grievance) /\ Len(grievances') = Len(grievances) + 1
        /\ Griev!Issued' \subseteq 1..Len(grievances')
    BY <2>1, <2>2, FiledType
  <2>4. Len(grievances') <= MaxGrievances /\ Len(grievances) <= Len(grievances')
    BY <1>t, <2>1, <2>3
  <2> QED
    BY <1>i, <1>r, <2>1, <2>3, <2>4
<1>4. ASSUME NEW w \in Workers, NEW g \in Griev!Rows, NEW status \in Answers,
             Griev!RespondToGrievance(w, g, status)
      PROVE  GrievanceTypes'
  <2> DEFINE row == grievances[g].row
             assigned == [status |-> status,
                          responded |-> row.responded \/ Griev!IsAnswer(status)]
             r == [op |-> "respond", g |-> g, loaded |-> row, assigned |-> assigned]
  <2>1. row \in Griev!GrievanceRow
    BY <1>d DEF Grievance
  <2>2. assigned \in Griev!GrievanceRow
    <3>1. (row.responded \/ Griev!IsAnswer(status)) \in BOOLEAN
      BY Zenon
    <3>2. status \in Griev!GrievanceStatus
      BY ListsAssumption
    <3> QED
      BY <3>1, <3>2, Zenon DEF Griev!GrievanceRow
  <2>3. request' = [request EXCEPT ![w] = r] /\ UNCHANGED <<orderly, grievances>>
    BY <1>4 DEF Griev!RespondToGrievance
  <2> HIDE DEF row, assigned
  <2>4. r \in Griev!Request /\ r.op # "file"
    BY <1>d, <2>1, <2>2 DEF Griev!Request
  <2> HIDE DEF r
  <2> QED
    BY <1>k, <2>3, <2>4
<1>5. ASSUME NEW w \in Workers, Griev!CommitResponse(w) PROVE GrievanceTypes'
  <2> DEFINE r == request[w]
             row == Griev!WrittenRow(grievances[r.g].row, r.loaded, r.assigned)
             move == [from |-> r.loaded.status, to |-> r.assigned.status]
             grievance == [grievances[r.g] EXCEPT !.row = row, !.history = Append(@, move)]
  <2>1. /\ r.loaded \in Griev!GrievanceRow /\ r.assigned \in Griev!GrievanceRow
        /\ r.g \in Griev!Id /\ r.op = "respond"
    BY <1>5, <1>t DEF Griev!CommitResponse, Griev!Request, Griev!Idle
  <2>2. ASSUME r.g \in 1..Len(grievances)
        PROVE  /\ grievance \in Grievance
               /\ grievance.number = grievances[r.g].number
    <3>1. grievances[r.g] \in Grievance
      BY <1>d, <2>2
    <3>2. row \in Griev!GrievanceRow
      BY <2>1, <3>1, WrittenGrievance DEF Grievance
    <3>3. move \in Griev!Move
      BY <2>1 DEF Griev!Move, Griev!GrievanceRow
    <3> HIDE DEF row, move
    <3>4. Append(grievances[r.g].history, move) \in Seq(Griev!Move)
      BY <3>1, <3>3, RowAdded DEF Grievance
    <3> QED
      BY <3>1, <3>2, <3>4 DEF Grievance
  <2>3. grievances' = [grievances EXCEPT ![r.g] = grievance]
    BY <1>5 DEF Griev!CommitResponse
  <2>4. orderly' = orderly /\ request' = [request EXCEPT ![w] = Griev!Idle]
    BY <1>5 DEF Griev!CommitResponse
  <2> HIDE DEF grievance
  <2>5. grievances' \in Seq(Grievance) /\ Len(grievances') = Len(grievances)
    <3> HIDE DEF Grievance
    <3> QED
      BY <1>t, <2>2, <2>3, RowReplaced
  <2>6. \A g \in 1..Len(grievances) : grievances'[g].number = grievances[g].number
    BY <1>t, <2>2, <2>3
  <2>7. Griev!Rows' = Griev!Rows
    BY <1>d, <2>5 DEF Griev!Rows
  <2>8. Griev!Issued' = Griev!Issued
    BY <1>d, <2>6, <2>7 DEF Griev!Issued
  <2>9. /\ Griev!Issued' \subseteq 1..Len(grievances')
        /\ Len(grievances') <= MaxGrievances /\ Len(grievances) <= Len(grievances')
    BY <1>t, <2>5, <2>8 DEF GrievanceTypes
  <2> QED
    BY <1>i, <1>r, <2>4, <2>5, <2>9
<1>6. ASSUME NEW w \in Workers, Griev!NumberTaken(w) \/ Griev!FailRequest(w)
      PROVE  GrievanceTypes'
  BY <1>6, <1>i, <1>k DEF Griev!NumberTaken, Griev!FailRequest, Griev!Fail
<1>7. ASSUME UNCHANGED Griev!vars PROVE GrievanceTypes'
  BY <1>7, <1>t
  DEF Griev!vars, GrievanceTypes, Griev!TypeOK, Griev!Issued, Griev!Rows
<1> QED
  BY <1>1, <1>2, <1>3, <1>4, <1>5, <1>6, <1>7 DEF Griev!Next

-----------------------------------------------------------------------------
\* Notices.

LEMMA NoticeTypesInductive == Notes!TypeOK /\ [Notes!Next]_(Notes!vars) => Notes!TypeOK'
<1> SUFFICES ASSUME Notes!TypeOK, [Notes!Next]_(Notes!vars) PROVE Notes!TypeOK'
  OBVIOUS
<1> USE BoundsAssumption DEF Notes!RequestsOK, Notes!Finish, Notes!GoOn, Notes!Begin
<1>t. /\ orderly \in BOOLEAN
      /\ request \in [Workers -> {Notes!Idle} \cup Notes!Request]
      /\ stage \in Notes!Stage /\ notices \subseteq Notes!NoticeType
      /\ subscriptions \in Seq(Notes!SubscriptionRow)
      /\ Len(subscriptions) <= MaxSubscriptions /\ Len(subscriptions) \in Nat
      /\ logins \in Nat
      /\ heard \subseteq Notes!Label \X Notes!Id /\ cut \subseteq Notes!Label \X Notes!Id
  BY DEF Notes!TypeOK
<1>d. Notes!Rows \subseteq Notes!Id
  BY <1>t DEF Notes!Rows, Notes!Id
<1>f. ASSUME NEW r \in {Notes!Idle} \cup Notes!Request
      PROVE  /\ r.op = "issue" => r.kind \in Notes!NoticeType
             /\ r.op = "subscribe" => r.number \in Numbers
             /\ r.op \in {"notify", "log"} =>
                    r.label \in Notes!Label /\ r.due \subseteq Notes!Id
             /\ r.op = "log" => r.to \subseteq Notes!Id
  BY DEF Notes!Request, Notes!Idle
<1>k. ASSUME NEW w \in Workers, NEW r \in {Notes!Idle} \cup Notes!Request,
             request' = [request EXCEPT ![w] = r],
             UNCHANGED <<orderly, stage, notices, subscriptions, logins, heard, cut>>
      PROVE  Notes!TypeOK'
  BY <1>k, <1>t DEF Notes!TypeOK
<1>1. ASSUME NEW w \in Workers, NEW kind \in NoticeTypes, Notes!IssueNotice(w, kind)
      PROVE  Notes!TypeOK'
  <2>1. [op |-> "issue", kind |-> kind] \in Notes!Request
    BY ListsAssumption DEF Notes!Request
  <2> QED
    BY <1>1, <1>k, <2>1 DEF Notes!IssueNotice
<1>2. ASSUME NEW w \in Workers, Notes!CommitNotice(w) PROVE Notes!TypeOK'
  <2> DEFINE r == [op |-> "notify", label |-> request[w].kind, due |-> Notes!Rows]
  <2>1. request[w].kind \in Notes!NoticeType
    BY <1>2, <1>f, <1>t DEF Notes!CommitNotice
  <2>2. r \in Notes!Request
    BY <1>d, <2>1 DEF Notes!Request, Notes!Label
  <2>3. request' = [request EXCEPT ![w] = r]
    BY <1>2 DEF Notes!CommitNotice
  <2> HIDE DEF r
  <2> QED
    BY <1>2, <1>t, <2>1, <2>2, <2>3 DEF Notes!CommitNotice, Notes!TypeOK
<1>3. ASSUME NEW w \in Workers, NEW number \in Numbers, Notes!Subscribe(w, number)
      PROVE  Notes!TypeOK'
  <2>1. [op |-> "subscribe", number |-> number] \in Notes!Request
    BY DEF Notes!Request
  <2> QED
    BY <1>3, <1>k, <2>1 DEF Notes!Subscribe
<1>4. ASSUME NEW w \in Workers, Notes!CommitSubscription(w) PROVE Notes!TypeOK'
  <2> DEFINE r == [op |-> "notify", label |-> "STATUS", due |-> {Len(subscriptions) + 1}]
             row == [number |-> request[w].number, register |-> notices]
  <2>1. request[w].number \in Numbers /\ Len(subscriptions) + 1 \in Notes!Id
    BY <1>4, <1>f, <1>t DEF Notes!CommitSubscription, Notes!Id
  <2>2. r \in Notes!Request
    BY <2>1 DEF Notes!Request, Notes!Label
  <2>3. row \in Notes!SubscriptionRow
    BY <1>t, <2>1 DEF Notes!SubscriptionRow
  <2>4. request' = [request EXCEPT ![w] = r] /\ subscriptions' = Append(subscriptions, row)
    BY <1>4 DEF Notes!CommitSubscription
  <2> HIDE DEF r, row
  <2>5. /\ subscriptions' \in Seq(Notes!SubscriptionRow)
        /\ Len(subscriptions') = Len(subscriptions) + 1
    BY <1>t, <2>3, <2>4, RowAdded
  <2>6. /\ UNCHANGED <<orderly, stage, notices, logins, heard, cut>>
        /\ Len(subscriptions') <= MaxSubscriptions
    BY <1>4, <1>t, <2>5 DEF Notes!CommitSubscription
  <2>7. request' \in [Workers -> {Notes!Idle} \cup Notes!Request]
    BY <1>t, <2>2, <2>4
  <2> QED
    BY <1>t, <2>5, <2>6, <2>7 DEF Notes!TypeOK
<1>5. ASSUME NEW w \in Workers, Notes!NotifySubscribers(w) PROVE Notes!TypeOK'
  <2>1. request[w].label \in Notes!Label /\ request[w].due \subseteq Notes!Id
    BY <1>5, <1>f, <1>t DEF Notes!NotifySubscribers
  <2>2. [op |-> "log", label |-> request[w].label, due |-> request[w].due, to |-> Notes!Rows]
            \in Notes!Request
    BY <1>d, <2>1 DEF Notes!Request
  <2> QED
    BY <1>5, <1>k, <2>2 DEF Notes!NotifySubscribers
<1>6. ASSUME NEW w \in Workers, Notes!CommitLog(w) PROVE Notes!TypeOK'
  <2>1. request[w].label \in Notes!Label /\ request[w].to \subseteq Notes!Id
    BY <1>6, <1>f, <1>t DEF Notes!CommitLog
  <2>2. heard' \subseteq Notes!Label \X Notes!Id
    BY <1>6, <1>t, <2>1 DEF Notes!CommitLog
  <2> QED
    BY <1>6, <1>t, <2>2 DEF Notes!CommitLog, Notes!TypeOK
<1>7. ASSUME NEW w \in Workers, Notes!ProvisionLandowner(w) PROVE Notes!TypeOK'
  <2>1. [op |-> "provision"] \in Notes!Request
    BY DEF Notes!Request
  <2> QED
    BY <1>7, <1>k, <2>1 DEF Notes!ProvisionLandowner
<1>8. ASSUME NEW w \in Workers, Notes!CommitAccount(w) PROVE Notes!TypeOK'
  BY <1>8, <1>t DEF Notes!CommitAccount, Notes!TypeOK
<1>9. ASSUME NEW w \in Workers, Notes!NoticeRefused(w) PROVE Notes!TypeOK'
  BY <1>9, <1>k DEF Notes!NoticeRefused
<1>10. ASSUME NEW w \in Workers, Notes!FailRequest(w) PROVE Notes!TypeOK'
  <2>1. cut' \subseteq Notes!Label \X Notes!Id
    BY <1>10, <1>f, <1>t DEF Notes!FailRequest
  <2> QED
    BY <1>10, <1>t, <2>1 DEF Notes!FailRequest, Notes!Fail, Notes!TypeOK
<1>11. CASE Notes!CaseMoves
  <2>1. stage' \in Notes!Stage
    BY <1>11, ListsAssumption DEF Notes!CaseMoves
  <2> QED
    BY <1>11, <1>t, <2>1 DEF Notes!CaseMoves, Notes!TypeOK
<1>12. CASE UNCHANGED Notes!vars
  BY <1>12, <1>t DEF Notes!vars, Notes!TypeOK
<1> QED
  BY <1>1, <1>2, <1>3, <1>4, <1>5, <1>6, <1>7, <1>8, <1>9, <1>10, <1>11, <1>12 DEF Notes!Next

-----------------------------------------------------------------------------
\* Sign-in: the invariant of the limiter, and the time is within the bound.

DoorTypes == LimiterInv /\ orderly \in BOOLEAN /\ now <= LastTick

LEMMA DoorTypesInductive == DoorTypes /\ [Doors!Next]_(Doors!vars) => DoorTypes'
<1> SUFFICES ASSUME DoorTypes, [Doors!Next]_(Doors!vars) PROVE DoorTypes'
  OBVIOUS
<1>1. LimiterInv' /\ now \in Nat /\ LastTick \in Nat
  BY LimiterInductive, BoundsAssumption DEF DoorTypes, LimiterInv
<1>2. now' <= LastTick /\ orderly' \in BOOLEAN
  BY <1>1
  DEF DoorTypes, Doors!Next, Doors!vars, Doors!TryToSignIn, Doors!Refuse, Doors!EndAttempt,
      Doors!FailRequest, Doors!Tick, Doors!Prune, Doors!Restart, Doors!Begin, Doors!AtOnce,
      Doors!Fail, Doors!Finish, Doors!GoOn
<1> QED
  BY <1>1, <1>2 DEF DoorTypes

LEMMA DoorsTyped == DoorTypes => Doors!TypeOK
<1> SUFFICES ASSUME DoorTypes PROVE Doors!TypeOK
  OBVIOUS
<1>1. request \in [Workers -> {Doors!Idle} \cup Doors!Request]
  BY DEF DoorTypes, LimiterInv, Threads, Idle, Doors!Idle
<1>2. /\ failures \in Seq(Nat) /\ now \in Nat /\ now <= LastTick /\ LastTick \in Nat
      /\ \A i \in DOMAIN failures : failures[i] \in Nat /\ failures[i] <= now
  BY BoundsAssumption, RowsAre DEF DoorTypes, LimiterInv
<1>3. failures \in Seq(0..LastTick)
  <2>1. \A i \in 1..Len(failures) : failures[i] \in 0..LastTick
    BY <1>2
  <2>2. failures \in [1..Len(failures) -> 0..LastTick] /\ Len(failures) \in Nat
    BY <1>2, <2>1
  <2>3. \A S : \A n \in Nat : [1..n -> S] \subseteq Seq(S)
    OBVIOUS
  <2> QED
    BY <2>2, <2>3, Zenon
<1>4. now \in 0..LastTick
  BY <1>2
<1> QED
  BY <1>1, <1>3, <1>4 DEF DoorTypes, LimiterInv, InOrder, Doors!TypeOK, Doors!RequestsOK

-----------------------------------------------------------------------------
\* Authenticators: besides, what is pending was handed out, and what was shown too.

HandedOut == minted \cup {NoSecret}

FactorTypes ==
    /\ FactorInv
    /\ orderly \in BOOLEAN
    /\ shown \subseteq minted /\ minted \subseteq Secrets
    /\ totp.pending \in HandedOut
    /\ Len(faces) <= MaxFaces
    /\ \A w \in Workers :
          LET r == request[w] IN
          /\ r.op \in {"setup", "confirm", "disable"} => r.assigned.pending \in HandedOut
          /\ r.op = "enrol" => r.existing \in Factors!FaceIds \cup {Factors!NoFace}

LEMMA FactorTypesInductive == FactorTypes /\ [Factors!Next]_(Factors!vars) => FactorTypes'
<1> SUFFICES ASSUME FactorTypes, [Factors!Next]_(Factors!vars) PROVE FactorTypes'
  OBVIOUS
<1> USE DEF Factors!Finish, Factors!GoOn, Factors!Begin
<1>t. /\ FactorInv' /\ FactorInv /\ orderly \in BOOLEAN
      /\ shown \subseteq minted /\ minted \subseteq Secrets
      /\ totp.pending \in HandedOut /\ totp \in Factors!TotpRow
      /\ Len(faces) <= MaxFaces /\ faces \in Seq(BOOLEAN) /\ Len(faces) \in Nat
      /\ MaxFaces \in Nat /\ HandedOut = minted \cup {NoSecret}
      /\ HandedOut' = minted' \cup {NoSecret}
  BY FactorInductive, BoundsAssumption DEF FactorTypes, FactorInv, HandedOut
<1> DEFINE Fine(r, out) ==
        /\ r.op \in {"setup", "confirm", "disable"} => r.assigned.pending \in out
        /\ r.op = "enrol" => r.existing \in Factors!FaceIds \cup {Factors!NoFace}
<1>f. \A w \in Workers : Fine(request[w], HandedOut)
  BY DEF FactorTypes
<1>i. \A out : Fine(Factors!Idle, out)
  BY DEF Factors!Idle
\* Whatever changes, one request does.
<1>k. ASSUME NEW w \in Workers, NEW r, request' = [request EXCEPT ![w] = r], Fine(r, HandedOut'),
             orderly' = orderly, shown' \subseteq minted', minted \subseteq minted',
             minted' \subseteq Secrets, totp'.pending \in HandedOut', Len(faces') <= MaxFaces
      PROVE  FactorTypes'
  <2>1. \A v \in Workers : request'[v] = IF v = w THEN r ELSE request[v]
    BY <1>k, <1>t DEF FactorInv
  <2>2. ASSUME NEW v \in Workers PROVE Fine(request'[v], HandedOut')
    <3>1. CASE v = w
      <4>1. request'[v] = r
        BY <2>1, <3>1
      <4> QED
        BY <1>k, <4>1
    <3>2. CASE v # w
      <4>1. request'[v] = request[v] /\ Fine(request[v], HandedOut) /\ HandedOut \subseteq HandedOut'
        BY <1>f, <1>k, <1>t, <2>1, <3>2
      <4> QED
        BY <4>1
    <3> QED
      BY <3>1, <3>2
  <2> QED
    BY <1>k, <1>t, <2>2, Zenon DEF FactorTypes, Factors!FaceIds, Factors!NoFace
<1>1. ASSUME NEW w \in Workers, NEW secret \in Secrets, Factors!SetupTotp(w, secret)
      PROVE  FactorTypes'
  <2> DEFINE r == [op |-> "setup", loaded |-> totp,
                   assigned |-> [totp EXCEPT !.pending = secret]]
  <2>1. /\ request' = [request EXCEPT ![w] = r] /\ minted' = minted \cup {secret}
        /\ UNCHANGED <<orderly, totp, shown, faces>>
    BY <1>1 DEF Factors!SetupTotp
  <2>2. Fine(r, HandedOut')
    BY <1>t, <2>1 DEF Factors!TotpRow
  <2>3. /\ totp'.pending \in HandedOut' /\ Len(faces') <= MaxFaces
        /\ shown' \subseteq minted' /\ minted \subseteq minted' /\ minted' \subseteq Secrets
    BY <1>t, <2>1
  <2> HIDE DEF r, Fine
  <2> QED
    BY <1>k, <2>1, <2>2, <2>3
<1>2. ASSUME NEW w \in Workers, Factors!ConfirmTotp(w) PROVE FactorTypes'
  <2> DEFINE r == [op |-> "confirm", loaded |-> totp,
                   assigned |-> [active |-> totp.pending, pending |-> NoSecret]]
  <2>1. /\ request' = [request EXCEPT ![w] = r] /\ shown' = shown \cup {totp.pending}
        /\ UNCHANGED <<orderly, totp, minted, faces>> /\ totp.pending # NoSecret
    BY <1>2 DEF Factors!ConfirmTotp
  <2>2. Fine(r, HandedOut')
    BY <1>t
  <2>3. /\ totp'.pending \in HandedOut' /\ Len(faces') <= MaxFaces
        /\ shown' \subseteq minted' /\ minted \subseteq minted' /\ minted' \subseteq Secrets
    <3>1. totp.pending \in minted
      BY <1>t, <2>1
    <3> QED
      BY <1>t, <2>1, <3>1
  <2> HIDE DEF r, Fine
  <2> QED
    BY <1>k, <2>1, <2>2, <2>3
<1>3. ASSUME NEW w \in Workers, Factors!DisableTotp(w) PROVE FactorTypes'
  <2> DEFINE r == [op |-> "disable", loaded |-> totp,
                   assigned |-> [active |-> NoSecret, pending |-> NoSecret]]
  <2>1. /\ request' = [request EXCEPT ![w] = r]
        /\ UNCHANGED <<orderly, totp, shown, minted, faces>>
    BY <1>3 DEF Factors!DisableTotp
  <2>2. Fine(r, HandedOut') /\ totp'.pending \in HandedOut'
    BY <1>t, <2>1
  <2> HIDE DEF r, Fine
  <2> QED
    BY <1>k, <1>t, <2>1, <2>2
<1>4. ASSUME NEW w \in Workers, Factors!CommitTotp(w) PROVE FactorTypes'
  <2>1. /\ request' = [request EXCEPT ![w] = Factors!Idle]
        /\ UNCHANGED <<orderly, shown, minted, faces>>
        /\ request[w].op \in {"setup", "confirm", "disable"}
        /\ totp' = Factors!WrittenRow(totp, request[w].loaded, request[w].assigned)
    BY <1>4 DEF Factors!CommitTotp
  <2>2. totp'.pending \in {totp.pending, request[w].assigned.pending}
    BY <1>t, <2>1 DEF Factors!WrittenRow, Factors!Written, Factors!TotpRow
  <2>3. totp'.pending \in HandedOut'
    BY <1>f, <1>t, <2>1, <2>2
  <2> HIDE DEF Fine
  <2> QED
    BY <1>i, <1>k, <1>t, <2>1, <2>3
<1>5. ASSUME NEW w \in Workers, Factors!EnrolFace(w) PROVE FactorTypes'
  <2> DEFINE face == IF Factors!Active = {} THEN Factors!NoFace
                     ELSE CHOOSE f \in Factors!Active : TRUE
             r == [op |-> "enrol", existing |-> face]
  <2>1. /\ request' = [request EXCEPT ![w] = r]
        /\ UNCHANGED <<orderly, totp, shown, minted, faces>>
    BY <1>5 DEF Factors!EnrolFace
  <2>2. face \in Factors!FaceIds \cup {Factors!NoFace}
    <3>1. Factors!Active \subseteq Factors!FaceIds
      BY <1>t DEF Factors!Active, Factors!FaceIds
    <3>2. Factors!Active # {} => (CHOOSE f \in Factors!Active : TRUE) \in Factors!Active
      BY Zenon
    <3> QED
      BY <3>1, <3>2
  <2> HIDE DEF face
  <2>3. Fine(r, HandedOut')
    BY <2>2
  <2>4. totp'.pending \in HandedOut'
    BY <1>t, <2>1
  <2> HIDE DEF r, Fine
  <2> QED
    BY <1>k, <1>t, <2>1, <2>3, <2>4
<1>6. ASSUME NEW w \in Workers, Factors!CommitFace(w) PROVE FactorTypes'
  <2>1. /\ request' = [request EXCEPT ![w] = Factors!Idle] /\ Len(faces) < MaxFaces
        /\ UNCHANGED <<orderly, totp, shown, minted>>
        /\ faces' = Append(Factors!Retired(request[w].existing), TRUE)
    BY <1>6 DEF Factors!CommitFace
  <2>2. Len(faces') <= MaxFaces
    <3> DEFINE retired == Factors!Retired(request[w].existing)
    <3>1. Len(retired) = Len(faces) /\ retired \in Seq(BOOLEAN)
      <4>1. \A f \in 1..Len(faces) : (faces[f] /\ f # request[w].existing) \in BOOLEAN
        BY Zenon
      <4>2. retired = [f \in 1..Len(faces) |-> faces[f] /\ f # request[w].existing]
        BY <1>t DEF Factors!Retired
      <4> QED
        BY <1>t, <4>1, <4>2
    <3> HIDE DEF retired
    <3>2. Len(Append(retired, TRUE)) = Len(faces) + 1
      BY <3>1
    <3> QED
      BY <1>t, <2>1, <3>2 DEF retired
  <2>3. totp'.pending \in HandedOut'
    BY <1>t, <2>1
  <2> HIDE DEF Fine
  <2> QED
    BY <1>i, <1>k, <1>t, <2>1, <2>2, <2>3
<1>7. ASSUME NEW w \in Workers, Factors!FaceRefused(w) \/ Factors!FailRequest(w)
      PROVE  FactorTypes'
  <2>1. /\ request' = [request EXCEPT ![w] = Factors!Idle]
        /\ UNCHANGED <<orderly, totp, shown, minted, faces>>
    BY <1>7 DEF Factors!FaceRefused, Factors!FailRequest, Factors!Fail
  <2>2. totp'.pending \in HandedOut'
    BY <1>t, <2>1
  <2> HIDE DEF Fine
  <2> QED
    BY <1>i, <1>k, <1>t, <2>1, <2>2
<1>8. ASSUME UNCHANGED Factors!vars PROVE FactorTypes'
  BY <1>8, <1>t DEF Factors!vars, FactorTypes, HandedOut, Factors!FaceIds, Factors!NoFace
<1> QED
  BY <1>1, <1>2, <1>3, <1>4, <1>5, <1>6, <1>7, <1>8 DEF Factors!Next

LEMMA FactorsTyped == FactorTypes => Factors!TypeOK
<1> SUFFICES ASSUME FactorTypes PROVE Factors!TypeOK
  OBVIOUS
<1>1. request \in [Workers -> {Factors!Idle} \cup TotpRequest \cup EnrolRequest]
  BY DEF FactorTypes, FactorInv
<1>2. ASSUME NEW w \in Workers PROVE request[w] \in {Factors!Idle} \cup Factors!Request
  <2>1. CASE request[w] \in EnrolRequest
    BY <2>1 DEF FactorTypes, EnrolRequest, Factors!Request
  <2>2. CASE request[w] \in TotpRequest
    BY <2>2 DEF TotpRequest, Factors!Request
  <2> QED
    BY <1>1, <2>1, <2>2
<1>3. request \in [Workers -> {Factors!Idle} \cup Factors!Request]
  BY <1>1, <1>2
<1> QED
  BY <1>3 DEF FactorTypes, FactorInv, Factors!TypeOK, Factors!RequestsOK

-----------------------------------------------------------------------------
\* The desk keeps its invariant; a desk that is not looked at has no rows.
DocumentsInv ==
    IF desk = "documents" THEN DocFacts!ChainInv /\ DocFacts!DigestInv ELSE documents = <<>>

NoticesInv ==
    IF desk = "notices" THEN NoteFacts!WellFormed /\ NoteFacts!AllTold /\ NoteFacts!OnceInv
    ELSE subscriptions = <<>> /\ logins = 0

FactorsInv ==
    IF desk = "authenticators" THEN FactorInv
    ELSE totp.active = NoSecret /\ faces = <<>>

InvitationsInv ==
    IF desk = "invitations" THEN UsesInv ELSE accounts = {} /\ invite.used = 0

CompensationInv == IF desk = "compensation" THEN AwardInv ELSE award = Comp!NoAward

ObjectionsInv == IF desk = "objections" THEN FilersInv ELSE objections = <<>>

GrievancesInv == IF desk = "grievances" THEN HistoriesInv ELSE grievances = <<>>

PortalInv ==
    IF desk = "parcels" THEN SentInv
    ELSE parcels = <<>> /\ pushes = <<>> /\ mutations = <<>>

SignInInv ==
    IF desk = "sign-in" THEN LimiterInv ELSE failures = <<>> /\ now = 0 /\ promised = 0

LEMMA DocumentsInductive == DocumentsInv /\ [Next]_vars => DocumentsInv'
BY StepsOfADesk, SameDocuments, DocFacts!ChainInductive, DocFacts!DigestInductive
DEF DocumentsInv, documentVars

LEMMA NoticesInductive == NoticesInv /\ [Next]_vars => NoticesInv'
BY StepsOfADesk, SameNotices, NoteFacts!WellFormedInductive, NoteFacts!AllToldInductive,
   NoteFacts!OnceInductive
DEF NoticesInv, noticeVars

LEMMA FactorsInductive == FactorsInv /\ [Next]_vars => FactorsInv'
BY StepsOfADesk, FactorInductive DEF FactorsInv, factorVars

LEMMA InvitationsInductive == InvitationsInv /\ [Next]_vars => InvitationsInv'
BY StepsOfADesk, UsesInductive DEF InvitationsInv, inviteVars

LEMMA CompensationInductive == CompensationInv /\ [Next]_vars => CompensationInv'
BY StepsOfADesk, AwardInductive DEF CompensationInv, Comp!NoAward

LEMMA ObjectionsInductive == ObjectionsInv /\ [Next]_vars => ObjectionsInv'
BY StepsOfADesk, FilersInductive DEF ObjectionsInv, objectionVars

LEMMA GrievancesInductive == GrievancesInv /\ [Next]_vars => GrievancesInv'
BY StepsOfADesk, HistoriesInductive DEF GrievancesInv

LEMMA PortalInductive == PortalInv /\ [Next]_vars => PortalInv'
BY StepsOfADesk, SentInductive DEF PortalInv, parcelVars

LEMMA SignInInductive == SignInInv /\ [Next]_vars => SignInInv'
BY StepsOfADesk, LimiterInductive DEF SignInInv, signInVars

LEMMA DesksInitially == Init => DocumentsInv /\ NoticesInv /\ FactorsInv
<1> SUFFICES ASSUME Init PROVE DocumentsInv /\ NoticesInv /\ FactorsInv
  OBVIOUS
<1>1. DocumentsInv
  BY SameDocuments, DocFacts!ChainInitially, DocFacts!DigestInitially
  DEF Init, DocumentsInv
<1>2. NoticesInv
  BY SameNotices, NoteFacts!WellFormedInitially, NoteFacts!AllToldInitially,
     NoteFacts!OnceInitially
  DEF Init, NoticesInv, Notes!Init
<1>3. FactorsInv
  BY FactorInitially DEF Init, FactorsInv, Factors!Init
<1> QED
  BY <1>1, <1>2, <1>3

-----------------------------------------------------------------------------
\* documents.py: however requests overlap and whatever restarts, the versions of
\* a document form one chain that ends at the current one.
THEOREM HistoryStaysComplete == Spec => []VersionsFormAChain
<1>1. DocumentsInv => VersionsFormAChain
  BY SameDocuments DEF DocumentsInv, DocFacts!ChainInv, DocFacts!VersionsFormAChain,
                       DocFacts!Rows
<1> QED
  BY <1>1, DesksInitially, DocumentsInductive, PTL DEF Spec

\* tables.py: when requests come one by one, a file at rest is the one its row
\* has the digest of.
THEOREM DigestsFollowFiles == Spec => []DigestDescribesFile
<1>1. DocumentsInv => DigestDescribesFile
  BY SameDocuments, DocFacts!DigestsAtRest
  DEF DocumentsInv, DocFacts!DigestDescribesFile, DocFacts!Rows
<1> QED
  BY <1>1, DesksInitially, DocumentsInductive, PTL DEF Spec

\* notices.py: when requests come one by one, a recipient is subscribed once and
\* an owner has one account.
THEOREM RegistersOnce == Spec => []RegisteredOnce
<1>1. NoticesInv => RegisteredOnce
  BY SameNotices DEF NoticesInv, NoteFacts!OnceInv, NoteFacts!RegisteredOnce,
                     NoteFacts!Rows
<1> QED
  BY <1>1, DesksInitially, NoticesInductive, PTL DEF Spec

\* notices.py: however requests overlap, what a subscription is owed it was told,
\* is being told, or was left untold by a request that ended between its commits.
THEOREM NobodyIsForgotten == Spec => []SubscribersAreTold
<1>1. NoticesInv => SubscribersAreTold
  BY SameNotices, NoteFacts!AllAreTold
  DEF NoticesInv, NoteFacts!SubscribersAreTold, NoteFacts!Rows
<1> QED
  BY <1>1, DesksInitially, NoticesInductive, PTL DEF Spec

\* mfa.py, biometrics.py: however requests overlap or fail, a factor that guards
\* an account was shown to work.
THEOREM ProvenFactors == Spec => []FactorsAreProven
<1>1. FactorInv => FactorsAreProven
  BY FactorsInvProven
<1>2. totp.active = NoSecret /\ faces = <<>> => FactorsAreProven
  BY DEF FactorsAreProven, Factors!FactorsAreProven, Factors!Active
<1>3. FactorsInv => FactorsAreProven
  BY <1>1, <1>2 DEF FactorsInv
<1> QED
  BY <1>3, DesksInitially, FactorsInductive, PTL DEF Spec

LEMMA CountersInitially ==
    Init => /\ InvitationsInv /\ CompensationInv /\ ObjectionsInv
            /\ GrievancesInv /\ PortalInv /\ SignInInv
<1> SUFFICES ASSUME Init
             PROVE  /\ InvitationsInv /\ CompensationInv /\ ObjectionsInv
                    /\ GrievancesInv /\ PortalInv /\ SignInInv
  OBVIOUS
<1>1. Threads /\ \A w \in Workers : request[w] = Idle
  BY DEF Init, Invites!Init, Invites!InitRequests, Invites!Idle, Idle, Threads, OneByOne
<1>2. <<>> \in Seq({}) /\ IsSeq(<<>>) /\ Len(<<>>) = 0
  BY DEF IsSeq
<1>3. InvitationsInv
  BY <1>1, FS_EmptySet, MaxUsesAssumption
  DEF Init, Invites!Init, InvitationsInv, UsesInv, RegistrationOK, Idle
<1>4. CompensationInv
  <2>1. Sound(Comp!NoAward)
    BY DEF Sound, Comp!NoAward, Amounts, Comp!ComputeAward, Comp!SolatiumAmount, Comp!Round
  <2> QED
    BY <1>1, <2>1 DEF Init, Comp!Init, CompensationInv, AwardInv
<1>5. ObjectionsInv
  BY <1>1, <1>2, BoundsAssumption
  DEF Init, Objs!Init, Objs!Ids, Objs!Rows, ObjectionsInv, FilersInv, AnswerOK, Idle
<1>6. GrievancesInv
  BY <1>1, <1>2 DEF Init, Griev!Init, GrievancesInv, HistoriesInv, ResponseOK, Idle
<1>7. PortalInv
  <2>1. Senders = {} /\ \A x : SendersOf(x) = {} /\ Places(x, <<>>) = {}
    BY <1>1 DEF Senders, SendersOf, Places, Idle
  <2>2. SentInv
    <3>1. \A x : Cardinality(Places(x, mutations)) + Cardinality(SendersOf(x))
                    <= Cardinality(Places(x, pushes))
      <4>1. pushes = <<>> /\ mutations = <<>>
        BY DEF Init, Land!Init
      <4>2. Cardinality({}) = 0
        BY FS_EmptySet
      <4>3. ASSUME NEW x
            PROVE  /\ Cardinality(Places(x, mutations)) = 0
                   /\ Cardinality(SendersOf(x)) = 0
                   /\ Cardinality(Places(x, pushes)) = 0
        BY <2>1, <4>1, <4>2
      <4> QED
        BY <4>3
    <3>2. \A w \in Workers : request[w].op # "push"
      BY <1>1 DEF Idle
    <3>3. pushes = <<>> /\ mutations = <<>> /\ IsFiniteSet(Senders)
      BY <2>1, FS_EmptySet DEF Init, Land!Init
    <3> QED
      BY <1>1, <1>2, <2>1, <3>1, <3>2, <3>3 DEF SentInv
  <2> QED
    BY <2>2 DEF Init, Land!Init, PortalInv
<1>8. SignInInv
  BY <1>1, LimiterInitially
  DEF Init, Doors!Init, Doors!NoPromise, SignInInv, AllIdle
<1> QED
  BY <1>3, <1>4, <1>5, <1>6, <1>7, <1>8

\* auth.py, invites.py: however registrations overlap, no use of an invitation is
\* without an account, and one by one they never exceed its uses.
THEOREM UsesMatch == Spec => []AccountsMatchUses
<1>1. InvitationsInv => AccountsMatchUses
  <2>1. CASE desk = "invitations"
    BY <2>1, UsesHaveAccounts DEF InvitationsInv
  <2>2. CASE desk # "invitations"
    <3>1. Invites!Cardinality({}) = 0
      BY FS_EmptySet DEF Invites!Cardinality, Cardinality
    <3> QED
      BY <2>2, <3>1, MaxUsesAssumption
      DEF InvitationsInv, AccountsMatchUses, Invites!AccountsMatchUses
  <2> QED
    BY <2>1, <2>2 DEF InvitationsInv
<1> QED
  BY <1>1, CountersInitially, InvitationsInductive, PTL DEF Spec

\* persons.py, compensation.py: when requests come one by one, the award is the
\* arithmetic of its amounts, is not exceeded, and reads paid only when it is.
THEOREM AwardsAreSound == Spec => []PaidWithinAward
<1>1. award = Comp!NoAward => PaidWithinAward
  BY DEF PaidWithinAward, Comp!PaidWithinAward, Comp!NoAward, Comp!ComputeAward,
         Comp!SolatiumAmount, Comp!Round
<1>2. CompensationInv => PaidWithinAward
  BY <1>1, AwardsSound DEF CompensationInv
<1> QED
  BY <1>2, CountersInitially, CompensationInductive, PTL DEF Spec

\* objections.py: however answers overlap or fail, a filer with a phone was texted
\* what the inbox shows; when they come one by one, it is the decision that stands.
THEOREM FilersAreTold == Spec => []DecisionsAreTold
<1>1. ObjectionsInv => DecisionsAreTold
  BY FilersTold DEF ObjectionsInv, DecisionsAreTold, Objs!DecisionsAreTold, Objs!Rows
<1> QED
  BY <1>1, CountersInitially, ObjectionsInductive, PTL DEF Spec

\* grievances.py: when requests come one by one, the history of a grievance is a
\* path to its status that never leaves a final one.
THEOREM GrievancesKeepTheirPath == Spec => []GrievanceHistoryIsAPath
<1>1. GrievancesInv => GrievanceHistoryIsAPath
  BY HistoriesTold
  DEF GrievancesInv, GrievanceHistoryIsAPath, Griev!HistoryIsAPath, Griev!Rows
<1> QED
  BY <1>1, CountersInitially, GrievancesInductive, PTL DEF Spec

\* parcels.py: however requests overlap or fail, an ownership change on record was
\* sent, as often as it is recorded; one by one, all that was sent is on record.
THEOREM RecordedMutationsWereSent == Spec => []MutationsWereSent
<1>1. PortalInv => MutationsWereSent
  BY RecordsWereSent DEF PortalInv, MutationsWereSent, Land!MutationsWereSent
<1> QED
  BY <1>1, CountersInitially, PortalInductive, PTL DEF Spec

\* landrecords.py: of a plot of any size, whichever portal is asked, the report names
\* what its record differs in, but for the few square metres that portal rounds by.
THEOREM PortalDifferencesAreTold == Spec => []ReconcileTellsTheDifference
BY DifferencesAreTold, PTL

\* ratelimit.py: however attempts overlap, the failures in the window stay below
\* the limit but for those under way; one by one, who comes back when a refusal
\* said is let in.
THEOREM RefusalsKeepTheirWord == Spec => []RefusalsArePromises
<1>1. ASSUME failures = <<>>, now = 0, promised = 0 PROVE RefusalsArePromises
  <2>1. Len(Doors!Recent) = 0
    BY <1>1, RecentIs, NothingRecent
  <2>2. Doors!Cardinality(Workers) \in Nat
    BY WorkersAssumption, FS_CardinalityType DEF Doors!Cardinality, Cardinality
  <2> QED
    BY <1>1, <2>1, <2>2, LimiterAssumption
    DEF RefusalsArePromises, Doors!RefusalsArePromises, Doors!NoPromise
<1>2. SignInInv => RefusalsArePromises
  BY <1>1, LimiterKeepsItsWord DEF SignInInv
<1> QED
  BY <1>2, CountersInitially, SignInInductive, PTL DEF Spec

-----------------------------------------------------------------------------
\* The types of the desk that is looked at, with what each needs besides.
TypesInv ==
    \/ desk = "documents" /\ DocFacts!ChainInv /\ Docs!TypeOK
    \/ desk = "compensation" /\ Comp!TypeOK
    \/ desk = "households" /\ Homes!TypeOK
    \/ desk = "parcels" /\ ParcelTypes
    \/ desk = "objections" /\ ObjectionTypes
    \/ desk = "grievances" /\ GrievanceTypes
    \/ desk = "notices" /\ Notes!TypeOK
    \/ desk = "invitations" /\ Invites!TypeOK
    \/ desk = "sign-in" /\ DoorTypes
    \/ desk = "authenticators" /\ FactorTypes
    \/ desk = "files" /\ FilesInv

LEMMA StepsOfHouseholds ==
    ASSUME [Next]_vars, desk = "households"
    PROVE  [Homes!Next]_(Homes!vars)
<1>1. CASE UNCHANGED vars
  BY <1>1 DEF vars, householdVars, Homes!vars
<1>2. CASE Next
  BY <1>2
  DEF Next, DocumentsNext, CompensationNext, HouseholdsNext, ParcelsNext, ObjectionsNext,
      GrievancesNext, NoticesNext, InvitationsNext, SignInsNext, AuthenticatorsNext,
      CaseFilesNext
<1> QED
  BY <1>1, <1>2

LEMMA DocumentsStayTyped ==
    ASSUME DocFacts!ChainInv, Docs!TypeOK, [Docs!Next]_(Docs!vars)
    PROVE  (DocFacts!ChainInv /\ Docs!TypeOK)'
<1>1. [DocFacts!Next]_(DocFacts!vars) /\ DocFacts!TypeOK
  BY SameDocuments, Zenon
<1>2. DocFacts!ChainInv'
  BY <1>1, DocFacts!ChainInductive, Zenon
<1>3. DocFacts!TypeOK'
  <2>1. MaxVersions \in Nat /\ MaxContents \in Nat
    BY BoundsAssumption
  <2> QED
    BY <1>1, <2>1, DocFacts!TypesInductive, Zenon
<1>4. Docs!TypeOK'
  BY <1>3, SameDocuments, PTL
<1> QED
  BY <1>2, <1>4

LEMMA TypesStay == TypesInv /\ [Next]_vars => TypesInv'
<1> SUFFICES ASSUME TypesInv, [Next]_vars PROVE TypesInv'
  OBVIOUS
<1>0. desk' = desk
  BY StepsOfADesk
<1>1. CASE desk = "documents"
  <2>1. [Docs!Next]_(Docs!vars) /\ DocFacts!ChainInv /\ Docs!TypeOK
    BY <1>1, StepsOfADesk DEF TypesInv
  <2>2. (DocFacts!ChainInv /\ Docs!TypeOK)'
    BY <2>1, DocumentsStayTyped
  <2> QED
    BY <1>0, <1>1, <2>2 DEF TypesInv
<1>2. CASE desk = "compensation"
  BY <1>0, <1>2, StepsOfADesk, AwardTypes DEF TypesInv
<1>3. CASE desk = "households"
  BY <1>0, <1>3, StepsOfHouseholds, HouseholdTypes DEF TypesInv
<1>4. CASE desk = "parcels"
  BY <1>0, <1>4, StepsOfADesk, ParcelTypesInductive DEF TypesInv
<1>5. CASE desk = "objections"
  BY <1>0, <1>5, StepsOfADesk, ObjectionTypesInductive DEF TypesInv
<1>6. CASE desk = "grievances"
  BY <1>0, <1>6, StepsOfADesk, GrievanceTypesInductive DEF TypesInv
<1>7. CASE desk = "notices"
  BY <1>0, <1>7, StepsOfADesk, NoticeTypesInductive DEF TypesInv
<1>8. CASE desk = "invitations"
  BY <1>0, <1>8, StepsOfADesk, InviteTypes DEF TypesInv
<1>9. CASE desk = "sign-in"
  BY <1>0, <1>9, StepsOfADesk, DoorTypesInductive DEF TypesInv
<1>10. CASE desk = "authenticators"
  BY <1>0, <1>10, StepsOfADesk, FactorTypesInductive DEF TypesInv
<1>11. CASE desk = "files"
  BY <1>0, <1>11, StepsOfFiles, FilesInductive DEF TypesInv
<1> QED
  BY <1>1, <1>2, <1>3, <1>4, <1>5, <1>6, <1>7, <1>8, <1>9, <1>10, <1>11 DEF TypesInv

LEMMA TypesInitially == Init => TypesInv
<1> SUFFICES ASSUME Init PROVE TypesInv
  OBVIOUS
<1>o. orderly \in BOOLEAN /\ desk \in OrderlyDesks \cup OverlappingDesks
  BY DEF Init
<1>r. /\ request = [w \in Workers |-> Idle]
      /\ \A Request : request \in [Workers -> {Idle} \cup Request]
      /\ \A w \in Workers : request[w] = Idle /\ request[w].op = "idle"
  BY DEF Init, Comp!Init, Comp!InitRequests, Comp!Idle, Idle
<1>e. \A S : <<>> \in Seq(S) /\ Len(<<>>) = 0
  OBVIOUS
<1>1. CASE desk = "documents"
  <2>1. DocFacts!Init
    BY SameDocuments DEF Init
  <2>2. DocFacts!ChainInv
    BY <2>1, DocFacts!ChainInitially
  <2>3. DocFacts!TypeOK
    <3>1. MaxVersions \in Nat \ {0} /\ MaxContents \in Nat \ {0}
      BY BoundsAssumption
    <3> QED
      BY <1>o, <2>1, <3>1, DocFacts!TypesInitially, Zenon
  <2> QED
    BY <1>1, <2>2, <2>3, SameDocuments DEF TypesInv
<1>2. CASE desk = "compensation"
  <2>1. award \in Comp!AwardRow
    BY DEF Init, Comp!Init, Comp!NoAward, Comp!AwardRow, Comp!CompensationStatus
  <2> QED
    BY <1>2, <1>o, <1>r, <2>1 DEF TypesInv, Comp!TypeOK, Comp!RequestsOK, Comp!Idle, Idle
<1>3. CASE desk = "households"
  <2>1. households = <<>> /\ benefits = <<>>
    BY DEF Init, Homes!Init
  <2> QED
    BY <1>3, <1>e, <1>o, <1>r, <2>1, BoundsAssumption
    DEF TypesInv, Homes!TypeOK, Homes!RequestsOK, Homes!Idle, Idle
<1>4. CASE desk = "parcels"
  <2>1. parcels = <<>> /\ pushes = <<>> /\ mutations = <<>>
    BY DEF Init, Land!Init
  <2> QED
    BY <1>4, <1>e, <1>o, <1>r, <2>1, BoundsAssumption
    DEF TypesInv, ParcelTypes, Land!TypeOK, Land!RequestsOK, Land!Idle, Idle
<1>5. CASE desk = "objections"
  <2>1. /\ objections = <<>> /\ inbox = [o \in Objs!Ids |-> Objs!NoAnswer]
        /\ texted = [o \in Objs!Ids |-> {}] /\ today = 1
    BY DEF Init, Objs!Init
  <2>2. inbox \in [Objs!Ids -> Objs!Answer \cup {Objs!NoAnswer}]
        /\ texted \in [Objs!Ids -> SUBSET Objs!Answer]
    BY <2>1
  <2>3. objections \in Seq([reach : Objs!Reach, row : Objs!ObjectionRow])
        /\ Len(objections) <= MaxObjections /\ today \in 1..LastDay
    BY <1>e, <2>1, BoundsAssumption
  <2>4. Objs!Idle = Idle
    BY DEF Objs!Idle, Idle
  <2> QED
    BY <1>5, <1>o, <1>r, <2>2, <2>3, <2>4
    DEF TypesInv, ObjectionTypes, Objs!TypeOK, Objs!RequestsOK
<1>6. CASE desk = "grievances"
  <2>1. grievances = <<>> /\ Griev!Issued = {} /\ Len(grievances) = 0
    BY DEF Init, Griev!Init, Griev!Issued, Griev!Rows
  <2>2. 0 <= MaxGrievances
    BY GrievanceBoundsAssumption, SMT
  <2> QED
    BY <1>6, <1>e, <1>o, <1>r, <2>1, <2>2
    DEF TypesInv, GrievanceTypes, Griev!TypeOK, Griev!RequestsOK, Griev!Idle, Idle
<1>7. CASE desk = "notices"
  <2>1. /\ stage \in CaseStages /\ notices = {} /\ subscriptions = <<>> /\ logins = 0
        /\ heard = {} /\ cut = {}
    BY DEF Init, Notes!Init
  <2> QED
    BY <1>7, <1>e, <1>o, <1>r, <2>1, BoundsAssumption, ListsAssumption
    DEF TypesInv, Notes!TypeOK, Notes!RequestsOK, Notes!Idle, Idle
<1>8. CASE desk = "invitations"
  <2>1. /\ invite = [issued |-> FALSE, used |-> 0, revoked |-> FALSE, plain |-> FALSE]
        /\ expired = FALSE /\ accounts = {}
    BY DEF Init, Invites!Init
  <2> QED
    BY <1>8, <1>o, <1>r, <2>1
    DEF TypesInv, Invites!TypeOK, Invites!RequestsOK, Invites!Idle, Idle, Invites!InviteRow
<1>9. CASE desk = "sign-in"
  <2>1. LimiterInv
    BY <1>9, CountersInitially DEF SignInInv
  <2>2. now <= LastTick
    BY BoundsAssumption DEF Init, Doors!Init
  <2> QED
    BY <1>9, <1>o, <2>1, <2>2 DEF TypesInv, DoorTypes
<1>10. CASE desk = "authenticators"
  <2>1. FactorInv /\ totp.pending = NoSecret /\ shown = {} /\ minted = {} /\ faces = <<>>
    BY FactorInitially DEF Init, Factors!Init
  <2> QED
    BY <1>10, <1>e, <1>o, <1>r, <2>1, BoundsAssumption DEF TypesInv, FactorTypes, HandedOut
<1>11. CASE desk = "files"
  BY <1>11, FilesInitially DEF TypesInv
<1> QED
  BY <1>o, <1>1, <1>2, <1>3, <1>4, <1>5, <1>6, <1>7, <1>8, <1>9, <1>10, <1>11,
     DesksAssumption

\* Whichever desk is looked at and however its requests overlap, fail or are lost
\* with the process, its rows and the requests under way are what the tables and
\* the schemas allow.
THEOREM TypeCorrect == Spec => []TypeOK
<1>1. TypesInv => TypeOK
  BY DoorsTyped, FactorsTyped
  DEF TypesInv, TypeOK, ParcelTypes, ObjectionTypes, GrievanceTypes, FilesInv
<1> QED
  BY <1>1, TypesInitially, TypesStay, PTL DEF Spec
=============================================================================
