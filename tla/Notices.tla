------------------------------ MODULE Notices ------------------------------
(***************************************************************************)
(* The public side of one case with one parcel: its register of statutory  *)
(* instruments, the subscriptions to the parcel and the messages sent to   *)
(* them, and the account of its owner: app/routers/notices.py,             *)
(* app/services/landowner_notify.py.                                       *)
(*                                                                         *)
(* Issuing and subscribing commit twice: the row, and then the log of the  *)
(* messages that went out.  A subscription's channels (telephone, e-mail,  *)
(* browser) are checked and written alike, so a Number stands for one; a   *)
(* message that a provider refuses is logged like one that it takes.       *)
(***************************************************************************)
EXTENDS Requests, Stages, Sequences, FiniteSets

CONSTANTS
    NoticeTypes,      \* kinds of instrument officers issue (some of NoticeType)
    Numbers,          \* recipients that may subscribe
    CaseStages,       \* bound: stages the case goes through
    MaxSubscriptions  \* bound: rows of notification_subscriptions

VARIABLES
    stage,          \* the case's stage
    notices,        \* kinds of instrument on the register
    subscriptions,  \* rows of notification_subscriptions, by id
    logins,       \* how many landowner accounts the owner has
    heard,          \* what each subscription was told: rows of notification_log
    cut             \* what requests that ended between their commits were to tell

vars == <<orderly, request, stage, notices, subscriptions, logins, heard, cut>>

-----------------------------------------------------------------------------
NoticeType == {"PRELIMINARY_NOTIFICATION", "DECLARATION", "AWARD", "POSSESSION_NOTICE"}

MINIMUM_STAGE_FOR ==
    [kind \in NoticeType |->
        CASE kind = "PRELIMINARY_NOTIFICATION" -> PRELIMINARY_NOTIFICATION
          [] kind = "DECLARATION" -> DECLARATION
          [] kind = "AWARD" -> AWARD
          [] kind = "POSSESSION_NOTICE" -> POSSESSION]

\* What a message says: an instrument was issued, or where the case stands.
Label == NoticeType \cup {"STATUS"}

Id == 1..MaxSubscriptions

\* A subscription remembers what was on the register when it was made.
SubscriptionRow == [number : Numbers, register : SUBSET NoticeType]

\* due: the subscriptions a request's message is for; to: those it found.
Request ==
    [op : {"issue"}, kind : NoticeType]
    \cup [op : {"subscribe"}, number : Numbers]
    \cup [op : {"provision"}]
    \cup [op : {"notify"}, label : Label, due : SUBSET Id]
    \cup [op : {"log"}, label : Label, due : SUBSET Id, to : SUBSET Id]

Rows == DOMAIN subscriptions

Subscribed == {subscriptions[s].number : s \in Rows}

Init ==
    /\ InitRequests
    /\ stage \in CaseStages
    /\ notices = {} /\ subscriptions = <<>> /\ logins = 0
    /\ heard = {} /\ cut = {}

-----------------------------------------------------------------------------
\* POST /notices/register: the checks.
IssueNotice(w, kind) ==
    /\ stage >= MINIMUM_STAGE_FOR[kind]
    /\ kind \notin notices
    /\ Begin(w, [op |-> "issue", kind |-> kind])
    /\ UNCHANGED <<stage, notices, subscriptions, logins, heard, cut>>

\* The first commit.
CommitNotice(w) ==
    LET r == request[w] IN
    /\ r.op = "issue"
    /\ r.kind \notin notices
    /\ notices' = notices \cup {r.kind}
    /\ GoOn(w, [op |-> "notify", label |-> r.kind, due |-> Rows])
    /\ UNCHANGED <<stage, subscriptions, logins, heard, cut>>

\* uq_statutory_notice_case_type refuses the second of two.
NoticeRefused(w) ==
    /\ request[w].op = "issue"
    /\ request[w].kind \in notices
    /\ Finish(w)
    /\ UNCHANGED <<stage, notices, subscriptions, logins, heard, cut>>

-----------------------------------------------------------------------------
\* POST /notices/subscribe: the checks.
Subscribe(w, number) ==
    /\ number \notin Subscribed
    /\ Len(subscriptions) < MaxSubscriptions
    /\ Begin(w, [op |-> "subscribe", number |-> number])
    /\ UNCHANGED <<stage, notices, subscriptions, logins, heard, cut>>

\* The first commit.  No constraint backs the check.
CommitSubscription(w) ==
    LET r == request[w] IN
    /\ r.op = "subscribe"
    /\ Len(subscriptions) < MaxSubscriptions
    /\ subscriptions' = Append(subscriptions, [number |-> r.number, register |-> notices])
    /\ GoOn(w, [op |-> "notify", label |-> "STATUS", due |-> {Len(subscriptions) + 1}])
    /\ UNCHANGED <<stage, notices, logins, heard, cut>>

-----------------------------------------------------------------------------
\* Mutant of NotifySubscribers: only those who never had a message.
NotifyNewSubscribers(w) ==
    LET r == request[w] IN
    /\ r.op = "notify"
    /\ GoOn(w, [op |-> "log", label |-> r.label, due |-> r.due,
                to |-> {s \in Rows : \A l \in Label : <<l, s>> \notin heard}])
    /\ UNCHANGED <<stage, notices, subscriptions, logins, heard, cut>>

\* notify_landowner: every subscription of the parcel, whoever asked.
NotifySubscribers(w) ==
    LET r == request[w] IN
    /\ r.op = "notify"
    /\ GoOn(w, [op |-> "log", label |-> r.label, due |-> r.due, to |-> Rows])
    /\ UNCHANGED <<stage, notices, subscriptions, logins, heard, cut>>

\* The second commit.
CommitLog(w) ==
    LET r == request[w] IN
    /\ r.op = "log"
    /\ heard' = heard \cup ({r.label} \X r.to)
    /\ Finish(w)
    /\ UNCHANGED <<stage, notices, subscriptions, logins, cut>>

-----------------------------------------------------------------------------
\* Mutant of ProvisionLandowner: the owner's account is not looked for.
ProvisionUnchecked(w) ==
    /\ Begin(w, [op |-> "provision"])
    /\ UNCHANGED <<stage, notices, subscriptions, logins, heard, cut>>

\* POST /notices/provision: the owner has no account.
ProvisionLandowner(w) ==
    /\ logins = 0
    /\ Begin(w, [op |-> "provision"])
    /\ UNCHANGED <<stage, notices, subscriptions, logins, heard, cut>>

CommitAccount(w) ==
    /\ request[w].op = "provision"
    /\ logins' = logins + 1
    /\ Finish(w)
    /\ UNCHANGED <<stage, notices, subscriptions, heard, cut>>

-----------------------------------------------------------------------------
\* The case moves on or back (module CaseWorkflow).
CaseMoves ==
    /\ stage' \in AllowedTransitions(stage) \cap CaseStages
    /\ UNCHANGED <<orderly, request, notices, subscriptions, logins, heard, cut>>

\* A request ends early.  After its first commit, its messages are not told.
FailRequest(w) ==
    LET r == request[w] IN
    /\ Fail(w)
    /\ cut' = IF r.op \in {"notify", "log"} THEN cut \cup ({r.label} \X r.due) ELSE cut
    /\ UNCHANGED <<stage, notices, subscriptions, logins, heard>>

Next ==
    \/ \E w \in Workers :
        \/ \E kind \in NoticeTypes : IssueNotice(w, kind)
        \/ CommitNotice(w)
        \/ NoticeRefused(w)
        \/ \E number \in Numbers : Subscribe(w, number)
        \/ CommitSubscription(w)
        \/ NotifySubscribers(w)
        \/ CommitLog(w)
        \/ ProvisionLandowner(w)
        \/ CommitAccount(w)
        \/ FailRequest(w)
    \/ CaseMoves

Spec == orderly \in BOOLEAN /\ Init /\ [][Next]_vars

-----------------------------------------------------------------------------
\* Rows, messages and requests are well formed.
TypeOK ==
    /\ RequestsOK(Request)
    /\ stage \in Stage
    /\ notices \subseteq NoticeType
    /\ subscriptions \in Seq(SubscriptionRow)
    /\ Len(subscriptions) <= MaxSubscriptions
    /\ logins \in Nat
    /\ heard \subseteq Label \X Id
    /\ cut \subseteq Label \X Id

\* "That number is already subscribed to updates for this land" and
\* "Credentials have already been issued for this land record" (notices.py):
\* when requests come one after the other, a recipient is subscribed once and
\* an owner has one account.
RegisteredOnce ==
    orderly =>
        /\ logins <= 1
        /\ \A s, t \in Rows : subscriptions[s].number = subscriptions[t].number => s = t

\* What a subscription is owed: the state of the case, and every instrument
\* that was issued after it was made.
Owed(s) == {"STATUS"} \cup (notices \ subscriptions[s].register)

\* "Tell everyone already subscribed on this case's parcels" (notices.py):
\* however requests overlap, what a subscription is owed it was told, or the
\* request that owes it is still under way or ended between its two commits.
SubscribersAreTold ==
    \A s \in Rows : \A label \in Owed(s) :
        \/ <<label, s>> \in heard \cup cut
        \/ \E w \in Workers :
              /\ request[w].op \in {"notify", "log"}
              /\ request[w].label = label
              /\ s \in request[w].due
=============================================================================
