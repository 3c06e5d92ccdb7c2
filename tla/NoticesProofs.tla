---------------------------- MODULE NoticesProofs ----------------------------
(***************************************************************************)
(* Theorems about Notices, for any sets of threads, instruments, stages    *)
(* and recipients and any number of subscriptions.                         *)
(***************************************************************************)
EXTENDS Notices, SequenceTheorems, TLAPS

\* A row of notification_subscriptions and a request, whatever the bounds.
Row == [number : Numbers, register : SUBSET NoticeTypes]

Labels == NoticeTypes \cup {"STATUS"}

NotifyRequest == [op : {"notify"}, label : Labels, due : SUBSET Nat]

LogRequest == [op : {"log"}, label : Labels, due : SUBSET Nat, to : SUBSET Nat]

AnyRequest ==
    {Idle} \cup [op : {"issue"}, kind : NoticeTypes]
    \cup [op : {"subscribe"}, number : Numbers] \cup [op : {"provision"}]
    \cup NotifyRequest \cup LogRequest

\* Whom a message is for is subscribed, and is among those it will be sent to.
DueIsServed(r) ==
    /\ r.op = "notify" => r.due \subseteq Rows
    /\ r.op = "log" => r.due \subseteq r.to

WellFormed ==
    /\ subscriptions \in Seq(Row) /\ notices \subseteq NoticeTypes
    /\ request \in [Workers -> AnyRequest]
    /\ \A w \in Workers : DueIsServed(request[w])

LEMMA RequestForms ==
    ASSUME NEW r \in AnyRequest
    PROVE  /\ r.op = "issue" => r.kind \in NoticeTypes
           /\ r.op = "subscribe" => r.number \in Numbers
           /\ r.op = "notify" => r \in NotifyRequest
           /\ r.op = "log" => r \in LogRequest
BY DEF AnyRequest, NotifyRequest, LogRequest, Idle

LEMMA RowsOfSeq ==
    ASSUME WellFormed
    PROVE  Rows = 1..Len(subscriptions) /\ Len(subscriptions) \in Nat
BY DEF WellFormed, Rows

\* A subscription is added after the others.
LEMMA Subscribing ==
    ASSUME WellFormed, NEW w \in Workers, CommitSubscription(w)
    PROVE  LET new == Len(subscriptions) + 1 IN
           /\ subscriptions' \in Seq(Row)
           /\ Rows' = Rows \cup {new} /\ new \notin Rows
           /\ \A s \in Rows : subscriptions'[s] = subscriptions[s]
           /\ subscriptions'[new].number = request[w].number
           /\ subscriptions'[new].register = notices
           /\ request' = [request EXCEPT ![w] =
                            [op |-> "notify", label |-> "STATUS", due |-> {new}]]
<1> DEFINE row == [number |-> request[w].number, register |-> notices]
<1>1. row \in Row
  BY RequestForms DEF CommitSubscription, WellFormed, Row
<1>2. subscriptions' = Append(subscriptions, row)
  BY DEF CommitSubscription
<1> HIDE DEF row
<1>3. /\ subscriptions' \in Seq(Row) /\ Len(subscriptions') = Len(subscriptions) + 1
      /\ \A s \in 1..Len(subscriptions) : subscriptions'[s] = subscriptions[s]
      /\ subscriptions'[Len(subscriptions) + 1] = row
  BY <1>1, <1>2, AppendProperties DEF WellFormed
<1>4. Rows' = 1..(Len(subscriptions) + 1)
  BY <1>3 DEF Rows
<1>5. row.number = request[w].number /\ row.register = notices
  BY DEF row
<1> QED
  BY <1>3, <1>4, <1>5, RowsOfSeq DEF CommitSubscription, GoOn

\* A request that goes on as r leaves the others as they were.
LEMMA OneRequestChanges ==
    ASSUME WellFormed, NEW w \in Workers, NEW r \in AnyRequest, DueIsServed(r)',
           request' = [request EXCEPT ![w] = r], Rows \subseteq Rows'
    PROVE  /\ request' \in [Workers -> AnyRequest]
           /\ \A v \in Workers : DueIsServed(request[v])'
<1>1. ASSUME NEW v \in Workers PROVE DueIsServed(request[v])'
  <2>1. CASE v = w
    BY <2>1 DEF WellFormed, DueIsServed
  <2>2. CASE v # w
    BY <2>2 DEF WellFormed, DueIsServed
  <2> QED
    BY <2>1, <2>2
<1> QED
  BY <1>1 DEF WellFormed

LEMMA WellFormedInductive == WellFormed /\ [Next]_vars => WellFormed'
<1> SUFFICES ASSUME WellFormed, [Next]_vars PROVE WellFormed'
  OBVIOUS
<1>0. Idle \in AnyRequest /\ DueIsServed(Idle)'
  BY DEF AnyRequest, DueIsServed, Idle
<1>1. ASSUME NEW w \in Workers, NEW kind \in NoticeTypes, IssueNotice(w, kind)
      PROVE  WellFormed'
  <2>1. /\ [op |-> "issue", kind |-> kind] \in AnyRequest
        /\ DueIsServed([op |-> "issue", kind |-> kind])'
    BY DEF AnyRequest, DueIsServed
  <2> QED
    BY <1>1, <2>1, OneRequestChanges DEF IssueNotice, Begin, WellFormed, Rows
<1>2. ASSUME NEW w \in Workers, CommitNotice(w) PROVE WellFormed'
  <2>1. PICK kind, due : kind = request[w].kind /\ due = Rows
    OBVIOUS
  <2>2. kind \in NoticeTypes /\ due \subseteq Nat
    BY <1>2, <2>1, RequestForms, RowsOfSeq DEF CommitNotice, WellFormed
  <2>3. [op |-> "notify", label |-> kind, due |-> due] \in AnyRequest
    BY <2>2 DEF AnyRequest, NotifyRequest, Labels
  <2>4. DueIsServed([op |-> "notify", label |-> kind, due |-> due])'
    BY <1>2, <2>1 DEF DueIsServed, CommitNotice, Rows
  <2> QED
    BY <1>2, <2>1, <2>2, <2>3, <2>4, OneRequestChanges
    DEF CommitNotice, GoOn, WellFormed, Rows
<1>3. ASSUME NEW w \in Workers, NEW number \in Numbers, Subscribe(w, number)
      PROVE  WellFormed'
  <2>1. /\ [op |-> "subscribe", number |-> number] \in AnyRequest
        /\ DueIsServed([op |-> "subscribe", number |-> number])'
    BY DEF AnyRequest, DueIsServed
  <2> QED
    BY <1>3, <2>1, OneRequestChanges DEF Subscribe, Begin, WellFormed, Rows
<1>4. ASSUME NEW w \in Workers, CommitSubscription(w) PROVE WellFormed'
  <2>1. PICK new : new = Len(subscriptions) + 1
    OBVIOUS
  <2>2. [op |-> "notify", label |-> "STATUS", due |-> {new}] \in AnyRequest
    BY <2>1, RowsOfSeq DEF AnyRequest, NotifyRequest, Labels
  <2>3. DueIsServed([op |-> "notify", label |-> "STATUS", due |-> {new}])'
    BY <1>4, <2>1, Subscribing DEF DueIsServed
  <2> QED
    BY <1>4, <2>1, <2>2, <2>3, Subscribing, OneRequestChanges
    DEF CommitSubscription, WellFormed
<1>5. ASSUME NEW w \in Workers, NotifySubscribers(w) PROVE WellFormed'
  <2>1. PICK q, to : q = request[w] /\ to = Rows
    OBVIOUS
  <2>2. q \in NotifyRequest /\ q.due \subseteq to /\ to \subseteq Nat
    BY <1>5, <2>1, RequestForms, RowsOfSeq DEF NotifySubscribers, WellFormed, DueIsServed
  <2>3. [op |-> "log", label |-> q.label, due |-> q.due, to |-> to] \in AnyRequest
    BY <2>2 DEF AnyRequest, NotifyRequest, LogRequest
  <2>4. DueIsServed([op |-> "log", label |-> q.label, due |-> q.due, to |-> to])'
    BY <2>2 DEF DueIsServed
  <2> QED
    BY <1>5, <2>1, <2>3, <2>4, OneRequestChanges
    DEF NotifySubscribers, GoOn, WellFormed, Rows
<1>6. ASSUME NEW w \in Workers,
             CommitLog(w) \/ NoticeRefused(w) \/ CommitAccount(w) \/ FailRequest(w)
      PROVE  WellFormed'
  BY <1>0, <1>6, OneRequestChanges
  DEF CommitLog, NoticeRefused, CommitAccount, FailRequest, Fail, Finish, GoOn, WellFormed, Rows
<1>7. ASSUME NEW w \in Workers, ProvisionLandowner(w) PROVE WellFormed'
  <2>1. [op |-> "provision"] \in AnyRequest /\ DueIsServed([op |-> "provision"])'
    BY DEF AnyRequest, DueIsServed
  <2> QED
    BY <1>7, <2>1, OneRequestChanges DEF ProvisionLandowner, Begin, WellFormed, Rows
<1>8. ASSUME CaseMoves \/ UNCHANGED vars PROVE WellFormed'
  BY <1>8 DEF CaseMoves, vars, WellFormed, DueIsServed, Rows
<1> QED
  BY <1>1, <1>2, <1>3, <1>4, <1>5, <1>6, <1>7, <1>8 DEF Next

LEMMA WellFormedInitially == Init => WellFormed
BY DEF Init, InitRequests, WellFormed, AnyRequest, DueIsServed, Idle, Rows

-----------------------------------------------------------------------------
\* Whether a request that is under way will tell the subscription.
Telling(r, s, label) == r.op \in {"notify", "log"} /\ r.label = label /\ s \in r.due

Told(s, label) ==
    \/ <<label, s>> \in heard \cup cut
    \/ \E w \in Workers : Telling(request[w], s, label)

\* What was told or is being told stays so, whoever steps.
LEMMA ToldStays ==
    ASSUME WellFormed, [Next]_vars, NEW s, NEW label, Told(s, label)
    PROVE  Told(s, label)'
<1>1. CASE <<label, s>> \in heard \cup cut
  BY <1>1 DEF Told, Next, IssueNotice, CommitNotice, NoticeRefused, Subscribe,
              CommitSubscription, NotifySubscribers, CommitLog, ProvisionLandowner,
              CommitAccount, CaseMoves, FailRequest, vars
<1>2. ASSUME NEW w \in Workers, Telling(request[w], s, label) PROVE Told(s, label)'
  <2>0. request[w] # Idle /\ request[w].op \in {"notify", "log"}
    BY <1>2 DEF Telling, Idle
  <2>1. CASE request'[w] = request[w]
    BY <1>2, <2>1 DEF Told, Telling
  <2>2. CASE request'[w] # request[w]
    <3>1. NotifySubscribers(w) \/ CommitLog(w) \/ FailRequest(w)
      <4>1. PICK v \in Workers :
              \/ \E kind \in NoticeTypes : IssueNotice(v, kind)
              \/ CommitNotice(v) \/ NoticeRefused(v)
              \/ \E number \in Numbers : Subscribe(v, number)
              \/ CommitSubscription(v) \/ NotifySubscribers(v) \/ CommitLog(v)
              \/ ProvisionLandowner(v) \/ CommitAccount(v) \/ FailRequest(v)
        BY <2>2 DEF Next, CaseMoves, vars
      <4>2. v = w
        BY <2>2, <4>1
        DEF WellFormed, IssueNotice, CommitNotice, NoticeRefused, Subscribe,
            CommitSubscription, NotifySubscribers, CommitLog, ProvisionLandowner,
            CommitAccount, FailRequest, Fail, Begin, Finish, GoOn
      <4> QED
        BY <2>0, <4>1, <4>2
        DEF IssueNotice, CommitNotice, NoticeRefused, Subscribe, CommitSubscription,
            ProvisionLandowner, CommitAccount, Begin
    <3>2. CASE NotifySubscribers(w)
      <4>1. request'[w] = [op |-> "log", label |-> request[w].label,
                           due |-> request[w].due, to |-> Rows]
        BY <3>2 DEF NotifySubscribers, GoOn, WellFormed
      <4> QED
        BY <1>2, <4>1 DEF Told, Telling
    <3>3. CASE CommitLog(w)
      <4>1. s \in request[w].to /\ request[w].label = label
        BY <1>2, <3>3 DEF CommitLog, WellFormed, DueIsServed, Telling
      <4> QED
        BY <3>3, <4>1 DEF CommitLog, Told
    <3>4. CASE FailRequest(w)
      BY <1>2, <3>4 DEF FailRequest, Told, Telling
    <3> QED
      BY <3>1, <3>2, <3>3, <3>4
  <2> QED
    BY <2>1, <2>2
<1> QED
  BY <1>1, <1>2 DEF Told

AllTold == \A s \in Rows : \A label \in Owed(s) : Told(s, label)

LEMMA AllToldInductive == WellFormed /\ AllTold /\ [Next]_vars => AllTold'
<1> SUFFICES ASSUME WellFormed, AllTold, [Next]_vars PROVE AllTold'
  OBVIOUS
<1>1. ASSUME NEW w \in Workers, CommitNotice(w) PROVE AllTold'
  <2> SUFFICES ASSUME NEW s \in Rows, NEW label \in Owed(s)' PROVE Told(s, label)'
    BY <1>1 DEF CommitNotice, AllTold, Rows
  <2>1. CASE label \in Owed(s)
    BY <2>1, ToldStays DEF AllTold
  <2>2. CASE label \notin Owed(s)
    <3>1. label = request[w].kind
      BY <1>1, <2>2 DEF CommitNotice, Owed
    <3>2. request'[w] = [op |-> "notify", label |-> request[w].kind, due |-> Rows]
      BY <1>1 DEF CommitNotice, GoOn, WellFormed
    <3> QED
      BY <3>1, <3>2 DEF Told, Telling
  <2> QED
    BY <2>1, <2>2
<1>2. ASSUME NEW w \in Workers, CommitSubscription(w) PROVE AllTold'
  <2> SUFFICES ASSUME NEW s \in Rows', NEW label \in Owed(s)' PROVE Told(s, label)'
    BY DEF AllTold
  <2>1. notices' = notices
    BY <1>2 DEF CommitSubscription
  <2>2. CASE s \in Rows
    <3>1. label \in Owed(s)
      BY <1>2, <2>1, <2>2, Subscribing DEF Owed
    <3> QED
      BY <2>2, <3>1, ToldStays DEF AllTold
  <2>3. CASE s = Len(subscriptions) + 1
    <3>1. label = "STATUS"
      <4>1. subscriptions'[s].register = notices
        BY <1>2, <2>3, Subscribing
      <4> QED
        BY <2>1, <4>1 DEF Owed
    <3>2. request'[w] = [op |-> "notify", label |-> "STATUS", due |-> {s}]
      BY <1>2, <2>3, Subscribing DEF WellFormed
    <3> QED
      BY <3>1, <3>2 DEF Told, Telling
  <2> QED
    BY <1>2, <2>2, <2>3, Subscribing
<1>3. ASSUME notices' = notices, subscriptions' = subscriptions PROVE AllTold'
  BY <1>3, ToldStays DEF AllTold, Rows, Owed
<1> QED
  BY <1>1, <1>2, <1>3
  DEF Next, IssueNotice, NoticeRefused, Subscribe, NotifySubscribers, CommitLog,
      ProvisionLandowner, CommitAccount, CaseMoves, FailRequest, vars

LEMMA AllToldInitially == Init => AllTold
BY DEF Init, AllTold, Rows

LEMMA AllAreTold == AllTold => SubscribersAreTold
BY DEF AllTold, Told, Telling, SubscribersAreTold

\* However requests overlap or fail, what a subscription is owed it was told, is
\* being told, or was left untold by a request that ended between its commits.
THEOREM NobodyIsForgotten == Spec => []SubscribersAreTold
BY WellFormedInitially, WellFormedInductive, AllToldInitially, AllToldInductive,
   AllAreTold, PTL DEF Spec

-----------------------------------------------------------------------------
\* Requests one by one: what a request found absent is absent until it commits.
Checked(r) ==
    /\ r.op = "provision" => logins = 0
    /\ r.op = "subscribe" => r.number \notin Subscribed

OnceInv ==
    /\ logins \in Nat
    /\ orderly =>
        /\ \A v, w \in Workers : request[v] # Idle /\ request[w] # Idle => v = w
        /\ \A w \in Workers : Checked(request[w])
    /\ RegisteredOnce

\* A step of the only request under way, which goes on as something unchecked.
LEMMA GoesOnUnchecked ==
    ASSUME WellFormed, OnceInv, orderly, NEW w \in Workers, NEW r \in AnyRequest,
           request[w] # Idle, request' = [request EXCEPT ![w] = r],
           r.op \notin {"provision", "subscribe"}
    PROVE  /\ \A v, u \in Workers : request'[v] # Idle /\ request'[u] # Idle => v = u
           /\ \A v \in Workers : Checked(request[v])'
<1>1. request'[w] = r /\ \A v \in Workers \ {w} : request'[v] = Idle
  BY DEF WellFormed, OnceInv
<1> QED
  BY <1>1 DEF Checked, Idle

LEMMA BeginsAlone ==
    ASSUME WellFormed, orderly, NEW w \in Workers, NEW r, Begin(w, r), Checked(r)'
    PROVE  /\ \A v, u \in Workers : request'[v] # Idle /\ request'[u] # Idle => v = u
           /\ \A v \in Workers : Checked(request[v])'
<1>1. request'[w] = r /\ \A v \in Workers \ {w} : request'[v] = Idle
  BY DEF Begin, AllIdle, WellFormed
<1> QED
  BY <1>1 DEF Checked, Idle

LEMMA OnceInductive == WellFormed /\ OnceInv /\ [Next]_vars => OnceInv'
<1> SUFFICES ASSUME WellFormed, OnceInv, [Next]_vars PROVE OnceInv'
  OBVIOUS
<1>0. Idle \in AnyRequest /\ Idle.op \notin {"provision", "subscribe"}
  BY DEF AnyRequest, Idle
<1>1. CASE ~orderly'
  <2>1. logins' \in Nat
    <3>1. logins' \in {logins, logins + 1}
      BY DEF Next, IssueNotice, CommitNotice, NoticeRefused, Subscribe,
             CommitSubscription, NotifySubscribers, CommitLog, ProvisionLandowner,
             CommitAccount, CaseMoves, FailRequest, vars
    <3> QED
      BY <3>1 DEF OnceInv
  <2> QED
    BY <1>1, <2>1 DEF OnceInv, RegisteredOnce
<1>2. CASE orderly'
  <2>0. orderly
    BY <1>2 DEF Next, IssueNotice, CommitNotice, NoticeRefused, Subscribe,
                CommitSubscription, NotifySubscribers, CommitLog, ProvisionLandowner,
                CommitAccount, CaseMoves, FailRequest, Begin, GoOn, Finish, Fail, vars
  <2>1. ASSUME NEW w \in Workers, NEW kind \in NoticeTypes, IssueNotice(w, kind)
        PROVE  OnceInv'
    <3>1. Checked([op |-> "issue", kind |-> kind])'
      BY DEF Checked
    <3> QED
      BY <2>0, <2>1, <3>1, BeginsAlone DEF IssueNotice, OnceInv, RegisteredOnce, Rows
  <2>2. ASSUME NEW w \in Workers, NEW number \in Numbers, Subscribe(w, number)
        PROVE  OnceInv'
    <3>1. Checked([op |-> "subscribe", number |-> number])'
      BY <2>2 DEF Subscribe, Checked, Subscribed, Rows
    <3> QED
      BY <2>0, <2>2, <3>1, BeginsAlone DEF Subscribe, OnceInv, RegisteredOnce, Rows
  <2>3. ASSUME NEW w \in Workers, ProvisionLandowner(w) PROVE OnceInv'
    <3>1. Checked([op |-> "provision"])'
      BY <2>3 DEF ProvisionLandowner, Checked
    <3> QED
      BY <2>0, <2>3, <3>1, BeginsAlone DEF ProvisionLandowner, OnceInv, RegisteredOnce, Rows
  <2>4. ASSUME NEW w \in Workers, CommitSubscription(w) PROVE OnceInv'
    <3>1. PICK new : new = Len(subscriptions) + 1
      OBVIOUS
    <3>2. [op |-> "notify", label |-> "STATUS", due |-> {new}] \in AnyRequest
      BY <3>1, RowsOfSeq DEF AnyRequest, NotifyRequest, Labels
    <3>3. request[w] # Idle /\ request[w].number \notin Subscribed
      BY <2>0, <2>4 DEF CommitSubscription, OnceInv, Checked, Idle
    <3>4. \A s, t \in Rows' : subscriptions'[s].number = subscriptions'[t].number => s = t
      <4>1. /\ Rows' = Rows \cup {new}
            /\ \A s \in Rows : subscriptions'[s] = subscriptions[s]
            /\ subscriptions'[new].number = request[w].number
        BY <2>4, <3>1, Subscribing
      <4>2. \A s \in Rows : subscriptions[s].number # request[w].number
        BY <3>3 DEF Subscribed
      <4>3. \A s, t \in Rows : subscriptions[s].number = subscriptions[t].number => s = t
        BY <2>0 DEF OnceInv, RegisteredOnce
      <4> QED
        BY <4>1, <4>2, <4>3
    <3> QED
      BY <2>0, <2>4, <3>1, <3>2, <3>3, <3>4, Subscribing, GoesOnUnchecked
      DEF CommitSubscription, OnceInv, RegisteredOnce
  <2>5. ASSUME NEW w \in Workers, CommitNotice(w) PROVE OnceInv'
    <3>1. PICK kind, due : kind = request[w].kind /\ due = Rows
      OBVIOUS
    <3>2. [op |-> "notify", label |-> kind, due |-> due] \in AnyRequest
      BY <2>5, <3>1, RequestForms, RowsOfSeq
      DEF CommitNotice, WellFormed, AnyRequest, NotifyRequest, Labels
    <3>3. request[w] # Idle
      BY <2>5 DEF CommitNotice, Idle
    <3> QED
      BY <2>0, <2>5, <3>1, <3>2, <3>3, GoesOnUnchecked
      DEF CommitNotice, GoOn, OnceInv, RegisteredOnce, Rows
  <2>6. ASSUME NEW w \in Workers, NotifySubscribers(w) PROVE OnceInv'
    <3>1. PICK q, to : q = request[w] /\ to = Rows
      OBVIOUS
    <3>2. [op |-> "log", label |-> q.label, due |-> q.due, to |-> to] \in AnyRequest
      BY <2>6, <3>1, RequestForms, RowsOfSeq
      DEF NotifySubscribers, WellFormed, AnyRequest, NotifyRequest, LogRequest
    <3>3. request[w] # Idle
      BY <2>6 DEF NotifySubscribers, Idle
    <3> QED
      BY <2>0, <2>6, <3>1, <3>2, <3>3, GoesOnUnchecked
      DEF NotifySubscribers, GoOn, OnceInv, RegisteredOnce, Rows
  <2>7. ASSUME NEW w \in Workers, CommitLog(w) \/ NoticeRefused(w) PROVE OnceInv'
    <3>1. request[w] # Idle
      BY <2>7 DEF CommitLog, NoticeRefused, Idle
    <3> QED
      BY <1>0, <2>0, <2>7, <3>1, GoesOnUnchecked
      DEF CommitLog, NoticeRefused, Finish, GoOn, OnceInv, RegisteredOnce, Rows
  <2>8. ASSUME NEW w \in Workers, CommitAccount(w) PROVE OnceInv'
    <3>1. request[w] # Idle /\ logins = 0
      BY <2>0, <2>8 DEF CommitAccount, OnceInv, Checked, Idle
    <3> QED
      <4>1. logins' = 1 /\ request' = [request EXCEPT ![w] = Idle]
            /\ subscriptions' = subscriptions
        BY <2>8, <3>1 DEF CommitAccount, Finish, GoOn
      <4>2. /\ \A v, u \in Workers : request'[v] # Idle /\ request'[u] # Idle => v = u
            /\ \A v \in Workers : Checked(request[v])'
        BY <1>0, <2>0, <3>1, <4>1, GoesOnUnchecked
      <4> QED
        BY <2>0, <4>1, <4>2 DEF OnceInv, RegisteredOnce, Rows
  <2>9. ASSUME \/ \E w \in Workers : FailRequest(w)
               \/ CaseMoves
               \/ UNCHANGED vars
        PROVE  OnceInv'
    <3>1. request' = request /\ subscriptions' = subscriptions /\ logins' = logins
      BY <2>0, <2>9 DEF FailRequest, Fail, CaseMoves, vars
    <3> QED
      BY <2>0, <3>1 DEF OnceInv, RegisteredOnce, Checked, Subscribed, Rows
  <2> QED
    BY <2>1, <2>2, <2>3, <2>4, <2>5, <2>6, <2>7, <2>8, <2>9 DEF Next
<1> QED
  BY <1>1, <1>2

LEMMA OnceInitially == Init => OnceInv
BY DEF Init, InitRequests, OnceInv, RegisteredOnce, Checked, Idle, Rows

\* When requests come one by one, a recipient is subscribed once and an owner
\* has one account.
THEOREM RegistersOnce == Spec => []RegisteredOnce
<1>1. OnceInv => RegisteredOnce
  BY DEF OnceInv
<1> QED
  BY <1>1, WellFormedInitially, WellFormedInductive, OnceInitially, OnceInductive, PTL
  DEF Spec
=============================================================================
