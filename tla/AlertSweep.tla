----------------------------- MODULE AlertSweep -----------------------------
(***************************************************************************)
(* The rule sweep (app/services/scheduler.py, or POST /admin/run-rules):   *)
(* services/alerts.py replaces the alerts by what the rules find now, and  *)
(* services/notify.py puts the findings in the officers' inboxes.          *)
(*                                                                         *)
(* A sweep is one transaction of several statements.  Its DELETE works on  *)
(* the rows committed when the statement began; rows another sweep is      *)
(* deleting make it wait, and are skipped if that sweep commits.  Rows     *)
(* that sweep inserted meanwhile are not seen.                             *)
(*                                                                         *)
(* A finding is a rule that fires on a case, numbered in the order fan_out *)
(* takes them; only findings severe enough for an inbox are kept here.     *)
(* Read notifications are forgotten: nothing looks at them again.          *)
(***************************************************************************)
EXTENDS Naturals, FiniteSets

CONSTANTS
    Sweepers,      \* the scheduler's loop, run-rules requests, a cron job
    Findings,      \* findings there may be
    Officers,      \* recipients_for(case, rule): the recipients of a finding
    Limit,         \* limit_per_run of fan_out
    MaxChanges,    \* bound: changes of the data the rules read
    MaxFailures    \* bound: sweeps that end with an exception

ASSUME FindingsAssumption == Findings \subseteq Nat /\ IsFiniteSet(Findings)
ASSUME BoundsAssumption == {Limit, MaxChanges, MaxFailures} \subseteq Nat

VARIABLES
    overlapping, \* whether the sweeps of this behaviour may overlap
    standing,   \* findings whose condition holds in the data now
    alerts,     \* committed rows of alerts: the finding, and whose sweep wrote it
    unread,     \* committed unread notifications: the officer and the finding
    sweep,      \* what each sweeper is doing
    changes, failures

vars == <<overlapping, standing, alerts, unread, sweep, changes, failures>>

Row == Findings \X Sweepers

Notification == Officers \X Findings

Idle == [phase |-> "idle"]

Sweep ==
    {Idle}
    \cup [phase : {"loaded"}, found : SUBSET Findings]
    \cup [phase : {"deleting", "deleted"}, found : SUBSET Findings, rows : SUBSET Row]
    \cup [phase : {"delivering"}, found : SUBSET Findings, rows : SUBSET Row,
          fresh : SUBSET Notification]

FindingsOf(rows) == {r[1] : r \in rows}

Init ==
    /\ overlapping \in BOOLEAN
    /\ standing \in SUBSET Findings
    /\ alerts = {}
    /\ unread = {}
    /\ sweep = [s \in Sweepers |-> Idle]
    /\ changes = 0
    /\ failures = 0

-----------------------------------------------------------------------------
\* load_cases and run_all_rules.
Load(s) ==
    /\ sweep[s] = Idle
    /\ overlapping \/ \A v \in Sweepers : sweep[v] = Idle
    /\ sweep' = [sweep EXCEPT ![s] = [phase |-> "loaded", found |-> standing]]
    /\ UNCHANGED <<overlapping, standing, alerts, unread, changes, failures>>

\* Mutant of BeginDelete: only this sweeper's own alerts are replaced.
BeginDeleteOwn(s) ==
    /\ sweep[s].phase = "loaded"
    /\ sweep' = [sweep EXCEPT ![s] = [phase |-> "deleting", found |-> @.found,
                                      rows |-> {r \in alerts : r[2] = s}]]
    /\ UNCHANGED <<overlapping, standing, alerts, unread, changes, failures>>

\* db.query(Alert).delete() begins, on the rows committed by now ...
BeginDelete(s) ==
    /\ sweep[s].phase = "loaded"
    /\ sweep' = [sweep EXCEPT ![s] =
            [phase |-> "deleting", found |-> @.found, rows |-> alerts]]
    /\ UNCHANGED <<overlapping, standing, alerts, unread, changes, failures>>

Deleting(v) == IF sweep[v].phase \in {"deleted", "delivering"} THEN sweep[v].rows ELSE {}

\* ... and ends once no other transaction holds one of them.
EndDelete(s) ==
    /\ sweep[s].phase = "deleting"
    /\ \A v \in Sweepers \ {s} : Deleting(v) \cap sweep[s].rows = {}
    /\ sweep' = [sweep EXCEPT ![s].phase = "deleted"]
    /\ UNCHANGED <<overlapping, standing, alerts, unread, changes, failures>>

\* The findings among the first Limit rows in the order of the query.
Considered(rows) ==
    {f \in FindingsOf(rows) : Cardinality({r \in rows : r[1] < f}) < Limit}

\* Mutant of AlertsSeen: the new alerts are not flushed before the fan-out.
AlertsSeenUnflushed(s) == alerts \ sweep[s].rows

\* The alerts the sweep's own transaction sees after the flush.
AlertsSeen(s) == (alerts \ sweep[s].rows) \cup (sweep[s].found \X {s})

\* fan_out: what does not sit unread in an inbox already.
FanOut(s) ==
    /\ sweep[s].phase = "deleted"
    /\ sweep' = [sweep EXCEPT ![s] =
            [phase |-> "delivering", found |-> @.found, rows |-> @.rows,
             fresh |-> (Officers \X Considered(AlertsSeen(s))) \ unread]]
    /\ UNCHANGED <<overlapping, standing, alerts, unread, changes, failures>>

\* What the sweepers are left with when the transaction of s committed: the
\* rows it deleted are no longer there for a DELETE that waited for them.
AfterCommit(s) ==
    [v \in Sweepers |->
        IF v = s THEN Idle
        ELSE IF sweep[v].phase = "deleting"
        THEN [sweep[v] EXCEPT !.rows = @ \ sweep[s].rows]
        ELSE sweep[v]]

\* Mutant of Commit: the alerts of the sweeps before are not deleted.
CommitKeepingOld(s) ==
    /\ sweep[s].phase = "delivering"
    /\ sweep[s].fresh \cap unread = {}
    /\ alerts' = alerts \cup (sweep[s].found \X {s})
    /\ unread' = unread \cup sweep[s].fresh
    /\ sweep' = AfterCommit(s)
    /\ UNCHANGED <<overlapping, standing, changes, failures>>

\* Mutant of Commit: the inboxes are rebuilt as the alerts are.
CommitRebuildingInbox(s) ==
    /\ sweep[s].phase = "delivering"
    /\ sweep[s].fresh \cap unread = {}
    /\ alerts' = AlertsSeen(s)
    /\ unread' = sweep[s].fresh
    /\ sweep' = AfterCommit(s)
    /\ UNCHANGED <<overlapping, standing, changes, failures>>

Commit(s) ==
    /\ sweep[s].phase = "delivering"
    /\ sweep[s].fresh \cap unread = {}
    /\ alerts' = AlertsSeen(s)
    /\ unread' = unread \cup sweep[s].fresh
    /\ sweep' = AfterCommit(s)
    /\ UNCHANGED <<overlapping, standing, changes, failures>>

\* The partial unique index refuses a second unread copy: all is rolled back.
Duplicate(s) ==
    /\ sweep[s].phase = "delivering"
    /\ sweep[s].fresh \cap unread # {}
    /\ sweep' = [sweep EXCEPT ![s] = Idle]
    /\ UNCHANGED <<overlapping, standing, alerts, unread, changes, failures>>

\* Any other exception; the loop tries again at its next interval.
Fail(s) ==
    /\ sweep[s] # Idle
    /\ failures < MaxFailures
    /\ failures' = failures + 1
    /\ sweep' = [sweep EXCEPT ![s] = Idle]
    /\ UNCHANGED <<overlapping, standing, alerts, unread, changes>>

\* POST /notifications/mark-read: one UPDATE of any of one's own.
MarkRead(u, read) ==
    /\ read # {}
    /\ read \subseteq {n \in unread : n[1] = u}
    /\ unread' = unread \ read
    /\ UNCHANGED <<overlapping, standing, alerts, sweep, changes, failures>>

\* Officers work, or days pass: a condition comes or goes.
Change(f) ==
    /\ changes < MaxChanges
    /\ changes' = changes + 1
    /\ standing' = (standing \ {f}) \cup ({f} \ standing)
    /\ UNCHANGED <<overlapping, alerts, unread, sweep, failures>>

SweepStep(s) == \/ Load(s) \/ BeginDelete(s) \/ EndDelete(s) \/ FanOut(s)
                \/ Commit(s) \/ Duplicate(s)

Next ==
    \/ \E s \in Sweepers : SweepStep(s) \/ Fail(s)
    \/ \E u \in Officers : \E read \in SUBSET unread : MarkRead(u, read)
    \/ \E f \in Findings : Change(f)

Spec == Init /\ [][Next]_vars

\* The loop comes round at every interval and a sweep that began goes on.
FairSpec == Spec /\ \A s \in Sweepers : WF_vars(SweepStep(s))

-----------------------------------------------------------------------------
\* Rows and sweeps are well formed.
TypeOK ==
    /\ overlapping \in BOOLEAN
    /\ standing \subseteq Findings
    /\ alerts \subseteq Row
    /\ unread \subseteq Notification
    /\ sweep \in [Sweepers -> Sweep]
    /\ changes \in 0..MaxChanges
    /\ failures \in 0..MaxFailures

(***************************************************************************)
(* "Safe to run more than once" (scheduler.py): with the table rebuilt on  *)
(* every run, a finding is in it once.  True of sweeps that follow each    *)
(* other, whoever runs them; not of sweeps that overlap.                   *)
(***************************************************************************)
NoDuplicateAlerts ==
    ~overlapping => \A r, q \in alerts : r[1] = q[1] => r = q

\* "an alert exists only while the condition that produced it is still true"
\* (alerts.py), as far as a sweep can tell: once the data stays as it is, the
\* alerts end up being the findings that stand, and stay so, whatever failed
\* or overlapped on the way.
AlertsConverge == <>[](FindingsOf(alerts) = standing)

\* "Create inbox items for every unresolved alert that does not already have
\* one open" (notify.py), of which the code takes the first Limit before it looks
\* at the inboxes: a finding that stands for good, and in the end with fewer than
\* Limit before it, is in every recipient's inbox again and again, however often
\* it is read.  The findings behind it may wait for ever.
FindingsDelivered ==
    \A n \in Notification :
        <>[](n[2] \in standing /\ Cardinality({f \in standing : f < n[2]}) < Limit)
            => []<>(n \in unread)

\* A sweep never takes an item out of an inbox, and without overlap never adds
\* one for a finding that is not among the alerts it leaves.
SweepOnlyAddsFindings ==
    [][alerts' # alerts =>
          /\ unread \subseteq unread'
          /\ ~overlapping =>
                \A n \in unread' \ unread : n[2] \in FindingsOf(alerts')]_vars
=============================================================================
