-------------------------- MODULE AlertSweepProofs --------------------------
(***************************************************************************)
(* Theorems about AlertSweep, for any sets of sweepers and officers, any   *)
(* finite set of findings, any limit and any bounds.                       *)
(***************************************************************************)
EXTENDS AlertSweep, TLAPS

USE FindingsAssumption, BoundsAssumption

\* A sweep that is under way, and what it then holds.
LEMMA SweepTypes ==
    ASSUME NEW x \in Sweep
    PROVE  /\ x.phase \in {"loaded", "deleting", "deleted", "delivering"}
                 => x.found \subseteq Findings
           /\ x.phase \in {"deleting", "deleted", "delivering"} => x.rows \subseteq Row
           /\ x.phase = "delivering" => x.fresh \subseteq Notification
           /\ x.phase = "idle" <=> x = Idle
<1>1. CASE x = Idle
  BY <1>1 DEF Idle
<1>2. CASE x \in [phase : {"loaded"}, found : SUBSET Findings]
  BY <1>2 DEF Idle
<1>3. CASE x \in [phase : {"deleting", "deleted"}, found : SUBSET Findings, rows : SUBSET Row]
  BY <1>3 DEF Idle
<1>4. CASE x \in [phase : {"delivering"}, found : SUBSET Findings, rows : SUBSET Row,
                  fresh : SUBSET Notification]
  BY <1>4 DEF Idle
<1> QED
  BY <1>1, <1>2, <1>3, <1>4 DEF Sweep

\* Type correctness.
THEOREM TypeCorrect == Spec => []TypeOK
<1>1. Init => TypeOK
  BY DEF Init, TypeOK, Sweep
<1>2. TypeOK /\ [Next]_vars => TypeOK'
  <2> SUFFICES ASSUME TypeOK, [Next]_vars PROVE TypeOK'
    OBVIOUS
  <2> USE DEF TypeOK
  <2>1. ASSUME NEW s \in Sweepers, Load(s) PROVE TypeOK'
    BY <2>1 DEF Load, Sweep
  <2>2. ASSUME NEW s \in Sweepers, BeginDelete(s) PROVE TypeOK'
    <3>1. sweep[s].found \subseteq Findings
      BY <2>2, SweepTypes DEF BeginDelete
    <3>2. [phase |-> "deleting", found |-> sweep[s].found, rows |-> alerts] \in Sweep
      BY <3>1 DEF Sweep
    <3> QED
      BY <2>2, <3>2 DEF BeginDelete
  <2>3. ASSUME NEW s \in Sweepers, EndDelete(s) PROVE TypeOK'
    <3>1. sweep[s] \in [phase : {"deleting", "deleted"}, found : SUBSET Findings,
                        rows : SUBSET Row]
      BY <2>3 DEF EndDelete, Sweep, Idle
    <3>2. [sweep[s] EXCEPT !.phase = "deleted"] \in Sweep
      BY <3>1 DEF Sweep
    <3> QED
      BY <2>3, <3>2 DEF EndDelete
  <2>4. ASSUME NEW s \in Sweepers, FanOut(s) PROVE TypeOK'
    <3>1. /\ sweep[s].found \subseteq Findings
          /\ sweep[s].rows \subseteq Row
      BY <2>4, SweepTypes DEF FanOut
    <3>2. AlertsSeen(s) \subseteq Row
      BY <3>1 DEF AlertsSeen, Row
    <3>3. Considered(AlertsSeen(s)) \subseteq Findings
      BY <3>2 DEF Considered, FindingsOf, Row
    <3>4. [phase |-> "delivering", found |-> sweep[s].found, rows |-> sweep[s].rows,
           fresh |-> (Officers \X Considered(AlertsSeen(s))) \ unread] \in Sweep
      BY <3>1, <3>3 DEF Sweep, Notification
    <3> QED
      BY <2>4, <3>4 DEF FanOut
  <2>5. ASSUME NEW s \in Sweepers, Commit(s) PROVE TypeOK'
    <3>1. /\ sweep[s].found \subseteq Findings
          /\ sweep[s].fresh \subseteq Notification
      BY <2>5, SweepTypes DEF Commit
    <3>2. AlertsSeen(s) \subseteq Row
      BY <3>1 DEF AlertsSeen, Row
    <3>3. AfterCommit(s) \in [Sweepers -> Sweep]
      <4>1. ASSUME NEW v \in Sweepers, sweep[v].phase = "deleting"
            PROVE  [sweep[v] EXCEPT !.rows = @ \ sweep[s].rows] \in Sweep
        <5>1. sweep[v] \in [phase : {"deleting", "deleted"}, found : SUBSET Findings,
                            rows : SUBSET Row]
          BY <4>1 DEF Sweep, Idle
        <5> QED
          BY <5>1 DEF Sweep
      <4> QED
        BY <4>1 DEF AfterCommit, Sweep
    <3> QED
      BY <2>5, <3>1, <3>2, <3>3 DEF Commit
  <2>6. ASSUME NEW s \in Sweepers, Duplicate(s) \/ Fail(s) PROVE TypeOK'
    <3>1. Idle \in Sweep
      BY DEF Sweep
    <3>2. MaxFailures \in Nat
      OBVIOUS
    <3>3. failures' \in 0..MaxFailures
      BY <2>6, <3>2 DEF Duplicate, Fail
    <3> QED
      BY <2>6, <3>1, <3>3 DEF Duplicate, Fail
  <2>7. ASSUME NEW u \in Officers, NEW read \in SUBSET unread, MarkRead(u, read)
        PROVE  TypeOK'
    BY <2>7 DEF MarkRead
  <2>8. ASSUME NEW f \in Findings, Change(f) PROVE TypeOK'
    BY <2>8 DEF Change
  <2>9. ASSUME UNCHANGED vars PROVE TypeOK'
    BY <2>9 DEF vars
  <2> QED
    BY <2>1, <2>2, <2>3, <2>4, <2>5, <2>6, <2>7, <2>8, <2>9 DEF Next, SweepStep
<1> QED
  BY <1>1, <1>2, PTL DEF Spec

-----------------------------------------------------------------------------
(***************************************************************************)
(* What makes sweeps that follow each other right: only one is under way,  *)
(* the rows its DELETE took are all the rows there are, and what it is to  *)
(* deliver are findings of its own.                                        *)
(***************************************************************************)
TakesAll(s) ==
    /\ sweep[s].phase \in {"deleting", "deleted", "delivering"} => sweep[s].rows = alerts
    /\ sweep[s].phase = "delivering" => \A n \in sweep[s].fresh : n[2] \in sweep[s].found

InTurns ==
    ~overlapping =>
        /\ \A s, v \in Sweepers : sweep[s] # Idle /\ sweep[v] # Idle => s = v
        /\ \A s \in Sweepers : TakesAll(s)
        /\ \A r, q \in alerts : r[1] = q[1] => r = q

\* A sweep that took all the rows leaves its own findings only.
LEMMA SeesItsOwn ==
    ASSUME NEW s \in Sweepers, sweep[s].rows = alerts
    PROVE  /\ AlertsSeen(s) = sweep[s].found \X {s}
           /\ FindingsOf(AlertsSeen(s)) = sweep[s].found
<1>1. AlertsSeen(s) = sweep[s].found \X {s}
  BY DEF AlertsSeen
<1>2. ASSUME NEW f \in sweep[s].found PROVE f \in FindingsOf(AlertsSeen(s))
  <2>1. <<f, s>> \in AlertsSeen(s) /\ <<f, s>>[1] = f
    BY <1>1
  <2> QED
    BY <2>1 DEF FindingsOf
<1>3. FindingsOf(AlertsSeen(s)) \subseteq sweep[s].found
  BY <1>1 DEF FindingsOf
<1> QED
  BY <1>1, <1>2, <1>3

LEMMA InTurnsInductive == TypeOK /\ InTurns /\ [Next]_vars => InTurns'
<1> SUFFICES ASSUME TypeOK, InTurns, [Next]_vars, ~overlapping' PROVE InTurns'
  BY DEF InTurns
<1> USE DEF TypeOK
<1>0. ~overlapping
  BY DEF Next, SweepStep, Load, BeginDelete, EndDelete, FanOut, Commit, Duplicate, Fail,
         MarkRead, Change, vars
<1>1. ASSUME NEW s \in Sweepers, Load(s) PROVE InTurns'
  BY <1>0, <1>1 DEF Load, InTurns, TakesAll, Idle
<1>2. ASSUME NEW s \in Sweepers, BeginDelete(s) PROVE InTurns'
  BY <1>0, <1>2 DEF BeginDelete, InTurns, TakesAll, Idle
<1>3. ASSUME NEW s \in Sweepers, EndDelete(s) PROVE InTurns'
  <2>1. sweep[s] \in [phase : {"deleting", "deleted"}, found : SUBSET Findings,
                      rows : SUBSET Row]
    BY <1>3 DEF EndDelete, Sweep, Idle
  <2>2. /\ sweep'[s].phase = "deleted"
        /\ sweep'[s].rows = sweep[s].rows
        /\ sweep[s] # Idle
        /\ \A v \in Sweepers \ {s} : sweep'[v] = sweep[v]
    BY <1>3, <2>1 DEF EndDelete, Idle
  <2> QED
    BY <1>0, <1>3, <2>2 DEF EndDelete, InTurns, TakesAll
<1>4. ASSUME NEW s \in Sweepers, FanOut(s) PROVE InTurns'
  <2>1. /\ sweep[s].rows = alerts
        /\ sweep[s] # Idle
    BY <1>0, <1>4 DEF FanOut, InTurns, TakesAll, Idle
  <2>2. Considered(AlertsSeen(s)) \subseteq sweep[s].found
    BY <2>1, SeesItsOwn DEF Considered
  <2>3. /\ sweep'[s].phase = "delivering"
        /\ sweep'[s].rows = sweep[s].rows
        /\ sweep'[s].found = sweep[s].found
        /\ sweep'[s].fresh = (Officers \X Considered(AlertsSeen(s))) \ unread
        /\ \A v \in Sweepers \ {s} : sweep'[v] = sweep[v]
        /\ alerts' = alerts /\ overlapping' = overlapping
    BY <1>4 DEF FanOut
  <2>4. \A n \in sweep'[s].fresh : n[2] \in sweep'[s].found
    BY <2>2, <2>3
  <2> QED
    BY <1>0, <2>1, <2>3, <2>4 DEF InTurns, TakesAll
<1>5. ASSUME NEW s \in Sweepers, Commit(s) PROVE InTurns'
  <2>1. sweep[s].rows = alerts /\ sweep[s] # Idle
    BY <1>0, <1>5 DEF Commit, InTurns, TakesAll, Idle
  <2>2. \A v \in Sweepers : sweep'[v] = Idle
    <3>1. \A v \in Sweepers \ {s} : sweep[v] = Idle
      BY <1>0, <2>1 DEF InTurns
    <3> QED
      BY <1>5, <3>1 DEF Commit, AfterCommit, Idle
  <2>3. alerts' = sweep[s].found \X {s}
    BY <1>5, <2>1, SeesItsOwn DEF Commit
  <2> QED
    BY <2>2, <2>3 DEF InTurns, TakesAll, Idle
<1>6. ASSUME NEW s \in Sweepers, Duplicate(s) \/ Fail(s) PROVE InTurns'
  BY <1>0, <1>6 DEF Duplicate, Fail, InTurns, TakesAll, Idle
<1>7. ASSUME NEW u \in Officers, NEW read \in SUBSET unread, MarkRead(u, read)
      PROVE  InTurns'
  BY <1>0, <1>7 DEF MarkRead, InTurns, TakesAll
<1>8. ASSUME NEW f \in Findings, Change(f) PROVE InTurns'
  BY <1>0, <1>8 DEF Change, InTurns, TakesAll
<1>9. ASSUME UNCHANGED vars PROVE InTurns'
  BY <1>0, <1>9 DEF vars, InTurns, TakesAll
<1> QED
  BY <1>1, <1>2, <1>3, <1>4, <1>5, <1>6, <1>7, <1>8, <1>9 DEF Next, SweepStep

LEMMA AlwaysInTurns == Spec => []InTurns
<1>1. Init => InTurns
  BY DEF Init, InTurns, TakesAll, Idle
<1> QED
  BY <1>1, InTurnsInductive, TypeCorrect, PTL DEF Spec

\* Sweeps that follow each other leave a finding in the table once.
THEOREM OneAlertPerFinding == Spec => []NoDuplicateAlerts
<1>1. InTurns => NoDuplicateAlerts
  BY DEF InTurns, NoDuplicateAlerts
<1> QED
  BY <1>1, AlwaysInTurns, PTL

\* The commit of a sweep takes nothing out of an inbox, and when sweeps follow
\* each other what it adds is among the alerts it leaves.
THEOREM InboxesOnlyGrow == Spec => SweepOnlyAddsFindings
<1> DEFINE Step == alerts' # alerts =>
                      /\ unread \subseteq unread'
                      /\ ~overlapping =>
                            \A n \in unread' \ unread : n[2] \in FindingsOf(alerts')
<1>1. TypeOK /\ InTurns /\ [Next]_vars => [Step]_vars
  <2> SUFFICES ASSUME TypeOK, InTurns, [Next]_vars, alerts' # alerts PROVE Step
    OBVIOUS
  <2>1. PICK s \in Sweepers : Commit(s)
    BY DEF Next, SweepStep, Load, BeginDelete, EndDelete, FanOut, Duplicate, Fail,
           MarkRead, Change, vars
  <2>2. unread' = unread \cup sweep[s].fresh /\ alerts' = AlertsSeen(s)
    BY <2>1 DEF Commit
  <2>3. ASSUME ~overlapping, NEW n \in unread' \ unread PROVE n[2] \in FindingsOf(alerts')
    <3>1. sweep[s].rows = alerts /\ n[2] \in sweep[s].found
      BY <2>1, <2>2, <2>3 DEF InTurns, TakesAll, Commit
    <3> QED
      BY <2>2, <3>1, SeesItsOwn
  <2> QED
    BY <2>2, <2>3
<1> QED
  BY <1>1, TypeCorrect, AlwaysInTurns, PTL DEF Spec, SweepOnlyAddsFindings
=============================================================================
