------------------------- MODULE CaseWorkflowProofs -------------------------
(***************************************************************************)
(* Theorems about CaseWorkflow, for any number of workers, objections and  *)
(* survey tasks, any stage allowances and any bounds.                      *)
(***************************************************************************)
EXTENDS CaseWorkflow, TLAPS

USE StandardDaysAssumption, StartStagesAssumption, BoundsAssumption

\* A commit leaves a well-formed row: every column is the stored or the
\* assigned one.
LEMMA CommitType ==
    ASSUME case \in CaseRow, NEW r, r.loaded \in CaseRow, r.assigned \in CaseRow
    PROVE  Commit(r) \in CaseRow
BY DEF Commit, CaseRow, Written

\* advance_case leaves a well-formed row in the session.
LEMMA AdvancedType ==
    ASSUME NEW row \in CaseRow, NEW to \in Stage, NEW day \in Nat
    PROVE  /\ Advanced(row, to, day) \in CaseRow
           /\ Advanced(row, to, day).stage = to
<1> DEFINE moved == [row EXCEPT !.stage = to, !.changedAt = day,
                        !.status = IF to = TERMINAL_STAGE THEN "CLOSED" ELSE "ACTIVE"]
<1>1. moved \in CaseRow /\ moved.stage = to /\ moved.changedAt = day
  BY DEF CaseRow, CaseStatus
<1>2. DueDateFor(to, day) \in Nat
  BY DEF DueDateFor
<1>3. Advanced(row, to, day) = [moved EXCEPT !.dueOn = DueDateFor(to, day)]
  BY <1>1 DEF Advanced, ApplyDueDate
<1> QED
  BY <1>1, <1>2, <1>3 DEF CaseRow

\* Every case begins with a timeline that is a well-formed sequence of rows,
\* the last of which is the stage it is at.
LEMMA InitHistory ==
    ASSUME Init
    PROVE  /\ history \in Seq(HistoryRow)
           /\ Len(history) = case.stage
           /\ \A i \in 1..Len(history) :
                 history[i] = [from |-> i - 1, to |-> i, by |-> "STAGE_OWNER", on |-> 0]
<1> PICK s \in StartStages :
        /\ case = Opened(s)
        /\ history = [i \in 1..s |-> [from |-> i - 1, to |-> i,
                                      by |-> "STAGE_OWNER", on |-> 0]]
  BY DEF Init
<1>1. s \in 1..9
  BY DEF Stage
<1>2. \A i \in 1..s : [from |-> i - 1, to |-> i, by |-> "STAGE_OWNER", on |-> 0]
                        \in HistoryRow
  <2> TAKE i \in 1..s
  <2>1. s \in Int /\ s <= 9
    BY <1>1
  <2>2. i \in Int /\ 1 <= i /\ i <= 9
    <3>1. i \in Int /\ 1 <= i /\ i <= s
      BY <2>1
    <3> QED
      BY <2>1, <3>1
  <2>3. i - 1 \in Stage \cup {NoStage} /\ i \in Stage
    <3>1. i - 1 \in 0..9 /\ i \in 1..9
      BY <2>2
    <3>2. 0..9 = 1..9 \cup {0}
      OBVIOUS
    <3> QED
      BY <3>1, <3>2 DEF Stage, NoStage
  <2>4. "STAGE_OWNER" \in Role /\ 0 \in Nat
    BY DEF Role
  <2> QED
    BY <2>3, <2>4 DEF HistoryRow
<1>3. history \in [1..s -> HistoryRow]
  BY <1>2
<1>4. history \in Seq(HistoryRow) /\ Len(history) = s
  BY <1>1, <1>3
<1> QED
  BY <1>4 DEF Opened

\* Type correctness.
THEOREM TypeCorrect == Spec => []TypeOK
<1>1. Init => TypeOK
  <2> SUFFICES ASSUME Init PROVE TypeOK
    OBVIOUS
  <2>1. case \in CaseRow
    BY DEF Init, Opened, CaseRow, CaseStatus, DueDateFor
  <2> QED
    BY <2>1, InitHistory DEF Init, TypeOK, ObjectionStatus, SurveyState, Request
<1>2. TypeOK /\ [Next]_vars => TypeOK'
  <2> SUFFICES ASSUME TypeOK, [Next]_vars PROVE TypeOK'
    OBVIOUS
  <2> USE DEF TypeOK
  <2>1. ASSUME NEW w \in Workers, NEW role \in Role, NEW to \in Stage,
               BeginAdvance(w, role, to)
        PROVE  TypeOK'
    BY <2>1 DEF BeginAdvance, Request, Loaded
  <2>2. ASSUME NEW w \in Workers, PassGates(w)
        PROVE  TypeOK'
    <3>1. request[w] \in Loaded
      BY <2>2 DEF PassGates, Request, Loaded, Ready, Idle
    <3>2. Advanced(request[w].loaded, request[w].to, today) \in CaseRow
      BY <3>1, AdvancedType DEF Loaded
    <3> QED
      BY <2>2, <3>1, <3>2 DEF PassGates, Request, Loaded, Ready
  <2>3. ASSUME NEW w \in Workers, RefusedAtGates(w)
        PROVE  TypeOK'
    BY <2>3 DEF RefusedAtGates, Request
  <2>4. ASSUME NEW w \in Workers, CommitAdvance(w)
        PROVE  TypeOK'
    <3> DEFINE r == request[w]
    <3>1. r.by \in Role /\ r.loaded \in CaseRow /\ r.assigned \in CaseRow
      BY <2>4 DEF CommitAdvance, Request, Loaded, Ready, Idle
    <3>2. Commit(r) \in CaseRow
      BY <3>1, CommitType
    <3>3. TimelineRow(r) \in HistoryRow
      BY <3>1 DEF TimelineRow, HistoryRow, CaseRow
    <3> QED
      BY <2>4, <3>2, <3>3 DEF CommitAdvance, Request
  <2>5. ASSUME NEW w \in Workers, BeginHold(w)
        PROVE  TypeOK'
    BY <2>5 DEF BeginHold, Request, Ready, CaseRow, CaseStatus
  <2>6. ASSUME NEW w \in Workers, BeginResume(w)
        PROVE  TypeOK'
    BY <2>6 DEF BeginResume, Request, Ready, CaseRow, CaseStatus
  <2>7. ASSUME NEW w \in Workers, NEW op \in {"hold", "resume"}, CommitStatus(w, op)
        PROVE  TypeOK'
    <3>1. request[w].loaded \in CaseRow /\ request[w].assigned \in CaseRow
      BY <2>7 DEF CommitStatus, Request, Loaded, Ready, Idle
    <3> QED
      BY <2>7, <3>1, CommitType DEF CommitStatus, Request
  <2>8. ASSUME NEW w \in Workers, NEW o \in Objections,
               \/ FileObjection(w, o)
               \/ \E d \in {"UNDER_REVIEW", "RESOLVED", "REJECTED"} :
                     RespondToObjection(w, o, d)
        PROVE  TypeOK'
    BY <2>8 DEF FileObjection, RespondToObjection, ObjectionStatus
  <2>9. ASSUME NEW w \in Workers, NEW t \in Surveys,
               \/ CreateSurveyTask(w, t)
               \/ ApproveSurvey(w, t)
               \/ \E v \in Workers : ReturnAfterApproval(w, v, t)
        PROVE  TypeOK'
    BY <2>9 DEF CreateSurveyTask, ApproveSurvey, ReturnAfterApproval, SurveyState
  <2>10. CASE NextDay
    BY <2>10 DEF NextDay
  <2>11. CASE UNCHANGED vars
    BY <2>11 DEF vars
  <2> QED
    BY <2>1, <2>2, <2>3, <2>4, <2>5, <2>6, <2>7, <2>8, <2>9, <2>10, <2>11 DEF Next
<1> QED
  BY <1>1, <1>2, PTL DEF Spec

-----------------------------------------------------------------------------
(***************************************************************************)
(* The timeline and the case, however requests overlap.  RequestsSettled   *)
(* is the strengthening: what a request decided on the row it loaded is    *)
(* still true of that row when it commits, whatever the stored row is.     *)
(***************************************************************************)
TimelineInv == HistoryEndsAtStage /\ HistoryRowsLegal /\ RequestsSettled

\* A move is never to the stage it leaves, so its UPDATE always writes stage.
LEMMA MoveChangesStage ==
    ASSUME NEW s \in Stage, NEW to \in AllowedTransitions(s)
    PROVE  to \in Stage /\ to # s
BY DEF AllowedTransitions, Stage

\* A case begins where its timeline ends, every row of it one step forward.
LEMMA InitTimeline == Init => TimelineInv
<1> SUFFICES ASSUME Init PROVE TimelineInv
  OBVIOUS
<1>0. PICK s \in StartStages : case = Opened(s)
  BY DEF Init
<1>1. case.stage \in Int /\ 1 <= case.stage /\ case.stage <= 9
  <2>1. s \in 1..9
    BY DEF Stage
  <2>2. case.stage = s
    BY <1>0 DEF Opened
  <2> QED
    BY <2>1, <2>2
<1>2. history \in Seq(HistoryRow) /\ Len(history) = case.stage
  BY InitHistory
<1>3. ASSUME NEW i \in 1..Len(history)
      PROVE  /\ i \in Int /\ 1 <= i /\ i <= 9
             /\ history[i].from = i - 1
             /\ history[i].to = i
             /\ history[i].by = "STAGE_OWNER"
  <2>1. i \in Int /\ 1 <= i /\ i <= Len(history)
    BY <1>1, <1>2
  <2>2. history[i] = [from |-> i - 1, to |-> i, by |-> "STAGE_OWNER", on |-> 0]
    BY InitHistory
  <2> QED
    BY <1>1, <1>2, <2>1, <2>2
<1>4. HistoryEndsAtStage
  BY <1>1, <1>2, <1>3 DEF HistoryEndsAtStage, LastRow
<1>5. HistoryRowsLegal
  <2> SUFFICES ASSUME NEW i \in 2..Len(history)
               PROVE  /\ history[i].to \in AllowedTransitions(history[i].from)
                      /\ CanAdvance(history[i].by, history[i].from)
    BY DEF HistoryRowsLegal
  <2>1. i \in 1..Len(history) /\ i \in Int /\ 2 <= i
    BY <1>1, <1>2
  <2>2. i <= 9 /\ history[i].from = i - 1 /\ history[i].to = i
        /\ history[i].by = "STAGE_OWNER"
    BY <1>3, <2>1
  <2>3. i \in Stage /\ (i - 1) + 1 = i
    <3>1. i \in Int /\ 2 <= i /\ i <= 9
      BY <2>1, <2>2
    <3> QED
      BY <3>1 DEF Stage
  <2>4. i \in AllowedTransitions(i - 1)
    BY <2>3 DEF AllowedTransitions
  <2> QED
    BY <2>2, <2>4 DEF CanAdvance
<1>6. RequestsSettled
  BY DEF Init, RequestsSettled, Settled, Idle
<1> QED
  BY <1>4, <1>5, <1>6 DEF TimelineInv

\* What a request that is ready to commit an advance carries.
LEMMA ReadyToAdvance ==
    ASSUME NEW r \in Request, r.op = "commitAdvance"
    PROVE  r.by \in Role /\ r.loaded \in CaseRow /\ r.assigned \in CaseRow
<1>1. r \notin Loaded \cup {Idle}
  BY DEF Loaded, Idle
<1>2. r \in Ready
  BY <1>1 DEF Request
<1> QED
  BY <1>2 DEF Ready

\* Committing an advance keeps the timeline legal and ending at the stage.
LEMMA CommitAdvanceTimeline ==
    ASSUME TypeOK, TimelineInv, NEW w \in Workers, CommitAdvance(w)
    PROVE  HistoryEndsAtStage' /\ HistoryRowsLegal'
<1> DEFINE r == request[w]
           row == TimelineRow(r)
<1>1. /\ r.op = "commitAdvance"
      /\ r.by \in Role /\ r.loaded \in CaseRow /\ r.assigned \in CaseRow
  <2>1. r \in Request /\ r.op = "commitAdvance"
    BY DEF CommitAdvance, TypeOK
  <2> QED
    BY <2>1, ReadyToAdvance
<1>2. /\ r.assigned.stage \in AllowedTransitions(r.loaded.stage)
      /\ CanAdvance(r.by, r.loaded.stage)
  BY <1>1 DEF TimelineInv, RequestsSettled, Settled
<1>3. r.assigned.stage # r.loaded.stage
  BY <1>1, <1>2, MoveChangesStage DEF CaseRow
<1>4. case'.stage = r.assigned.stage
  BY <1>3 DEF CommitAdvance, Commit, Written
<1>5. row.from = r.loaded.stage /\ row.to = r.assigned.stage /\ row.by = r.by
  BY DEF TimelineRow
<1>6. row \in HistoryRow /\ history \in Seq(HistoryRow) /\ history' = Append(history, row)
  BY <1>1 DEF TimelineRow, HistoryRow, CaseRow, CommitAdvance, TypeOK
<1> HIDE DEF row
<1>7. /\ Len(history') = Len(history) + 1
      /\ history'[Len(history')] = row
      /\ \A i \in 1..Len(history) : history'[i] = history[i]
      /\ Len(history) \in Nat
  BY <1>6
<1>8. HistoryEndsAtStage'
  BY <1>4, <1>5, <1>7 DEF HistoryEndsAtStage, LastRow
<1>9. HistoryRowsLegal'
  <2> SUFFICES ASSUME NEW i \in 2..Len(history')
               PROVE  /\ history'[i].to \in AllowedTransitions(history'[i].from)
                      /\ CanAdvance(history'[i].by, history'[i].from)
    BY DEF HistoryRowsLegal
  <2>1. CASE i = Len(history')
    BY <1>2, <1>5, <1>7, <2>1
  <2>2. CASE i # Len(history')
    <3>1. i \in 2..Len(history) /\ history'[i] = history[i]
      BY <1>7, <2>2
    <3> QED
      BY <3>1 DEF TimelineInv, HistoryRowsLegal
  <2> QED
    BY <2>1, <2>2
<1> QED
  BY <1>8, <1>9

\* Committing a hold or a resume leaves the stage stored by then in place.
LEMMA CommitStatusTimeline ==
    ASSUME TypeOK, TimelineInv, NEW w \in Workers, NEW op \in {"hold", "resume"},
           CommitStatus(w, op)
    PROVE  case'.stage = case.stage /\ UNCHANGED history
<1>1. request[w].assigned.stage = request[w].loaded.stage
  BY DEF CommitStatus, TimelineInv, RequestsSettled, Settled
<1> QED
  BY <1>1 DEF CommitStatus, Commit, Written

\* A worker that takes up a settled request leaves the others settled.
LEMMA SettledUpdate ==
    ASSUME TypeOK, RequestsSettled, NEW w \in Workers, NEW r, Settled(r),
           request' = [request EXCEPT ![w] = r]
    PROVE  RequestsSettled'
<1> SUFFICES ASSUME NEW v \in Workers PROVE Settled(request'[v])
  BY DEF RequestsSettled, Settled
<1>1. request'[v] = r \/ request'[v] = request[v]
  BY DEF TypeOK
<1> QED
  BY <1>1 DEF RequestsSettled

\* A request that starts or goes on settles its decision on its own copy.
LEMMA SettledStep ==
    ASSUME TypeOK, TimelineInv, [Next]_vars
    PROVE  RequestsSettled'
<1> USE DEF TimelineInv
<1> Settled(Idle)
  BY DEF Settled, Idle
<1>1. ASSUME NEW w \in Workers, NEW role \in Role, NEW to \in Stage,
             BeginAdvance(w, role, to)
      PROVE  RequestsSettled'
  <2> DEFINE r == [op |-> "advance", by |-> role, to |-> to, loaded |-> case]
  <2>1. Settled(r)
    BY <1>1 DEF BeginAdvance, MayAdvance, Settled
  <2> QED
    BY <1>1, <2>1, SettledUpdate DEF BeginAdvance
<1>2. ASSUME NEW w \in Workers, PassGates(w)
      PROVE  RequestsSettled'
  <2> DEFINE q == request[w]
             row == Advanced(q.loaded, q.to, today)
             r == [op |-> "commitAdvance", by |-> q.by, loaded |-> q.loaded,
                   assigned |-> row]
  <2>1. request[w] \in Loaded
    BY <1>2 DEF PassGates, TypeOK, Request, Loaded, Ready, Idle
  <2>2. row.stage = q.to
    BY <2>1, AdvancedType DEF Loaded, TypeOK
  <2>3. Settled(q) /\ q.op = "advance"
    BY <1>2 DEF RequestsSettled, PassGates
  <2>4. Settled(r)
    BY <2>2, <2>3 DEF Settled
  <2> QED
    BY <1>2, <2>4, SettledUpdate DEF PassGates
<1>3. ASSUME NEW w \in Workers, RefusedAtGates(w) \/ CommitAdvance(w)
      PROVE  RequestsSettled'
  BY <1>3, SettledUpdate DEF RefusedAtGates, CommitAdvance
<1>4. ASSUME NEW w \in Workers, BeginHold(w) \/ BeginResume(w)
      PROVE  RequestsSettled'
  <2> DEFINE r(op, status) == [op |-> op, loaded |-> case,
                               assigned |-> [case EXCEPT !.status = status]]
  <2>1. Settled(r("hold", "STALLED")) /\ Settled(r("resume", "ACTIVE"))
    BY DEF Settled, TypeOK, CaseRow
  <2> QED
    BY <1>4, <2>1, SettledUpdate DEF BeginHold, BeginResume
<1>5. ASSUME NEW w \in Workers, NEW op \in {"hold", "resume"}, CommitStatus(w, op)
      PROVE  RequestsSettled'
  BY <1>5, SettledUpdate DEF CommitStatus
<1>6. ASSUME UNCHANGED request
      PROVE  RequestsSettled'
  BY <1>6 DEF RequestsSettled, Settled
<1> QED
  BY <1>1, <1>2, <1>3, <1>4, <1>5, <1>6
  DEF Next, vars, FileObjection, RespondToObjection, CreateSurveyTask,
      ApproveSurvey, ReturnAfterApproval, NextDay

\* No step of any interleaving separates the case from its timeline.
LEMMA TimelineStep == TypeOK /\ TimelineInv /\ [Next]_vars => TimelineInv'
<1> SUFFICES ASSUME TypeOK, TimelineInv, [Next]_vars PROVE TimelineInv'
  OBVIOUS
<1>1. RequestsSettled'
  BY SettledStep
<1>2. CASE \E w \in Workers : CommitAdvance(w)
  BY <1>1, <1>2, CommitAdvanceTimeline DEF TimelineInv
<1>3. CASE case'.stage = case.stage /\ UNCHANGED history
  BY <1>1, <1>3 DEF TimelineInv, HistoryEndsAtStage, HistoryRowsLegal, LastRow
<1>4. CASE \E w \in Workers, op \in {"hold", "resume"} : CommitStatus(w, op)
  BY <1>3, <1>4, CommitStatusTimeline
<1>5. CASE UNCHANGED <<case, history>>
  BY <1>3, <1>5
<1> QED
  BY <1>2, <1>4, <1>5
  DEF Next, vars, BeginAdvance, PassGates, RefusedAtGates, BeginHold, BeginResume,
      FileObjection, RespondToObjection, CreateSurveyTask, ApproveSurvey,
      ReturnAfterApproval, NextDay

\* However requests overlap, the case is at the stage its timeline ends with.
THEOREM TimelineEndsAtStage == Spec => []HistoryEndsAtStage
<1>1. TimelineInv => HistoryEndsAtStage
  BY DEF TimelineInv
<1> QED
  BY <1>1, InitTimeline, TimelineStep, TypeCorrect, PTL DEF Spec

\* However requests overlap, no row of the timeline skips a stage or was made
\* by an officer the stage it left does not belong to.
THEOREM TimelineRowsLegal == Spec => []HistoryRowsLegal
<1>1. TimelineInv => HistoryRowsLegal
  BY DEF TimelineInv
<1> QED
  BY <1>1, InitTimeline, TimelineStep, TypeCorrect, PTL DEF Spec

-----------------------------------------------------------------------------
(***************************************************************************)
(* One worker.  RequestsCurrent says the stored row is the loaded one; it  *)
(* is what overlapping requests lose, and all the refinement needs.        *)
(***************************************************************************)
OneWorker == \A v, w \in Workers : v = w

\* A lone request that goes on knows the stored case.
LEMMA CurrentUpdate ==
    ASSUME OneWorker, TypeOK, NEW w \in Workers, NEW r, Current(r)',
           request' = [request EXCEPT ![w] = r]
    PROVE  RequestsCurrent'
<1> SUFFICES ASSUME NEW v \in Workers PROVE Current(request[v])'
  BY DEF RequestsCurrent
<1>1. v = w
  BY DEF OneWorker
<1>2. request'[v] = r
  BY <1>1 DEF TypeOK
<1> QED
  BY <1>2 DEF Current

\* Nobody is at work on the case while an idle worker serves another request.
LEMMA CurrentIdle ==
    ASSUME OneWorker, NEW w \in Workers, request[w] = Idle, UNCHANGED request
    PROVE  RequestsCurrent'
<1>1. \A v \in Workers : request'[v] = Idle
  BY DEF OneWorker
<1> QED
  BY <1>1 DEF RequestsCurrent, Current, Idle

\* A request that commits alone stores exactly the row it assigned.
LEMMA CommitAlone ==
    ASSUME TypeOK, NEW w \in Workers, Current(request[w]),
           request[w].op \in {"commitAdvance", "hold", "resume"}
    PROVE  /\ request[w].loaded = case
           /\ request[w].assigned \in CaseRow
           /\ Commit(request[w]) = request[w].assigned
<1> DEFINE r == request[w]
<1>1. r.loaded = case /\ r.assigned \in CaseRow
  BY DEF Current, TypeOK, Request, Loaded, Ready, Idle
<1>2. \A column, assigned : Written(column, column, assigned) = assigned
  BY DEF Written
<1>3. Commit(r) = [stage |-> r.assigned.stage, status |-> r.assigned.status,
                   changedAt |-> r.assigned.changedAt, dueOn |-> r.assigned.dueOn]
  BY <1>1, <1>2 DEF Commit
<1> QED
  BY <1>1, <1>3 DEF CaseRow

\* Requests that run one after the other never work on a stale row.
LEMMA CurrentStep ==
    ASSUME OneWorker, TypeOK, RequestsCurrent, [Next]_vars
    PROVE  RequestsCurrent'
<1> Current(Idle)'
  BY DEF Current, Idle
<1>1. ASSUME NEW w \in Workers, NEW role \in Role, NEW to \in Stage,
             BeginAdvance(w, role, to)
      PROVE  RequestsCurrent'
  <2> DEFINE r == [op |-> "advance", by |-> role, to |-> to, loaded |-> case]
  <2>1. Current(r)'
    BY <1>1 DEF BeginAdvance, MayAdvance, Current
  <2> QED
    BY <1>1, <2>1, CurrentUpdate DEF BeginAdvance
<1>2. ASSUME NEW w \in Workers, PassGates(w)
      PROVE  RequestsCurrent'
  <2>1. PICK q \in Request : q = request[w]
    BY DEF TypeOK
  <2>2. PICK row : row = Advanced(q.loaded, q.to, today)
    OBVIOUS
  <2> DEFINE r == [op |-> "commitAdvance", by |-> q.by, loaded |-> q.loaded,
                   assigned |-> row]
  <2>3. q \in Loaded /\ q.op = "advance" /\ q # Idle
    BY <1>2, <2>1 DEF PassGates, Request, Loaded, Ready, Idle
  <2>4. q.loaded = case /\ case.status # "STALLED"
    BY <2>1, <2>3 DEF RequestsCurrent, Current
  <2>5. row.stage = q.to /\ row.changedAt = today
    BY <2>2, <2>3, AdvancedType DEF Loaded, TypeOK, Advanced, ApplyDueDate, CaseRow
  <2>6. GateOpen(case.stage, row.stage)'
    BY <1>2, <2>1, <2>4, <2>5 DEF PassGates, GateOpen, ObjectionOpen, SurveyOpen
  <2>7. case' = case /\ row = Advanced(case, row.stage, row.changedAt)'
    BY <1>2, <2>2, <2>4, <2>5 DEF PassGates, Advanced, ApplyDueDate, DueDateFor
  <2>8. Current(r)'
    BY <2>4, <2>6, <2>7 DEF Current
  <2> QED
    BY <1>2, <2>1, <2>2, <2>8, CurrentUpdate DEF PassGates
<1>3. ASSUME NEW w \in Workers, RefusedAtGates(w) \/ CommitAdvance(w)
      PROVE  RequestsCurrent'
  BY <1>3, CurrentUpdate DEF RefusedAtGates, CommitAdvance
<1>4. ASSUME NEW w \in Workers, BeginHold(w) \/ BeginResume(w)
      PROVE  RequestsCurrent'
  <2> DEFINE r(op, status) == [op |-> op, loaded |-> case,
                               assigned |-> [case EXCEPT !.status = status]]
  <2>1. CASE BeginHold(w)
    <3>1. Current(r("hold", "STALLED"))'
      BY <2>1 DEF BeginHold, Current
    <3> QED
      BY <2>1, <3>1, CurrentUpdate DEF BeginHold
  <2>2. CASE BeginResume(w)
    <3>1. Current(r("resume", "ACTIVE"))'
      BY <2>2 DEF BeginResume, Current
    <3> QED
      BY <2>2, <3>1, CurrentUpdate DEF BeginResume
  <2> QED
    BY <1>4, <2>1, <2>2
<1>5. ASSUME NEW w \in Workers, NEW op \in {"hold", "resume"}, CommitStatus(w, op)
      PROVE  RequestsCurrent'
  BY <1>5, CurrentUpdate DEF CommitStatus
<1>6. ASSUME NEW w \in Workers,
             \/ \E o \in Objections :
                   \/ FileObjection(w, o)
                   \/ \E d \in {"UNDER_REVIEW", "RESOLVED", "REJECTED"} :
                         RespondToObjection(w, o, d)
             \/ \E t \in Surveys :
                   \/ CreateSurveyTask(w, t)
                   \/ ApproveSurvey(w, t)
                   \/ \E v \in Workers : ReturnAfterApproval(w, v, t)
      PROVE  RequestsCurrent'
  BY <1>6, CurrentIdle
  DEF FileObjection, RespondToObjection, CreateSurveyTask, ApproveSurvey,
      ReturnAfterApproval
<1>7. CASE UNCHANGED <<case, request, objections, surveys>>
  BY <1>7 DEF RequestsCurrent, Current, GateOpen, ObjectionOpen, SurveyOpen
<1> QED
  BY <1>1, <1>2, <1>3, <1>4, <1>5, <1>6, <1>7 DEF Next, vars, NextDay

\* In every behaviour of one worker no request works on a stale row.
LEMMA CurrentInv ==
    ASSUME OneWorker
    PROVE  Spec => [](TypeOK /\ RequestsCurrent)
<1>1. Init => RequestsCurrent
  BY DEF Init, RequestsCurrent, Current, Idle
<1> QED
  BY <1>1, CurrentStep, TypeCorrect, PTL DEF Spec

\* Both modules speak of the same stages.
LEMMA SameStages ==
    /\ Lifecycle!Stage = Stage
    /\ Lifecycle!TERMINAL_STAGE = TERMINAL_STAGE
    /\ Lifecycle!LAND_VERIFICATION = LAND_VERIFICATION
    /\ Lifecycle!OBJECTION_PERIOD = OBJECTION_PERIOD
    /\ Lifecycle!DECLARATION = DECLARATION
BY DEF Lifecycle!Stage, Stage, Lifecycle!TERMINAL_STAGE, TERMINAL_STAGE,
       Lifecycle!MONITORING, MONITORING, Lifecycle!LAND_VERIFICATION, LAND_VERIFICATION,
       Lifecycle!OBJECTION_PERIOD, OBJECTION_PERIOD, Lifecycle!DECLARATION, DECLARATION

\* What a lone advance commits is a move of the lifecycle.
LEMMA CommitAdvanceMoves ==
    ASSUME TypeOK, TimelineInv, RequestsCurrent, NEW w \in Workers, CommitAdvance(w)
    PROVE  Lifecycle!Next
<1> DEFINE r == request[w]
           to == r.assigned.stage
<1>1. r.loaded = case /\ r.assigned \in CaseRow /\ case' = r.assigned
  BY CommitAlone DEF CommitAdvance, RequestsCurrent
<1>2. /\ case.status # "STALLED"
      /\ GateOpen(case.stage, to)
      /\ r.assigned = Advanced(case, to, r.assigned.changedAt)
  BY DEF CommitAdvance, RequestsCurrent, Current
<1>3. to \in Stage /\ case'.stage = to /\ case \in CaseRow
  BY <1>1 DEF CaseRow, TypeOK
<1>4. to \in {case.stage - 1, case.stage + 1}
  BY <1>1 DEF TimelineInv, RequestsSettled, Settled, CommitAdvance, AllowedTransitions
<1>5. case'.status = Lifecycle!StatusAt(to)
  BY <1>1, <1>2, <1>3, SameStages
  DEF Advanced, ApplyDueDate, CaseRow, Lifecycle!StatusAt
<1>6. UNCHANGED <<ObjectionOpen, SurveyOpen>>
  BY DEF CommitAdvance, ObjectionOpen, SurveyOpen
<1>7. Lifecycle!Move(to)
  BY <1>2, <1>3, <1>4, <1>5, <1>6, SameStages DEF Lifecycle!Move, GateOpen
<1> QED
  BY <1>3, <1>7, SameStages DEF Lifecycle!Next

\* What a lone hold or resume commits is a hold or a resume of the lifecycle,
\* or nothing when the case was on hold already.
LEMMA CommitStatusMoves ==
    ASSUME TypeOK, RequestsCurrent, NEW w \in Workers, NEW op \in {"hold", "resume"},
           CommitStatus(w, op)
    PROVE  [Lifecycle!Next]_(Lifecycle!vars)
<1> DEFINE r == request[w]
<1>1. r.loaded = case /\ case' = r.assigned /\ case \in CaseRow
  BY CommitAlone DEF CommitStatus, RequestsCurrent, TypeOK
<1>2. UNCHANGED <<ObjectionOpen, SurveyOpen>>
  BY DEF CommitStatus, ObjectionOpen, SurveyOpen
<1>3. CASE op = "hold"
  <2>1. case.status # "CLOSED" /\ case' = [case EXCEPT !.status = "STALLED"]
    BY <1>1, <1>3 DEF CommitStatus, RequestsCurrent, Current
  <2>2. case'.stage = case.stage /\ case'.status = "STALLED"
    BY <1>1, <2>1 DEF CaseRow
  <2>3. case.status \in {"ACTIVE", "STALLED"}
    BY <1>1, <2>1 DEF CaseRow, CaseStatus
  <2> QED
    BY <1>2, <2>2, <2>3 DEF Lifecycle!Next, Lifecycle!Hold, Lifecycle!vars
<1>4. CASE op = "resume"
  <2>1. case.status = "STALLED" /\ case' = [case EXCEPT !.status = "ACTIVE"]
    BY <1>1, <1>4 DEF CommitStatus, RequestsCurrent, Current
  <2>2. case'.stage = case.stage /\ case'.status = "ACTIVE"
    BY <1>1, <2>1 DEF CaseRow
  <2> QED
    BY <1>2, <2>1, <2>2 DEF Lifecycle!Next, Lifecycle!Resume
<1> QED
  BY <1>3, <1>4

\* Every step of the handlers is a step of the lifecycle, or none at all.
LEMMA LifecycleStep ==
    TypeOK /\ TimelineInv /\ RequestsCurrent /\ [Next]_vars
        => [Lifecycle!Next]_(Lifecycle!vars)
<1> SUFFICES ASSUME TypeOK, TimelineInv, RequestsCurrent, [Next]_vars
             PROVE  [Lifecycle!Next]_(Lifecycle!vars)
  OBVIOUS
<1>1. CASE \E w \in Workers : CommitAdvance(w)
  BY <1>1, CommitAdvanceMoves
<1>2. CASE \E w \in Workers, op \in {"hold", "resume"} : CommitStatus(w, op)
  BY <1>2, CommitStatusMoves
<1>3. CASE UNCHANGED case
  <2>1. ObjectionOpen' \in BOOLEAN /\ SurveyOpen' \in BOOLEAN
    BY DEF ObjectionOpen, SurveyOpen
  <2> QED
    BY <1>3, <2>1 DEF Lifecycle!Next, Lifecycle!RecordChanges
<1> QED
  BY <1>1, <1>2, <1>3
  DEF Next, vars, BeginAdvance, PassGates, RefusedAtGates, BeginHold, BeginResume,
      FileObjection, RespondToObjection, CreateSurveyTask, ApproveSurvey,
      ReturnAfterApproval, NextDay

\* One request at a time, the handlers implement CaseLifecycle.
THEOREM SerialImplementsLifecycle ==
    ASSUME OneWorker
    PROVE  Spec => ImplementsLifecycle
<1>1. Init => Lifecycle!Init
  <2> SUFFICES ASSUME Init PROVE Lifecycle!Init
    OBVIOUS
  <2>1. ObjectionOpen \in BOOLEAN /\ SurveyOpen \in BOOLEAN
    BY DEF ObjectionOpen, SurveyOpen
  <2>2. case.stage \in Stage /\ case.status = Lifecycle!StatusAt(case.stage)
    BY SameStages DEF Init, Opened, Lifecycle!StatusAt
  <2> QED
    BY <2>1, <2>2, SameStages DEF Lifecycle!Init
<1>2. Spec => []TimelineInv
  BY InitTimeline, TimelineStep, TypeCorrect, PTL DEF Spec
<1> QED
  BY <1>1, <1>2, CurrentInv, LifecycleStep, PTL DEF Spec, ImplementsLifecycle, Lifecycle!Spec

-----------------------------------------------------------------------------
SerialInv == HistoryIsAPath /\ DueDateDescribesStage

\* A lone advance appends a row that leaves the stage the last row reached, and
\* the deadline it writes is the one of the stage it writes.
LEMMA CommitAdvanceSerial ==
    ASSUME TypeOK, TimelineInv, RequestsCurrent, SerialInv,
           NEW w \in Workers, CommitAdvance(w)
    PROVE  SerialInv'
<1> DEFINE r == request[w]
           row == TimelineRow(r)
           to == r.assigned.stage
<1>1. /\ r.loaded = case /\ case' = r.assigned
      /\ case \in CaseRow /\ r.assigned \in CaseRow
  BY CommitAlone DEF CommitAdvance, RequestsCurrent, TypeOK
<1>2. r.assigned = Advanced(case, to, r.assigned.changedAt)
  BY DEF CommitAdvance, RequestsCurrent, Current
<1>3. r.by \in Role
  <2>1. r \in Request /\ r.op = "commitAdvance"
    BY DEF CommitAdvance, TypeOK
  <2> QED
    BY <2>1, ReadyToAdvance
<1>4. row.from = case.stage /\ row.on = case'.changedAt /\ row \in HistoryRow
  BY <1>1, <1>3 DEF TimelineRow, HistoryRow, CaseRow
<1>5. history' = Append(history, row) /\ history \in Seq(HistoryRow)
  BY DEF CommitAdvance, TypeOK
<1> HIDE DEF row
<1>6. /\ Len(history') = Len(history) + 1
      /\ history'[Len(history')] = row
      /\ \A i \in 1..Len(history) : history'[i] = history[i]
      /\ Len(history) \in Nat
  BY <1>4, <1>5
<1>7. Len(history) >= 1 /\ history[Len(history)].to = case.stage
  BY <1>5 DEF TimelineInv, HistoryEndsAtStage, LastRow
<1>8. HistoryIsAPath'
  <2>1. history'[1].from = NoStage
    BY <1>6, <1>7 DEF SerialInv, HistoryIsAPath
  <2>2. ASSUME NEW i \in 2..Len(history')
        PROVE  history'[i].from = history'[i - 1].to
    <3>1. CASE i = Len(history')
      <4>1. history'[i - 1] = history[Len(history)]
        BY <1>6, <1>7, <3>1
      <4> QED
        BY <1>4, <1>6, <1>7, <3>1, <4>1
    <3>2. CASE i # Len(history')
      <4>1. /\ i \in 2..Len(history)
            /\ history'[i] = history[i] /\ history'[i - 1] = history[i - 1]
        BY <1>6, <3>2
      <4> QED
        BY <4>1 DEF SerialInv, HistoryIsAPath
    <3> QED
      BY <3>1, <3>2
  <2> QED
    BY <2>1, <2>2 DEF HistoryIsAPath
<1>9. DueDateDescribesStage'
  <2>1. case'.dueOn = DueDateFor(case'.stage, case'.changedAt)
    <3>1. case' = Advanced(case, case'.stage, case'.changedAt)
      BY <1>1, <1>2
    <3>2. case'.stage \in Stage /\ case'.changedAt \in Nat
      BY <1>1 DEF CaseRow
    <3> QED
      BY <1>1, <3>1, <3>2 DEF Advanced, ApplyDueDate, CaseRow
  <2> QED
    BY <1>4, <1>6, <2>1 DEF DueDateDescribesStage, LastRow, DueDateFor
<1> QED
  BY <1>8, <1>9 DEF SerialInv

\* One request at a time, each keeps the path and the deadline.
LEMMA SerialCorrect ==
    ASSUME OneWorker
    PROVE  Spec => []SerialInv
<1>1. Init => SerialInv
  <2> SUFFICES ASSUME Init PROVE SerialInv
    OBVIOUS
  <2>1. case.stage \in Int /\ 1 <= case.stage
    BY DEF Init, Opened, Stage
  <2>2. ASSUME NEW i \in 1..Len(history)
        PROVE  history[i].from = i - 1 /\ history[i].to = i /\ history[i].on = 0
    <3>1. history[i] = [from |-> i - 1, to |-> i, by |-> "STAGE_OWNER", on |-> 0]
      BY InitHistory
    <3> QED
      BY <3>1
  <2>3. Len(history) = case.stage
    BY InitHistory
  <2>4. HistoryIsAPath
    <3>1. history[1].from = NoStage
      BY <2>1, <2>2, <2>3 DEF NoStage
    <3>2. ASSUME NEW i \in 2..Len(history)
          PROVE  history[i].from = history[i - 1].to
      <4>1. i \in 1..Len(history) /\ i - 1 \in 1..Len(history)
        BY <2>1, <2>3
      <4> QED
        BY <2>2, <4>1
    <3> QED
      BY <3>1, <3>2 DEF HistoryIsAPath
  <2>5. DueDateDescribesStage
    <3>1. LastRow.on = 0
      BY <2>1, <2>2, <2>3 DEF LastRow
    <3> QED
      BY <3>1 DEF Init, Opened, DueDateDescribesStage
  <2> QED
    BY <2>4, <2>5 DEF SerialInv
<1>2. TypeOK /\ TimelineInv /\ RequestsCurrent /\ SerialInv /\ [Next]_vars => SerialInv'
  <2> SUFFICES ASSUME TypeOK, TimelineInv, RequestsCurrent, SerialInv, [Next]_vars
               PROVE  SerialInv'
    OBVIOUS
  <2>1. CASE \E w \in Workers : CommitAdvance(w)
    BY <2>1, CommitAdvanceSerial
  <2>2. CASE UNCHANGED <<case.stage, case.changedAt, case.dueOn, history>>
    BY <2>2 DEF SerialInv, HistoryIsAPath, DueDateDescribesStage, DueDateFor, LastRow
  <2>3. CASE \E w \in Workers, op \in {"hold", "resume"} : CommitStatus(w, op)
    <3> PICK w \in Workers, op \in {"hold", "resume"} : CommitStatus(w, op)
      BY <2>3
    <3>1. case' = request[w].assigned /\ case \in CaseRow
      BY CommitAlone DEF CommitStatus, RequestsCurrent, TypeOK
    <3>2. \/ case' = [case EXCEPT !.status = "STALLED"]
          \/ case' = [case EXCEPT !.status = "ACTIVE"]
      BY <3>1 DEF CommitStatus, RequestsCurrent, Current
    <3>3. UNCHANGED <<case.stage, case.changedAt, case.dueOn, history>>
      BY <3>1, <3>2 DEF CommitStatus, CaseRow
    <3> QED
      BY <2>2, <3>3
  <2> QED
    BY <2>1, <2>2, <2>3
    DEF Next, vars, BeginAdvance, PassGates, RefusedAtGates, BeginHold, BeginResume,
        FileObjection, RespondToObjection, CreateSurveyTask, ApproveSurvey,
        ReturnAfterApproval, NextDay
<1>3. Spec => []TimelineInv
  BY InitTimeline, TimelineStep, TypeCorrect, PTL DEF Spec
<1> QED
  BY <1>1, <1>2, <1>3, CurrentInv, PTL DEF Spec

\* One request at a time, the timeline is one unbroken path through the stages.
THEOREM SerialTimeline ==
    ASSUME OneWorker
    PROVE  Spec => []HistoryIsAPath
<1>1. SerialInv => HistoryIsAPath
  BY DEF SerialInv
<1> QED
  BY <1>1, SerialCorrect, PTL

\* "so it can never describe a stage the case left" (workflow.py): one request at
\* a time, the deadline is that of the stage the case is in, from the day the
\* timeline says it got there.
THEOREM SerialDeadline ==
    ASSUME OneWorker
    PROVE  Spec => []DueDateDescribesStage
<1>1. SerialInv => DueDateDescribesStage
  BY DEF SerialInv
<1> QED
  BY <1>1, SerialCorrect, PTL
-----------------------------------------------------------------------------
(***************************************************************************)
(* Holds, however requests overlap.  HoldDecided is the strengthening: no  *)
(* advance was begun on a case it found on hold, whatever the case is now, *)
(* and each request leaves one status in the row it loaded.                *)
(***************************************************************************)
HoldDecided(r) ==
    /\ r.op = "advance" => r.loaded.status # "STALLED"
    /\ r.op = "commitAdvance" =>
          r.loaded.status # "STALLED" /\ r.assigned.status # "STALLED"
    /\ r.op = "hold" => r.assigned.status = "STALLED"

HoldInv == \A w \in Workers : HoldDecided(request[w])

LEMMA HoldStep == TypeOK /\ HoldInv /\ [Next]_vars => HoldInv'
<1> SUFFICES ASSUME TypeOK, HoldInv, [Next]_vars PROVE HoldInv'
  OBVIOUS
<1>1. ASSUME NEW w \in Workers, NEW r, request' = [request EXCEPT ![w] = r], HoldDecided(r)
      PROVE  HoldInv'
  BY <1>1 DEF TypeOK, HoldInv
<1>2. HoldDecided(Idle)
  BY DEF HoldDecided, Idle
<1>3. ASSUME NEW w \in Workers, NEW role \in Role, NEW to \in Stage, BeginAdvance(w, role, to)
      PROVE  HoldInv'
  BY <1>1, <1>3 DEF BeginAdvance, MayAdvance, HoldDecided
<1>4. ASSUME NEW w \in Workers, PassGates(w) PROVE HoldInv'
  <2> DEFINE q == request[w]
             row == Advanced(q.loaded, q.to, today)
             r == [op |-> "commitAdvance", by |-> q.by, loaded |-> q.loaded, assigned |-> row]
  <2>1. q.loaded \in CaseRow /\ q.loaded.status # "STALLED"
    BY <1>4 DEF PassGates, TypeOK, HoldInv, HoldDecided, Request, Loaded, Ready, Idle
  <2>2. row.status \in {"CLOSED", "ACTIVE"}
    BY <2>1 DEF Advanced, ApplyDueDate, CaseRow
  <2>3. HoldDecided(r)
    BY <2>1, <2>2 DEF HoldDecided
  <2> QED
    BY <1>1, <1>4, <2>3 DEF PassGates
<1>5. ASSUME NEW w \in Workers, BeginHold(w) \/ BeginResume(w) PROVE HoldInv'
  BY <1>1, <1>5 DEF BeginHold, BeginResume, HoldDecided, TypeOK, CaseRow
<1>6. ASSUME NEW w \in Workers,
             \/ RefusedAtGates(w)
             \/ CommitAdvance(w)
             \/ \E op \in {"hold", "resume"} : CommitStatus(w, op)
      PROVE  HoldInv'
  BY <1>1, <1>2, <1>6 DEF RefusedAtGates, CommitAdvance, CommitStatus
<1>7. CASE UNCHANGED request
  BY <1>7 DEF HoldInv
<1> QED
  BY <1>3, <1>4, <1>5, <1>6, <1>7
  DEF Next, vars, FileObjection, RespondToObjection, CreateSurveyTask, ApproveSurvey,
      ReturnAfterApproval, NextDay

\* A commit that lifts a hold is a resume, or a move of a case that it closes or
\* that it loaded closed.
LEMMA HoldLost ==
    ASSUME TypeOK, HoldInv, NEW w \in Workers, case.status = "STALLED",
           case' = Commit(request[w]), case'.status # "STALLED",
           request[w].op \in {"commitAdvance", "hold", "resume"}
    PROVE  \/ request[w].op = "resume"
           \/ /\ request[w].op = "commitAdvance"
              /\ "CLOSED" \in {request[w].loaded.status, request[w].assigned.status}
<1> DEFINE r == request[w]
<1>1. r.loaded.status \in CaseStatus /\ r.assigned.status \in CaseStatus
  BY DEF TypeOK, Request, Loaded, Ready, Idle, CaseRow
<1>2. r.assigned.status # r.loaded.status /\ case'.status = r.assigned.status
  BY DEF Commit, Written
<1>3. HoldDecided(r)
  BY DEF HoldInv
<1> QED
  BY <1>1, <1>2, <1>3 DEF HoldDecided, CaseStatus

\* workflow.py assigns the status of the row it loaded: however requests overlap,
\* a hold is lifted by a resume, or overwritten by a move that closes the case or
\* loaded it closed, and by no other request.
THEOREM HoldsStay == Spec => HoldLostOnlyAtTheEnd
<1>1. Init => HoldInv
  BY DEF Init, HoldInv, HoldDecided, Idle
<1>2. Spec => []HoldInv
  BY <1>1, HoldStep, TypeCorrect, PTL DEF Spec
<1>3. TypeOK /\ HoldInv /\ [Next]_vars
        => [case.status = "STALLED" /\ case'.status # "STALLED"
              => \E w \in Workers :
                    \/ Commits(w, "resume")
                    \/ /\ Commits(w, "commitAdvance")
                       /\ "CLOSED" \in {request[w].loaded.status,
                                        request[w].assigned.status}]_vars
  <2> SUFFICES ASSUME TypeOK, HoldInv, Next, case.status = "STALLED", case'.status # "STALLED"
               PROVE  \E w \in Workers :
                          \/ Commits(w, "resume")
                          \/ /\ Commits(w, "commitAdvance")
                             /\ "CLOSED" \in {request[w].loaded.status,
                                              request[w].assigned.status}
    BY DEF vars
  <2>1. \E w \in Workers : \/ CommitAdvance(w)
                          \/ \E op \in {"hold", "resume"} : CommitStatus(w, op)
    BY DEF Next, BeginAdvance, PassGates, RefusedAtGates, BeginHold, BeginResume,
           FileObjection, RespondToObjection, CreateSurveyTask, ApproveSurvey,
           ReturnAfterApproval, NextDay
  <2>2. PICK w \in Workers : /\ case' = Commit(request[w])
                            /\ request'[w] = Idle
                            /\ request[w].op \in {"commitAdvance", "hold", "resume"}
    BY <2>1 DEF CommitAdvance, CommitStatus, TypeOK
  <2> QED
    BY <2>2, HoldLost DEF Commits
<1> QED
  BY <1>2, <1>3, TypeCorrect, PTL DEF Spec, HoldLostOnlyAtTheEnd
=============================================================================
