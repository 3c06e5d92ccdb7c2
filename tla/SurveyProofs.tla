---------------------------- MODULE SurveyProofs ----------------------------
(***************************************************************************)
(* Theorems about Survey, for any number of workers, tasks, walks, photos  *)
(* and mismatches.                                                         *)
(***************************************************************************)
EXTENDS Survey, TLAPS

USE NoWalkAssumption

\* What an UPDATE leaves of a parcel, column by column.
LEMMA WrittenParcel ==
    ASSUME NEW stored \in ParcelRow, NEW loaded \in ParcelRow, NEW assigned \in ParcelRow
    PROVE  /\ WrittenRow(stored, loaded, assigned) \in ParcelRow
           /\ WrittenRow(stored, loaded, assigned).boundary
                = Written(stored.boundary, loaded.boundary, assigned.boundary)
           /\ WrittenRow(stored, loaded, assigned).field
                = Written(stored.field, loaded.field, assigned.field)
           /\ WrittenRow(stored, loaded, assigned).flagged
                = Written(stored.flagged, loaded.flagged, assigned.flagged)
<1>1. stored = [boundary |-> stored.boundary, field |-> stored.field,
                flagged |-> stored.flagged]
  BY DEF ParcelRow
<1>2. DOMAIN stored = {"boundary", "field", "flagged"}
  BY <1>1
<1> DEFINE row == WrittenRow(stored, loaded, assigned)
<1>3. /\ row.boundary = Written(stored.boundary, loaded.boundary, assigned.boundary)
      /\ row.field = Written(stored.field, loaded.field, assigned.field)
      /\ row.flagged = Written(stored.flagged, loaded.flagged, assigned.flagged)
  BY <1>2 DEF WrittenRow
<1>4. row = [boundary |-> row.boundary, field |-> row.field, flagged |-> row.flagged]
  BY <1>2 DEF WrittenRow
<1>5. row.boundary \in Boundary /\ row.field \in Boundary
  BY <1>3 DEF ParcelRow, Written
<1>6. row.flagged \in BOOLEAN
  BY <1>3, Zenon DEF ParcelRow, Written
<1> QED
  BY <1>3, <1>4, <1>5, <1>6 DEF ParcelRow

LEMMA WrittenTask ==
    ASSUME NEW stored \in TaskRow, NEW loaded \in TaskRow, NEW assigned \in TaskRow
    PROVE  WrittenRow(stored, loaded, assigned) \in TaskRow
<1>1. stored = [status |-> stored.status, area |-> stored.area,
                boundary |-> stored.boundary]
  BY DEF TaskRow
<1>2. DOMAIN stored = {"status", "area", "boundary"}
  BY <1>1
<1> DEFINE row == WrittenRow(stored, loaded, assigned)
<1>3. /\ row.status = Written(stored.status, loaded.status, assigned.status)
      /\ row.area = Written(stored.area, loaded.area, assigned.area)
      /\ row.boundary = Written(stored.boundary, loaded.boundary, assigned.boundary)
  BY <1>2 DEF WrittenRow
<1>4. row = [status |-> row.status, area |-> row.area, boundary |-> row.boundary]
  BY <1>2 DEF WrittenRow
<1> QED
  BY <1>3, <1>4 DEF TaskRow, Written

\* Approval leaves a well-formed parcel in the session.
LEMMA WeighedType ==
    ASSUME NEW row \in TaskRow, NEW p \in ParcelRow
    PROVE  Weighed(row, p) \in ParcelRow /\ OpensMismatch(row, p) \in BOOLEAN
<1>1. Resurveyed(row, p) \in ParcelRow
  BY DEF Resurveyed, ParcelRow, TaskRow
<1> QED
  BY <1>1 DEF Weighed, OpensMismatch, IsResurvey, ParcelRow, TaskRow

LEMMA TypeStep == TypeOK /\ [Next]_vars => TypeOK'
<1> SUFFICES ASSUME TypeOK, [Next]_vars PROVE TypeOK'
  OBVIOUS
<1> USE DEF TypeOK
<1>1. ASSUME NEW w \in Workers, NEW t \in Tasks, NEW selfStarted \in BOOLEAN,
             CreateSurveyTask(w, t, selfStarted)
      PROVE  TypeOK'
  BY <1>1 DEF CreateSurveyTask, TaskRow, SurveyTaskStatus
<1>2. ASSUME NEW w \in Workers, NEW t \in Tasks, NEW row \in TaskRow,
             BeginUpdate(w, t, row)
      PROVE  TypeOK'
  BY <1>2 DEF BeginUpdate, Begin, Request
<1>3. ASSUME NEW w \in Workers, NEW t \in Tasks,
             \/ StartSurveyTask(w, t)
             \/ \E a \in Area, b \in Boundary : SaveSurveyTask(w, t, a, b)
             \/ SubmitSurveyTask(w, t)
             \/ ReturnSurveyTask(w, t)
      PROVE  TypeOK'
  <2>1. \E row \in TaskRow : BeginUpdate(w, t, row)
    BY <1>3 DEF StartSurveyTask, SaveSurveyTask, SubmitSurveyTask, ReturnSurveyTask,
                TaskRow, SurveyTaskStatus
  <2> QED
    BY <1>2, <2>1
<1>4. ASSUME NEW w \in Workers, NEW t \in Tasks, NEW p \in Photos,
             UploadSurveyPhoto(w, t, p) \/ DeleteSurveyPhoto(w, t, p)
      PROVE  TypeOK'
  BY <1>4 DEF UploadSurveyPhoto, DeleteSurveyPhoto, Begin, Request
<1>5. ASSUME NEW w \in Workers, NEW t \in Tasks, ApproveSurveyTask(w, t)
      PROVE  TypeOK'
  BY <1>5 DEF ApproveSurveyTask, Begin, Request
<1>6. ASSUME NEW w \in Workers, NEW t \in Tasks, NEW m \in Mismatches,
             FileDiscrepancy(w, t, m)
      PROVE  TypeOK'
  BY <1>6 DEF FileDiscrepancy, MismatchStatus
<1>7. ASSUME NEW w \in Workers, NEW m \in Mismatches, RespondToDiscrepancy(w, m)
      PROVE  TypeOK'
  <2>1. Explained(m, parcel) \in ParcelRow
    BY DEF Explained, ParcelRow
  <2> QED
    BY <1>7, <2>1 DEF RespondToDiscrepancy, Begin, Request
<1>8. ASSUME NEW w \in Workers, CommitUpdate(w)
      PROVE  TypeOK'
  <2> DEFINE r == request[w]
  <2>1. r.t \in Tasks /\ r.loaded \in TaskRow /\ r.assigned \in TaskRow
    BY <1>8 DEF CommitUpdate, Request, Idle
  <2>2. WrittenRow(task[r.t], r.loaded, r.assigned) \in TaskRow
    BY <2>1, WrittenTask
  <2> QED
    BY <1>8, <2>1, <2>2 DEF CommitUpdate, Finish, Request
<1>9. ASSUME NEW w \in Workers, CommitPhoto(w)
      PROVE  TypeOK'
  BY <1>9 DEF CommitPhoto, Finish, Request, Idle
<1>10. ASSUME NEW w \in Workers, WeighSurvey(w)
       PROVE  TypeOK'
  <2>1. request[w].t \in Tasks /\ request[w].loaded \in TaskRow
    BY <1>10 DEF WeighSurvey, Request, Idle
  <2> QED
    BY <1>10, <2>1, WeighedType DEF WeighSurvey, Request
<1>11. ASSUME NEW w \in Workers, CommitApproval(w)
       PROVE  TypeOK'
  <2> DEFINE r == request[w]
  <2>1. r.t \in Tasks /\ r.before \in ParcelRow /\ r.after \in ParcelRow
    BY <1>11 DEF CommitApproval, Request, Idle
  <2>2. parcel' \in ParcelRow
    BY <1>11, <2>1, WrittenParcel DEF CommitApproval
  <2>3. task' \in [Tasks -> TaskRow]
    BY <1>11, <2>1 DEF CommitApproval, TaskRow, SurveyTaskStatus
  <2>4. mismatch' \in [Mismatches -> MismatchStatus]
    BY <1>11 DEF CommitApproval, OpenedBy, MismatchStatus
  <2> QED
    BY <1>11, <2>2, <2>3, <2>4 DEF CommitApproval, Finish, Request
<1>12. ASSUME NEW w \in Workers, CommitResponse(w)
       PROVE  TypeOK'
  <2> DEFINE r == request[w]
  <2>1. r.m \in Mismatches /\ r.before \in ParcelRow /\ r.after \in ParcelRow
    BY <1>12 DEF CommitResponse, Request, Idle
  <2>2. parcel' \in ParcelRow
    BY <1>12, <2>1, WrittenParcel DEF CommitResponse
  <2> QED
    BY <1>12, <2>2 DEF CommitResponse, Finish, Request, MismatchStatus
<1>13. CASE UNCHANGED vars
  BY <1>13 DEF vars
<1> QED
  BY <1>1, <1>3, <1>4, <1>5, <1>6, <1>7, <1>8, <1>9, <1>10, <1>11, <1>12, <1>13
  DEF Next

\* Type correctness.
THEOREM TypeCorrect == Spec => []TypeOK
<1>1. Init => TypeOK
  BY DEF Init, TypeOK, TaskRow, ParcelRow, SurveyTaskStatus, Area, Boundary,
         MismatchStatus, Request
<1> QED
  BY <1>1, TypeStep, PTL DEF Spec

-----------------------------------------------------------------------------
(***************************************************************************)
(* The record and the flag, however requests overlap.  DecisionsStand is   *)
(* the strengthening: what an approval or an answer made of the parcel it  *)
(* loaded is still known when it commits, whatever the parcel is by then,  *)
(* and a record that was there when the parcel was loaded is there still.  *)
(***************************************************************************)
Paired(p) == p.boundary = NoWalk <=> p.field = NoWalk

Stands(r, p) ==
    /\ r.op = "approve" =>
          /\ r.after = Weighed(r.loaded, r.before)
          /\ r.opens = OpensMismatch(r.loaded, r.before)
          /\ Paired(r.before)
          /\ r.before.boundary # NoWalk => p.boundary # NoWalk
    /\ r.op = "respond" =>
          /\ r.after.boundary = r.before.boundary
          /\ r.after.field = r.before.field
          /\ r.after.flagged => r.before.flagged

DecisionsStand == \A w \in Workers : Stands(request[w], parcel)

RecordInv == Paired(parcel) /\ DecisionsStand

\* A commit of the parcel keeps the record and its pairing; a flag that it sets
\* is one the approval opens a mismatch for.
LEMMA CommittedParcel ==
    ASSUME TypeOK, RecordInv, NEW w \in Workers, request[w].op \in {"approve", "respond"},
           parcel' = WrittenRow(parcel, request[w].before, request[w].after)
    PROVE  /\ Paired(parcel')
           /\ parcel.boundary # NoWalk => parcel'.boundary # NoWalk
           /\ parcel'.flagged /\ ~parcel.flagged
                => request[w].op = "approve" /\ request[w].opens
<1> DEFINE r == request[w]
<1>1. /\ r.before \in ParcelRow /\ r.after \in ParcelRow /\ parcel \in ParcelRow
      /\ r.op = "approve" => r.loaded \in TaskRow
  BY DEF TypeOK, Request, Idle
<1>2. Stands(r, parcel) /\ Paired(parcel)
  BY DEF RecordInv, DecisionsStand
<1>3. /\ parcel'.boundary = Written(parcel.boundary, r.before.boundary, r.after.boundary)
      /\ parcel'.field = Written(parcel.field, r.before.field, r.after.field)
      /\ parcel'.flagged = Written(parcel.flagged, r.before.flagged, r.after.flagged)
  BY <1>1, WrittenParcel
<1>4. CASE r.op = "respond"
  BY <1>2, <1>3, <1>4 DEF Stands, Written, Paired
<1>5. CASE r.op = "approve"
  <2> DEFINE walk == r.loaded.boundary
  <2>1. /\ r.after = Weighed(r.loaded, r.before)
        /\ r.opens = OpensMismatch(r.loaded, r.before)
        /\ Paired(r.before)
        /\ r.before.boundary # NoWalk => parcel.boundary # NoWalk
    BY <1>2, <1>5 DEF Stands
  <2>2. CASE walk = NoWalk
    BY <1>2, <1>3, <2>1, <2>2 DEF Weighed, Written, Paired
  <2>3. CASE walk # NoWalk /\ r.before.boundary = NoWalk
    <3>1. r.after = [r.before EXCEPT !.field = walk, !.boundary = walk]
      BY <2>1, <2>3 DEF Weighed, IsResurvey
    <3>2. /\ r.after.boundary = walk /\ r.after.field = walk
          /\ r.after.flagged = r.before.flagged
      BY <1>1, <3>1 DEF ParcelRow
    <3> QED
      BY <1>2, <1>3, <2>1, <2>3, <3>2 DEF Written, Paired
  <2>4. CASE walk # NoWalk /\ r.before.boundary # NoWalk
    <3>1. r.after = Resurveyed(r.loaded, r.before)
      BY <2>1, <2>4 DEF Weighed, IsResurvey
    <3>2. /\ r.after.boundary = r.before.boundary /\ r.after.field = walk
          /\ r.after.flagged = IF r.loaded.area = "none" THEN r.before.flagged
                               ELSE r.loaded.area = "far"
      BY <1>1, <3>1 DEF Resurveyed, ParcelRow
    <3>3. r.opens = (r.loaded.area = "far")
      BY <2>1, <2>4 DEF OpensMismatch, IsResurvey
    <3> QED
      BY <1>2, <1>3, <1>5, <2>1, <2>4, <3>2, <3>3 DEF Written, Paired
  <2> QED
    BY <2>2, <2>3, <2>4
<1> QED
  BY <1>4, <1>5

\* A request that stands, taken up by a worker, leaves the others standing as
\* long as the record is not erased.
LEMMA StandsUpdate ==
    ASSUME TypeOK, DecisionsStand, NEW w \in Workers, NEW r, Stands(r, parcel'),
           request' = [request EXCEPT ![w] = r],
           parcel.boundary # NoWalk => parcel'.boundary # NoWalk
    PROVE  DecisionsStand'
<1> SUFFICES ASSUME NEW v \in Workers PROVE Stands(request'[v], parcel')
  BY DEF DecisionsStand
<1>1. request'[v] = r \/ request'[v] = request[v]
  BY DEF TypeOK
<1>2. Stands(request[v], parcel)
  BY DEF DecisionsStand
<1> QED
  BY <1>1, <1>2 DEF Stands

\* No step of any interleaving undoes it.
LEMMA RecordStep ==
    ASSUME TypeOK, RecordInv, [Next]_vars
    PROVE  RecordInv' /\ (parcel.boundary # NoWalk => parcel'.boundary # NoWalk)
<1> USE DEF RecordInv
<1>1. ASSUME NEW w \in Workers, CommitApproval(w)
      PROVE  RecordInv' /\ (parcel.boundary # NoWalk => parcel'.boundary # NoWalk)
  <2> DEFINE r == request[w]
  <2>1. /\ r.op = "approve"
        /\ parcel' = WrittenRow(parcel, r.before, r.after)
        /\ request' = [request EXCEPT ![w] = Idle]
    BY <1>1 DEF CommitApproval, Finish
  <2>2. /\ Paired(parcel')
        /\ parcel.boundary # NoWalk => parcel'.boundary # NoWalk
    BY <2>1, CommittedParcel
  <2>3. Stands(Idle, parcel')
    BY DEF Stands, Idle
  <2>4. DecisionsStand'
    BY <2>1, <2>2, <2>3, StandsUpdate
  <2> QED
    BY <2>2, <2>4 DEF Paired
<1>2. ASSUME NEW w \in Workers, CommitResponse(w)
      PROVE  RecordInv' /\ (parcel.boundary # NoWalk => parcel'.boundary # NoWalk)
  <2> DEFINE r == request[w]
  <2>1. /\ r.op = "respond"
        /\ parcel' = WrittenRow(parcel, r.before, r.after)
        /\ request' = [request EXCEPT ![w] = Idle]
    BY <1>2 DEF CommitResponse, Finish
  <2>2. /\ Paired(parcel')
        /\ parcel.boundary # NoWalk => parcel'.boundary # NoWalk
    BY <2>1, CommittedParcel
  <2>3. Stands(Idle, parcel')
    BY DEF Stands, Idle
  <2>4. DecisionsStand'
    BY <2>1, <2>2, <2>3, StandsUpdate
  <2> QED
    BY <2>2, <2>4 DEF Paired
<1>3. ASSUME UNCHANGED parcel, DecisionsStand'
      PROVE  RecordInv' /\ (parcel.boundary # NoWalk => parcel'.boundary # NoWalk)
  BY <1>3 DEF Paired
<1>4. ASSUME NEW w \in Workers, NEW r, UNCHANGED <<parcel, mismatch>>,
             request' = [request EXCEPT ![w] = r], r.op \notin {"approve", "respond"}
      PROVE  RecordInv' /\ (parcel.boundary # NoWalk => parcel'.boundary # NoWalk)
  <2>1. Stands(r, parcel')
    BY <1>4 DEF Stands
  <2> QED
    BY <1>3, <1>4, <2>1, StandsUpdate
<1>5. ASSUME NEW w \in Workers, NEW t \in Tasks,
             \/ StartSurveyTask(w, t)
             \/ \E a \in Area, b \in Boundary : SaveSurveyTask(w, t, a, b)
             \/ SubmitSurveyTask(w, t)
             \/ ReturnSurveyTask(w, t)
             \/ \E p \in Photos : UploadSurveyPhoto(w, t, p) \/ DeleteSurveyPhoto(w, t, p)
             \/ ApproveSurveyTask(w, t)
      PROVE  RecordInv' /\ (parcel.boundary # NoWalk => parcel'.boundary # NoWalk)
  <2>1. \E r : /\ request' = [request EXCEPT ![w] = r]
               /\ r.op \notin {"approve", "respond"}
               /\ UNCHANGED <<parcel, mismatch>>
    BY <1>5 DEF StartSurveyTask, SaveSurveyTask, SubmitSurveyTask, ReturnSurveyTask,
                UploadSurveyPhoto, DeleteSurveyPhoto, ApproveSurveyTask, BeginUpdate, Begin
  <2> QED
    BY <1>4, <2>1
<1>6. ASSUME NEW w \in Workers, CommitUpdate(w) \/ CommitPhoto(w)
      PROVE  RecordInv' /\ (parcel.boundary # NoWalk => parcel'.boundary # NoWalk)
  BY <1>4, <1>6 DEF CommitUpdate, CommitPhoto, Finish, Idle
<1>7. ASSUME NEW w \in Workers, WeighSurvey(w)
      PROVE  RecordInv' /\ (parcel.boundary # NoWalk => parcel'.boundary # NoWalk)
  <2> DEFINE q == request[w]
             r == [op |-> "approve", t |-> q.t, loaded |-> q.loaded,
                   before |-> parcel, after |-> Weighed(q.loaded, parcel),
                   opens |-> OpensMismatch(q.loaded, parcel)]
  <2>1. Stands(r, parcel')
    BY <1>7 DEF WeighSurvey, Stands
  <2> QED
    BY <1>3, <1>7, <2>1, StandsUpdate DEF WeighSurvey
<1>8. ASSUME NEW w \in Workers, NEW m \in Mismatches, RespondToDiscrepancy(w, m)
      PROVE  RecordInv' /\ (parcel.boundary # NoWalk => parcel'.boundary # NoWalk)
  <2> DEFINE r == [op |-> "respond", m |-> m,
                   before |-> parcel, after |-> Explained(m, parcel)]
  <2>1. Stands(r, parcel')
    BY <1>8 DEF RespondToDiscrepancy, Begin, Stands, Explained, TypeOK, ParcelRow
  <2>2. request' = [request EXCEPT ![w] = r] /\ UNCHANGED <<parcel, mismatch>>
    BY <1>8 DEF RespondToDiscrepancy, Begin
  <2> HIDE DEF r
  <2>3. DecisionsStand'
    BY <2>1, <2>2, StandsUpdate
  <2> QED
    BY <1>3, <2>2, <2>3
<1>9. ASSUME NEW w \in Workers, NEW t \in Tasks,
             \/ \E selfStarted \in BOOLEAN : CreateSurveyTask(w, t, selfStarted)
             \/ \E m \in Mismatches : FileDiscrepancy(w, t, m)
      PROVE  RecordInv' /\ (parcel.boundary # NoWalk => parcel'.boundary # NoWalk)
  BY <1>3, <1>9 DEF CreateSurveyTask, FileDiscrepancy, DecisionsStand, Stands, TypeOK
<1>10. CASE UNCHANGED vars
  BY <1>3, <1>10 DEF vars, DecisionsStand, Stands
<1> QED
  BY <1>1, <1>2, <1>5, <1>6, <1>7, <1>8, <1>9, <1>10 DEF Next

LEMMA RecordCorrect == Spec => []RecordInv
<1>1. Init => RecordInv
  BY DEF Init, RecordInv, Paired, DecisionsStand, Stands, Idle
<1>2. TypeOK /\ RecordInv /\ [Next]_vars => RecordInv'
  BY RecordStep
<1> QED
  BY <1>1, <1>2, TypeCorrect, PTL DEF Spec

\* However requests overlap, a boundary of record is never erased and a walk
\* is kept beside it.
THEOREM RecordKept == Spec => RecordIsNeverErased
<1>1. TypeOK /\ RecordInv /\ [Next]_vars
        => [parcel.boundary # NoWalk => NoWalk \notin {parcel'.boundary, parcel'.field}]_vars
  BY RecordStep DEF RecordInv, Paired
<1> QED
  BY <1>1, TypeCorrect, RecordCorrect, PTL DEF Spec, RecordIsNeverErased

\* A step that raises the flag is an approval, which files a mismatch with it.
LEMMA FlagStep ==
    ASSUME TypeOK, RecordInv, [Next]_vars, ~parcel.flagged, parcel'.flagged
    PROVE  \E m \in Mismatches : mismatch[m] = "ABSENT" /\ mismatch'[m] = "OPEN"
<1>1. ASSUME NEW w \in Workers, CommitApproval(w)
      PROVE  \E m \in Mismatches : mismatch[m] = "ABSENT" /\ mismatch'[m] = "OPEN"
  <2>1. request[w].opens
    BY <1>1, CommittedParcel DEF CommitApproval
  <2> QED
    BY <1>1, <2>1 DEF CommitApproval, OpenedBy, TypeOK
<1>2. ASSUME NEW w \in Workers, CommitResponse(w) PROVE FALSE
  BY <1>2, CommittedParcel DEF CommitResponse
<1>3. parcel' # parcel
  OBVIOUS
<1>4. ASSUME NEW w \in Workers, NEW t \in Tasks,
             \/ \E selfStarted \in BOOLEAN : CreateSurveyTask(w, t, selfStarted)
             \/ StartSurveyTask(w, t)
             \/ \E a \in Area, b \in Boundary : SaveSurveyTask(w, t, a, b)
             \/ SubmitSurveyTask(w, t)
             \/ \E p \in Photos : UploadSurveyPhoto(w, t, p) \/ DeleteSurveyPhoto(w, t, p)
             \/ ReturnSurveyTask(w, t)
             \/ ApproveSurveyTask(w, t)
             \/ \E m \in Mismatches : FileDiscrepancy(w, t, m)
      PROVE  parcel' = parcel
  BY <1>4 DEF StartSurveyTask, SaveSurveyTask, SubmitSurveyTask, ReturnSurveyTask,
              UploadSurveyPhoto, DeleteSurveyPhoto, ApproveSurveyTask, BeginUpdate, Begin,
              CreateSurveyTask, FileDiscrepancy
<1>5. ASSUME NEW w \in Workers,
             \/ \E m \in Mismatches : RespondToDiscrepancy(w, m)
             \/ CommitUpdate(w) \/ CommitPhoto(w) \/ WeighSurvey(w)
      PROVE  parcel' = parcel
  BY <1>5 DEF RespondToDiscrepancy, Begin, CommitUpdate, CommitPhoto, WeighSurvey
<1>6. CASE UNCHANGED vars
  BY <1>3, <1>6 DEF vars
<1> QED
  BY <1>1, <1>2, <1>3, <1>4, <1>5, <1>6 DEF Next

\* However requests overlap, a parcel is flagged by an approval that files the
\* mismatch behind the flag, and by nothing else.
THEOREM FlagsAreExplainedWhenRaised == Spec => FlagRaisedWithItsMismatch
<1>1. TypeOK /\ RecordInv /\ [Next]_vars
        => [~parcel.flagged /\ parcel'.flagged =>
              \E m \in Mismatches : mismatch[m] = "ABSENT" /\ mismatch'[m] = "OPEN"]_vars
  BY FlagStep
<1> QED
  BY <1>1, TypeCorrect, RecordCorrect, PTL DEF Spec, FlagRaisedWithItsMismatch

-----------------------------------------------------------------------------
(***************************************************************************)
(* One request at a time.  A request that commits then finds the rows as   *)
(* it loaded them, so it writes what it assigned and what it checked still *)
(* holds: only an editable task is edited, only a submitted one reviewed.  *)
(***************************************************************************)
OneWorker == \A v, w \in Workers : v = w

SameEvidence(row, new) == new.area = row.area /\ new.boundary = row.boundary

\* What an update found, and the status it may leave.
UpdateCurrent(r) ==
    /\ r.loaded = task[r.t]
    /\ r.loaded.status # "APPROVED" /\ r.assigned.status # "APPROVED"
    /\ r.loaded.status = "SUBMITTED" =>
          r.assigned.status = "RETURNED" /\ SameEvidence(r.loaded, r.assigned)
    /\ r.assigned.status = "SUBMITTED" =>
          SameEvidence(r.loaded, r.assigned) /\ HasEvidence(r.loaded, photos[r.t])

ReviewCurrent(r) == r.loaded = task[r.t] /\ r.loaded.status = "SUBMITTED"

Current(r) ==
    /\ r.op = "update" => UpdateCurrent(r)
    /\ r.op \in {"upload", "remove"} => Editable(task[r.t])
    /\ r.op \in {"review", "approve"} => ReviewCurrent(r)
    /\ r.op = "approve" =>
          /\ r.before = parcel
          /\ r.after = Weighed(r.loaded, parcel)
          /\ r.opens = OpensMismatch(r.loaded, parcel)
    /\ r.op = "respond" =>
          /\ mismatch[r.m] = "OPEN"
          /\ r.before = parcel
          /\ r.after = Explained(r.m, parcel)

SubmittedHasEvidence == \A t \in Submitted : HasEvidence(task[t], photos[t])

SerialInv ==
    /\ TypeOK
    /\ \A w \in Workers : Current(request[w])
    /\ SubmittedHasEvidence
    /\ RecordIsAnApprovedWalk
    /\ FlagIsExplained

\* The row that is still as it was loaded is written as it was assigned.
LEMMA WrittenAsAssigned ==
    /\ \A stored, assigned \in ParcelRow : WrittenRow(stored, stored, assigned) = assigned
    /\ \A stored, assigned \in TaskRow : WrittenRow(stored, stored, assigned) = assigned
<1>1. ASSUME NEW stored \in ParcelRow, NEW assigned \in ParcelRow
      PROVE  WrittenRow(stored, stored, assigned) = assigned
  <2>1. DOMAIN stored = DOMAIN assigned /\ assigned = [c \in DOMAIN assigned |-> assigned[c]]
    BY DEF ParcelRow
  <2> QED
    BY <2>1 DEF WrittenRow, Written
<1>2. ASSUME NEW stored \in TaskRow, NEW assigned \in TaskRow
      PROVE  WrittenRow(stored, stored, assigned) = assigned
  <2>1. DOMAIN stored = DOMAIN assigned /\ assigned = [c \in DOMAIN assigned |-> assigned[c]]
    BY DEF TaskRow
  <2> QED
    BY <2>1 DEF WrittenRow, Written
<1> QED
  BY <1>1, <1>2

\* What approval makes of the parcel.
LEMMA WeighedParcel ==
    ASSUME NEW row \in TaskRow, NEW p \in ParcelRow
    PROVE  /\ p.boundary # NoWalk => Weighed(row, p).boundary = p.boundary
           /\ Weighed(row, p).boundary \in {p.boundary, row.boundary}
           /\ Weighed(row, p).flagged /\ ~p.flagged => OpensMismatch(row, p)
<1>1. /\ Resurveyed(row, p).boundary = p.boundary
      /\ Resurveyed(row, p).flagged = IF row.area = "none" THEN p.flagged ELSE row.area = "far"
  BY DEF Resurveyed, ParcelRow
<1> QED
  BY <1>1 DEF Weighed, OpensMismatch, IsResurvey, ParcelRow

\* The one request that is under way is the one that changed.
LEMMA OnlyRequestCurrent ==
    ASSUME OneWorker, TypeOK, NEW w \in Workers, NEW r,
           request' = [request EXCEPT ![w] = r], Current(r)'
    PROVE  \A v \in Workers : Current(request[v])'
<1> SUFFICES ASSUME NEW v \in Workers PROVE Current(request[v])'
  OBVIOUS
<1>1. v = w /\ request'[v] = r
  BY DEF OneWorker, TypeOK
<1> QED
  BY <1>1

\* What the action properties say of one step.
EvidenceKept ==
    \A t \in Submitted :
        <<task[t].area, task[t].boundary, photos[t]>>
            = <<task'[t].area, task'[t].boundary, photos'[t]>>

RecordStays == parcel.boundary # NoWalk => parcel'.boundary = parcel.boundary

OnlyTheLastClears == Answers /\ parcel.flagged /\ ~parcel'.flagged => Open' = {}

StepOK == EvidenceKept /\ RecordStays /\ OnlyTheLastClears

LEMMA SerialStep ==
    ASSUME OneWorker, SerialInv, [Next]_vars
    PROVE  SerialInv' /\ StepOK
<1> USE DEF SerialInv
<1>t. TypeOK /\ TypeOK'
  BY TypeStep
<1>i. Current(Idle)'
  BY DEF Current, Idle
<1>a. ASSUME NEW w \in Workers, NEW r, request' = [request EXCEPT ![w] = r],
             Current(r), UNCHANGED <<task, photos, parcel, mismatch>>
      PROVE  SerialInv' /\ StepOK
  <2>1. Current(r)'
    BY <1>a DEF Current, UpdateCurrent, ReviewCurrent, Explained, Open
  <2>2. \A v \in Workers : Current(request[v])'
    BY <1>a, <1>t, <2>1, OnlyRequestCurrent
  <2>3. Submitted' = Submitted /\ Open' = Open
    BY <1>a DEF Submitted, Open
  <2>4. SubmittedHasEvidence' /\ RecordIsAnApprovedWalk' /\ FlagIsExplained'
    BY <1>a, <2>3 DEF SubmittedHasEvidence, RecordIsAnApprovedWalk, FlagIsExplained
  <2> QED
    BY <1>a, <1>t, <2>2, <2>4 DEF StepOK, EvidenceKept, RecordStays, OnlyTheLastClears
<1>b. ASSUME NEW w \in Workers, request' = [request EXCEPT ![w] = Idle]
      PROVE  \A v \in Workers : Current(request[v])'
  BY <1>b, <1>t, <1>i, OnlyRequestCurrent
<1>1. ASSUME NEW w \in Workers, NEW t \in Tasks, NEW selfStarted \in BOOLEAN,
             CreateSurveyTask(w, t, selfStarted)
      PROVE  SerialInv' /\ StepOK
  <2>1. \A v \in Workers : request'[v] = Idle
    BY <1>1 DEF CreateSurveyTask, OneWorker
  <2>2. Submitted' = Submitted /\ t \notin Submitted
    BY <1>1, <1>t DEF CreateSurveyTask, Submitted, TypeOK
  <2>3. \A u \in Submitted : task'[u] = task[u]
    BY <1>1, <1>t, <2>2 DEF CreateSurveyTask, TypeOK, Submitted
  <2>4. SubmittedHasEvidence' /\ FlagIsExplained'
    BY <1>1, <2>2, <2>3
    DEF CreateSurveyTask, SubmittedHasEvidence, HasEvidence, FlagIsExplained, Open
  <2>5. RecordIsAnApprovedWalk'
    BY <1>1, <1>t, <2>3 DEF CreateSurveyTask, RecordIsAnApprovedWalk, Submitted
  <2>6. StepOK
    BY <1>1, <2>3
    DEF CreateSurveyTask, StepOK, EvidenceKept, RecordStays, OnlyTheLastClears
  <2> QED
    BY <1>i, <1>t, <2>1, <2>4, <2>5, <2>6
<1>2. ASSUME NEW w \in Workers, NEW t \in Tasks, NEW row \in TaskRow,
             BeginUpdate(w, t, row),
             UpdateCurrent([op |-> "update", t |-> t, loaded |-> task[t], assigned |-> row])
      PROVE  SerialInv' /\ StepOK
  <2> DEFINE r == [op |-> "update", t |-> t, loaded |-> task[t], assigned |-> row]
  <2>1. Current(r)
    BY <1>2 DEF Current
  <2>2. request' = [request EXCEPT ![w] = r] /\ UNCHANGED <<task, photos, parcel, mismatch>>
    BY <1>2 DEF BeginUpdate, Begin
  <2> QED
    BY <1>a, <2>1, <2>2
<1>3. ASSUME NEW w \in Workers, NEW t \in Tasks,
             \/ StartSurveyTask(w, t)
             \/ \E a \in Area, b \in Boundary : SaveSurveyTask(w, t, a, b)
             \/ SubmitSurveyTask(w, t)
             \/ ReturnSurveyTask(w, t)
      PROVE  SerialInv' /\ StepOK
  <2>t. task[t] \in TaskRow
    BY <1>t DEF TypeOK
  <2>1. CASE StartSurveyTask(w, t)
    BY <1>2, <2>1, <2>t
    DEF StartSurveyTask, UpdateCurrent, TaskRow, SurveyTaskStatus
  <2>2. CASE \E a \in Area, b \in Boundary : SaveSurveyTask(w, t, a, b)
    BY <1>2, <2>2, <2>t DEF SaveSurveyTask, UpdateCurrent, TaskRow, Editable
  <2>3. CASE SubmitSurveyTask(w, t)
    BY <1>2, <2>3, <2>t
    DEF SubmitSurveyTask, UpdateCurrent, TaskRow, SurveyTaskStatus, Editable, SameEvidence
  <2>4. CASE ReturnSurveyTask(w, t)
    BY <1>2, <2>4, <2>t
    DEF ReturnSurveyTask, UpdateCurrent, TaskRow, SurveyTaskStatus, SameEvidence
  <2> QED
    BY <1>3, <2>1, <2>2, <2>3, <2>4
<1>4. ASSUME NEW w \in Workers, NEW t \in Tasks, NEW p \in Photos,
             UploadSurveyPhoto(w, t, p) \/ DeleteSurveyPhoto(w, t, p)
      PROVE  SerialInv' /\ StepOK
  <2>1. PICK op \in {"upload", "remove"} :
            /\ request' = [request EXCEPT ![w] = [op |-> op, t |-> t, p |-> p]]
            /\ Editable(task[t])
            /\ UNCHANGED <<task, photos, parcel, mismatch>>
    BY <1>4 DEF UploadSurveyPhoto, DeleteSurveyPhoto, Begin
  <2>2. Current([op |-> op, t |-> t, p |-> p])
    BY <2>1 DEF Current
  <2> QED
    BY <1>a, <2>1, <2>2
<1>5. ASSUME NEW w \in Workers, NEW t \in Tasks, ApproveSurveyTask(w, t)
      PROVE  SerialInv' /\ StepOK
  <2>1. Current([op |-> "review", t |-> t, loaded |-> task[t]])
    BY <1>5 DEF ApproveSurveyTask, Current, ReviewCurrent
  <2> QED
    BY <1>5, <1>a, <2>1 DEF ApproveSurveyTask, Begin
<1>6. ASSUME NEW w \in Workers, NEW t \in Tasks, NEW m \in Mismatches,
             FileDiscrepancy(w, t, m)
      PROVE  SerialInv' /\ StepOK
  <2>1. \A v \in Workers : request'[v] = Idle
    BY <1>6 DEF FileDiscrepancy, OneWorker
  <2>2. Open' = Open \cup {m} /\ ~Answers
    BY <1>6, <1>t DEF FileDiscrepancy, Open, Answers, TypeOK
  <2>3. SubmittedHasEvidence' /\ RecordIsAnApprovedWalk' /\ FlagIsExplained'
    BY <1>6, <2>2
    DEF FileDiscrepancy, SubmittedHasEvidence, Submitted, RecordIsAnApprovedWalk,
        FlagIsExplained
  <2> QED
    BY <1>6, <1>i, <1>t, <2>1, <2>2, <2>3
    DEF FileDiscrepancy, StepOK, EvidenceKept, RecordStays, OnlyTheLastClears
<1>7. ASSUME NEW w \in Workers, NEW m \in Mismatches, RespondToDiscrepancy(w, m)
      PROVE  SerialInv' /\ StepOK
  <2> DEFINE r == [op |-> "respond", m |-> m,
                   before |-> parcel, after |-> Explained(m, parcel)]
  <2>1. Current(r)
    BY <1>7 DEF RespondToDiscrepancy, Current
  <2>2. request' = [request EXCEPT ![w] = r] /\ UNCHANGED <<task, photos, parcel, mismatch>>
    BY <1>7 DEF RespondToDiscrepancy, Begin
  <2> QED
    BY <1>a, <2>1, <2>2
<1>8. ASSUME NEW w \in Workers, CommitUpdate(w) PROVE SerialInv' /\ StepOK
  <2> DEFINE r == request[w]
  <2>1. r.t \in Tasks /\ r.loaded \in TaskRow /\ r.assigned \in TaskRow
    BY <1>8, <1>t DEF CommitUpdate, TypeOK, Request, Idle
  <2>2. UpdateCurrent(r)
    BY <1>8 DEF CommitUpdate, Current
  <2>3. WrittenRow(task[r.t], r.loaded, r.assigned) = r.assigned
    BY <2>1, <2>2, WrittenAsAssigned DEF UpdateCurrent
  <2>4. task'[r.t] = r.assigned /\ \A u \in Tasks \ {r.t} : task'[u] = task[u]
    BY <1>8, <1>t, <2>1, <2>3 DEF CommitUpdate, TypeOK
  <2>5. UNCHANGED <<photos, parcel, mismatch>> /\ Open' = Open
    BY <1>8 DEF CommitUpdate, Open
  <2>6. SubmittedHasEvidence'
    BY <2>1, <2>2, <2>4, <2>5
    DEF SubmittedHasEvidence, Submitted, UpdateCurrent, HasEvidence, SameEvidence
  <2>7. RecordIsAnApprovedWalk' /\ FlagIsExplained'
    BY <2>2, <2>4, <2>5 DEF RecordIsAnApprovedWalk, UpdateCurrent, FlagIsExplained
  <2>8. StepOK
    BY <2>2, <2>4, <2>5
    DEF StepOK, EvidenceKept, Submitted, UpdateCurrent, SameEvidence, RecordStays,
        OnlyTheLastClears
  <2> QED
    BY <1>8, <1>b, <1>t, <2>6, <2>7, <2>8 DEF CommitUpdate, Finish
<1>9. ASSUME NEW w \in Workers, CommitPhoto(w) PROVE SerialInv' /\ StepOK
  <2>1. request[w].t \notin Submitted /\ request[w].t \in Tasks
    BY <1>9, <1>t DEF CommitPhoto, Current, Editable, Submitted, TypeOK, Request, Idle
  <2>2. \A u \in Submitted : photos'[u] = photos[u]
    BY <1>9, <1>t, <2>1 DEF CommitPhoto, TypeOK, Submitted
  <2>3. UNCHANGED <<task, parcel, mismatch>> /\ Open' = Open /\ Submitted' = Submitted
    BY <1>9 DEF CommitPhoto, Open, Submitted
  <2>4. SubmittedHasEvidence' /\ RecordIsAnApprovedWalk' /\ FlagIsExplained'
    BY <2>2, <2>3 DEF SubmittedHasEvidence, RecordIsAnApprovedWalk, FlagIsExplained
  <2>5. StepOK
    BY <2>2, <2>3 DEF StepOK, EvidenceKept, RecordStays, OnlyTheLastClears
  <2> QED
    BY <1>9, <1>b, <1>t, <2>4, <2>5 DEF CommitPhoto, Finish
<1>10. ASSUME NEW w \in Workers, WeighSurvey(w) PROVE SerialInv' /\ StepOK
  <2> DEFINE q == request[w]
             r == [op |-> "approve", t |-> q.t, loaded |-> q.loaded,
                   before |-> parcel, after |-> Weighed(q.loaded, parcel),
                   opens |-> OpensMismatch(q.loaded, parcel)]
  <2>1. ReviewCurrent(q)
    BY <1>10 DEF WeighSurvey, Current
  <2>2. Current(r)
    BY <2>1 DEF Current, ReviewCurrent
  <2>3. request' = [request EXCEPT ![w] = r] /\ UNCHANGED <<task, photos, parcel, mismatch>>
    BY <1>10 DEF WeighSurvey
  <2> QED
    BY <1>a, <2>2, <2>3
<1>11. ASSUME NEW w \in Workers, CommitApproval(w) PROVE SerialInv' /\ StepOK
  <2> DEFINE r == request[w]
  <2>1. r.t \in Tasks /\ r.loaded \in TaskRow /\ r.after \in ParcelRow /\ parcel \in ParcelRow
    BY <1>11, <1>t DEF CommitApproval, TypeOK, Request, Idle
  <2>2. /\ r.loaded = task[r.t] /\ r.loaded.status = "SUBMITTED" /\ r.before = parcel
        /\ r.after = Weighed(r.loaded, parcel) /\ r.opens = OpensMismatch(r.loaded, parcel)
    BY <1>11 DEF CommitApproval, Current, ReviewCurrent
  <2>3. parcel' = Weighed(task[r.t], parcel)
    BY <1>11, <2>1, <2>2, WrittenAsAssigned DEF CommitApproval
  <2>4. /\ parcel.boundary # NoWalk => parcel'.boundary = parcel.boundary
        /\ parcel'.boundary \in {parcel.boundary, task[r.t].boundary}
        /\ parcel'.flagged /\ ~parcel.flagged => r.opens
    BY <2>1, <2>2, <2>3, WeighedParcel
  <2>5. /\ task'[r.t].status = "APPROVED" /\ SameEvidence(task[r.t], task'[r.t])
        /\ \A u \in Tasks \ {r.t} : task'[u] = task[u]
        /\ photos' = photos
    BY <1>11, <1>t, <2>1 DEF CommitApproval, TypeOK, TaskRow, SameEvidence
  <2>6. SubmittedHasEvidence' /\ EvidenceKept
    BY <2>1, <2>2, <2>5
    DEF SubmittedHasEvidence, Submitted, EvidenceKept, SameEvidence, HasEvidence
  <2>7. RecordIsAnApprovedWalk'
    <3>1. ASSUME NEW u \in Tasks, task[u].status = "APPROVED"
          PROVE  task'[u].status = "APPROVED" /\ task'[u].boundary = task[u].boundary
      BY <2>2, <2>5, <3>1
    <3>2. CASE parcel'.boundary = parcel.boundary
      BY <3>1, <3>2 DEF RecordIsAnApprovedWalk
    <3>3. CASE parcel'.boundary = task[r.t].boundary
      BY <2>1, <2>5, <3>3 DEF RecordIsAnApprovedWalk, SameEvidence
    <3> QED
      BY <2>4, <3>2, <3>3
  <2>8. OpenedBy(r, mismatch')
    BY <1>11 DEF CommitApproval
  <2>9. Open \subseteq Open' /\ (r.opens => Open' # {}) /\ ~Answers
    BY <1>t, <2>8 DEF OpenedBy, Open, Answers, TypeOK
  <2>10. FlagIsExplained'
    BY <2>4, <2>9 DEF FlagIsExplained
  <2>11. StepOK
    BY <2>4, <2>6, <2>9 DEF StepOK, RecordStays, OnlyTheLastClears
  <2> QED
    BY <1>11, <1>b, <1>t, <2>6, <2>7, <2>10, <2>11 DEF CommitApproval, Finish
<1>12. ASSUME NEW w \in Workers, CommitResponse(w) PROVE SerialInv' /\ StepOK
  <2> DEFINE r == request[w]
  <2>1. r.m \in Mismatches /\ r.after \in ParcelRow /\ parcel \in ParcelRow
    BY <1>12, <1>t DEF CommitResponse, TypeOK, Request, Idle
  <2>2. r.before = parcel /\ r.after = Explained(r.m, parcel)
    BY <1>12 DEF CommitResponse, Current
  <2>3. parcel' = Explained(r.m, parcel)
    BY <1>12, <2>1, <2>2, WrittenAsAssigned DEF CommitResponse
  <2>4. /\ parcel'.boundary = parcel.boundary
        /\ parcel'.flagged = (parcel.flagged /\ Open \ {r.m} # {})
    BY <2>1, <2>3 DEF Explained, ParcelRow
  <2>5. Open' = Open \ {r.m}
    BY <1>12, <1>t, <2>1 DEF CommitResponse, Open, TypeOK
  <2>6. UNCHANGED <<task, photos>>
    BY <1>12 DEF CommitResponse
  <2>7. SubmittedHasEvidence' /\ RecordIsAnApprovedWalk' /\ FlagIsExplained'
    BY <2>4, <2>5, <2>6
    DEF SubmittedHasEvidence, Submitted, RecordIsAnApprovedWalk, FlagIsExplained
  <2>8. StepOK
    BY <2>4, <2>5, <2>6 DEF StepOK, EvidenceKept, RecordStays, OnlyTheLastClears
  <2> QED
    BY <1>12, <1>b, <1>t, <2>7, <2>8 DEF CommitResponse, Finish
<1>13. CASE UNCHANGED vars
  <2>1. Submitted' = Submitted /\ Open' = Open
    BY <1>13 DEF vars, Submitted, Open
  <2>2. \A v \in Workers : Current(request[v])'
    BY <1>13 DEF vars, Current, UpdateCurrent, ReviewCurrent, Explained, Open
  <2>3. SubmittedHasEvidence' /\ RecordIsAnApprovedWalk' /\ FlagIsExplained'
    BY <1>13, <2>1 DEF vars, SubmittedHasEvidence, RecordIsAnApprovedWalk, FlagIsExplained
  <2> QED
    BY <1>13, <1>t, <2>1, <2>2, <2>3
    DEF vars, StepOK, EvidenceKept, RecordStays, OnlyTheLastClears, Answers
<1> QED
  BY <1>1, <1>3, <1>4, <1>5, <1>6, <1>7, <1>8, <1>9, <1>10, <1>11, <1>12, <1>13 DEF Next

LEMMA SerialCorrect ==
    ASSUME OneWorker
    PROVE  Spec => []SerialInv
<1>1. Init => SerialInv
  <2> SUFFICES ASSUME Init PROVE SerialInv
    OBVIOUS
  <2>1. TypeOK
    BY DEF Init, TypeOK, TaskRow, ParcelRow, SurveyTaskStatus, Area, Boundary,
           MismatchStatus, Request
  <2>2. \A w \in Workers : Current(request[w])
    BY DEF Init, Current, Idle
  <2>3. SubmittedHasEvidence /\ RecordIsAnApprovedWalk /\ FlagIsExplained
    BY DEF Init, SubmittedHasEvidence, Submitted, RecordIsAnApprovedWalk, FlagIsExplained
  <2> QED
    BY <2>1, <2>2, <2>3 DEF SerialInv
<1>2. SerialInv /\ [Next]_vars => SerialInv'
  BY SerialStep
<1> QED
  BY <1>1, <1>2, PTL DEF Spec

\* One request after another, the boundary of record is the one some approved
\* survey walked.
THEOREM SerialRecord ==
    ASSUME OneWorker
    PROVE  Spec => []RecordIsAnApprovedWalk
<1>1. SerialInv => RecordIsAnApprovedWalk
  BY DEF SerialInv
<1> QED
  BY <1>1, SerialCorrect, PTL

\* One request after another, a flagged parcel has an open mismatch.
THEOREM SerialFlag ==
    ASSUME OneWorker
    PROVE  Spec => []FlagIsExplained
<1>1. SerialInv => FlagIsExplained
  BY DEF SerialInv
<1> QED
  BY <1>1, SerialCorrect, PTL

\* One request after another, what is submitted has evidence behind it and stays
\* what it was while it is reviewed and once it is approved.
THEOREM SerialEvidence ==
    ASSUME OneWorker
    PROVE  Spec => SubmittedEvidenceStays
<1> DEFINE Kept == /\ \A t \in Submitted' : HasEvidence(task'[t], photos'[t])
                   /\ \A t \in Submitted :
                         <<task[t].area, task[t].boundary, photos[t]>>
                             = <<task'[t].area, task'[t].boundary, photos'[t]>>
<1>1. SerialInv /\ [Next]_vars => [Kept]_vars
  <2> SUFFICES ASSUME SerialInv, [Next]_vars PROVE Kept
    OBVIOUS
  <2>1. SubmittedHasEvidence' /\ EvidenceKept
    BY SerialStep DEF SerialInv, StepOK
  <2> QED
    BY <2>1 DEF SubmittedHasEvidence, EvidenceKept
<1> QED
  BY <1>1, SerialCorrect, PTL DEF Spec, SubmittedEvidenceStays

\* One request after another, the record is written once.
THEOREM SerialRecordOnce ==
    ASSUME OneWorker
    PROVE  Spec => RecordWrittenOnce
<1>1. SerialInv /\ [Next]_vars
        => [parcel.boundary # NoWalk => parcel'.boundary = parcel.boundary]_vars
  BY SerialStep DEF StepOK, RecordStays
<1> QED
  BY <1>1, SerialCorrect, PTL DEF Spec, RecordWrittenOnce

\* One request after another, an answer that clears the flag leaves no mismatch
\* open.
THEOREM SerialAnswer ==
    ASSUME OneWorker
    PROVE  Spec => AnswerClearsOnlyTheLast
<1>1. SerialInv /\ [Next]_vars
        => [Answers /\ parcel.flagged /\ ~parcel'.flagged => Open' = {}]_vars
  BY SerialStep DEF StepOK, OnlyTheLastClears
<1> QED
  BY <1>1, SerialCorrect, PTL DEF Spec, AnswerClearsOnlyTheLast
=============================================================================
