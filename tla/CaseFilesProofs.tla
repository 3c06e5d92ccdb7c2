--------------------------- MODULE CaseFilesProofs ---------------------------
(***************************************************************************)
(* What the readers of a file agree on, and that waiting never helps, for  *)
(* every file that officers can leave behind.  The invariant is about the  *)
(* file: its timeline is in order of days, ends at the stage the case is   *)
(* in, and nothing in it is later than today.  The rest is arithmetic of   *)
(* the readers.                                                            *)
(***************************************************************************)
EXTENDS CaseDesks, FiniteSetTheorems, SequenceTheorems, WellFoundedInduction, TLAPS

\* The rows of a timeline in order, none of them later than a day.
TimelineInOrder(rows, day) ==
    /\ \A i \in 1..Len(rows) : rows[i].on <= day
    /\ \A i, j \in 1..Len(rows) : i <= j => rows[i].on <= rows[j].on

FilesInv ==
    /\ Files!TypeOK
    /\ file.history # <<>>
    /\ file.history[Len(file.history)] = [to |-> file.stage, on |-> file.changed]
    /\ TimelineInOrder(file.history, today)

\* A step is one of the files or leaves them and the desk alone.
LEMMA StepsOfFiles ==
    ASSUME [Next]_vars, desk' = "files"
    PROVE  desk = "files" /\ [Files!Next]_(Files!vars)
<1>1. CASE UNCHANGED vars
  BY <1>1 DEF vars, fileVars, Files!vars
<1>2. CASE Next
  BY <1>2
  DEF Next, DocumentsNext, CompensationNext, HouseholdsNext, ParcelsNext, ObjectionsNext,
      GrievancesNext, NoticesNext, InvitationsNext, SignInsNext, AuthenticatorsNext,
      CaseFilesNext, Elsewhere
<1> QED
  BY <1>1, <1>2

\* A row more, of today.
LEMMA TimelineGrows ==
    ASSUME NEW rows \in Seq([to : Files!Stage, on : Days]), NEW day \in Days,
           TimelineInOrder(rows, day), NEW row \in [to : Files!Stage, on : Days], row.on = day
    PROVE  /\ Append(rows, row) \in Seq([to : Files!Stage, on : Days])
           /\ Append(rows, row) # <<>>
           /\ Append(rows, row)[Len(Append(rows, row))] = row
           /\ TimelineInOrder(Append(rows, row), day)
<1> DEFINE longer == Append(rows, row)
           Row == [to : Files!Stage, on : Days]
<1>1. /\ longer \in Seq(Row) /\ longer # <<>> /\ Len(longer) = Len(rows) + 1
      /\ \A i \in 1..Len(rows) : longer[i] = rows[i]
      /\ longer[Len(rows) + 1] = row
  <2> HIDE DEF Row
  <2>1. rows \in Seq(Row) /\ row \in Row
    BY DEF Row
  <2> QED
    BY <2>1, AppendProperties
<1>2. Len(rows) \in Nat /\ day \in Nat
  BY ReadersAssumption
<1> HIDE DEF longer
<1>3. ASSUME NEW i \in 1..Len(longer) PROVE longer[i].on <= day
  <2>1. CASE i = Len(rows) + 1
    BY <1>1, <1>2, <2>1
  <2>2. CASE i # Len(rows) + 1
    <3>1. i \in 1..Len(rows)
      BY <1>1, <1>2, <2>2
    <3> QED
      BY <1>1, <3>1 DEF TimelineInOrder
  <2> QED
    BY <2>1, <2>2
<1>4. ASSUME NEW i \in 1..Len(longer), NEW j \in 1..Len(longer), i <= j
      PROVE  longer[i].on <= longer[j].on
  <2>1. CASE j = Len(rows) + 1
    BY <1>1, <1>3, <2>1
  <2>2. CASE j # Len(rows) + 1
    <3>1. i \in 1..Len(rows) /\ j \in 1..Len(rows)
      BY <1>1, <1>2, <1>4, <2>2
    <3> QED
      BY <1>1, <1>4, <3>1 DEF TimelineInOrder
  <2> QED
    BY <2>1, <2>2
<1> QED
  BY <1>1, <1>3, <1>4 DEF TimelineInOrder, longer, Row

LEMMA FilesInitially == Init /\ desk = "files" => FilesInv
<1> SUFFICES ASSUME Files!Init, orderly \in BOOLEAN PROVE FilesInv
  BY DEF Init
<1>0. PICK s \in FirstStages :
          file \in {Files!Opened(s, Files!DueDateFor(s, today)), Files!Opened(s, Files!NoDate)}
  BY DEF Files!Init
<1>1. PICK due \in {Files!DueDateFor(s, today), Files!NoDate} : file = Files!Opened(s, due)
  BY <1>0
<1>2. s \in Files!Stage /\ due \in Int /\ today = 1 /\ today \in Days
  BY ReadersAssumption DEF Files!Init, Files!DueDateFor, Files!NoDate
<1>3. Files!TypeOK
  <2>1. file \in Files!CaseFile
    BY <1>1, <1>2
    DEF Files!Opened, Files!CaseFile, Files!CaseStatus, Files!Award, Files!NoDate
  <2>2. Files!RequestsOK({})
    BY DEF Files!Init, Files!InitRequests, Files!RequestsOK, Files!Idle
  <2> QED
    BY <1>2, <2>1, <2>2, ReadersAssumption DEF Files!Init, Files!TypeOK
<1>4. file.history = <<[to |-> s, on |-> today]>> /\ file.stage = s /\ file.changed = today
  BY <1>1 DEF Files!Opened
<1> QED
  BY <1>2, <1>3, <1>4 DEF FilesInv, TimelineInOrder

LEMMA FilesInductive == FilesInv /\ [Files!Next]_(Files!vars) => FilesInv'
<1> SUFFICES ASSUME FilesInv, [Files!Next]_(Files!vars) PROVE FilesInv'
  OBVIOUS
<1> USE DEF Files!NoDate
<1>t. /\ file \in Files!CaseFile /\ today \in Days /\ today \in Nat
      /\ acts \in 0..MaxActs /\ MaxActs \in Nat
  BY ReadersAssumption DEF FilesInv, Files!TypeOK
\* What a write leaves of the file.
<1>w. ASSUME NEW changed \in Files!CaseFile, Files!Write(changed),
             changed.history # <<>>,
             changed.history[Len(changed.history)]
                 = [to |-> changed.stage, on |-> changed.changed],
             TimelineInOrder(changed.history, today)
      PROVE  FilesInv'
  <2>1. acts' \in 0..MaxActs /\ file' = changed /\ UNCHANGED <<orderly, request, others, today>>
    BY <1>t, <1>w DEF Files!Write
  <2>2. Files!TypeOK'
    BY <1>t, <1>w, <2>1 DEF FilesInv, Files!TypeOK, Files!RequestsOK
  <2> QED
    BY <1>w, <2>1, <2>2 DEF FilesInv
\* A write that leaves stage and timeline alone.
<1>k. ASSUME NEW changed \in Files!CaseFile, Files!Write(changed),
             changed.history = file.history, changed.stage = file.stage,
             changed.changed = file.changed
      PROVE  FilesInv'
  BY <1>w, <1>k DEF FilesInv
<1>1. ASSUME NEW to \in Files!Stage, Files!MoveCase(to) PROVE FilesInv'
  <2> DEFINE row == [to |-> to, on |-> today]
             changed == [file EXCEPT
                !.stage = to, !.changed = today, !.due = Files!DueDateFor(to, today),
                !.status = IF to = Files!TERMINAL_STAGE THEN "CLOSED" ELSE "ACTIVE",
                !.history = Append(@, row)]
  <2>1. Files!Write(changed)
    BY <1>1 DEF Files!MoveCase
  <2>2. row \in [to : Files!Stage, on : Days] /\ row.on = today
    BY <1>t
  <2>3. file.history \in Seq([to : Files!Stage, on : Days]) /\ TimelineInOrder(file.history, today)
    BY <1>t DEF FilesInv, Files!CaseFile
  <2>4. /\ Append(file.history, row) \in Seq([to : Files!Stage, on : Days])
        /\ Append(file.history, row) # <<>>
        /\ Append(file.history, row)[Len(Append(file.history, row))] = row
        /\ TimelineInOrder(Append(file.history, row), today)
    BY <1>t, <2>2, <2>3, TimelineGrows
  <2>5. Files!DueDateFor(to, today) \in Int
    BY <1>t, ReadersAssumption DEF Files!DueDateFor
  <2>6. /\ changed.history = Append(file.history, row)
        /\ changed.stage = to /\ changed.changed = today
    BY <1>t DEF Files!CaseFile
  <2>7. changed \in Files!CaseFile
    <3> HIDE DEF row
    <3> QED
      BY <1>t, <2>4, <2>5 DEF Files!CaseFile, Files!CaseStatus
  <2> HIDE DEF changed
  <2> QED
    BY <1>w, <2>1, <2>4, <2>6, <2>7
<1>2. CASE Files!HoldCase
  BY <1>2, <1>k, <1>t DEF Files!HoldCase, Files!CaseFile, Files!CaseStatus
<1>3. CASE Files!FileObjection
  <2> DEFINE row == [status |-> "FILED", filed |-> today]
             changed == [file EXCEPT !.objections = Append(@, row)]
  <2>1. Append(file.objections, row) \in Seq(Files!Objection)
    BY <1>t DEF Files!CaseFile, Files!Objection
  <2> HIDE DEF row
  <2>2. changed \in Files!CaseFile
    BY <1>t, <2>1 DEF Files!CaseFile
  <2>3. /\ changed.history = file.history /\ changed.stage = file.stage
        /\ changed.changed = file.changed
    BY <1>t DEF Files!CaseFile
  <2>4. Files!Write(changed)
    BY <1>3 DEF Files!FileObjection, row
  <2> HIDE DEF changed
  <2> QED
    BY <1>k, <2>2, <2>3, <2>4
<1>4. ASSUME NEW o \in DOMAIN file.objections, NEW status \in {"UNDER_REVIEW", "RESOLVED"},
             Files!RespondToObjection(o, status)
      PROVE  FilesInv'
  <2> DEFINE rows == [file.objections EXCEPT ![o].status = status]
             changed == [file EXCEPT !.objections[o].status = status]
  <2>1. rows \in Seq(Files!Objection)
    <3>1. file.objections \in Seq(Files!Objection)
      BY <1>t DEF Files!CaseFile
    <3>2. file.objections[o] \in Files!Objection
      BY <3>1, ElementOfSeq
    <3>3. [file.objections[o] EXCEPT !.status = status] \in Files!Objection
      BY <3>2 DEF Files!Objection
    <3>4. rows = [file.objections EXCEPT ![o] = [file.objections[o] EXCEPT !.status = status]]
      OBVIOUS
    <3> HIDE DEF rows
    <3> QED
      BY <3>1, <3>3, <3>4, ExceptSeq
  <2>2. changed = [file EXCEPT !.objections = rows]
    OBVIOUS
  <2> HIDE DEF rows
  <2>3. changed \in Files!CaseFile
    BY <1>t, <2>1, <2>2 DEF Files!CaseFile
  <2>4. /\ changed.history = file.history /\ changed.stage = file.stage
        /\ changed.changed = file.changed
    BY <1>t, <2>2 DEF Files!CaseFile
  <2>5. Files!Write(changed)
    BY <1>4 DEF Files!RespondToObjection
  <2> HIDE DEF changed
  <2> QED
    BY <1>k, <2>3, <2>4, <2>5
<1>5. ASSUME NEW docType \in Files!DocType, Files!UploadDocument(docType) PROVE FilesInv'
  BY <1>5, <1>k, <1>t DEF Files!UploadDocument, Files!CaseFile
<1>6. ASSUME NEW on \in {today, Files!NoDate}, Files!DeclareAward(on) PROVE FilesInv'
  BY <1>6, <1>k, <1>t DEF Files!DeclareAward, Files!CaseFile, Files!Award
<1>7. ASSUME NEW status \in {"DISPUTED", "PAID"}, Files!UpdateAward(status) PROVE FilesInv'
  <2> DEFINE changed == [file EXCEPT !.award.status = status, !.award.pending = status # "PAID"]
             award1 == [file.award EXCEPT !.status = status, !.pending = status # "PAID"]
  <2>1. file.award \in Files!Award
    BY <1>t DEF Files!CaseFile
  <2>2. award1 \in Files!Award
    BY <2>1, Zenon DEF Files!Award
  <2>3. changed = [file EXCEPT !.award = award1]
    BY <1>t DEF Files!CaseFile
  <2> HIDE DEF award1
  <2>4. changed \in Files!CaseFile
    BY <1>t, <2>2, <2>3 DEF Files!CaseFile
  <2>5. /\ changed.history = file.history /\ changed.stage = file.stage
        /\ changed.changed = file.changed
    BY <1>t, <2>3 DEF Files!CaseFile
  <2>6. Files!Write(changed)
    BY <1>7 DEF Files!UpdateAward
  <2> HIDE DEF changed
  <2> QED
    BY <1>k, <2>4, <2>5, <2>6
<1>8. CASE Files!RecordFundDeposit
  BY <1>8, <1>k, <1>t DEF Files!RecordFundDeposit, Files!CaseFile
<1>9. ASSUME NEW status \in {"PENDING", "IN_PROGRESS", "COMPLETED"}, Files!UpdateRnr(status)
      PROVE  FilesInv'
  BY <1>9, <1>k, <1>t DEF Files!UpdateRnr, Files!CaseFile
<1>10. ASSUME NEW parcel \in {"point", "surveyed", "taken"}, Files!UpdateParcel(parcel)
       PROVE  FilesInv'
  BY <1>10, <1>k, <1>t DEF Files!UpdateParcel, Files!CaseFile
<1>11. CASE Files!DaysPass
  <2>1. today' \in Days /\ today' \in Nat /\ today < today'
        /\ UNCHANGED <<orderly, request, file, others, acts>>
    BY <1>11, ReadersAssumption DEF Files!DaysPass
  <2>2. Files!TypeOK'
    BY <2>1 DEF FilesInv, Files!TypeOK, Files!RequestsOK
  <2>3. ASSUME NEW i \in 1..Len(file.history) PROVE file.history[i].on <= today'
    <3>1. file.history[i].on \in Nat
      <4>1. file.history \in Seq([to : Files!Stage, on : Days])
        BY <1>t DEF Files!CaseFile
      <4>2. file.history[i] \in [to : Files!Stage, on : Days]
        BY <4>1, ElementOfSeq
      <4> QED
        BY <4>2, ReadersAssumption
    <3>2. file.history[i].on <= today
      BY DEF FilesInv, TimelineInOrder
    <3> QED
      BY <1>t, <2>1, <3>1, <3>2
  <2>4. TimelineInOrder(file.history, today')
    BY <2>3 DEF FilesInv, TimelineInOrder
  <2> QED
    BY <2>1, <2>2, <2>4 DEF FilesInv
<1>12. CASE UNCHANGED Files!vars
  BY <1>12 DEF Files!vars, FilesInv, Files!TypeOK, Files!RequestsOK
<1> QED
  BY <1>1, <1>2, <1>3, <1>4, <1>5, <1>6, <1>7, <1>8, <1>9, <1>10, <1>11, <1>12 DEF Files!Next

-----------------------------------------------------------------------------
\* Arithmetic of the readers.

LEMMA Counted == \A S : Files!Cardinality(S) = Cardinality(S)
BY DEF Files!Cardinality, Cardinality

LEMMA LeastNatural ==
    ASSUME NEW S, S \subseteq Nat, S # {}
    PROVE  \E n \in S : \A m \in S : n <= m
<1>1. PICK n \in S : \A m \in S : <<m, n>> \notin OpToRel(<, Nat)
  BY WFMin, NatLessThanWellFounded, Zenon
<1>2. \A m \in S : ~(m < n)
  BY <1>1 DEF OpToRel
<1> QED
  BY <1>2

\* The least of a set of integers is the one that is no greater than any.
LEMMA MinIs ==
    ASSUME NEW S, S \subseteq Int, NEW m \in S, \A x \in S : m <= x
    PROVE  Files!Min(S) = m
<1>1. \A y \in S : (\A x \in S : y <= x) => y = m
  OBVIOUS
<1> QED
  BY <1>1 DEF Files!Min

LEMMA MaxIs ==
    ASSUME NEW S, S \subseteq Int, NEW m \in S, \A x \in S : m >= x
    PROVE  Files!Max(S) = m
<1>1. \A y \in S : (\A x \in S : y >= x) => y = m
  OBVIOUS
<1> QED
  BY <1>1 DEF Files!Max

LEMMA OfTwo ==
    ASSUME NEW a \in Int, NEW b \in Int
    PROVE  /\ Files!Max({a, b}) = IF a >= b THEN a ELSE b
           /\ Files!Min({a, b}) = IF a <= b THEN a ELSE b
<1> DEFINE S == {a, b}
<1>1. S \subseteq Int /\ a \in S /\ b \in S /\ \A x \in S : x = a \/ x = b
  OBVIOUS
<1> HIDE DEF S
<1>2. CASE a >= b
  <2>0. (\A x \in S : a >= x) /\ (\A x \in S : b <= x)
    BY <1>1, <1>2
  <2>1. Files!Max(S) = a
    BY <1>1, <2>0, MaxIs, Zenon
  <2>2. Files!Min(S) = b
    BY <1>1, <2>0, MinIs, Zenon
  <2> QED
    BY <1>2, <2>1, <2>2 DEF S
<1>3. CASE a < b
  <2>0. (\A x \in S : b >= x) /\ (\A x \in S : a <= x)
    BY <1>1, <1>3
  <2>1. Files!Max(S) = b
    BY <1>1, <2>0, MaxIs, Zenon
  <2>2. Files!Min(S) = a
    BY <1>1, <2>0, MinIs, Zenon
  <2> QED
    BY <1>3, <2>1, <2>2 DEF S
<1> QED
  BY <1>2, <1>3

LEMMA OfTwoIsInt ==
    ASSUME NEW a \in Int, NEW b \in Int
    PROVE  Files!Max({a, b}) \in Int /\ Files!Min({a, b}) \in Int
BY OfTwo

\* Quotients grow with what is divided.
LEMMA QuotientsGrow ==
    ASSUME NEW n \in Int, NEW m \in Int, n <= m, NEW d \in Nat \ {0}
    PROVE  /\ n \div d \in Int /\ m \div d \in Int /\ n % d \in 0..d - 1 /\ m % d \in 0..d - 1
           /\ \/ n \div d < m \div d
              \/ n \div d = m \div d /\ n % d <= m % d
<1> DEFINE p == n \div d
           q == m \div d
           r == n % d
           s == m % d
<1>1. /\ p \in Int /\ q \in Int /\ r \in 0..d - 1 /\ s \in 0..d - 1
      /\ n = d * p + r /\ m = d * q + s
  BY SMTT(30)
<1> HIDE DEF p, q, r, s
<1>2. ASSUME q < p PROVE FALSE
  <2>1. PICK e \in Nat : p = q + 1 + e
    <3>1. p - q - 1 \in Nat /\ p = q + 1 + (p - q - 1)
      BY <1>1, <1>2
    <3> QED
      BY <3>1
  <2>2. d * p = d * q + d + d * e /\ d * e \in Nat /\ d * q \in Int
    BY <1>1, <2>1
  <2>3. PICK x \in Int, y \in Nat : x = d * q /\ y = d * e
    BY <2>2
  <2> QED
    BY <1>1, <2>2, <2>3
<1>3. p = q => r <= s
  BY <1>1
<1> QED
  BY <1>1, <1>2, <1>3 DEF p, q, r, s

\* And so does what is rounded.
LEMMA RoundingGrows ==
    ASSUME NEW n \in Int, NEW m \in Int, n <= m, NEW d \in Nat \ {0}
    PROVE  Files!Round(n, d) <= Files!Round(m, d)
<1>1. /\ n \div d \in Int /\ m \div d \in Int /\ n % d \in 0..d - 1 /\ m % d \in 0..d - 1
      /\ \/ n \div d < m \div d
         \/ n \div d = m \div d /\ n % d <= m % d
  BY QuotientsGrow
<1> DEFINE p == n \div d
           q == m \div d
<1>2. Files!Round(n, d) \in {p, p + 1} /\ Files!Round(m, d) \in {q, q + 1}
  BY DEF Files!Round
<1>3. CASE p < q
  <2> HIDE DEF p, q
  <2> QED
    BY <1>1, <1>2, <1>3 DEF p, q
<1>4. CASE p = q /\ n % d <= m % d
  BY <1>1, <1>4 DEF Files!Round
<1> QED
  BY <1>1, <1>3, <1>4

LEMMA RoundIsInt ==
    ASSUME NEW n \in Int, NEW d \in Nat \ {0}
    PROVE  Files!Round(n, d) \in Int /\ (n >= 0 => Files!Round(n, d) >= 0)
BY QuotientsGrow DEF Files!Round

\* Tenths of a day are rounded by half a day at most.
LEMMA TenthsRound ==
    ASSUME NEW n \in Int
    PROVE  /\ Files!Round(n, 10) \in Int
           /\ 10 * Files!Round(n, 10) <= n + 5 /\ n <= 10 * Files!Round(n, 10) + 5
BY DEF Files!Round

-----------------------------------------------------------------------------
\* Medians and percentiles.

\* Finitely many naturals, one of them the greatest.
LEMMA GreatestOf ==
    ASSUME NEW f, NEW n \in Nat \ {0}, \A i \in 1..n : f[i] \in Nat
    PROVE  \E i \in 1..n : \A j \in 1..n : f[j] <= f[i]
<1> DEFINE Has(k) == \E i \in 1..k : \A j \in 1..k : f[j] <= f[i]
           S == {k \in 1..n : ~Has(k)}
<1>0. ASSUME S # {} PROVE FALSE
  <2>1. S \subseteq Nat
    OBVIOUS
  <2>2. PICK k \in S : \A m \in S : k <= m
    BY <1>0, <2>1, LeastNatural, Zenon
  <2>3. k \in 1..n /\ k \in Nat /\ ~Has(k)
    BY <2>2
  <2>4. k # 1
    <3>1. Has(1)
      <4>1. \A j \in 1..1 : j = 1
        OBVIOUS
      <4>2. 1 \in 1..n /\ 1 \in 1..1
        OBVIOUS
      <4>3. f[1] <= f[1]
        BY <4>2
      <4> QED
        BY <4>1, <4>2, <4>3
    <3> HIDE DEF Has
    <3> QED
      BY <2>3, <3>1
  <2>5. k - 1 \in 1..n /\ k - 1 \notin S
    <3> HIDE DEF S
    <3> QED
      BY <2>2, <2>3, <2>4
  <2>6. Has(k - 1)
    <3> HIDE DEF Has
    <3> QED
      BY <2>5
  <2>7. PICK i \in 1..k - 1 : \A j \in 1..k - 1 : f[j] <= f[i]
    BY <2>6
  <2>8. f[i] \in Nat /\ f[k] \in Nat /\ i \in 1..k /\ k \in 1..k
    BY <2>3, <2>7
  <2>9. \A j \in 1..k : j = k \/ (j \in 1..k - 1 /\ f[j] \in Nat)
    BY <2>3
  <2>10. CASE f[k] <= f[i]
    <3>1. \A j \in 1..k : f[j] <= f[i]
      BY <2>7, <2>9, <2>10
    <3> QED
      BY <2>3, <2>8, <3>1
  <2>11. CASE f[i] < f[k]
    <3>1. \A j \in 1..k : f[j] <= f[k]
      <4> SUFFICES ASSUME NEW j \in 1..k PROVE f[j] <= f[k]
        OBVIOUS
      <4>1. CASE j = k
        BY <2>8, <4>1
      <4>2. CASE j \in 1..k - 1 /\ f[j] \in Nat
        <5>1. f[j] <= f[i]
          BY <2>7, <4>2
        <5> QED
          BY <2>8, <2>11, <4>2, <5>1
      <4> QED
        BY <2>9, <4>1, <4>2
    <3> QED
      BY <2>3, <2>8, <3>1
  <2> QED
    BY <2>8, <2>10, <2>11
<1>1. n \in 1..n
  OBVIOUS
<1>2. Has(n)
  <2> HIDE DEF Has
  <2> QED
    BY <1>0, <1>1
<1> QED
  BY <1>2

LEMMA GreatestNatural ==
    ASSUME NEW S, S \subseteq Nat, S # {}, IsFiniteSet(S)
    PROVE  \E m \in S : \A x \in S : x <= m
<1>1. PICK n \in Nat : ExistsSurjection(1..n, S)
  BY FS_NatSurjection
<1>2. PICK f \in [1..n -> S] : \A x \in S : \E i \in 1..n : f[i] = x
  BY <1>1 DEF ExistsSurjection, Surjection
<1>3. \A i \in 1..n : f[i] \in Nat /\ f[i] \in S
  BY <1>2
<1>4. n \in Nat \ {0}
  <2>1. PICK x \in S : TRUE
    OBVIOUS
  <2>2. \E i \in 1..n : f[i] = x
    BY <1>2
  <2> QED
    BY <2>2
<1>5. PICK i \in 1..n : \A j \in 1..n : f[j] <= f[i]
  <2>1. \A j \in 1..n : f[j] \in Nat
    BY <1>3
  <2> QED
    BY <1>4, <2>1, GreatestOf, Zenon
<1>6. f[i] \in S /\ \A x \in S : x <= f[i]
  BY <1>2, <1>3, <1>5
<1> QED
  BY <1>6

\* The places whose value is no more than x, or less.
Upto(v, x) == {i \in DOMAIN v : v[i] <= x}

Below(v, x) == {i \in DOMAIN v : v[i] < x}

LEMMA NthIsThere ==
    ASSUME NEW v, IsFiniteSet(DOMAIN v), \A i \in DOMAIN v : v[i] \in Nat,
           NEW k \in 1..Files!Count(v)
    PROVE  Files!Nth(v, k) \in Nat
<1> DEFINE D == DOMAIN v
           V == {v[i] : i \in D}
           G == {x \in V : Cardinality(Upto(v, x)) >= k}
<1>1. Cardinality(D) \in Nat /\ k \in Nat /\ 1 <= k /\ k <= Cardinality(D)
  BY FS_CardinalityType, Counted DEF Files!Count
<1>0. D # {}
  BY <1>1, FS_EmptySet
<1>2. V \subseteq Nat /\ V # {}
  BY <1>0
<1>3. IsFiniteSet(V)
  <2> DEFINE f == [i \in D |-> v[i]]
  <2>1. f \in Surjection(D, V)
    BY DEF Surjection
  <2> HIDE DEF f, V
  <2> QED
    BY <2>1, FS_Surjection
<1>4. \A x : /\ IsFiniteSet(Upto(v, x)) /\ Cardinality(Upto(v, x)) \in Nat
             /\ IsFiniteSet(Below(v, x)) /\ Cardinality(Below(v, x)) \in Nat
  <2> TAKE x
  <2>1. Upto(v, x) \in SUBSET D /\ Below(v, x) \in SUBSET D
    BY DEF Upto, Below
  <2>2. IsFiniteSet(Upto(v, x)) /\ IsFiniteSet(Below(v, x))
    BY <2>1, FS_Subset
  <2> QED
    BY <2>2, FS_CardinalityType
<1>5. G # {}
  <2>1. PICK m \in V : \A x \in V : x <= m
    <3> HIDE DEF V
    <3> QED
      BY <1>2, <1>3, GreatestNatural, Zenon
  <2>2. Upto(v, m) = D
    BY <2>1 DEF Upto
  <2> QED
    BY <1>1, <2>1, <2>2
<1>6. PICK x \in G : \A y \in G : x <= y
  <2>1. G \subseteq Nat
    BY <1>2
  <2> HIDE DEF G
  <2> QED
    BY <1>5, <2>1, LeastNatural, Zenon
<1>7. x \in V /\ x \in Nat /\ Cardinality(Upto(v, x)) >= k
  <2>1. x \in V /\ Cardinality(Upto(v, x)) >= k
    OBVIOUS
  <2> HIDE DEF V
  <2> QED
    BY <1>2, <2>1
<1>8. Cardinality(Below(v, x)) < k
  <2> SUFFICES ASSUME Cardinality(Below(v, x)) >= k PROVE FALSE
    BY <1>1, <1>4
  <2> DEFINE W == {y \in V : y < x}
  <2>1. Below(v, x) # {}
    BY <1>1, FS_EmptySet
  <2>2. W # {}
    BY <2>1 DEF Below
  <2>3. W \subseteq Nat /\ W \in SUBSET V
    <3> HIDE DEF V
    <3> QED
      BY <1>2
  <2>4. IsFiniteSet(W)
    <3> HIDE DEF V, W
    <3> QED
      BY <1>3, <2>3, FS_Subset
  <2>5. PICK y \in W : \A z \in W : z <= y
    <3> HIDE DEF W
    <3> QED
      BY <2>2, <2>3, <2>4, GreatestNatural, Zenon
  <2>6. y \in V /\ y < x /\ y \in Nat
    <3>1. y \in V /\ y < x
      OBVIOUS
    <3> HIDE DEF V
    <3> QED
      BY <1>2, <3>1
  <2>7. Below(v, x) \in SUBSET Upto(v, y)
    BY <2>5 DEF Below, Upto
  <2>8. Cardinality(Below(v, x)) <= Cardinality(Upto(v, y))
    BY <1>4, <2>7, FS_Subset
  <2>9. Cardinality(Upto(v, y)) >= k
    BY <1>1, <1>4, <2>8
  <2>10. y \in G
    <3> HIDE DEF V
    <3> QED
      BY <2>6, <2>9
  <2>11. x <= y
    <3> HIDE DEF G
    <3> QED
      BY <1>6, <2>10
  <2> QED
    BY <1>7, <2>6, <2>11
<1>9. \E z \in V : Cardinality(Below(v, z)) < k /\ Cardinality(Upto(v, z)) >= k
  <2> HIDE DEF V
  <2> QED
    BY <1>7, <1>8
<1>10. Files!Nth(v, k) \in V
  <2>1. \E z \in V : /\ Files!Cardinality({i \in DOMAIN v : v[i] < z}) < k
                     /\ Files!Cardinality({i \in DOMAIN v : v[i] <= z}) >= k
    BY <1>9, Counted, Zenon DEF Below, Upto
  <2> QED
    BY <2>1, Zenon DEF Files!Nth
<1> QED
  <2> HIDE DEF V
  <2> QED
    BY <1>2, <1>10

\* What the code learns a stage's duration from: finitely many of them.
Learned(samples) == IsFiniteSet(DOMAIN samples) /\ \A k \in DOMAIN samples : samples[k] \in Nat

LEMMA StageModelIsSound ==
    ASSUME NEW samples, Learned(samples), NEW target \in Nat \ {0}
    PROVE  LET model == Files!StageModel(samples, target)
           IN  /\ model.expected \in Nat /\ model.pessimistic \in Nat /\ model.overrun \in Nat
               /\ model.expected <= model.pessimistic
<1> DEFINE n == Files!Count(samples)
           twice == Files!TwiceMedian(samples)
           late == Files!Percentile75(samples)
           blend == Files!Round(10 * (twice * n + 2 * target * (Files!MIN_OBSERVATIONS - n)),
                                2 * Files!MIN_OBSERVATIONS)
           expected == IF n < Files!MIN_OBSERVATIONS THEN blend ELSE 5 * twice
           model == Files!StageModel(samples, target)
<1>1. n \in Nat
  BY FS_CardinalityType, Counted DEF Learned, Files!Count
<1>2. CASE n = 0
  BY <1>2 DEF Files!StageModel
<1>3. CASE n # 0
  <2>1. (n + 1) \div 2 \in 1..n /\ (n + 2) \div 2 \in 1..n
    BY <1>1, <1>3
  <2>2. Files!Round(3 * (n - 1), 4) + 1 \in 1..n
    BY <1>1, <1>3 DEF Files!Round
  <2>3. twice \in Nat /\ late \in Nat
    <3>1. \A k \in 1..n : Files!Nth(samples, k) \in Nat
      BY NthIsThere DEF Learned
    <3> HIDE DEF n
    <3> QED
      BY <2>1, <2>2, <3>1 DEF Files!TwiceMedian, Files!Percentile75, n
  <2>4. expected \in Nat
    <3>1. CASE n < Files!MIN_OBSERVATIONS
      <4>1. 12 - n \in Nat
        BY <1>1, <3>1 DEF Files!MIN_OBSERVATIONS
      <4>2. twice * n \in Nat /\ 2 * target * (12 - n) \in Nat
        BY <1>1, <2>3, <4>1
      <4>3. 10 * (twice * n + 2 * target * (12 - n)) \in Nat
        BY <4>2
      <4>4. blend \in Nat
        <5>1. Files!Round(10 * (twice * n + 2 * target * (12 - n)), 24) \in Nat
          <6> HIDE DEF n, twice
          <6>1. PICK total \in Nat : total = 10 * (twice * n + 2 * target * (12 - n))
            BY <4>3
          <6>2. Files!Round(total, 24) \in Nat
            BY RoundIsInt
          <6> QED
            BY <6>1, <6>2, Zenon
        <5> HIDE DEF n, twice
        <5> QED
          BY <5>1 DEF Files!MIN_OBSERVATIONS
      <4> QED
        BY <3>1, <4>4
    <3>2. CASE ~(n < Files!MIN_OBSERVATIONS)
      BY <2>3, <3>2
    <3> QED
      BY <3>1, <3>2
  <2>5. Files!Round(100 * twice, 2 * target) \in Nat
    BY <2>3, RoundIsInt
  <2>6. model = [expected |-> expected, pessimistic |-> Files!Max({10 * late, expected}),
                 overrun |-> Files!Round(100 * twice, 2 * target)]
    BY <1>3 DEF Files!StageModel
  <2> HIDE DEF expected, late, twice, model
  <2>7. Files!Max({10 * late, expected}) = IF 10 * late >= expected THEN 10 * late ELSE expected
    BY <2>3, <2>4, OfTwo
  <2> QED
    BY <2>3, <2>4, <2>5, <2>6, <2>7 DEF model
<1> QED
  BY <1>2, <1>3

-----------------------------------------------------------------------------
\* The days from a stage on, each by what the model gives.
DaysFrom(days) ==
    LET from[s \in 1..Files!MONITORING + 1] ==
            IF s > Files!MONITORING THEN 0 ELSE days[s] + from[s + 1]
    IN  from

LEMMA DaysFromAre ==
    ASSUME NEW days, \A s \in 1..9 : days[s] \in Nat
    PROVE  /\ \A s \in 1..9 : DaysFrom(days)[s] = days[s] + DaysFrom(days)[s + 1]
           /\ DaysFrom(days)[10] = 0
           /\ \A s \in 1..10 : DaysFrom(days)[s] \in Nat
<1> DEFINE e9 == days[9]
           e8 == days[8] + e9
           e7 == days[7] + e8
           e6 == days[6] + e7
           e5 == days[5] + e6
           e4 == days[4] + e5
           e3 == days[3] + e4
           e2 == days[2] + e3
           e1 == days[1] + e2
           g == [s \in 1..10 |->
                    IF s = 1 THEN e1 ELSE IF s = 2 THEN e2 ELSE IF s = 3 THEN e3
                    ELSE IF s = 4 THEN e4 ELSE IF s = 5 THEN e5 ELSE IF s = 6 THEN e6
                    ELSE IF s = 7 THEN e7 ELSE IF s = 8 THEN e8 ELSE IF s = 9 THEN e9 ELSE 0]
           Adds(f) == f = [s \in 1..10 |-> IF s > 9 THEN 0 ELSE days[s] + f[s + 1]]
<1>1. /\ e9 \in Nat /\ e8 = days[8] + e9 /\ e7 = days[7] + e8 /\ e6 = days[6] + e7
      /\ e5 = days[5] + e6 /\ e4 = days[4] + e5 /\ e3 = days[3] + e4 /\ e2 = days[2] + e3
      /\ e1 = days[1] + e2 /\ e9 = days[9] + 0
  OBVIOUS
<1> HIDE DEF e9, e8, e7, e6, e5, e4, e3, e2, e1
<1>2. \A s \in 1..10 : g[s] = IF s > 9 THEN 0 ELSE days[s] + g[s + 1]
  <2> SUFFICES ASSUME NEW s \in 1..10
               PROVE  g[s] = IF s > 9 THEN 0 ELSE days[s] + g[s + 1]
    OBVIOUS
  <2>1. s \in {1, 2, 3, 4, 5, 6, 7, 8, 9, 10}
    OBVIOUS
  <2> QED
    BY <1>1, <2>1
<1>3. Adds(g)
  <2>1. g = [s \in 1..10 |-> g[s]]
    OBVIOUS
  <2> HIDE DEF g
  <2> QED
    BY <1>2, <2>1
<1>4. DaysFrom(days) = CHOOSE f : Adds(f)
  BY DEF DaysFrom, Files!MONITORING
<1>5. Adds(DaysFrom(days))
  <2> HIDE DEF Adds
  <2> QED
    BY <1>3, <1>4, Zenon
<1> DEFINE f == DaysFrom(days)
<1>6. \A s \in 1..10 : f[s] = IF s > 9 THEN 0 ELSE days[s] + f[s + 1]
  <2> HIDE DEF f
  <2> QED
    BY <1>5 DEF f
<1> HIDE DEF f
<1>7. f[10] = 0 /\ \A s \in 1..9 : f[s] = days[s] + f[s + 1]
  BY <1>6
<1>8. \A s \in 1..10 : f[s] \in Nat
  <2>1. f[10] \in Nat /\ f[9] = days[9] + f[10] /\ f[8] = days[8] + f[9] /\ f[7] = days[7] + f[8]
        /\ f[6] = days[6] + f[7] /\ f[5] = days[5] + f[6] /\ f[4] = days[4] + f[5]
        /\ f[3] = days[3] + f[4] /\ f[2] = days[2] + f[3] /\ f[1] = days[1] + f[2]
    BY <1>7
  <2>2. \A s \in 1..10 : s \in {1, 2, 3, 4, 5, 6, 7, 8, 9, 10}
    OBVIOUS
  <2>3. days[1] \in Nat /\ days[2] \in Nat /\ days[3] \in Nat /\ days[4] \in Nat
        /\ days[5] \in Nat /\ days[6] \in Nat /\ days[7] \in Nat /\ days[8] \in Nat
        /\ days[9] \in Nat
    OBVIOUS
  <2> QED
    BY <2>1, <2>2, <2>3
<1> QED
  BY <1>7, <1>8 DEF f

\* More days at every stage are no fewer in all.
LEMMA DaysFromGrow ==
    ASSUME NEW few, NEW many, \A s \in 1..9 : few[s] \in Nat /\ many[s] \in Nat,
           \A s \in 1..9 : few[s] <= many[s]
    PROVE  \A s \in 1..10 : DaysFrom(few)[s] <= DaysFrom(many)[s]
<1> DEFINE f == DaysFrom(few)
           g == DaysFrom(many)
           S == {s \in 1..9 : ~(f[10 - s] <= g[10 - s])}
<1>1. /\ \A s \in 1..9 : few[s] \in Nat
      /\ \A s \in 1..9 : many[s] \in Nat
  OBVIOUS
<1>2. /\ \A s \in 1..9 : f[s] = few[s] + f[s + 1]
      /\ f[10] = 0 /\ \A s \in 1..10 : f[s] \in Nat
  BY <1>1, DaysFromAre, Zenon
<1>3. /\ \A s \in 1..9 : g[s] = many[s] + g[s + 1]
      /\ g[10] = 0 /\ \A s \in 1..10 : g[s] \in Nat
  BY <1>1, DaysFromAre, Zenon
<1> HIDE DEF f, g
<1>4. ASSUME S # {} PROVE FALSE
  <2>1. S \subseteq Nat
    OBVIOUS
  <2>2. PICK n \in S : \A m \in S : n <= m
    BY <1>4, <2>1, LeastNatural, Zenon
  <2>3. n \in 1..9 /\ ~(f[10 - n] <= g[10 - n])
    BY <2>2
  <2>4. f[11 - n] <= g[11 - n]
    <3>1. CASE n = 1
      BY <1>2, <1>3, <3>1
    <3>2. CASE n # 1
      <4>1. n - 1 \in 1..9 /\ n - 1 \notin S
        <5> HIDE DEF S
        <5> QED
          BY <2>2, <2>3, <3>2
      <4>2. 10 - (n - 1) = 11 - n
        BY <2>3
      <4> QED
        BY <4>1, <4>2
    <3> QED
      BY <3>1, <3>2
  <2>5. PICK s \in 1..9 : s = 10 - n /\ s + 1 = 11 - n
    BY <2>3
  <2>6. f[s] = few[s] + f[s + 1] /\ g[s] = many[s] + g[s + 1] /\ few[s] <= many[s]
        /\ few[s] \in Nat /\ many[s] \in Nat /\ f[s + 1] \in Nat /\ g[s + 1] \in Nat
    BY <1>1, <1>2, <1>3
  <2>7. ~(f[s] <= g[s]) /\ f[s + 1] <= g[s + 1]
    BY <2>3, <2>4, <2>5
  <2> QED
    BY <2>6, <2>7
<1>5. ASSUME NEW s \in 1..10 PROVE f[s] <= g[s]
  <2>1. CASE s = 10
    BY <1>2, <1>3, <2>1
  <2>2. CASE s # 10
    <3>1. PICK n \in 1..9 : n = 10 - s /\ 10 - n = s
      <4>1. 10 - s \in 1..9 /\ 10 - (10 - s) = s
        BY <2>2
      <4> QED
        BY <4>1
    <3>2. n \notin S
      <4> HIDE DEF S
      <4> QED
        BY <1>4
    <3>3. f[10 - n] <= g[10 - n]
      BY <3>2
    <3> QED
      BY <3>1, <3>3
  <2> QED
    BY <2>1, <2>2
<1> QED
  BY <1>5 DEF f, g

-----------------------------------------------------------------------------
\* What one file shows of its own durations, and others beside it.

LEMMA OwnAreLearned ==
    ASSUME NEW rows \in Seq([to : Files!Stage, on : Days]), NEW s
    PROVE  Learned(Files!StageDurations(rows, s))
<1> DEFINE left == {j \in 1..Len(rows) - 1 : /\ rows[j].to = s /\ rows[j + 1].to > s
                                             /\ rows[j + 1].on - rows[j].on >= 0}
           own == Files!StageDurations(rows, s)
<1>1. own = [i \in left |-> rows[i + 1].on - rows[i].on]
  BY DEF Files!StageDurations
<1>2. IsFiniteSet(left)
  <2>1. left \in SUBSET (1..Len(rows) - 1) /\ Len(rows) - 1 \in Int /\ 1 \in Int
    OBVIOUS
  <2>2. IsFiniteSet(1..Len(rows) - 1)
    BY <2>1, FS_Interval
  <2> HIDE DEF left
  <2> QED
    BY <2>1, <2>2, FS_Subset
<1>3. ASSUME NEW i \in left PROVE rows[i + 1].on - rows[i].on \in Nat
  <2>1. i \in 1..Len(rows) /\ i + 1 \in 1..Len(rows) /\ rows[i + 1].on - rows[i].on >= 0
    OBVIOUS
  <2>2. rows[i] \in [to : Files!Stage, on : Days] /\ rows[i + 1] \in [to : Files!Stage, on : Days]
    BY <2>1, ElementOfSeq
  <2>3. rows[i].on \in Nat /\ rows[i + 1].on \in Nat
    BY <2>2, ReadersAssumption
  <2> QED
    BY <2>1, <2>3
<1> HIDE DEF left, own
<1> QED
  BY <1>1, <1>2, <1>3 DEF Learned, own

LEMMA SamplesAreLearned ==
    ASSUME NEW seen \in Seq(Nat), NEW own, Learned(own)
    PROVE  Learned(Files!Samples(seen, own))
<1> DEFINE D == DOMAIN seen
           E == DOMAIN own
           A == {"others"} \X D
           B == {"own"} \X E
           samples == Files!Samples(seen, own)
<1>1. samples = [k \in A \cup B |-> IF k[1] = "own" THEN own[k[2]] ELSE seen[k[2]]]
  BY DEF Files!Samples
<1>2. IsFiniteSet(D) /\ IsFiniteSet(E)
  <2>1. D = 1..Len(seen) /\ Len(seen) \in Int /\ 1 \in Int
    OBVIOUS
  <2>2. IsFiniteSet(1..Len(seen))
    BY <2>1, FS_Interval
  <2> QED
    BY <2>1, <2>2 DEF Learned
<1>3. IsFiniteSet(A \cup B)
  <2> HIDE DEF D, E
  <2>1. IsFiniteSet({"others"}) /\ IsFiniteSet({"own"})
    BY FS_Singleton
  <2>2. IsFiniteSet(A) /\ IsFiniteSet(B)
    BY <1>2, <2>1, FS_Product
  <2> HIDE DEF A, B
  <2> QED
    BY <2>2, FS_Union
<1>4. ASSUME NEW k \in A \cup B PROVE samples[k] \in Nat
  <2>1. samples[k] = IF k[1] = "own" THEN own[k[2]] ELSE seen[k[2]]
    <3> HIDE DEF A, B, samples
    <3> QED
      BY <1>1
  <2>2. CASE k \in A
    <3>1. k[1] = "others" /\ k[2] \in DOMAIN seen
      BY <2>2
    <3> QED
      BY <2>1, <3>1
  <2>3. CASE k \in B
    <3>1. k[1] = "own" /\ k[2] \in DOMAIN own
      BY <2>3
    <3> QED
      BY <2>1, <3>1 DEF Learned
  <2> QED
    BY <2>2, <2>3
<1> HIDE DEF A, B, samples
<1> QED
  BY <1>1, <1>3, <1>4 DEF Learned, samples

-----------------------------------------------------------------------------
\* The forecast of the file.

Model ==
    [s \in Files!Stage |->
        Files!StageModel(Files!Samples(others, Files!StageDurations(file.history, s)),
                         StandardDays[s])]

Expected == [s \in Files!Stage |-> Model[s].expected]

Pessimistic == [s \in Files!Stage |-> Model[s].pessimistic]

LEMMA OutlookIs ==
    ASSUME NEW day
    PROVE  /\ Files!Outlook(day).projected = day + Files!DaysToGo(file, Expected, day)
           /\ Files!Outlook(day).pessimistic = day + Files!DaysToGo(file, Pessimistic, day)
           /\ Files!Outlook(day).score
                 = Files!RiskScore(file, Model, Required, StandardDays, day)
BY DEF Files!Outlook, Files!ForecastCase, Model, Expected, Pessimistic

\* What a file that is in order says of its stage and its days.
LEMMA FileIsKept ==
    ASSUME FilesInv
    PROVE  /\ file.stage \in 1..9 /\ file.due \in Int /\ file.status \in Files!CaseStatus
           /\ file.history \in Seq([to : Files!Stage, on : Days])
           /\ file.objections \in Seq(Files!Objection)
           /\ file.award \in Files!Award /\ file.docs \in SUBSET Files!DocType
           /\ others \in Seq(Nat)
           /\ today \in Nat /\ file.changed \in Nat /\ file.changed <= today
           /\ \A i \in 1..Len(file.history) :
                 /\ file.history[i].on \in Nat /\ file.history[i].to \in Files!Stage
                 /\ file.history[i].on <= today
           /\ Len(file.history) \in Nat \ {0}
           /\ file.history[Len(file.history)].on = file.changed
<1>1. file \in Files!CaseFile /\ others \in Others /\ today \in Days
  BY DEF FilesInv, Files!TypeOK
<1>2. /\ file.stage \in 1..9 /\ file.due \in Int /\ file.status \in Files!CaseStatus
      /\ file.history \in Seq([to : Files!Stage, on : Days])
      /\ file.objections \in Seq(Files!Objection)
      /\ file.award \in Files!Award /\ file.docs \in SUBSET Files!DocType
      /\ file.changed \in Days
  BY <1>1 DEF Files!CaseFile, Files!Stage
<1>3. ASSUME NEW i \in 1..Len(file.history)
      PROVE  /\ file.history[i].on \in Nat /\ file.history[i].to \in Files!Stage
             /\ file.history[i].on <= today
  <2>1. file.history[i] \in [to : Files!Stage, on : Days]
    BY <1>2, ElementOfSeq
  <2>2. file.history[i].on <= today
    BY DEF FilesInv, TimelineInOrder
  <2> QED
    BY <2>1, <2>2, ReadersAssumption
<1>4. Len(file.history) \in Nat \ {0}
  BY <1>2, EmptySeq DEF FilesInv
<1>5. file.history[Len(file.history)].on = file.changed
  BY DEF FilesInv
<1>6. file.changed <= today
  <2>1. Len(file.history) \in 1..Len(file.history)
    BY <1>4
  <2> QED
    BY <1>3, <1>5, <2>1
<1>7. others \in Seq(Nat) /\ today \in Nat /\ file.changed \in Nat
  BY <1>1, <1>2, ReadersAssumption
<1> QED
  BY <1>2, <1>3, <1>4, <1>5, <1>6, <1>7

LEMMA DaysAreKept ==
    ASSUME FilesInv
    PROVE  /\ file.stage \in 1..9 /\ file.stage + 1 \in 1..10
           /\ today \in Nat /\ file.changed \in Nat /\ file.changed <= today /\ today <= today
<1>1. file.stage \in 1..9 /\ today \in Nat /\ file.changed \in Nat /\ file.changed <= today
  BY FileIsKept
<1> QED
  BY <1>1

LEMMA ModelIsSound ==
    ASSUME FilesInv, NEW s \in 1..9
    PROVE  /\ Expected[s] \in Nat /\ Pessimistic[s] \in Nat /\ Model[s].overrun \in Nat
           /\ Expected[s] <= Pessimistic[s]
<1> DEFINE own == Files!StageDurations(file.history, s)
           samples == Files!Samples(others, own)
           target == StandardDays[s]
           model == Files!StageModel(samples, target)
<1>1. Learned(samples)
  <2>1. Learned(own)
    BY FileIsKept, OwnAreLearned
  <2> HIDE DEF own
  <2> QED
    BY <2>1, FileIsKept, SamplesAreLearned
<1>2. target \in Nat \ {0}
  BY ReadersAssumption DEF Files!Stage
<1>3. /\ model.expected \in Nat /\ model.pessimistic \in Nat /\ model.overrun \in Nat
      /\ model.expected <= model.pessimistic
  <2> HIDE DEF samples, target
  <2> QED
    BY <1>1, <1>2, StageModelIsSound DEF model
<1>4. Model[s] = model /\ Expected[s] = model.expected /\ Pessimistic[s] = model.pessimistic
  BY DEF Model, Expected, Pessimistic, Files!Stage
<1> HIDE DEF model
<1> QED
  BY <1>3, <1>4

LEMMA StayIs ==
    ASSUME FilesInv, NEW day \in Nat, today <= day
    PROVE  Files!DaysInStage(file, day) = day - file.changed /\ day - file.changed \in Nat
<1>1. day - file.changed \in Nat
  BY FileIsKept
<1>2. Files!Max({0, day - file.changed}) = day - file.changed
  BY <1>1, OfTwo
<1> QED
  BY <1>1, <1>2 DEF Files!DaysInStage

\* Tenths of days to go.
Left(days, day) ==
    LET here == days[file.stage] - 10 * (day - file.changed)
    IN  IF here >= 0 THEN here ELSE 0

LEMMA DaysToGoAre ==
    ASSUME FilesInv, NEW days, \A s \in 1..9 : days[s] \in Nat, NEW day \in Nat, today <= day
    PROVE  /\ Left(days, day) \in Nat /\ DaysFrom(days)[file.stage + 1] \in Nat
           /\ Files!DaysToGo(file, days, day)
                 = Files!Round(Left(days, day) + DaysFrom(days)[file.stage + 1], 10)
<1> DEFINE here == days[file.stage] - 10 * (day - file.changed)
<1>1. file.stage \in 1..9 /\ file.stage + 1 \in 1..10 /\ file.changed \in Nat
  BY DaysAreKept
<1>2. here \in Int
  BY <1>1
<1>3. Left(days, day) \in Nat
  <2> HIDE DEF here
  <2> QED
    BY <1>2 DEF Left, here
<1>4. DaysFrom(days)[file.stage + 1] \in Nat
  BY <1>1, DaysFromAre, Zenon
<1>5. Files!Max({0, here}) = Left(days, day)
  <2>1. Files!Max({0, here}) = IF 0 >= here THEN 0 ELSE here
    <3> HIDE DEF here
    <3> QED
      BY <1>2, OfTwo
  <2>2. Left(days, day) = IF here >= 0 THEN here ELSE 0
    BY DEF Left
  <2> HIDE DEF here
  <2> QED
    BY <1>2, <2>1, <2>2
<1>6. Files!DaysInStage(file, day) = day - file.changed
  BY StayIs
<1>7. Files!DaysToGo(file, days, day)
        = Files!Round(Files!Max({0, here}) + DaysFrom(days)[file.stage + 1], 10)
  BY <1>6 DEF Files!DaysToGo, DaysFrom
<1> QED
  BY <1>3, <1>4, <1>5, <1>7

LEMMA OutlookIsOrdered ==
    ASSUME FilesInv
    PROVE  Files!Outlook(today).projected <= Files!Outlook(today).pessimistic
<1> DEFINE few == Expected
           many == Pessimistic
           p == Left(few, today)
           q == Left(many, today)
           f == DaysFrom(few)[file.stage + 1]
           g == DaysFrom(many)[file.stage + 1]
<1>0. today \in Nat /\ today <= today /\ file.stage \in 1..9 /\ file.changed \in Nat
      /\ file.stage + 1 \in 1..10
  BY DaysAreKept
<1>1. /\ \A s \in 1..9 : few[s] \in Nat
      /\ \A s \in 1..9 : many[s] \in Nat
      /\ \A s \in 1..9 : few[s] <= many[s]
  BY ModelIsSound
<1> HIDE DEF few, many
<1>2. p \in Nat /\ f \in Nat /\ Files!DaysToGo(file, few, today) = Files!Round(p + f, 10)
  BY <1>0, <1>1, DaysToGoAre, Zenon
<1>3. q \in Nat /\ g \in Nat /\ Files!DaysToGo(file, many, today) = Files!Round(q + g, 10)
  BY <1>0, <1>1, DaysToGoAre, Zenon
<1>4. f <= g
  <2>1. \A s \in 1..9 : few[s] \in Nat /\ many[s] \in Nat
    BY <1>1
  <2>2. \A s \in 1..10 : DaysFrom(few)[s] <= DaysFrom(many)[s]
    BY <1>1, <2>1, DaysFromGrow, Zenon
  <2> QED
    BY <1>0, <2>2
<1>5. p <= q
  BY <1>0, <1>1 DEF Left
<1> HIDE DEF p, q, f, g
<1>6. Files!Round(p + f, 10) <= Files!Round(q + g, 10)
  BY <1>2, <1>3, <1>4, <1>5, RoundingGrows
<1>7. Files!Round(p + f, 10) \in Int /\ Files!Round(q + g, 10) \in Int
  BY <1>2, <1>3, TenthsRound
<1> QED
  BY <1>0, <1>2, <1>3, <1>6, <1>7, OutlookIs DEF few, many

\* A forecast comes nearer by a day at most.
LEMMA ForecastsRecede ==
    ASSUME FilesInv, NEW days, \A s \in 1..9 : days[s] \in Nat, NEW day \in Nat, today < day
    PROVE  today + Files!DaysToGo(file, days, today)
              <= day + Files!DaysToGo(file, days, day) + 1
<1> DEFINE p == Left(days, today)
           q == Left(days, day)
           f == DaysFrom(days)[file.stage + 1]
<1>0. today \in Nat /\ today <= today /\ today <= day /\ file.stage \in 1..9
      /\ file.changed \in Nat
  BY DaysAreKept
<1>1. p \in Nat /\ f \in Nat /\ Files!DaysToGo(file, days, today) = Files!Round(p + f, 10)
  BY <1>0, DaysToGoAre, Zenon
<1>2. q \in Nat /\ Files!DaysToGo(file, days, day) = Files!Round(q + f, 10)
  BY <1>0, DaysToGoAre, Zenon
<1>3. 10 * today + p <= 10 * day + q
  <2>1. days[file.stage] \in Nat
    BY <1>0
  <2> QED
    BY <1>0, <2>1 DEF Left
<1> HIDE DEF p, q, f
<1>4. /\ Files!Round(p + f, 10) \in Int /\ 10 * Files!Round(p + f, 10) <= p + f + 5
      /\ Files!Round(q + f, 10) \in Int /\ q + f <= 10 * Files!Round(q + f, 10) + 5
  BY <1>1, <1>2, TenthsRound
<1> QED
  BY <1>0, <1>1, <1>2, <1>3, <1>4

-----------------------------------------------------------------------------
\* The risk of the file.

LEMMA OpenObjectionsAre ==
    ASSUME FilesInv
    PROVE  /\ IsFiniteSet(DOMAIN file.objections)
           /\ DOMAIN file.objections = 1..Len(file.objections)
           /\ \A o \in DOMAIN file.objections : file.objections[o].filed \in Nat
<1>1. file.objections \in Seq(Files!Objection)
  BY FileIsKept
<1>2. DOMAIN file.objections = 1..Len(file.objections) /\ Len(file.objections) \in Int
      /\ 1 \in Int
  BY <1>1
<1>3. IsFiniteSet(1..Len(file.objections))
  BY <1>2, FS_Interval
<1>4. ASSUME NEW o \in DOMAIN file.objections PROVE file.objections[o].filed \in Nat
  <2>1. file.objections[o] \in Files!Objection
    BY <1>1, <1>2, ElementOfSeq
  <2> QED
    BY <2>1, ReadersAssumption DEF Files!Objection
<1> QED
  BY <1>2, <1>3, <1>4

LEMMA PressureIs ==
    ASSUME FilesInv
    PROVE  LET pressure == Files!Pressure(file, Required)
           IN  /\ pressure.open_objections \in Nat /\ pressure.missing_documents \in Nat
               /\ pressure.unpaid_awards \in Nat
<1> DEFINE open == {o \in DOMAIN file.objections :
                       file.objections[o].status \in Files!OPEN_STATUSES}
           missing == Files!MissingDocuments(file, Required)
           pressure == Files!Pressure(file, Required)
<1>1. IsFiniteSet(open)
  BY OpenObjectionsAre, FS_Subset
<1>2. IsFiniteSet(missing)
  <2>1. IsFiniteSet(Required[file.stage])
    BY FileIsKept, ReadersAssumption DEF Files!Stage
  <2>2. missing \in SUBSET Required[file.stage]
    BY DEF Files!MissingDocuments
  <2> HIDE DEF missing
  <2> QED
    BY <2>1, <2>2, FS_Subset
<1>3. Cardinality(open) \in Nat /\ Cardinality(missing) \in Nat
  <2> HIDE DEF open, missing
  <2> QED
    BY <1>1, <1>2, FS_CardinalityType
<1>4. /\ pressure.open_objections = Cardinality(open)
      /\ pressure.missing_documents = Cardinality(missing)
      /\ pressure.unpaid_awards \in {0, 1}
  BY Counted DEF Files!Pressure
<1> QED
  BY <1>3, <1>4

LEMMA RiskGrows ==
    ASSUME FilesInv, NEW day \in Nat, today < day
    PROVE  Files!RiskScore(file, Model, Required, StandardDays, today)
              <= Files!RiskScore(file, Model, Required, StandardDays, day)
<1> DEFINE standard == StandardDays[file.stage]
           pressure == Files!Pressure(file, Required)
           overrun == Model[file.stage].overrun
           a == Files!Min({100, Files!Max({0, overrun - 100})})
           b == Files!Min({3, pressure.open_objections})
           d == Files!Min({3, pressure.missing_documents})
           e == Files!Min({5, pressure.unpaid_awards})
           pressing == 3 * a + 100 * b + 50 * d + 45 * e
           p == Files!Min({standard, Files!DaysInStage(file, today)})
           q == Files!Min({standard, Files!DaysInStage(file, day)})
<1>0. today \in Nat /\ today <= today /\ today <= day /\ file.stage \in 1..9
      /\ file.changed \in Nat
  BY DaysAreKept
<1>1. standard \in Nat \ {0}
  BY <1>0, ReadersAssumption DEF Files!Stage
<1>2. overrun \in Nat
  BY <1>0, ModelIsSound
<1>3. pressing \in Int
  <2> HIDE DEF overrun, pressure
  <2>1. 0 \in Int /\ 3 \in Int /\ 5 \in Int /\ 100 \in Int /\ overrun - 100 \in Int
    BY <1>2
  <2>2. Files!Max({0, overrun - 100}) \in Int
    BY <2>1, OfTwoIsInt, Zenon
  <2>3. a \in Int
    BY <2>1, <2>2, OfTwoIsInt, Zenon
  <2>4. /\ pressure.open_objections \in Int /\ pressure.missing_documents \in Int
        /\ pressure.unpaid_awards \in Int
    BY PressureIs DEF pressure
  <2>5. b \in Int /\ d \in Int /\ e \in Int
    BY <2>1, <2>4, OfTwoIsInt, Zenon
  <2> HIDE DEF a, b, d, e
  <2> QED
    BY <2>3, <2>5
<1>4. p \in Int /\ q \in Int /\ p <= q
  <2> DEFINE m == today - file.changed
             n == day - file.changed
  <2>1. m \in Nat /\ n \in Nat /\ m <= n
    BY <1>0, StayIs
  <2>2. Files!DaysInStage(file, today) = m /\ Files!DaysInStage(file, day) = n
    BY <1>0, StayIs
  <2>3. p = Files!Min({standard, m}) /\ q = Files!Min({standard, n})
    BY <2>2
  <2> HIDE DEF m, n, standard, p, q
  <2>4. /\ Files!Min({standard, m}) = IF standard <= m THEN standard ELSE m
        /\ Files!Min({standard, n}) = IF standard <= n THEN standard ELSE n
    BY <1>1, <2>1, OfTwo
  <2> QED
    BY <1>1, <2>1, <2>3, <2>4
<1> HIDE DEF pressing, p, q, standard
<1> DEFINE n == 1000 * (525 * p + standard * pressing)
           m == 1000 * (525 * q + standard * pressing)
           k == 1500 * standard
<1>5. n \in Int /\ m \in Int /\ n <= m
  <2>1. PICK rest \in Int : rest = standard * pressing
    BY <1>1, <1>3
  <2> QED
    BY <1>4, <2>1
<1>6. k \in Nat \ {0}
  BY <1>1
<1>7. /\ Files!RiskScore(file, Model, Required, StandardDays, today) = Files!Round(n, k)
      /\ Files!RiskScore(file, Model, Required, StandardDays, day) = Files!Round(m, k)
  BY Zenon DEF Files!RiskScore, pressing, p, q, standard
<1> HIDE DEF n, m, k
<1> QED
  BY <1>5, <1>6, <1>7, RoundingGrows

-----------------------------------------------------------------------------
\* The alerts of the file.

\* Every rule signs its alerts with its name.
LEMMA RulesSign ==
    ASSUME NEW day
    PROVE  /\ \A a \in Files!CaseStalled(file, day) : a.rule = "case_stalled"
           /\ \A a \in Files!DocumentMissing(file, Required) : a.rule = "document_missing"
           /\ \A a \in Files!ObjectionUnanswered(file, day) : a.rule = "objection_unanswered"
           /\ \A a \in Files!AwardUnpaid(file, day) : a.rule = "award_unpaid"
           /\ \A a \in Files!PossessionBeforeRnr(file) : a.rule = "possession_before_rnr"
           /\ \A a \in Files!TimelineBreach(file, day) : a.rule = "timeline_breach"
           /\ \A a \in Files!FundDepositMissing(file) : a.rule = "fund_deposit_missing"
           /\ \A a \in Files!UnusedLand(file, day) : a.rule = "unused_land"
<1>1. \A a \in Files!CaseStalled(file, day) : a.rule = "case_stalled"
  BY DEF Files!CaseStalled, Files!Alert
<1>2. \A a \in Files!DocumentMissing(file, Required) : a.rule = "document_missing"
  BY DEF Files!DocumentMissing, Files!Alert
<1>3. \A a \in Files!ObjectionUnanswered(file, day) : a.rule = "objection_unanswered"
  BY DEF Files!ObjectionUnanswered, Files!Alert
<1>4. \A a \in Files!AwardUnpaid(file, day) : a.rule = "award_unpaid"
  BY DEF Files!AwardUnpaid, Files!Alert
<1>5. \A a \in Files!PossessionBeforeRnr(file) : a.rule = "possession_before_rnr"
  BY DEF Files!PossessionBeforeRnr, Files!Alert
<1>6. \A a \in Files!TimelineBreach(file, day) : a.rule = "timeline_breach"
  BY DEF Files!TimelineBreach, Files!Alert
<1>7. \A a \in Files!FundDepositMissing(file) : a.rule = "fund_deposit_missing"
  BY DEF Files!FundDepositMissing, Files!Alert
<1>8. \A a \in Files!UnusedLand(file, day) : a.rule = "unused_land"
  BY DEF Files!UnusedLand, Files!Alert
<1> QED
  BY <1>1, <1>2, <1>3, <1>4, <1>5, <1>6, <1>7, <1>8

\* The alerts of a rule are what that rule found.
LEMMA AlertsOfRules ==
    /\ Files!AlertsOf("document_missing") = Files!DocumentMissing(file, Required)
    /\ Files!AlertsOf("objection_unanswered") = Files!ObjectionUnanswered(file, today)
    /\ Files!AlertsOf("possession_before_rnr") = Files!PossessionBeforeRnr(file)
    /\ Files!AlertsOf("timeline_breach") = Files!TimelineBreach(file, today)
BY RulesSign DEF Files!AlertsOf, Files!Alerts, Files!RunAllRules

LEMMA AlertsAreFinite ==
    ASSUME FilesInv
    PROVE  /\ IsFiniteSet(Files!Alerts(today))
           /\ \A a \in Files!Alerts(today) : a.severity \in 0..2
<1> DEFINE late == {p \in DOMAIN file.objections :
                      /\ file.objections[p].status \in Files!OPEN_STATUSES
                      /\ today - file.objections[p].filed > Files!OBJECTION_RESPONSE_DAYS}
           told(o) == [Files!Alert("objection_unanswered", Files!CRITICAL) EXCEPT !.of = o]
           unanswered == Files!ObjectionUnanswered(file, today)
<1>1. unanswered = {told(o) : o \in late}
  BY DEF Files!ObjectionUnanswered
<1>2. IsFiniteSet(unanswered)
  <2> DEFINE f == [o \in late |-> told(o)]
  <2>1. IsFiniteSet(late)
    BY OpenObjectionsAre, FS_Subset
  <2> HIDE DEF late, told, unanswered
  <2>2. f \in Surjection(late, unanswered)
    BY <1>1 DEF Surjection
  <2> HIDE DEF f
  <2> QED
    BY <2>1, <2>2, FS_Surjection
<1> HIDE DEF late, told, unanswered
<1>3. /\ IsFiniteSet(Files!CaseStalled(file, today))
      /\ IsFiniteSet(Files!DocumentMissing(file, Required))
      /\ IsFiniteSet(Files!AwardUnpaid(file, today))
      /\ IsFiniteSet(Files!PossessionBeforeRnr(file))
      /\ IsFiniteSet(Files!TimelineBreach(file, today))
      /\ IsFiniteSet(Files!FundDepositMissing(file))
      /\ IsFiniteSet(Files!UnusedLand(file, today))
  BY FS_EmptySet, FS_Singleton
  DEF Files!CaseStalled, Files!DocumentMissing, Files!AwardUnpaid, Files!PossessionBeforeRnr,
      Files!TimelineBreach, Files!FundDepositMissing, Files!UnusedLand
<1>4. IsFiniteSet(Files!Alerts(today))
  <2>1. IsFiniteSet(Files!CaseStalled(file, today) \cup Files!DocumentMissing(file, Required)
                       \cup unanswered \cup Files!AwardUnpaid(file, today))
    BY <1>2, <1>3, FS_Union
  <2>2. IsFiniteSet(Files!CaseStalled(file, today) \cup Files!DocumentMissing(file, Required)
                       \cup unanswered \cup Files!AwardUnpaid(file, today)
                       \cup Files!PossessionBeforeRnr(file) \cup Files!TimelineBreach(file, today)
                       \cup Files!FundDepositMissing(file))
    BY <1>3, <2>1, FS_Union
  <2>3. IsFiniteSet(Files!CaseStalled(file, today) \cup Files!DocumentMissing(file, Required)
                       \cup unanswered \cup Files!AwardUnpaid(file, today)
                       \cup Files!PossessionBeforeRnr(file) \cup Files!TimelineBreach(file, today)
                       \cup Files!FundDepositMissing(file) \cup Files!UnusedLand(file, today))
    BY <1>3, <2>2, FS_Union
  <2> QED
    BY <2>3 DEF Files!Alerts, Files!RunAllRules, unanswered
<1>5. /\ \A a \in Files!CaseStalled(file, today) : a.severity \in 0..2
      /\ \A a \in Files!DocumentMissing(file, Required) : a.severity \in 0..2
      /\ \A a \in Files!AwardUnpaid(file, today) : a.severity \in 0..2
      /\ \A a \in Files!PossessionBeforeRnr(file) : a.severity \in 0..2
      /\ \A a \in Files!TimelineBreach(file, today) : a.severity \in 0..2
      /\ \A a \in Files!FundDepositMissing(file) : a.severity \in 0..2
      /\ \A a \in Files!UnusedLand(file, today) : a.severity \in 0..2
  BY DEF Files!CaseStalled, Files!DocumentMissing, Files!AwardUnpaid, Files!PossessionBeforeRnr,
         Files!TimelineBreach, Files!FundDepositMissing, Files!UnusedLand, Files!Alert,
         Files!CRITICAL, Files!HIGH, Files!MEDIUM
<1>6. \A a \in Files!ObjectionUnanswered(file, today) : a.severity \in 0..2
  BY DEF Files!ObjectionUnanswered, Files!Alert, Files!CRITICAL
<1> QED
  BY <1>4, <1>5, <1>6 DEF Files!Alerts, Files!RunAllRules

-----------------------------------------------------------------------------
\* The readers of the file agree.

LEMMA DeadlinesAreAgreed == FilesInv => Files!DeadlinesAgree
<1> SUFFICES ASSUME FilesInv PROVE Files!DeadlinesAgree
  OBVIOUS
<1> DEFINE late == file.due # Files!NoDate /\ today > file.due
           row == Files!CaseRow(file, WarnDays, today)
           detail == Files!GetCase(file, WarnDays, today)
<1>1. today \in Nat /\ file.due \in Int
  BY FileIsKept
<1>2. file.due # Files!NoDate /\ Files!Tracking(today) = "BREACHED" <=> late
  BY DEF Files!Tracking, Files!TimelineStatus
<1>3. late <=> Files!BreachedCount(file, today)
  BY <1>1 DEF Files!BreachedCount
<1>4. late <=> Files!ListCases(file, WarnDays, TRUE, today) = {detail.row}
  <2>1. detail.row = row
    BY DEF Files!GetCase
  <2>2. Files!ListCases(file, WarnDays, TRUE, today) = IF late THEN {row} ELSE {}
    BY <1>1 DEF Files!ListCases
  <2> HIDE DEF row, detail, late
  <2> QED
    BY <2>1, <2>2
<1>5. late <=> Files!TimelineKpi(file, WarnDays, today) = "BREACHED"
  BY DEF Files!TimelineKpi, Files!TimelineStatus
<1>6. Files!AlertsOf("timeline_breach") # {} <=> late /\ file.status # "CLOSED"
  BY AlertsOfRules DEF Files!TimelineBreach
<1>7. detail.row.days_in_stage = Files!DaysInStage(file, today)
  BY <1>1, StayIs DEF Files!GetCase, Files!CaseRow
<1>8. Files!ClosedOn(file)
         \in {{}, {detail.stage_history[Len(detail.stage_history)].on}}
  BY FileIsKept DEF Files!ClosedOn, Files!GetCase
<1>9. Files!AreaAcquiredOn(file) \in {{}, {Files!PossessionSince(file)}}
  <2> DEFINE possession == {i \in DOMAIN file.history : file.history[i].to = Files!POSSESSION}
             entered == {file.history[i].on : i \in possession}
  <2>1. ASSUME possession # {} PROVE Files!Min(entered) = Files!PossessionSince(file)
    <3>1. entered # {}
      BY <2>1
    <3>2. Files!PossessionSince(file)
             = CHOOSE d \in entered : \A e \in entered : d <= e
      BY <3>1 DEF Files!PossessionSince
    <3>3. Files!Min(entered) = CHOOSE d \in entered : \A e \in entered : d <= e
      BY DEF Files!Min
    <3> QED
      BY <3>2, <3>3
  <2>2. Files!AreaAcquiredOn(file)
           = IF possession = {} \/ ~Files!AreaAcquired(file) THEN {} ELSE {Files!Min(entered)}
    BY DEF Files!AreaAcquiredOn
  <2> HIDE DEF entered, possession
  <2> QED
    BY <2>1, <2>2
<1>10. Files!Outlook(today).projected <= Files!Outlook(today).pessimistic
  BY OutlookIsOrdered
<1> HIDE DEF late, detail
<1> QED
  BY <1>2, <1>3, <1>4, <1>5, <1>6, <1>7, <1>8, <1>9, <1>10 DEF Files!DeadlinesAgree, detail

LEMMA AlertsAreAgreed == FilesInv => Files!AlertsAgree
<1> SUFFICES ASSUME FilesInv PROVE Files!AlertsAgree
  OBVIOUS
<1> DEFINE alerts == Files!Alerts(today)
           of(s) == {a \in alerts : a.severity = s}
           severities == {a.severity : a \in alerts} \cup {3}
           worst == Files!Min(severities)
           attention == Files!Attention(file, Required, today)
           panel == Files!DashboardAlerts(file, Required, today)
<1>0. today \in Nat /\ file.due \in Int
  BY FileIsKept
<1>1. /\ attention.open_alerts = Cardinality(alerts) /\ panel.total = Cardinality(alerts)
      /\ attention.priority = worst
      /\ DOMAIN panel.by_severity = 0..2
      /\ \A s \in 0..2 : panel.by_severity[s] = Cardinality(of(s))
  <2>1. 0..2 = {Files!CRITICAL, Files!HIGH, Files!MEDIUM} /\ Files!MEDIUM + 1 = 3
    BY DEF Files!CRITICAL, Files!HIGH, Files!MEDIUM
  <2>2. /\ attention.open_alerts = Files!Cardinality(alerts)
        /\ panel.total = Files!Cardinality(alerts)
        /\ attention.priority
             = Files!Min({a.severity : a \in alerts} \cup {Files!MEDIUM + 1})
        /\ panel.by_severity = [s \in {Files!CRITICAL, Files!HIGH, Files!MEDIUM} |->
                                   Files!Cardinality({a \in alerts : a.severity = s})]
    BY DEF Files!Attention, Files!DashboardAlerts, Files!Alerts
  <2>3. /\ DOMAIN panel.by_severity = {Files!CRITICAL, Files!HIGH, Files!MEDIUM}
        /\ \A s \in {Files!CRITICAL, Files!HIGH, Files!MEDIUM} :
              panel.by_severity[s] = Files!Cardinality(of(s))
    <3> HIDE DEF alerts, panel
    <3> QED
      BY <2>2
  <2> HIDE DEF alerts, attention, panel, of
  <2> QED
    BY <2>1, <2>2, <2>3, Counted
<1>2. IsFiniteSet(alerts) /\ \A a \in alerts : a.severity \in 0..2
  BY AlertsAreFinite
<1> HIDE DEF alerts, attention, panel
<1>3. worst \in severities /\ \A s \in severities : worst <= s
  <2>1. severities \subseteq Nat /\ severities \subseteq Int /\ severities # {}
    BY <1>2
  <2> HIDE DEF severities
  <2>2. PICK m \in severities : \A s \in severities : m <= s
    BY <2>1, LeastNatural, Zenon
  <2>3. worst = m
    BY <2>1, <2>2, MinIs, Zenon
  <2> QED
    BY <2>2, <2>3, Zenon
<1>4. \A s \in 0..2 : s < worst => Cardinality(of(s)) = 0
  <2> SUFFICES ASSUME NEW s \in 0..2, s < worst PROVE of(s) = {}
    BY FS_EmptySet
  <2> SUFFICES ASSUME NEW a \in alerts, a.severity = s PROVE FALSE
    OBVIOUS
  <2>1. s \in severities
    OBVIOUS
  <2>2. worst <= s /\ worst \in 0..3
    BY <1>2, <1>3, <2>1
  <2> HIDE DEF worst
  <2> QED
    BY <2>2
<1>5. Cardinality(alerts) > 0 => worst \in 0..2 /\ Cardinality(of(worst)) > 0
  <2> SUFFICES ASSUME Cardinality(alerts) > 0
               PROVE  worst \in 0..2 /\ Cardinality(of(worst)) > 0
    OBVIOUS
  <2>1. alerts # {}
    BY FS_EmptySet
  <2>2. PICK a \in alerts : TRUE
    BY <2>1
  <2>3. a.severity \in severities /\ a.severity \in 0..2
    BY <1>2
  <2>4. worst # 3
    <3>1. worst <= a.severity
      BY <1>3, <2>3
    <3> HIDE DEF worst
    <3> QED
      BY <2>3, <3>1
  <2>5. PICK b \in alerts : b.severity = worst
    BY <1>3, <2>4
  <2>6. worst \in 0..2 /\ of(worst) # {} /\ of(worst) \in SUBSET alerts
    BY <1>2, <2>5
  <2> HIDE DEF of, worst
  <2>7. IsFiniteSet(of(worst))
    BY <1>2, <2>6, FS_Subset
  <2>8. Cardinality(of(worst)) \in Nat /\ Cardinality(of(worst)) # 0
    BY <2>6, <2>7, FS_EmptySet, FS_CardinalityType
  <2> QED
    BY <2>6, <2>8
<1>6. \A o \in DOMAIN file.objections :
         Files!IsOverdue(file.objections[o], today)
             <=> \E a \in Files!AlertsOf("objection_unanswered") : a.of = o
  <2> DEFINE late == {p \in DOMAIN file.objections : Files!IsOverdue(file.objections[p], today)}
             told(o) == [rule |-> "objection_unanswered", severity |-> Files!CRITICAL, of |-> o]
  <2>1. Files!AlertsOf("objection_unanswered") = {told(o) : o \in late}
    BY AlertsOfRules DEF Files!ObjectionUnanswered, Files!IsOverdue, Files!Alert
  <2> HIDE DEF late
  <2>2. \A o : told(o).of = o
    OBVIOUS
  <2> HIDE DEF told
  <2>3. \A o : o \in late <=> \E a \in Files!AlertsOf("objection_unanswered") : a.of = o
    BY <2>1, <2>2, Zenon
  <2> QED
    BY <2>3 DEF late
<1>7. attention.open_objections = Files!Pressure(file, Required).open_objections
  BY DEF attention, Files!Attention, Files!Pressure, Files!OPEN_STATUSES
<1>8. Files!Pressure(file, Required).unpaid_awards > 0 => attention.compensation_pending
  <2> DEFINE unpaid == file.award.status \in {"AWARDED", "ASSESSED"} /\ file.award.pending
  <2>1. Files!Pressure(file, Required).unpaid_awards = IF unpaid THEN 1 ELSE 0
    BY DEF Files!Pressure
  <2>2. Files!Pressure(file, Required).unpaid_awards > 0 => unpaid
    <3> HIDE DEF unpaid
    <3> QED
      BY <2>1
  <2>3. unpaid => file.award.status \notin {"NONE", "PAID"}
    OBVIOUS
  <2>4. attention.compensation_pending = (file.award.status \notin {"NONE", "PAID"})
    BY DEF attention, Files!Attention
  <2> QED
    BY <2>2, <2>3, <2>4
<1>9. attention.rnr_pending => Files!RnrOutstanding(file)
  BY DEF attention, Files!Attention, Files!RnrOutstanding
<1>10. Files!GetCase(file, WarnDays, today).row.timeline = "BREACHED"
          <=> \E left \in attention.days_remaining : left < 0
  BY <1>0
  DEF attention, Files!Attention, Files!GetCase, Files!CaseRow, Files!TimelineStatus
<1>11. Files!AlertsOf("possession_before_rnr") # {} => Files!RnrOutstanding(file)
  BY AlertsOfRules DEF Files!PossessionBeforeRnr, Files!RnrOutstanding
<1> DEFINE worse == {s \in DOMAIN panel.by_severity : s < attention.priority}
<1>12. \A s \in worse : panel.by_severity[s] = 0
  <2> HIDE DEF worst, of
  <2> QED
    BY <1>1, <1>4
<1>13. panel.total > 0 => panel.by_severity[attention.priority] > 0
  <2> HIDE DEF worst, of
  <2> QED
    BY <1>1, <1>5
<1> HIDE DEF worst, of
<1> QED
  BY <1>1, <1>6, <1>7, <1>8, <1>9, <1>10, <1>11, <1>12, <1>13, Zenon
  DEF Files!AlertsAgree, attention, panel

LEMMA WorkIsAgreed == FilesInv => Files!WorkAgrees
<1> SUFFICES ASSUME FilesInv PROVE Files!WorkAgrees
  OBVIOUS
<1> DEFINE missing == Files!DocumentsDesk(file, Required).missing
<1>1. missing = Files!MissingDocuments(file, Required)
      /\ missing = Required[file.stage] \ file.docs
  BY DEF Files!DocumentsDesk, Files!MissingDocuments
<1> HIDE DEF missing
<1>2. Files!AlertsOf("document_missing") # {} <=> missing # {}
  BY <1>1, AlertsOfRules DEF Files!DocumentMissing
<1>3. Files!Cardinality(missing) = Files!Pressure(file, Required).missing_documents
  BY <1>1 DEF Files!Pressure
<1>4. Files!FieldWork(file, Required) # {} => missing \subseteq Files!FieldWork(file, Required)
  BY <1>1 DEF Files!FieldWork
<1>5. Files!NextAction(file, Required) = "upload" <=> missing # {}
  BY <1>1 DEF Files!NextAction
<1>6. Files!NextAction(file, Required) = "advance"
          => file.stage + 1 \in Files!GetCase(file, WarnDays, today).allowed_next_stages
  <2>1. file.stage \in 1..9
    BY DaysAreKept
  <2>2. Files!NextAction(file, Required) = "advance" => file.stage # 9
    BY DEF Files!NextAction, Files!TERMINAL_STAGE, Files!MONITORING
  <2>3. file.stage # 9 => file.stage + 1 \in Files!AllowedTransitions(file.stage)
    <3> SUFFICES ASSUME file.stage # 9
                 PROVE  file.stage + 1 \in Files!AllowedTransitions(file.stage)
      OBVIOUS
    <3>1. file.stage + 1 \in 1..9
      BY <2>1
    <3>2. file.stage + 1 \in {file.stage - 1, file.stage + 1}
      OBVIOUS
    <3> QED
      BY <3>1, <3>2, Zenon DEF Files!AllowedTransitions, Files!Stage
  <2>4. Files!GetCase(file, WarnDays, today).allowed_next_stages
           = Files!AllowedTransitions(file.stage)
    BY DEF Files!GetCase
  <2> QED
    BY <2>2, <2>3, <2>4
<1> QED
  BY <1>2, <1>3, <1>4, <1>5, <1>6 DEF Files!WorkAgrees, missing

-----------------------------------------------------------------------------
\* Days in which nobody does anything.

\* An alert stays, no milder than it was.
LEMMA AlertsStay ==
    ASSUME FilesInv, NEW day \in Nat, today < day
    PROVE  Files!Covers(Files!Alerts(day), Files!Alerts(today))
<1>0. today \in Nat /\ file.changed \in Nat /\ file.due \in Int
  BY FileIsKept
<1> DEFINE Stays(a, later) ==
               \E b \in later : b.rule = a.rule /\ b.of = a.of /\ b.severity <= a.severity
<1>1. \A a \in Files!CaseStalled(file, today) : Stays(a, Files!CaseStalled(file, day))
  <2> DEFINE m == today - file.changed
             n == day - file.changed
             severe == Files!Alert("case_stalled", 1)
             mild == Files!Alert("case_stalled", 2)
             Stalled(d) == IF file.status = "CLOSED" \/ d < 10 THEN {}
                           ELSE {IF d >= 20 THEN severe ELSE mild}
  <2>1. m \in Int /\ n \in Int /\ m < n
    BY <1>0
  <2>2. Files!CaseStalled(file, today) = Stalled(m) /\ Files!CaseStalled(file, day) = Stalled(n)
    BY DEF Files!CaseStalled, Files!HIGH, Files!MEDIUM, Files!STALLED_DAYS,
           Files!STALLED_CRITICAL_DAYS
  <2>3. /\ severe.rule = mild.rule /\ severe.of = mild.of
        /\ severe.severity = 1 /\ mild.severity = 2
    BY DEF Files!Alert
  <2> HIDE DEF m, n, severe, mild
  <2> QED
    BY <2>1, <2>2, <2>3
<1>2. ASSUME NEW a, a.severity \in 0..2, NEW later, a \in later
      PROVE  Stays(a, later)
  BY <1>2
<1>3. \A a \in Files!Alerts(today) : a.severity \in 0..2
  BY AlertsAreFinite
<1>4. Files!ObjectionUnanswered(file, today) \subseteq Files!ObjectionUnanswered(file, day)
  <2>1. \A p \in DOMAIN file.objections :
           today - file.objections[p].filed > 21 => day - file.objections[p].filed > 21
    BY <1>0, OpenObjectionsAre
  <2> QED
    BY <2>1 DEF Files!ObjectionUnanswered, Files!OBJECTION_RESPONSE_DAYS
<1>5. Files!AwardUnpaid(file, today) \subseteq Files!AwardUnpaid(file, day)
  <2>1. file.award \in Files!Award
    BY FileIsKept
  <2>2. file.award.on \in Int
    <3>1. file.award.on \in Days \cup {0}
      BY <2>1 DEF Files!Award, Files!NoDate
    <3>2. Days \cup {0} \subseteq Int
      BY ReadersAssumption
    <3> QED
      BY <3>1, <3>2, Zenon
  <2>3. today - file.award.on > 30 => day - file.award.on > 30
    BY <1>0, <2>2
  <2> QED
    BY <2>3 DEF Files!AwardUnpaid, Files!AWARD_PAYMENT_DAYS
<1>6. Files!TimelineBreach(file, today) \subseteq Files!TimelineBreach(file, day)
  <2>1. today > file.due => day > file.due
    BY <1>0
  <2> QED
    BY <2>1 DEF Files!TimelineBreach
<1>7. Files!UnusedLand(file, today) \subseteq Files!UnusedLand(file, day)
  <2> DEFINE entered == {file.history[i].on : i \in {j \in DOMAIN file.history :
                                              file.history[j].to = Files!POSSESSION}}
  <2>1. Files!PossessionSince(file) \in Int
    <3>1. entered \subseteq Nat
      BY FileIsKept
    <3>2. CASE entered = {}
      BY <3>2 DEF Files!PossessionSince, Files!NoDate
    <3>3. CASE entered # {}
      <4>1. Files!PossessionSince(file) = CHOOSE d \in entered : \A e \in entered : d <= e
        BY <3>3 DEF Files!PossessionSince
      <4> HIDE DEF entered
      <4>2. \E d \in entered : \A e \in entered : d <= e
        BY <3>1, <3>3, LeastNatural, Zenon
      <4>3. Files!PossessionSince(file) \in entered
        BY <4>1, <4>2, Zenon
      <4>4. Files!PossessionSince(file) \in Nat
        BY <3>1, <4>3, Zenon
      <4> QED
        BY <4>4
    <3> QED
      BY <3>2, <3>3
  <2>2. today - Files!PossessionSince(file) > Files!FIVE_YEARS_DAYS
           => day - Files!PossessionSince(file) > Files!FIVE_YEARS_DAYS
    BY <1>0, <2>1 DEF Files!FIVE_YEARS_DAYS
  <2> QED
    BY <2>2 DEF Files!UnusedLand
<1>8. ASSUME NEW a \in Files!Alerts(today)
      PROVE  Stays(a, Files!Alerts(day))
  <2>1. CASE a \in Files!CaseStalled(file, today)
    <3>1. Stays(a, Files!CaseStalled(file, day))
      BY <1>1, <2>1
    <3>2. Files!CaseStalled(file, day) \subseteq Files!Alerts(day)
      BY DEF Files!Alerts, Files!RunAllRules
    <3> QED
      BY <3>1, <3>2
  <2>2. CASE a \notin Files!CaseStalled(file, today)
    <3>1. a \in Files!Alerts(day)
      BY <1>4, <1>5, <1>6, <1>7, <1>8, <2>2 DEF Files!Alerts, Files!RunAllRules
    <3>2. a.severity \in 0..2
      BY <1>3, <1>8
    <3> HIDE DEF Stays
    <3> QED
      BY <1>2, <3>1, <3>2
  <2> QED
    BY <2>1, <2>2
<1> QED
  BY <1>8 DEF Files!Covers

LEMMA WaitingIsNoHelp == FilesInv => Files!WaitingNeverHelps
<1> SUFFICES ASSUME FilesInv, NEW day \in Days, day > today
             PROVE  /\ Files!Covers(Files!Alerts(day), Files!Alerts(today))
                    /\ Files!Lateness(Files!Tracking(today)) <= Files!Lateness(Files!Tracking(day))
                    /\ Files!Outlook(today).score <= Files!Outlook(day).score
                    /\ Files!Outlook(today).projected <= Files!Outlook(day).projected + 1
                    /\ Files!Outlook(today).pessimistic <= Files!Outlook(day).pessimistic + 1
  BY DEF Files!WaitingNeverHelps
<1>0. day \in Nat /\ today \in Nat /\ today < day /\ file.due \in Int /\ file.stage \in 1..9
  BY FileIsKept, ReadersAssumption
<1>1. Files!Covers(Files!Alerts(day), Files!Alerts(today))
  BY <1>0, AlertsStay
<1>2. Files!Lateness(Files!Tracking(today)) <= Files!Lateness(Files!Tracking(day))
  <2> DEFINE warn == WarnDays[file.stage]
             level(d) == IF file.due = 0 THEN 0 ELSE IF d > file.due THEN 2
                         ELSE IF file.due - d <= warn THEN 1 ELSE 0
  <2>1. warn \in Int
    BY <1>0, ReadersAssumption DEF Files!Stage
  <2>2. /\ Files!Lateness("ON_TIME") = 0 /\ Files!Lateness("AT_RISK") = 1
        /\ Files!Lateness("BREACHED") = 2
    BY DEF Files!Lateness
  <2>3. \A d : Files!Lateness(Files!Tracking(d)) = level(d)
    BY <2>2 DEF Files!Tracking, Files!TimelineStatus, Files!NoDate
  <2>4. level(today) <= level(day)
    <3> HIDE DEF warn
    <3> QED
      BY <1>0, <2>1
  <2> HIDE DEF level
  <2> QED
    BY <2>3, <2>4
<1>3. Files!Outlook(today).score <= Files!Outlook(day).score
  BY <1>0, OutlookIs, RiskGrows
<1>4. /\ \A s \in 1..9 : Expected[s] \in Nat
      /\ \A s \in 1..9 : Pessimistic[s] \in Nat
  BY ModelIsSound
<1>5. today + Files!DaysToGo(file, Expected, today)
         <= day + Files!DaysToGo(file, Expected, day) + 1
  BY <1>0, <1>4, ForecastsRecede, Zenon
<1>6. today + Files!DaysToGo(file, Pessimistic, today)
         <= day + Files!DaysToGo(file, Pessimistic, day) + 1
  BY <1>0, <1>4, ForecastsRecede, Zenon
<1> QED
  BY <1>1, <1>2, <1>3, <1>5, <1>6, OutlookIs

-----------------------------------------------------------------------------
\* The file is kept by every behaviour of the desks.
LEMMA FileIsKeptAlways == Spec => [](desk = "files" => FilesInv)
<1>1. Init => (desk = "files" => FilesInv)
  BY FilesInitially
<1>2. (desk = "files" => FilesInv) /\ [Next]_vars => (desk = "files" => FilesInv)'
  <2> SUFFICES ASSUME desk = "files" => FilesInv, [Next]_vars, desk' = "files" PROVE FilesInv'
    OBVIOUS
  <2> QED
    BY StepsOfFiles, FilesInductive, Zenon
<1> QED
  BY <1>1, <1>2, PTL DEF Spec

\* dashboard.py, objections.py, sla.py, documents.py, reports and ai_layer read
\* the same tables for the same figures: none of them contradicts another.
THEOREM ScreensAgree == Spec => []ReadersAgree
<1>1. (desk = "files" => FilesInv) => ReadersAgree
  BY DeadlinesAreAgreed, AlertsAreAgreed, WorkIsAgreed, Zenon
  DEF ReadersAgree, Files!ReadersAgree
<1> QED
  BY <1>1, FileIsKeptAlways, PTL

\* ai_layer: while nobody does anything no alert, deadline, risk or forecast of
\* a case looks better than it did.
THEOREM DelayIsNeverRewarded == Spec => []WaitingNeverHelps
<1>1. (desk = "files" => FilesInv) => WaitingNeverHelps
  BY WaitingIsNoHelp, Zenon DEF WaitingNeverHelps
<1> QED
  BY <1>1, FileIsKeptAlways, PTL
=============================================================================
