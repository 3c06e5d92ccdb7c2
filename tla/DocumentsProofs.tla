--------------------------- MODULE DocumentsProofs ---------------------------
(***************************************************************************)
(* Theorems about Documents, for any set of threads and any number of      *)
(* versions and files.                                                     *)
(***************************************************************************)
EXTENDS Documents, SequenceTheorems, TLAPS

\* A row of documents, whatever the bounds.
Row == [name : StoredName, version : Nat, supersedes : Nat, current : BOOLEAN,
        digest : Nat, status : VerificationStatus]

\* A request that has loaded a version.
RowRequest == [op : {"verify", "heal", "served"}, d : Nat, loaded : Row, assigned : Row]

AnyRequest == {Idle} \cup [op : {"upload"}] \cup RowRequest

HasRow(r) == r.op \in {"verify", "heal", "served"}

LEMMA RequestForms ==
    ASSUME NEW r \in AnyRequest, HasRow(r)
    PROVE  r \in RowRequest
BY DEF AnyRequest, HasRow, RowRequest, Idle

\* What the UPDATE of a version leaves.
LEMMA WrittenDocument ==
    ASSUME NEW stored \in Row, NEW loaded \in Row, NEW assigned \in Row
    PROVE  /\ WrittenRow(stored, loaded, assigned) \in Row
           /\ \A column \in {"version", "supersedes", "current", "digest"} :
                 WrittenRow(stored, loaded, assigned)[column]
                    = Written(stored[column], loaded[column], assigned[column])
<1>1. DOMAIN stored = {"name", "version", "supersedes", "current", "digest", "status"}
  BY DEF Row
<1> DEFINE row == WrittenRow(stored, loaded, assigned)
<1>2. \A column \in {"name", "version", "supersedes", "current", "digest", "status"} :
          row[column] = Written(stored[column], loaded[column], assigned[column])
  BY <1>1 DEF WrittenRow
<1>3. row = [name |-> row.name, version |-> row.version, supersedes |-> row.supersedes,
             current |-> row.current, digest |-> row.digest, status |-> row.status]
  BY <1>1 DEF WrittenRow
<1>4. row.name \in StoredName /\ row.version \in Nat /\ row.supersedes \in Nat
      /\ row.digest \in Nat /\ row.status \in VerificationStatus
  BY <1>2 DEF Row, Written
<1>5. row.current \in BOOLEAN
  <2>1. row.current = Written(stored.current, loaded.current, assigned.current)
    BY <1>2
  <2>2. stored.current \in BOOLEAN /\ assigned.current \in BOOLEAN
    BY DEF Row
  <2> QED
    BY <2>1, <2>2, Zenon DEF Written
<1> QED
  BY <1>2, <1>3, <1>4, <1>5 DEF Row

(***************************************************************************)
(* A request that has loaded a version writes its name, its digest or its  *)
(* verdict, and what it has to say of the chain is what it loaded: nothing *)
(* for the UPDATE.                                                         *)
(***************************************************************************)
LeavesChain(r) ==
    HasRow(r) => \A column \in {"version", "supersedes", "current"} :
                    r.assigned[column] = r.loaded[column]

ChainInv ==
    /\ documents \in Seq(Row) /\ written \in Nat
    /\ request \in [Workers -> AnyRequest]
    /\ \A w \in Workers : LeavesChain(request[w])
    /\ VersionsFormAChain

LEMMA OneRequestChanges ==
    ASSUME ChainInv, NEW w \in Workers, NEW r \in AnyRequest, LeavesChain(r),
           request' = [request EXCEPT ![w] = r]
    PROVE  /\ request' \in [Workers -> AnyRequest]
           /\ \A v \in Workers : LeavesChain(request'[v])
BY DEF ChainInv

LEMMA RowsOfChain ==
    ASSUME ChainInv
    PROVE  /\ Rows = 1..Len(documents) /\ Len(documents) \in Nat
           /\ \A d \in Rows : documents[d] \in Row
           /\ Previous = Len(documents)
<1>1. Rows = 1..Len(documents) /\ Len(documents) \in Nat
  BY DEF ChainInv, Rows
<1>2. \A d \in Rows : documents[d] \in Row
  BY <1>1 DEF ChainInv
<1> DEFINE found == {d \in Rows : IsPrevious(d)}
<1>3. CASE documents = <<>>
  BY <1>1, <1>3 DEF Previous, Rows
<1>4. CASE documents # <<>>
  <2>1. Len(documents) \in Rows
    BY <1>1, <1>4 DEF ChainInv
  <2>2. found = {Len(documents)}
    BY <1>1, <2>1 DEF ChainInv, VersionsFormAChain, IsPrevious
  <2>3. \A d \in found : \A e \in found : documents[e].version <= documents[d].version
    BY <1>2, <2>1, <2>2 DEF Row
  <2>4. Previous = CHOOSE d \in found : \A e \in found :
                        documents[e].version <= documents[d].version
    BY <2>2 DEF Previous
  <2>5. Previous \in found
    <3> HIDE DEF found
    <3>1. \E d \in found : \A e \in found : documents[e].version <= documents[d].version
      BY <2>2, <2>3
    <3> QED
      BY <2>4, <3>1, Zenon
  <2> QED
    BY <1>1, <1>2, <2>2, <2>5
<1> QED
  BY <1>1, <1>2, <1>3, <1>4

\* What an upload makes of the rows.
Superseded == [d \in Rows |-> [documents[d] EXCEPT !.current = @ /\ d # Previous]]

LEMMA SupersededRows ==
    ASSUME ChainInv
    PROVE  /\ Superseded \in Seq(Row) /\ Len(Superseded) = Len(documents)
           /\ \A d \in Rows : /\ Superseded[d].version = d
                              /\ Superseded[d].supersedes = d - 1
                              /\ Superseded[d].current = FALSE
                              /\ Superseded[d].digest = documents[d].digest
<1> USE RowsOfChain
<1>1. ASSUME NEW d \in Rows
      PROVE  /\ [documents[d] EXCEPT !.current = @ /\ d # Previous]
                   = [documents[d] EXCEPT !.current = FALSE]
             /\ [documents[d] EXCEPT !.current = FALSE] \in Row
  <2>1. (documents[d].current /\ d # Previous) = FALSE
    BY <1>1 DEF ChainInv, VersionsFormAChain
  <2> QED
    BY <1>1, <2>1 DEF Row
<1>2. Superseded = [d \in 1..Len(documents) |-> [documents[d] EXCEPT !.current = FALSE]]
  <2>1. \A d \in 1..Len(documents) :
            [documents[d] EXCEPT !.current = @ /\ d # Previous]
                = [documents[d] EXCEPT !.current = FALSE]
    BY <1>1
  <2>2. Superseded = [d \in 1..Len(documents) |->
                        [documents[d] EXCEPT !.current = @ /\ d # Previous]]
    BY DEF Superseded
  <2> QED
    BY <2>1, <2>2, Zenon
<1>3. Superseded \in Seq(Row) /\ Len(Superseded) = Len(documents)
  <2>1. Superseded \in [1..Len(documents) -> Row]
    BY <1>1, <1>2
  <2> QED
    BY <2>1
<1>4. ASSUME NEW d \in Rows
      PROVE  /\ Superseded[d].version = d
             /\ Superseded[d].supersedes = d - 1
             /\ Superseded[d].current = FALSE
             /\ Superseded[d].digest = documents[d].digest
  <2>1. Superseded[d] = [documents[d] EXCEPT !.current = FALSE]
    BY <1>2
  <2>2. documents[d] \in Row /\ documents[d].version = d /\ documents[d].supersedes = d - 1
    BY DEF ChainInv, VersionsFormAChain
  <2>3. [documents[d] EXCEPT !.current = FALSE].current = FALSE
    BY <2>2, Zenon DEF Row
  <2> QED
    BY <2>1, <2>2, <2>3 DEF Row
<1> QED
  BY <1>3, <1>4

LEMMA ChainInductive == ChainInv /\ [Next]_vars => ChainInv'
<1> SUFFICES ASSUME ChainInv, [Next]_vars PROVE ChainInv'
  OBVIOUS
<1> USE RowsOfChain
<1>0. Idle \in AnyRequest /\ LeavesChain(Idle)
  BY DEF AnyRequest, LeavesChain, HasRow, Idle
<1>1. ASSUME NEW w \in Workers, UploadDocument(w) PROVE ChainInv'
  <2>1. [op |-> "upload"] \in AnyRequest /\ LeavesChain([op |-> "upload"])
    BY DEF AnyRequest, LeavesChain, HasRow
  <2> QED
    BY <1>1, <2>1, OneRequestChanges
    DEF UploadDocument, Begin, ChainInv, VersionsFormAChain, Rows
<1>2. ASSUME NEW w \in Workers, FileDocument(w) PROVE ChainInv'
  <2> DEFINE new == [name |-> "upload",
                     version |-> IF Previous = 0 THEN 1 ELSE documents[Previous].version + 1,
                     supersedes |-> Previous, current |-> TRUE,
                     digest |-> written', status |-> "PENDING"]
  <2>1. new.version = Len(documents) + 1
    <3>1. CASE Len(documents) = 0
      BY <3>1
    <3>2. CASE Len(documents) # 0
      BY <3>2 DEF ChainInv, VersionsFormAChain
    <3> QED
      BY <3>1, <3>2
  <2>2. new \in Row
    <3>1. written' \in Nat
      BY <1>2 DEF FileDocument, ChainInv
    <3> QED
      BY <2>1, <3>1 DEF Row, StoredName, VerificationStatus
  <2>3. documents' = Append(Superseded, new)
    BY <1>2 DEF FileDocument, Superseded
  <2>4. /\ documents' \in Seq(Row)
        /\ Len(documents') = Len(documents) + 1
        /\ \A d \in 1..Len(documents) : documents'[d] = Superseded[d]
        /\ documents'[Len(documents) + 1] = new
    <3>1. Superseded \in Seq(Row) /\ Len(Superseded) = Len(documents)
      BY SupersededRows
    <3> HIDE DEF new
    <3>2. /\ Append(Superseded, new) \in Seq(Row)
          /\ Len(Append(Superseded, new)) = Len(Superseded) + 1
          /\ \A d \in 1..Len(Superseded) : Append(Superseded, new)[d] = Superseded[d]
          /\ Append(Superseded, new)[Len(Superseded) + 1] = new
      BY <2>2, <3>1, AppendProperties
    <3> QED
      BY <2>3, <3>1, <3>2
  <2>5. VersionsFormAChain'
    <3> SUFFICES ASSUME NEW d \in Rows'
                 PROVE  /\ documents'[d].version = d
                        /\ documents'[d].supersedes = d - 1
                        /\ documents'[d].current <=> d = Len(documents')
      BY DEF VersionsFormAChain
    <3>1. d \in 1..(Len(documents) + 1)
      BY <2>4 DEF Rows
    <3>2. CASE d = Len(documents) + 1
      BY <2>1, <2>4, <3>2
    <3>3. CASE d # Len(documents) + 1
      <4>1. d \in Rows
        BY <3>1, <3>3
      <4> QED
        BY <2>4, <3>3, <4>1, SupersededRows
    <3> QED
      BY <3>2, <3>3
  <2>6. written' \in Nat
    BY <1>2 DEF FileDocument, ChainInv
  <2> QED
    BY <1>0, <1>2, <2>4, <2>5, <2>6, OneRequestChanges
    DEF FileDocument, Finish, GoOn, ChainInv
<1>3. ASSUME NEW w \in Workers, NEW d \in Rows, NEW verdict \in VerificationStatus,
             VerifyDocument(w, d, verdict)
      PROVE  ChainInv'
  <2> DEFINE r == [op |-> "verify", d |-> d, loaded |-> documents[d],
                   assigned |-> [documents[d] EXCEPT !.status = verdict]]
  <2>1. r \in AnyRequest /\ LeavesChain(r)
    BY DEF AnyRequest, RowRequest, LeavesChain, Row
  <2> QED
    BY <1>3, <2>1, OneRequestChanges
    DEF VerifyDocument, Begin, ChainInv, VersionsFormAChain, Rows
<1>4. ASSUME NEW w \in Workers, NEW d \in Rows, DownloadDocument(w, d)
      PROVE  ChainInv'
  <2>1. PICK op \in {"heal", "served"} :
            request' = [request EXCEPT ![w] =
                [op |-> op, d |-> d, loaded |-> documents[d],
                 assigned |-> [documents[d] EXCEPT !.name = "seed"]]]
    BY <1>4 DEF DownloadDocument, Begin
  <2> DEFINE r == [op |-> op, d |-> d, loaded |-> documents[d],
                   assigned |-> [documents[d] EXCEPT !.name = "seed"]]
  <2>2. r \in AnyRequest /\ LeavesChain(r)
    BY DEF AnyRequest, RowRequest, LeavesChain, Row, StoredName
  <2> QED
    BY <1>4, <2>1, <2>2, OneRequestChanges
    DEF DownloadDocument, ChainInv, VersionsFormAChain, Rows
<1>5. ASSUME NEW w \in Workers, WritePlaceholder(w) PROVE ChainInv'
  <2> DEFINE r == [request[w] EXCEPT !.op = "served", !.assigned.digest = written']
  <2>0. written' \in Nat
    BY <1>5 DEF WritePlaceholder, ChainInv
  <2>1. request[w] \in RowRequest /\ HasRow(request[w])
    BY <1>5, RequestForms DEF WritePlaceholder, ChainInv, HasRow
  <2>2. r \in RowRequest
    BY <2>0, <2>1 DEF RowRequest, Row
  <2>3. r \in AnyRequest /\ LeavesChain(r)
    BY <2>1, <2>2 DEF AnyRequest, RowRequest, LeavesChain, Row, ChainInv
  <2> QED
    BY <1>5, <2>0, <2>3, OneRequestChanges
    DEF WritePlaceholder, GoOn, ChainInv, VersionsFormAChain, Rows
<1>6. ASSUME NEW w \in Workers, CommitRow(w) PROVE ChainInv'
  <2> DEFINE r == request[w]
             row == WrittenRow(documents[r.d], r.loaded, r.assigned)
  <2>1. r \in RowRequest /\ LeavesChain(r) /\ HasRow(r)
    BY <1>6, RequestForms DEF CommitRow, ChainInv, HasRow
  <2>2. documents' = [documents EXCEPT ![r.d] = row]
    BY <1>6 DEF CommitRow
  <2>3. CASE r.d \in Rows
    <3>1. row \in Row /\ row.version = documents[r.d].version
          /\ row.supersedes = documents[r.d].supersedes
          /\ row.current = documents[r.d].current
      BY <2>1, <2>3, WrittenDocument DEF RowRequest, LeavesChain, Written
    <3> HIDE DEF row, r
    <3>2. documents' \in Seq(Row) /\ Len(documents') = Len(documents) /\ Rows' = Rows
      BY <2>2, <2>3, <3>1 DEF ChainInv, Rows
    <3>3. VersionsFormAChain'
      BY <2>2, <2>3, <3>1, <3>2 DEF ChainInv, VersionsFormAChain
    <3> QED
      BY <1>0, <1>6, <3>2, <3>3, OneRequestChanges
      DEF CommitRow, Finish, GoOn, ChainInv
  <2>4. CASE r.d \notin Rows
    <3>1. documents' = documents
      BY <2>2, <2>4 DEF Rows, ChainInv
    <3> QED
      BY <1>0, <1>6, <3>1, OneRequestChanges
      DEF CommitRow, Finish, GoOn, ChainInv, VersionsFormAChain, Rows
  <2> QED
    BY <2>3, <2>4
<1>7. ASSUME NEW w \in Workers, FailRequest(w) PROVE ChainInv'
  BY <1>0, <1>7, OneRequestChanges
  DEF FailRequest, Fail, Finish, GoOn, ChainInv, VersionsFormAChain, Rows
<1>8. ASSUME Restart PROVE ChainInv'
  BY <1>0, <1>8 DEF Restart, ChainInv, VersionsFormAChain, Rows
<1>9. ASSUME UNCHANGED vars PROVE ChainInv'
  BY <1>9 DEF vars, ChainInv, VersionsFormAChain, Rows
<1> QED
  BY <1>1, <1>2, <1>3, <1>4, <1>5, <1>6, <1>7, <1>8, <1>9 DEF Next

LEMMA ChainInitially == Init => ChainInv
<1> SUFFICES ASSUME Init PROVE ChainInv
  OBVIOUS
<1>1. request \in [Workers -> AnyRequest] /\ \A w \in Workers : LeavesChain(request[w])
  BY DEF Init, InitRequests, AnyRequest, LeavesChain, HasRow, Idle
<1>2. CASE documents = <<>> /\ written = 0
  BY <1>1, <1>2 DEF ChainInv, VersionsFormAChain, Rows
<1>3. ASSUME NEW name \in StoredName, written = 1,
             documents = <<[name |-> name, version |-> 1, supersedes |-> 0,
                            current |-> TRUE, digest |-> 1, status |-> "PENDING"]>>
      PROVE  ChainInv
  <2> DEFINE row == [name |-> name, version |-> 1, supersedes |-> 0,
                     current |-> TRUE, digest |-> 1, status |-> "PENDING"]
  <2>1. row \in Row
    BY DEF Row, VerificationStatus
  <2>2. documents \in Seq(Row) /\ Len(documents) = 1 /\ Rows = {1} /\ documents[1] = row
    BY <1>3, <2>1 DEF Rows
  <2> QED
    BY <1>1, <1>3, <2>2 DEF ChainInv, VersionsFormAChain
<1> QED
  BY <1>2, <1>3 DEF Init

\* However uploads, verifications, downloads and restarts overlap, the versions
\* form one chain that ends at the current one.
THEOREM HistoryStaysComplete == Spec => []VersionsFormAChain
<1>1. ChainInv => VersionsFormAChain
  BY DEF ChainInv
<1> QED
  BY <1>1, ChainInitially, ChainInductive, PTL DEF Spec

-----------------------------------------------------------------------------
(***************************************************************************)
(* Requests one by one: the row a request loaded is the stored one, what a *)
(* download that wrote a file will commit is the digest of that file, and  *)
(* every other file is described by its row.                               *)
(***************************************************************************)
Serving(d) == \E w \in Workers : request[w].op = "served" /\ request[w].d = d

Current(r) ==
    HasRow(r) =>
        /\ r.d \in Rows /\ r.loaded = documents[r.d]
        /\ r.op \in {"verify", "heal"} => r.assigned.digest = r.loaded.digest
        /\ r.op = "served" /\ disk[r.d] # NoFile => disk[r.d] = r.assigned.digest

DigestInv ==
    /\ DOMAIN disk = Rows
    /\ orderly =>
        /\ \A v, w \in Workers : request[v] # Idle /\ request[w] # Idle => v = w
        /\ \A w \in Workers : Current(request[w])
        /\ \A d \in Rows : disk[d] # NoFile /\ ~Serving(d) => disk[d] = documents[d].digest

LEMMA NothingServed ==
    ASSUME NEW w \in Workers, \A v \in Workers \ {w} : request[v] = Idle,
           request[w].op # "served", NEW d
    PROVE  ~Serving(d)
BY DEF Serving, Idle

LEMMA BeginsAlone ==
    ASSUME ChainInv, DigestInv, orderly, NEW w \in Workers, NEW r, Begin(w, r),
           documents' = documents, disk' = disk,
           Current(r),
           r.op = "served" => (disk[r.d] # NoFile => disk[r.d] = documents[r.d].digest)
    PROVE  DigestInv'
<1>1. \A v \in Workers : request[v] = Idle
  BY DEF Begin, AllIdle
<1>2. request'[w] = r /\ \A v \in Workers \ {w} : request'[v] = Idle
  BY <1>1 DEF Begin, ChainInv
<1>3. Current(Idle)
  BY DEF Current, HasRow, Idle
<1>4. \A v \in Workers : Current(request[v])'
  BY <1>2, <1>3 DEF Current, Rows
<1>5. \A d \in Rows : ~Serving(d)
  BY <1>1 DEF Serving, Idle
<1>6. \A v, u \in Workers : request'[v] # Idle /\ request'[u] # Idle => v = u
  BY <1>2
<1>7. \A d \in Rows : disk[d] # NoFile => disk[d] = documents[d].digest
  BY <1>5 DEF DigestInv
<1> QED
  BY <1>4, <1>6, <1>7 DEF DigestInv, Rows, Begin

\* A step of the only request under way ends it or goes on with r.
LEMMA GoesOnAlone ==
    ASSUME ChainInv, DigestInv, orderly, NEW w \in Workers, NEW r \in AnyRequest,
           request[w] # Idle, request' = [request EXCEPT ![w] = r]
    PROVE  /\ request'[w] = r
           /\ \A v \in Workers \ {w} : request[v] = Idle /\ request'[v] = Idle
           /\ \A v, u \in Workers : request'[v] # Idle /\ request'[u] # Idle => v = u
BY DEF ChainInv, DigestInv

LEMMA DigestInductive == ChainInv /\ DigestInv /\ [Next]_vars => DigestInv'
<1> SUFFICES ASSUME ChainInv, DigestInv, [Next]_vars PROVE DigestInv'
  OBVIOUS
<1> USE RowsOfChain
<1>a. Idle \in AnyRequest /\ Current(Idle) /\ Current(Idle)'
  BY DEF AnyRequest, Current, HasRow, Idle
<1>b. ChainInv'
  BY ChainInductive
<1>c. orderly' = orderly
  BY DEF Next, UploadDocument, FileDocument, VerifyDocument, DownloadDocument,
         WritePlaceholder, CommitRow, FailRequest, Restart, Begin, GoOn, Finish, Fail, vars
<1>1. ASSUME NEW w \in Workers, UploadDocument(w) PROVE DigestInv'
  <2>1. CASE orderly
    <3>1. Current([op |-> "upload"])
      BY DEF Current, HasRow
    <3> QED
      BY <1>1, <2>1, <3>1, BeginsAlone DEF UploadDocument
  <2>2. CASE ~orderly
    BY <1>1, <1>c, <2>2 DEF UploadDocument, DigestInv, Rows
  <2> QED
    BY <2>1, <2>2
<1>2. ASSUME NEW w \in Workers, FileDocument(w) PROVE DigestInv'
  <2> DEFINE new == documents'[Len(documents) + 1]
  <2>1. PICK row : /\ documents' = Append(Superseded, row)
                   /\ row.digest = written'
    BY <1>2 DEF FileDocument, Superseded
  <2>2. /\ Rows' = 1..(Len(documents) + 1)
        /\ \A d \in Rows : documents'[d] = Superseded[d]
        /\ documents'[Len(documents) + 1] = row
    <3>1. Superseded \in Seq(Row) /\ Len(Superseded) = Len(documents)
      BY SupersededRows
    <3> QED
      BY <2>1, <3>1 DEF Rows
  <2>3. /\ DOMAIN disk' = 1..(Len(documents) + 1)
        /\ \A d \in Rows : disk'[d] = disk[d]
        /\ disk'[Len(documents) + 1] = written'
    <3>1. Len(disk) = Len(documents)
      BY DEF DigestInv
    <3> QED
      BY <1>2, <3>1 DEF FileDocument, DigestInv
  <2>4. CASE orderly
    <3>1. request[w] # Idle /\ request[w].op = "upload" /\ request' = [request EXCEPT ![w] = Idle]
      BY <1>2 DEF FileDocument, Finish, GoOn, Idle
    <3>2. /\ \A v \in Workers : request'[v] = Idle
          /\ \A v \in Workers \ {w} : request[v] = Idle
      BY <1>a, <2>4, <3>1, GoesOnAlone
    <3>3. \A d \in Rows : ~Serving(d)
      BY <3>1, <3>2, NothingServed
    <3>4. ASSUME NEW d \in Rows' PROVE disk'[d] # NoFile => disk'[d] = documents'[d].digest
      <4>1. CASE d = Len(documents) + 1
        BY <2>1, <2>2, <2>3, <4>1
      <4>2. CASE d # Len(documents) + 1
        <5>1. d \in Rows
          BY <2>2, <4>2
        <5>2. documents'[d].digest = documents[d].digest
          BY <2>2, <5>1, SupersededRows
        <5> QED
          BY <2>3, <2>4, <3>3, <5>1, <5>2 DEF DigestInv
      <4> QED
        BY <4>1, <4>2
    <3>5. \A v \in Workers : Current(request[v])'
      BY <3>2 DEF Current, HasRow, Idle
    <3> QED
      BY <2>2, <2>3, <3>2, <3>4, <3>5 DEF DigestInv
  <2>5. CASE ~orderly
    BY <1>c, <2>2, <2>3, <2>5 DEF DigestInv
  <2> QED
    BY <2>4, <2>5
<1>3. ASSUME NEW w \in Workers, NEW d \in Rows, NEW verdict \in VerificationStatus,
             VerifyDocument(w, d, verdict)
      PROVE  DigestInv'
  <2> DEFINE r == [op |-> "verify", d |-> d, loaded |-> documents[d],
                   assigned |-> [documents[d] EXCEPT !.status = verdict]]
  <2>1. CASE orderly
    <3>1. Current(r)
      BY DEF Current, HasRow, Row
    <3> QED
      BY <1>3, <2>1, <3>1, BeginsAlone DEF VerifyDocument
  <2>2. CASE ~orderly
    BY <1>3, <1>c, <2>2 DEF VerifyDocument, DigestInv, Rows
  <2> QED
    BY <2>1, <2>2
<1>4. ASSUME NEW w \in Workers, NEW d \in Rows, DownloadDocument(w, d)
      PROVE  DigestInv'
  <2> DEFINE missing == disk[d] = NoFile
             r == [op |-> IF missing THEN "heal" ELSE "served", d |-> d,
                   loaded |-> documents[d],
                   assigned |-> [documents[d] EXCEPT !.name = "seed"]]
  <2>1. CASE orderly
    <3>1. \A v \in Workers : request[v] = Idle
      BY <1>4, <2>1 DEF DownloadDocument, Begin, AllIdle
    <3>2. ~Serving(d)
      BY <3>1 DEF Serving, Idle
    <3>3. disk[d] # NoFile => disk[d] = documents[d].digest
      BY <2>1, <3>2 DEF DigestInv
    <3>4. r.assigned.digest = documents[d].digest
      BY DEF Row
    <3>5. Current(r)
      BY <3>3, <3>4 DEF Current, HasRow
    <3>6. Begin(w, r) /\ documents' = documents /\ disk' = disk
      BY <1>4 DEF DownloadDocument
    <3> QED
      BY <2>1, <3>3, <3>5, <3>6, BeginsAlone
  <2>2. CASE ~orderly
    BY <1>4, <1>c, <2>2 DEF DownloadDocument, DigestInv, Rows
  <2> QED
    BY <2>1, <2>2
<1>5. ASSUME NEW w \in Workers, WritePlaceholder(w) PROVE DigestInv'
  <2>0. PICK q, r : q = request[w]
                    /\ r = [q EXCEPT !.op = "served", !.assigned.digest = written']
    OBVIOUS
  <2>1. DOMAIN disk' = Rows /\ Rows' = Rows /\ documents' = documents
    BY <1>5 DEF WritePlaceholder, DigestInv, Rows
  <2>2. CASE orderly
    <3>1. q \in RowRequest /\ HasRow(q) /\ Current(q) /\ q # Idle
      BY <1>5, <2>0, <2>2, RequestForms DEF WritePlaceholder, ChainInv, DigestInv, HasRow, Idle
    <3>2. q.d \in Rows
      BY <3>1 DEF Current
    <3>3. /\ r \in AnyRequest /\ r.op = "served" /\ r.d = q.d /\ r.loaded = q.loaded
          /\ r.assigned.digest = written'
      <4>1. written' \in Nat
        BY <1>b DEF ChainInv
      <4> QED
        BY <2>0, <3>1, <4>1 DEF RowRequest, AnyRequest, Row
    <3>4. request' = [request EXCEPT ![w] = r] /\ disk' = [disk EXCEPT ![q.d] = written']
      BY <1>5, <2>0 DEF WritePlaceholder, GoOn
    <3>5. /\ request'[w] = r
          /\ \A v \in Workers \ {w} : request[v] = Idle /\ request'[v] = Idle
          /\ \A v, u \in Workers : request'[v] # Idle /\ request'[u] # Idle => v = u
      BY <2>0, <2>2, <3>1, <3>3, <3>4, GoesOnAlone
    <3>6. Current(r)'
      BY <2>1, <3>1, <3>2, <3>3, <3>4 DEF Current, DigestInv
    <3>7. \A v \in Workers : Current(request[v])'
      <4>1. \A v \in Workers : request'[v] \in {r, Idle}
        BY <3>5
      <4> QED
        BY <1>a, <3>6, <4>1 DEF Current, HasRow, Idle
    <3>8. ASSUME NEW e \in Rows, ~Serving(e)', disk'[e] # NoFile
          PROVE  disk'[e] = documents'[e].digest
      <4>1. e # q.d
        BY <3>3, <3>5, <3>8 DEF Serving
      <4>2. ~Serving(e)
        BY <1>5, <3>5, NothingServed DEF WritePlaceholder
      <4> QED
        BY <2>1, <2>2, <3>2, <3>4, <3>8, <4>1, <4>2 DEF DigestInv
    <3> QED
      BY <2>1, <3>5, <3>7, <3>8 DEF DigestInv
  <2>3. CASE ~orderly
    BY <1>c, <2>1, <2>3 DEF DigestInv
  <2> QED
    BY <2>2, <2>3
<1>6. ASSUME NEW w \in Workers, CommitRow(w) PROVE DigestInv'
  <2> DEFINE r == request[w]
             row == WrittenRow(documents[r.d], r.loaded, r.assigned)
  <2>1. documents' = [documents EXCEPT ![r.d] = row] /\ disk' = disk
    BY <1>6 DEF CommitRow
  <2>2. DOMAIN disk' = Rows' /\ Rows' = Rows
    BY <2>1 DEF DigestInv, Rows, ChainInv
  <2>3. CASE orderly
    <3>1. r \in RowRequest /\ HasRow(r) /\ Current(r) /\ r # Idle
      BY <1>6, <2>3, RequestForms DEF CommitRow, ChainInv, DigestInv, HasRow, Idle
    <3>2. r.d \in Rows /\ r.loaded = documents[r.d]
      BY <3>1 DEF Current
    <3>3. row.digest = r.assigned.digest
      BY <3>1, <3>2, WrittenDocument DEF RowRequest, Written
    <3>4. request' = [request EXCEPT ![w] = Idle]
      BY <1>6 DEF CommitRow, Finish, GoOn
    <3> HIDE DEF row, r
    <3>5. /\ \A v \in Workers : request'[v] = Idle
          /\ \A v \in Workers \ {w} : request[v] = Idle
      BY <1>a, <2>3, <3>1, <3>4, GoesOnAlone DEF r
    <3>6. ASSUME NEW e \in Rows, disk[e] # NoFile PROVE disk'[e] = documents'[e].digest
      <4>1. CASE e = r.d /\ r.op = "served"
        BY <2>1, <3>1, <3>2, <3>3, <3>6, <4>1 DEF Current
      <4>2. CASE e = r.d /\ r.op # "served"
        <5>1. ~Serving(e)
          BY <3>5, <4>2, NothingServed DEF r
        <5>2. r.assigned.digest = documents[e].digest
          BY <3>1, <3>2, <4>2 DEF Current, HasRow
        <5> QED
          BY <2>1, <2>3, <3>2, <3>3, <3>6, <4>2, <5>1, <5>2 DEF DigestInv
      <4>3. CASE e # r.d
        <5>1. ~Serving(e)
          BY <3>5, <4>3 DEF Serving, Idle, r
        <5> QED
          BY <2>1, <2>3, <3>6, <4>3, <5>1 DEF DigestInv
      <4> QED
        BY <4>1, <4>2, <4>3
    <3>7. \A v \in Workers : Current(request[v])'
      BY <3>5 DEF Current, HasRow, Idle
    <3> QED
      BY <2>1, <2>2, <3>5, <3>6, <3>7 DEF DigestInv
  <2>4. CASE ~orderly
    BY <1>c, <2>2, <2>4 DEF DigestInv
  <2> QED
    BY <2>3, <2>4
<1>7. ASSUME NEW w \in Workers, FailRequest(w) PROVE DigestInv'
  BY <1>7 DEF FailRequest, Fail, Finish, GoOn, DigestInv, Rows
<1>8. ASSUME Restart PROVE DigestInv'
  BY <1>8, <1>a DEF Restart, DigestInv, Rows, Current, HasRow, Idle
<1>9. ASSUME UNCHANGED vars PROVE DigestInv'
  BY <1>9 DEF vars, DigestInv, Rows, Current, Serving
<1> QED
  BY <1>1, <1>2, <1>3, <1>4, <1>5, <1>6, <1>7, <1>8, <1>9 DEF Next

LEMMA DigestInitially == Init => DigestInv
<1> SUFFICES ASSUME Init PROVE DigestInv
  OBVIOUS
<1>1. \A w \in Workers : request[w] = Idle
  BY DEF Init, InitRequests
<1>2. \A w \in Workers : Current(request[w])
  BY <1>1 DEF Current, HasRow, Idle
<1>3. CASE documents = <<>> /\ disk = <<>>
  BY <1>1, <1>2, <1>3 DEF DigestInv, Rows
<1>4. ASSUME NEW name \in StoredName, disk = <<IF name = "seed" THEN 1 ELSE NoFile>>,
             documents = <<[name |-> name, version |-> 1, supersedes |-> 0,
                            current |-> TRUE, digest |-> 1, status |-> "PENDING"]>>
      PROVE  DigestInv
  <2>1. Rows = {1} /\ DOMAIN disk = {1} /\ documents[1].digest = 1
        /\ disk[1] \in {1, NoFile}
    BY <1>4 DEF Rows
  <2> QED
    BY <1>1, <1>2, <2>1 DEF DigestInv
<1> QED
  BY <1>3, <1>4 DEF Init

LEMMA DigestsAtRest == DigestInv => DigestDescribesFile
BY DEF DigestInv, DigestDescribesFile, AllIdle, Serving, Idle

\* When requests come one by one, a file at rest is the one its row has the
\* digest of, however often the disk was emptied and filled again.
THEOREM DigestsFollowFiles == Spec => []DigestDescribesFile
BY ChainInitially, ChainInductive, DigestInitially, DigestInductive, DigestsAtRest, PTL
DEF Spec
-----------------------------------------------------------------------------
\* Rows within the bounds.

LEMMA RowInBounds ==
    ASSUME NEW row \in Row
    PROVE  row \in DocumentRow <=> row.digest \in Contents
<1>1. ASSUME row \in DocumentRow PROVE row.digest \in Contents
  BY <1>1 DEF DocumentRow
<1>2. ASSUME row.digest \in Contents PROVE row \in DocumentRow
  BY <1>2 DEF DocumentRow, Row
<1> QED
  BY <1>1, <1>2

LEMMA RowsInBounds ==
    ASSUME MaxContents \in Nat
    PROVE  DocumentRow \subseteq Row
BY DEF DocumentRow, Row, Contents

\* What the UPDATE of a version leaves is within the bounds.
LEMMA WrittenInBounds ==
    ASSUME MaxContents \in Nat, NEW stored \in DocumentRow, NEW loaded \in DocumentRow,
           NEW assigned \in DocumentRow
    PROVE  WrittenRow(stored, loaded, assigned) \in DocumentRow
<1> DEFINE row == WrittenRow(stored, loaded, assigned)
<1>1. stored \in Row /\ loaded \in Row /\ assigned \in Row
  BY RowsInBounds
<1>2. row \in Row /\ row.digest = Written(stored.digest, loaded.digest, assigned.digest)
  BY <1>1, WrittenDocument
<1>3. row.digest \in Contents
  BY <1>2 DEF Written, DocumentRow
<1> HIDE DEF row
<1>4. row \in DocumentRow
  BY <1>2, <1>3, RowInBounds
<1> QED
  BY <1>4 DEF row

\* What an upload makes of the rows is within the bounds.
LEMMA SupersededInBounds ==
    ASSUME ChainInv, documents \in Seq(DocumentRow)
    PROVE  Superseded \in Seq(DocumentRow) /\ Len(Superseded) = Len(documents)
<1>1. /\ Superseded \in Seq(Row) /\ Len(Superseded) = Len(documents)
      /\ Rows = 1..Len(documents) /\ Len(documents) \in Nat
  BY SupersededRows, RowsOfChain
<1>2. ASSUME NEW d \in 1..Len(documents) PROVE Superseded[d] \in DocumentRow
  <2>1. Superseded[d] \in Row /\ Superseded[d].digest = documents[d].digest
    BY <1>1, <1>2, SupersededRows, ElementOfSeq
  <2>2. documents[d].digest \in Contents
    <3>1. documents[d] \in DocumentRow
      BY <1>2, ElementOfSeq
    <3> QED
      BY <3>1 DEF DocumentRow
  <2> QED
    BY <2>1, <2>2, RowInBounds
<1>3. Superseded = [d \in 1..Len(documents) |-> Superseded[d]]
  BY <1>1 DEF Superseded
<1>4. Superseded \in [1..Len(documents) -> DocumentRow]
  BY <1>2, <1>3
<1>5. \A n \in Nat : [1..n -> DocumentRow] \subseteq Seq(DocumentRow)
  OBVIOUS
<1> QED
  BY <1>1, <1>4, <1>5

LEMMA TypesInductive ==
    ASSUME MaxVersions \in Nat, MaxContents \in Nat, ChainInv, TypeOK, [Next]_vars
    PROVE  TypeOK'
<1> USE DEF RequestsOK, Finish, GoOn, Begin
<1>t. /\ orderly \in BOOLEAN
      /\ request \in [Workers -> {Idle} \cup Request]
      /\ documents \in Seq(DocumentRow) /\ Len(documents) <= MaxVersions
      /\ Len(documents) \in Nat /\ Rows = 1..Len(documents)
      /\ disk \in [Rows -> Contents] /\ written \in Contents
      /\ MaxVersions \in Nat /\ MaxContents \in Nat
  BY DEF TypeOK, Rows
<1>d. ASSUME NEW d \in Rows PROVE d \in Id /\ documents[d] \in DocumentRow
  <2>1. documents[d] \in DocumentRow
    BY <1>t, ElementOfSeq
  <2> QED
    BY <1>t, <2>1 DEF Id
<1>f. ASSUME NEW r \in {Idle} \cup Request, HasRow(r)
      PROVE  r \in [op : {"verify", "heal", "served"}, d : Id, loaded : DocumentRow,
                    assigned : DocumentRow]
  BY <1>f DEF Request, Idle, HasRow
\* A request changes, and no row.
<1>k. ASSUME NEW w \in Workers, NEW r \in {Idle} \cup Request,
             request' = [request EXCEPT ![w] = r],
             UNCHANGED <<orderly, documents, disk, written>>
      PROVE  TypeOK'
  BY <1>k, <1>t DEF TypeOK, Rows
<1>1. ASSUME NEW w \in Workers, UploadDocument(w) PROVE TypeOK'
  <2>1. [op |-> "upload"] \in Request
    BY DEF Request
  <2> QED
    BY <1>1, <1>k, <2>1 DEF UploadDocument
<1>2. ASSUME NEW w \in Workers, FileDocument(w) PROVE TypeOK'
  <2> DEFINE new == [name |-> "upload",
                     version |-> IF Previous = 0 THEN 1 ELSE documents[Previous].version + 1,
                     supersedes |-> Previous, current |-> TRUE,
                     digest |-> written', status |-> "PENDING"]
  <2>1. written' \in Contents
    BY <1>2, <1>t DEF FileDocument, Contents
  <2>2. Previous \in Nat /\ (Previous # 0 => Previous \in Rows)
    BY <1>t, RowsOfChain
  <2>3. new.version \in Nat
    BY <1>d, <2>2 DEF DocumentRow
  <2>4. new \in DocumentRow
    BY <2>1, <2>2, <2>3 DEF DocumentRow, StoredName, VerificationStatus
  <2>5. documents' = Append(Superseded, new)
    BY <1>2 DEF FileDocument, Superseded
  <2> HIDE DEF new
  <2>6. documents' \in Seq(DocumentRow) /\ Len(documents') = Len(documents) + 1
    BY <1>t, <2>4, <2>5, SupersededInBounds, AppendProperties
  <2>7. disk' \in [Rows' -> Contents]
    <3>1. disk \in Seq(Contents) /\ Len(disk) = Len(documents)
      BY <1>t
    <3>2. disk' = Append(disk, written')
      BY <1>2 DEF FileDocument
    <3>3. disk' \in Seq(Contents) /\ Len(disk') = Len(documents) + 1
      BY <2>1, <3>1, <3>2, AppendProperties
    <3>4. disk' \in [1..Len(documents) + 1 -> Contents]
      BY <3>3, <1>t
    <3>5. Rows' = 1..Len(documents) + 1
      BY <1>t, <2>6 DEF Rows
    <3> QED
      BY <3>4, <3>5
  <2>8. /\ orderly' = orderly /\ request' = [request EXCEPT ![w] = Idle]
        /\ Len(documents') <= MaxVersions
    BY <1>2, <1>t, <2>6 DEF FileDocument
  <2> QED
    BY <1>t, <2>1, <2>6, <2>7, <2>8 DEF TypeOK
<1>3. ASSUME NEW w \in Workers, NEW d \in Rows, NEW verdict \in VerificationStatus,
             VerifyDocument(w, d, verdict)
      PROVE  TypeOK'
  <2> DEFINE r == [op |-> "verify", d |-> d, loaded |-> documents[d],
                   assigned |-> [documents[d] EXCEPT !.status = verdict]]
  <2>1. r \in Request
    BY <1>d DEF Request, DocumentRow
  <2> HIDE DEF r
  <2>2. request' = [request EXCEPT ![w] = r] /\ UNCHANGED <<orderly, documents, disk, written>>
    BY <1>3 DEF VerifyDocument, r
  <2> QED
    BY <1>k, <2>1, <2>2
<1>4. ASSUME NEW w \in Workers, NEW d \in Rows, DownloadDocument(w, d) PROVE TypeOK'
  <2> DEFINE r(op) == [op |-> op, d |-> d, loaded |-> documents[d],
                       assigned |-> [documents[d] EXCEPT !.name = "seed"]]
  <2>1. PICK op \in {"heal", "served"} : request' = [request EXCEPT ![w] = r(op)]
    BY <1>4 DEF DownloadDocument
  <2>2. r(op) \in Request
    BY <1>d DEF Request, DocumentRow, StoredName
  <2>3. UNCHANGED <<orderly, documents, disk, written>>
    BY <1>4 DEF DownloadDocument
  <2> HIDE DEF r
  <2> QED
    BY <1>k, <2>1, <2>2, <2>3
<1>5. ASSUME NEW w \in Workers, WritePlaceholder(w) PROVE TypeOK'
  <2> DEFINE r == [request[w] EXCEPT !.op = "served", !.assigned.digest = written']
  <2>1. written' \in Contents
    BY <1>5, <1>t DEF WritePlaceholder, Contents
  <2>2. request[w] \in [op : {"verify", "heal", "served"}, d : Id, loaded : DocumentRow,
                        assigned : DocumentRow]
    BY <1>5, <1>f, <1>t DEF WritePlaceholder, HasRow
  <2>3. r \in Request
    BY <2>1, <2>2 DEF Request, DocumentRow
  <2>4. /\ request' = [request EXCEPT ![w] = r] /\ UNCHANGED <<orderly, documents>>
        /\ disk' = [disk EXCEPT ![request[w].d] = written']
    BY <1>5 DEF WritePlaceholder
  <2> HIDE DEF r
  <2>5. disk' \in [Rows' -> Contents]
    BY <1>t, <2>1, <2>4 DEF Rows
  <2> QED
    BY <1>t, <2>1, <2>3, <2>4, <2>5 DEF TypeOK
<1>6. ASSUME NEW w \in Workers, CommitRow(w) PROVE TypeOK'
  <2> DEFINE r == request[w]
             row == WrittenRow(documents[r.d], r.loaded, r.assigned)
  <2>1. r.loaded \in DocumentRow /\ r.assigned \in DocumentRow
    BY <1>6, <1>f, <1>t DEF CommitRow, HasRow
  <2>2. ASSUME r.d \in Rows PROVE row \in DocumentRow
    BY <1>d, <2>1, <2>2, WrittenInBounds
  <2>3. /\ documents' = [documents EXCEPT ![r.d] = row]
        /\ request' = [request EXCEPT ![w] = Idle] /\ UNCHANGED <<orderly, disk, written>>
    BY <1>6 DEF CommitRow
  <2> HIDE DEF row, r
  <2>4. documents' \in Seq(DocumentRow) /\ Len(documents') = Len(documents)
    <3>1. CASE r.d \in Rows
      BY <1>t, <2>2, <2>3, <3>1, ExceptSeq
    <3>2. CASE r.d \notin Rows
      <4>1. documents' = documents
        BY <1>t, <2>3, <3>2 DEF Rows
      <4> QED
        BY <1>t, <4>1
    <3> QED
      BY <3>1, <3>2
  <2>5. Rows' = Rows
    BY <1>t, <2>4 DEF Rows
  <2> QED
    BY <1>t, <2>3, <2>4, <2>5 DEF TypeOK
<1>7. ASSUME NEW w \in Workers, FailRequest(w) PROVE TypeOK'
  BY <1>7, <1>k DEF FailRequest, Fail
<1>8. ASSUME Restart PROVE TypeOK'
  <2>1. disk' \in [Rows' -> Contents]
    BY <1>8, <1>t DEF Restart, Rows, Contents, NoFile
  <2>2. request' \in [Workers -> {Idle} \cup Request]
    BY <1>8 DEF Restart
  <2> QED
    BY <1>8, <1>t, <2>1, <2>2 DEF Restart, TypeOK
<1>9. ASSUME UNCHANGED vars PROVE TypeOK'
  BY <1>9, <1>t DEF vars, TypeOK, Rows
<1> QED
  BY <1>1, <1>2, <1>3, <1>4, <1>5, <1>6, <1>7, <1>8, <1>9 DEF Next

LEMMA TypesInitially ==
    ASSUME MaxVersions \in Nat \ {0}, MaxContents \in Nat \ {0}, orderly \in BOOLEAN, Init
    PROVE  TypeOK
<1>1. request \in [Workers -> {Idle} \cup Request]
  BY DEF Init, InitRequests
<1>2. CASE documents = <<>> /\ disk = <<>> /\ written = 0
  BY <1>1, <1>2 DEF TypeOK, RequestsOK, Rows, Contents
<1>3. ASSUME NEW name \in StoredName, NEW content \in {1, NoFile}, written = 1,
             documents = <<[name |-> name, version |-> 1, supersedes |-> 0,
                            current |-> TRUE, digest |-> 1, status |-> "PENDING"]>>,
             disk = <<content>>
      PROVE  TypeOK
  <2> DEFINE row == [name |-> name, version |-> 1, supersedes |-> 0,
                     current |-> TRUE, digest |-> 1, status |-> "PENDING"]
  <2>1. row \in DocumentRow /\ content \in Contents /\ 1 \in Contents
    BY <1>3 DEF DocumentRow, Contents, VerificationStatus, NoFile
  <2> HIDE DEF row
  <2>2. documents \in Seq(DocumentRow) /\ Len(documents) = 1 /\ Rows = {1}
    BY <1>3, <2>1 DEF Rows, row
  <2>3. disk \in [{1} -> Contents]
    BY <1>3, <2>1
  <2> QED
    BY <1>1, <1>3, <2>1, <2>2, <2>3 DEF TypeOK, RequestsOK
<1> QED
  BY <1>2, <1>3 DEF Init
=============================================================================
