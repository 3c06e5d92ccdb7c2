--------------------------- MODULE ProposalsProofs ---------------------------
(***************************************************************************)
(* Theorems about Proposals, for any sets of threads, proposals, states    *)
(* and offices and any number of moves and edits.  Until the last section, *)
(* what a number may be is nothing the argument needs: rows and requests   *)
(* are only asked for their statuses.                                      *)
(***************************************************************************)
EXTENDS Proposals, SequenceTheorems, FiniteSetTheorems, WellFoundedInduction, TLAPS

HasStatus(row) == "status" \in DOMAIN row /\ row.status \in ProposalStatus

Pending(w, op) == request[w].op = op

\* A move under way is one that its actor's office may make.
MoveOK(r) ==
    /\ DOMAIN r = {"op", "p", "by", "loaded", "assigned"}
    /\ HasStatus(r.loaded) /\ HasStatus(r.assigned)
    /\ r.by \in Role \cap MayMove(r.loaded.status, r.assigned.status)

\* A draft that is being inserted is not there, and any other request is about
\* a proposal that is.
RequestOK(r) ==
    /\ r.op \in {"create", "edit", "sanction", "move", "open"} => r.p \in Proposals
    /\ r.op = "create" => r.p \notin Opened
    /\ r.op \in {"edit", "sanction", "move", "open"} => r.p \in Opened
    /\ r.op = "edit" => r.assigned.status = r.loaded.status
    /\ r.op \in {"sanction", "move", "open"} => MoveOK(r)

RequestsInv ==
    /\ request = [w \in Workers |-> request[w]]
    /\ \A w \in Workers : RequestOK(request[w])
    /\ \A v, w \in Workers :
          Pending(v, "create") /\ Pending(w, "create") /\ request[v].p = request[w].p => v = w

\* The file history of a proposal ends where the proposal is.
FileOK(row, file) ==
    /\ HasStatus(row) /\ file \in Seq(ReviewRow)
    /\ row.status = "ABSENT" <=> file = <<>>
    /\ file # <<>> => file[Len(file)].to = row.status
    /\ \A i \in 2..Len(file) : file[i].by \in MayMove(file[i].from, file[i].to)

FileInv ==
    /\ proposal = [p \in Proposals |-> proposal[p]]
    /\ reviews = [p \in Proposals |-> reviews[p]]
    /\ \A p \in Proposals : FileOK(proposal[p], reviews[p])

HistoryInv == FileInv /\ RequestsInv

LEMMA MovesChangeStatus ==
    ASSUME NEW from, NEW to, MayMove(from, to) # {}
    PROVE  from # to /\ from # "ABSENT" /\ to # "ABSENT"
BY DEF MayMove

\* A row of the file history that ends where the proposal goes.
LEMMA FileGrows ==
    ASSUME NEW row, NEW file, NEW new, NEW review \in ReviewRow, FileOK(row, file),
           HasStatus(new), new.status = review.to, review.to # "ABSENT",
           file # <<>> => review.by \in MayMove(review.from, review.to)
    PROVE  FileOK(new, Append(file, review))
<1> DEFINE longer == Append(file, review)
<1>1. /\ longer \in Seq(ReviewRow) /\ longer # <<>> /\ Len(longer) = Len(file) + 1
      /\ \A i \in 1..Len(file) : longer[i] = file[i]
      /\ longer[Len(file) + 1] = review
  BY AppendProperties DEF FileOK
<1> HIDE DEF longer
<1>2. ASSUME NEW i \in 2..Len(longer) PROVE longer[i].by \in MayMove(longer[i].from, longer[i].to)
  <2>1. Len(file) \in Nat
    BY DEF FileOK
  <2>2. CASE i = Len(file) + 1
    <3>1. file # <<>>
      BY <2>1, <2>2, <1>2
    <3> QED
      BY <1>1, <2>2, <3>1
  <2>3. CASE i # Len(file) + 1
    <3>1. i \in 2..Len(file)
      BY <1>1, <2>1, <2>3
    <3> QED
      BY <1>1, <3>1 DEF FileOK
  <2> QED
    BY <2>2, <2>3
<1>3. longer[Len(longer)].to = new.status
  BY <1>1
<1> QED
  BY <1>1, <1>2, <1>3 DEF FileOK, longer

\* One request changes and what is opened stays opened.
LEMMA OneRequestChanges ==
    ASSUME HistoryInv, NEW w \in Workers, NEW r, request' = [request EXCEPT ![w] = r],
           RequestOK(r)', Opened \subseteq Opened',
           \A v \in Workers \ {w} : Pending(v, "create") =>
               /\ request[v].p \notin Opened'
               /\ r.op = "create" => request[v].p # r.p
    PROVE  RequestsInv'
<1>1. request'[w] = r /\ \A v \in Workers \ {w} : request'[v] = request[v]
  BY DEF HistoryInv, RequestsInv
<1>2. request' = [v \in Workers |-> request'[v]]
  BY DEF HistoryInv, RequestsInv
<1>3. ASSUME NEW v \in Workers PROVE RequestOK(request[v])'
  <2>1. CASE v = w
    BY <1>1, <2>1 DEF RequestOK
  <2>2. CASE v # w
    BY <1>1, <2>2 DEF HistoryInv, RequestsInv, RequestOK, Pending
  <2> QED
    BY <2>1, <2>2
<1>4. ASSUME NEW u \in Workers, NEW v \in Workers, Pending(u, "create")',
             Pending(v, "create")', request'[u].p = request'[v].p
      PROVE  u = v
  BY <1>1, <1>4 DEF HistoryInv, RequestsInv, Pending
<1> QED
  BY <1>2, <1>3, <1>4 DEF RequestsInv

LEMMA HistoryInductive == HistoryInv /\ [Next]_vars => HistoryInv'
<1> SUFFICES ASSUME HistoryInv, [Next]_vars PROVE HistoryInv'
  OBVIOUS
<1> USE DEF Begin, Finish
<1>a. RequestOK(Idle)'
  BY DEF RequestOK, Idle
<1>b. ASSUME NEW w \in Workers, NEW r, request' = [request EXCEPT ![w] = r],
             RequestOK(r), r.op # "create",
             proposal' = proposal, reviews' = reviews
      PROVE  HistoryInv'
  <2>1. RequestOK(r)' /\ Opened' = Opened
    BY <1>b DEF RequestOK, Opened
  <2>2. RequestsInv'
    BY <1>b, <2>1, OneRequestChanges DEF HistoryInv, RequestsInv, RequestOK, Pending
  <2> QED
    BY <1>b, <2>2 DEF HistoryInv, FileInv
<1>1. ASSUME NEW w \in Workers, NEW p \in Proposals, NEW s \in States, CreateProposal(w, p, s)
      PROVE  HistoryInv'
  <2>1. PICK number : request' = [request EXCEPT ![w] =
            [op |-> "create", p |-> p, state |-> s, number |-> number]]
    BY <1>1 DEF CreateProposal
  <2> DEFINE r == [op |-> "create", p |-> p, state |-> s, number |-> number]
  <2>2. RequestOK(r)' /\ Opened' = Opened
    BY <1>1 DEF CreateProposal, RequestOK, Opened
  <2>3. \A v \in Workers : Pending(v, "create") => request[v].p \notin Opened' /\ request[v].p # p
    BY <1>1, <2>2 DEF CreateProposal, HistoryInv, RequestsInv, RequestOK, Pending
  <2>4. RequestsInv'
    BY <2>1, <2>2, <2>3, OneRequestChanges
  <2> QED
    BY <1>1, <2>4 DEF CreateProposal, HistoryInv, FileInv
<1>2. ASSUME NEW w \in Workers, CommitCreate(w) PROVE HistoryInv'
  <2>1. PICK q, review :
            /\ q = request[w]
            /\ review = [from |-> "ABSENT", to |-> "DRAFT", by |-> "REQUIRING_BODY"]
    OBVIOUS
  <2>2. PICK p, new :
            /\ p = q.p
            /\ new = [status |-> "DRAFT", content |-> 0, state |-> q.state,
                      numberedIn |-> q.state, number |-> q.number, case |-> NoCase]
    OBVIOUS
  <2>3. /\ proposal' = [proposal EXCEPT ![p] = new]
        /\ reviews' = [reviews EXCEPT ![p] = Append(@, review)]
    BY <1>2, <2>1, <2>2 DEF CommitCreate, Reviewed
  <2>4. new.status = "DRAFT" /\ "status" \in DOMAIN new
    BY <2>2
  <2>5. p \in Proposals \ Opened /\ Pending(w, "create")
    BY <1>2, <2>1, <2>2 DEF CommitCreate, HistoryInv, RequestsInv, RequestOK, Pending
  <2>6. reviews[p] = <<>>
    BY <2>5 DEF HistoryInv, FileInv, FileOK, Opened
  <2>7. review \in ReviewRow /\ HasStatus(new)
    BY <2>1, <2>4 DEF ReviewRow, ProposalStatus, Role, HasStatus
  <2>8. FileOK(new, Append(reviews[p], review))
    BY <2>1, <2>4, <2>5, <2>6, <2>7, FileGrows DEF HistoryInv, FileInv
  <2>9. FileInv'
    BY <2>3, <2>5, <2>8 DEF HistoryInv, FileInv
  <2>10. Opened' = Opened \cup {p}
    BY <2>3, <2>4, <2>5 DEF Opened, HistoryInv, FileInv
  <2>11. RequestsInv'
    BY <1>a, <1>2, <2>1, <2>2, <2>5, <2>10, OneRequestChanges
    DEF CommitCreate, HistoryInv, RequestsInv, RequestOK, Pending, Idle
  <2> QED
    BY <2>9, <2>11 DEF HistoryInv
<1>3. ASSUME NEW w \in Workers, NEW p \in Proposals, NEW s \in States, UpdateProposal(w, p, s)
      PROVE  HistoryInv'
  <2> DEFINE r == [op |-> "edit", p |-> p, loaded |-> proposal[p],
                   assigned |-> [proposal[p] EXCEPT !.content = @ + 1, !.state = s]]
  <2>1. RequestOK(r)
    BY <1>3 DEF UpdateProposal, RequestOK, Opened, HistoryInv, FileInv, FileOK, HasStatus
  <2> QED
    BY <1>3, <1>b, <2>1 DEF UpdateProposal
<1>4. ASSUME NEW w \in Workers, CommitEdit(w) PROVE HistoryInv'
  <2>1. PICK p, new :
            /\ p = request[w].p
            /\ new = WrittenRow(proposal[p], request[w].loaded, request[w].assigned)
            /\ proposal' = [proposal EXCEPT ![p] = new]
    BY <1>4 DEF CommitEdit
  <2>2. p \in Opened /\ p \in Proposals /\ request[w].assigned.status = request[w].loaded.status
    BY <1>4, <2>1 DEF CommitEdit, HistoryInv, RequestsInv, RequestOK
  <2>3. HasStatus(new) /\ new.status = proposal[p].status
    BY <2>1, <2>2 DEF HistoryInv, FileInv, FileOK, HasStatus, WrittenRow, Written
  <2>4. FileInv' /\ Opened' = Opened
    <3>1. FileOK(new, reviews[p])
      BY <2>2, <2>3 DEF HistoryInv, FileInv, FileOK
    <3>2. FileInv'
      BY <1>4, <2>1, <2>2, <3>1 DEF CommitEdit, HistoryInv, FileInv
    <3>3. Opened' = Opened
      BY <2>1, <2>2, <2>3 DEF HistoryInv, FileInv, Opened
    <3> QED
      BY <3>2, <3>3
  <2>5. RequestsInv'
    BY <1>a, <1>4, <2>4, OneRequestChanges
    DEF CommitEdit, HistoryInv, RequestsInv, RequestOK, Pending, Idle
  <2> QED
    BY <2>4, <2>5 DEF HistoryInv
<1>5. ASSUME NEW w \in Workers, NEW p \in Proposals, NEW to \in ProposalStatus,
             NEW role \in Roles, TransitionProposal(w, p, to, role)
      PROVE  HistoryInv'
  <2>1. PICK op \in {"sanction", "move"} : request' = [request EXCEPT ![w] =
            [op |-> op, p |-> p, by |-> role, loaded |-> proposal[p],
             assigned |-> [proposal[p] EXCEPT !.status = to]]]
    BY <1>5 DEF TransitionProposal
  <2> DEFINE r == [op |-> op, p |-> p, by |-> role, loaded |-> proposal[p],
                   assigned |-> [proposal[p] EXCEPT !.status = to]]
  <2>2. HasStatus(proposal[p]) /\ role \in MayMove(proposal[p].status, to) /\ role \in Role
    BY <1>5, RolesAssumption DEF TransitionProposal, HistoryInv, FileInv, FileOK
  <2>3. r.assigned.status = to /\ HasStatus(r.assigned)
    BY <2>2 DEF HasStatus
  <2>4. p \in Opened
    BY <2>2, MovesChangeStatus DEF Opened
  <2>5. MoveOK(r)
    BY <2>2, <2>3 DEF MoveOK
  <2>6. RequestOK(r)
    BY <2>4, <2>5 DEF RequestOK
  <2> QED
    BY <1>5, <1>b, <2>1, <2>6 DEF TransitionProposal
<1>6. ASSUME NEW w \in Workers, SanctionToCase(w) PROVE HistoryInv'
  <2>1. PICK q, number : /\ q = request[w] /\ q.op = "sanction"
                         /\ request' = [request EXCEPT ![w] =
                                [q EXCEPT !.op = "open", !.assigned.case = number]]
    BY <1>6 DEF SanctionToCase
  <2> DEFINE r == [q EXCEPT !.op = "open", !.assigned.case = number]
  <2>2. RequestOK(q) /\ MoveOK(q)
    BY <2>1 DEF HistoryInv, RequestsInv, RequestOK
  <2>3. /\ DOMAIN r = {"op", "p", "by", "loaded", "assigned"}
        /\ r.op = "open" /\ r.p = q.p /\ r.by = q.by /\ r.loaded = q.loaded
        /\ r.assigned = [q.assigned EXCEPT !.case = number]
    BY <2>2 DEF MoveOK
  <2>4. r.assigned.status = q.assigned.status /\ HasStatus(r.assigned)
    BY <2>2, <2>3 DEF MoveOK, HasStatus
  <2>5. MoveOK(r)
    BY <2>2, <2>3, <2>4 DEF MoveOK
  <2>6. RequestOK(r) /\ r.op # "create"
    BY <2>1, <2>2, <2>3, <2>5 DEF RequestOK
  <2> QED
    BY <1>6, <1>b, <2>1, <2>6 DEF SanctionToCase
<1>7. ASSUME NEW w \in Workers, CommitMove(w) PROVE HistoryInv'
  <2>1. PICK p, q, new, review :
            /\ p = q.p /\ q = request[w]
            /\ new = WrittenRow(proposal[p], q.loaded, q.assigned)
            /\ proposal' = [proposal EXCEPT ![p] = new]
            /\ review = [from |-> q.loaded.status, to |-> q.assigned.status, by |-> q.by]
            /\ reviews' = [reviews EXCEPT ![p] = Append(@, review)]
    BY <1>7 DEF CommitMove, Reviewed
  <2>2. p \in Opened /\ p \in Proposals /\ MoveOK(q)
    BY <1>7, <2>1 DEF CommitMove, HistoryInv, RequestsInv, RequestOK
  <2>3. q.loaded.status # q.assigned.status /\ q.assigned.status # "ABSENT"
    BY <2>2, MovesChangeStatus DEF MoveOK
  <2>4. HasStatus(new) /\ new.status = q.assigned.status
    BY <2>1, <2>2, <2>3
    DEF HistoryInv, FileInv, FileOK, HasStatus, MoveOK, WrittenRow, Written
  <2>5. review \in ReviewRow
    BY <2>1, <2>2 DEF ReviewRow, MoveOK, HasStatus
  <2>6. FileOK(new, Append(reviews[p], review))
    BY <2>1, <2>2, <2>3, <2>4, <2>5, FileGrows DEF HistoryInv, FileInv, MoveOK
  <2>7. FileInv' /\ Opened' = Opened
    BY <2>1, <2>2, <2>3, <2>4, <2>6 DEF HistoryInv, FileInv, Opened
  <2>8. RequestsInv'
    BY <1>a, <1>7, <2>7, OneRequestChanges
    DEF CommitMove, HistoryInv, RequestsInv, RequestOK, Pending, Idle
  <2> QED
    BY <2>7, <2>8 DEF HistoryInv
<1>8. ASSUME NEW w \in Workers, SanctionRefused(w) \/ NumberTaken(w) PROVE HistoryInv'
  BY <1>8, <1>b DEF SanctionRefused, NumberTaken, RequestOK, Idle
<1>9. ASSUME UNCHANGED vars PROVE HistoryInv'
  BY <1>9 DEF vars, HistoryInv, FileInv, RequestsInv, RequestOK, Opened, Pending
<1> QED
  BY <1>1, <1>2, <1>3, <1>4, <1>5, <1>6, <1>7, <1>8, <1>9 DEF Next

LEMMA HistoryInitially == Init => HistoryInv
<1> SUFFICES ASSUME Init PROVE HistoryInv
  OBVIOUS
<1>1. FileInv
  BY DEF Init, FileInv, FileOK, HasStatus, ProposalStatus
<1>2. RequestsInv
  BY DEF Init, RequestsInv, RequestOK, Pending, Idle
<1> QED
  BY <1>1, <1>2 DEF HistoryInv

\* However requests overlap, a proposal is where the last row of its file history
\* took it, and every row is a hand-off its actor's office may make.
THEOREM FileHistoryTellsStatus == Spec => []StatusEndsFileHistory
<1>1. HistoryInv => StatusEndsFileHistory
  BY DEF HistoryInv, FileInv, FileOK, StatusEndsFileHistory, LastReview, Opened
<1> QED
  BY <1>1, HistoryInitially, HistoryInductive, PTL DEF Spec
-----------------------------------------------------------------------------
(***************************************************************************)
(* One case for every sanction, however requests overlap.  A request that  *)
(* moves a proposal to APPROVED commits only as the one that opens a case, *)
(* and that one only with a number no case has.                            *)
(***************************************************************************)
SanctionsIn(file) == {i \in 1..Len(file) : file[i].to = "APPROVED"}

CasesOf(p) == {c \in cases : c.of = p}

OpensWhatItSanctions(r) ==
    /\ r.op \in {"sanction", "open"} => r.assigned.status = "APPROVED"
    /\ r.op = "move" => r.assigned.status # "APPROVED"

CaseInv ==
    /\ IsFiniteSet(cases)
    /\ \A w \in Workers : OpensWhatItSanctions(request[w])
    /\ \A p \in Proposals : Cardinality(CasesOf(p)) = Cardinality(SanctionsIn(reviews[p]))

\* A row of the file history is one sanction more, or none.
LEMMA SanctionsGrow ==
    ASSUME NEW file \in Seq(ReviewRow), NEW review \in ReviewRow
    PROVE  /\ Cardinality(SanctionsIn(file)) \in Nat
           /\ review.to = "APPROVED" =>
                Cardinality(SanctionsIn(Append(file, review))) = Cardinality(SanctionsIn(file)) + 1
           /\ review.to # "APPROVED" => SanctionsIn(Append(file, review)) = SanctionsIn(file)
<1> DEFINE longer == Append(file, review)
           n == Len(file)
<1>1. /\ Len(longer) = n + 1 /\ \A i \in 1..n : longer[i] = file[i]
      /\ longer[n + 1] = review /\ n \in Nat
  BY AppendProperties
<1>2. IsFiniteSet(SanctionsIn(file)) /\ n + 1 \notin SanctionsIn(file)
  <2>1. IsFiniteSet(1..n) /\ SanctionsIn(file) \subseteq 1..n
    BY <1>1, FS_Interval DEF SanctionsIn
  <2> QED
    BY <1>1, <2>1, FS_Subset
<1>3. SanctionsIn(longer) =
        IF review.to = "APPROVED" THEN SanctionsIn(file) \cup {n + 1} ELSE SanctionsIn(file)
  <2> HIDE DEF longer
  <2> QED
    BY <1>1 DEF SanctionsIn
<1> QED
  BY <1>2, <1>3, FS_AddElement, FS_CardinalityType

\* A new case is one more for its proposal.
LEMMA CasesGrow ==
    ASSUME IsFiniteSet(cases), NEW p \in Proposals, NEW number, number \notin CaseNumbers,
           cases' = cases \cup {[number |-> number, of |-> p]}
    PROVE  /\ IsFiniteSet(cases')
           /\ Cardinality(CasesOf(p)) \in Nat
           /\ Cardinality(CasesOf(p)') = Cardinality(CasesOf(p)) + 1
           /\ \A q \in Proposals \ {p} : CasesOf(q)' = CasesOf(q)
<1> DEFINE new == [number |-> number, of |-> p]
<1>1. new \notin cases
  <2>1. \A c \in cases : c.number # number
    BY DEF CaseNumbers
  <2> QED
    BY <2>1
<1>2. CasesOf(p)' = CasesOf(p) \cup {new} /\ new \notin CasesOf(p)
  BY <1>1 DEF CasesOf
<1>3. IsFiniteSet(CasesOf(p))
  BY FS_Subset DEF CasesOf
<1>4. IsFiniteSet(cases')
  BY FS_AddElement
<1>5. \A q \in Proposals \ {p} : CasesOf(q)' = CasesOf(q)
  BY DEF CasesOf
<1>6. Cardinality(CasesOf(p)) \in Nat
  BY <1>3, FS_CardinalityType
<1>7. Cardinality(CasesOf(p)') = Cardinality(CasesOf(p)) + 1
  BY <1>2, <1>3, FS_AddElement
<1> QED
  BY <1>4, <1>5, <1>6, <1>7

LEMMA CaseInvStep == HistoryInv /\ CaseInv /\ [Next]_vars => CaseInv'
<1> SUFFICES ASSUME HistoryInv, CaseInv, [Next]_vars PROVE CaseInv'
  OBVIOUS
<1> USE DEF Begin, Finish
<1>r. ASSUME NEW w \in Workers, NEW r, request' = [request EXCEPT ![w] = r],
             OpensWhatItSanctions(r)
      PROVE  \A v \in Workers : OpensWhatItSanctions(request'[v])
  BY <1>r DEF CaseInv, HistoryInv, RequestsInv
<1>q. OpensWhatItSanctions(Idle)
  BY DEF OpensWhatItSanctions, Idle
<1>a. ASSUME NEW w \in Workers, NEW r, request' = [request EXCEPT ![w] = r],
             OpensWhatItSanctions(r), reviews' = reviews, cases' = cases
      PROVE  CaseInv'
  <2>1. \A v \in Workers : OpensWhatItSanctions(request[v])'
    BY <1>a, <1>r DEF OpensWhatItSanctions
  <2> QED
    BY <1>a, <2>1 DEF CaseInv, CasesOf, SanctionsIn
<1>b. ASSUME NEW w \in Workers, NEW p \in Proposals, NEW review \in ReviewRow,
             review.to # "APPROVED", request' = [request EXCEPT ![w] = Idle],
             reviews' = [reviews EXCEPT ![p] = Append(@, review)], cases' = cases
      PROVE  CaseInv'
  <2>1. \A v \in Workers : OpensWhatItSanctions(request[v])'
    BY <1>b, <1>q, <1>r DEF OpensWhatItSanctions
  <2>2. ASSUME NEW q \in Proposals PROVE SanctionsIn(reviews'[q]) = SanctionsIn(reviews[q])
    <3>1. reviews[p] \in Seq(ReviewRow)
      BY DEF HistoryInv, FileInv, FileOK
    <3>2. SanctionsIn(Append(reviews[p], review)) = SanctionsIn(reviews[p])
      BY <1>b, <3>1, SanctionsGrow
    <3>3. reviews'[q] = IF q = p THEN Append(reviews[p], review) ELSE reviews[q]
      BY <1>b DEF HistoryInv, FileInv
    <3> QED
      BY <3>2, <3>3
  <2>3. \A q \in Proposals : CasesOf(q)' = CasesOf(q)
    BY <1>b DEF CasesOf
  <2>4. ASSUME NEW q \in Proposals
        PROVE  (Cardinality(CasesOf(q)) = Cardinality(SanctionsIn(reviews[q])))'
    BY <2>2, <2>3 DEF CaseInv
  <2> QED
    BY <1>b, <2>1, <2>4 DEF CaseInv
<1>1. ASSUME NEW w \in Workers, NEW p \in Proposals, NEW s \in States, CreateProposal(w, p, s)
      PROVE  CaseInv'
  BY <1>1, <1>a DEF CreateProposal, OpensWhatItSanctions
<1>2. ASSUME NEW w \in Workers, CommitCreate(w) PROVE CaseInv'
  <2>1. request[w].p \in Proposals
    BY <1>2 DEF CommitCreate, HistoryInv, RequestsInv, RequestOK
  <2>2. [from |-> "ABSENT", to |-> "DRAFT", by |-> "REQUIRING_BODY"] \in ReviewRow
    BY DEF ReviewRow, ProposalStatus, Role
  <2> QED
    BY <1>2, <1>b, <2>1, <2>2 DEF CommitCreate, Reviewed
<1>3. ASSUME NEW w \in Workers, NEW p \in Proposals, NEW s \in States, UpdateProposal(w, p, s)
      PROVE  CaseInv'
  BY <1>3, <1>a DEF UpdateProposal, OpensWhatItSanctions
<1>4. ASSUME NEW w \in Workers, CommitEdit(w) \/ SanctionRefused(w) \/ NumberTaken(w)
      PROVE  CaseInv'
  BY <1>4, <1>a, <1>q DEF CommitEdit, SanctionRefused, NumberTaken
<1>5. ASSUME NEW w \in Workers, NEW p \in Proposals, NEW to \in ProposalStatus,
             NEW role \in Roles, TransitionProposal(w, p, to, role)
      PROVE  CaseInv'
  <2>1. PICK r : /\ request' = [request EXCEPT ![w] = r]
                 /\ r = [op |-> IF to = "APPROVED" THEN "sanction" ELSE "move",
                         p |-> p, by |-> role, loaded |-> proposal[p],
                         assigned |-> [proposal[p] EXCEPT !.status = to]]
    BY <1>5 DEF TransitionProposal
  <2>2. r.assigned.status = to /\ r.op = IF to = "APPROVED" THEN "sanction" ELSE "move"
    BY <2>1 DEF HistoryInv, FileInv, FileOK, HasStatus
  <2>3. OpensWhatItSanctions(r)
    BY <2>2 DEF OpensWhatItSanctions
  <2> QED
    BY <1>5, <1>a, <2>1, <2>3 DEF TransitionProposal
<1>6. ASSUME NEW w \in Workers, SanctionToCase(w) PROVE CaseInv'
  <2>1. PICK q, number : /\ q = request[w] /\ q.op = "sanction"
                         /\ request' = [request EXCEPT ![w] =
                                [q EXCEPT !.op = "open", !.assigned.case = number]]
    BY <1>6 DEF SanctionToCase
  <2> DEFINE r == [q EXCEPT !.op = "open", !.assigned.case = number]
  <2>2. MoveOK(q) /\ OpensWhatItSanctions(q)
    BY <2>1 DEF HistoryInv, RequestsInv, RequestOK, CaseInv
  <2>3. r.op = "open" /\ r.assigned = [q.assigned EXCEPT !.case = number]
    BY <2>2 DEF MoveOK
  <2>4. r.assigned.status = "APPROVED"
    BY <2>1, <2>2, <2>3 DEF MoveOK, HasStatus, OpensWhatItSanctions
  <2>5. OpensWhatItSanctions(r)
    BY <2>3, <2>4 DEF OpensWhatItSanctions
  <2> QED
    BY <1>6, <1>a, <2>1, <2>5 DEF SanctionToCase
<1>7. ASSUME NEW w \in Workers, CommitMove(w) PROVE CaseInv'
  <2>1. PICK p, q, review :
            /\ p = q.p /\ q = request[w]
            /\ review = [from |-> q.loaded.status, to |-> q.assigned.status, by |-> q.by]
            /\ reviews' = [reviews EXCEPT ![p] = Append(@, review)]
    BY <1>7 DEF CommitMove, Reviewed
  <2>2. p \in Proposals /\ MoveOK(q) /\ OpensWhatItSanctions(q)
    BY <1>7, <2>1 DEF CommitMove, HistoryInv, RequestsInv, RequestOK, CaseInv
  <2>3. review \in ReviewRow /\ review.to = q.assigned.status
    BY <2>1, <2>2 DEF ReviewRow, MoveOK, HasStatus
  <2>4. CASE q.op = "move"
    BY <1>7, <1>b, <2>1, <2>2, <2>3, <2>4 DEF CommitMove, CasesAfter, OpensWhatItSanctions
  <2>5. CASE q.op = "open"
    <3>1. /\ q.assigned.case \notin CaseNumbers
          /\ cases' = cases \cup {[number |-> q.assigned.case, of |-> p]}
      BY <1>7, <2>1, <2>5 DEF CommitMove, CasesAfter
    <3>2. /\ IsFiniteSet(cases')
          /\ Cardinality(CasesOf(p)') = Cardinality(CasesOf(p)) + 1
          /\ \A o \in Proposals \ {p} : CasesOf(o)' = CasesOf(o)
      BY <2>2, <3>1, CasesGrow DEF CaseInv
    <3>3. Cardinality(SanctionsIn(Append(reviews[p], review)))
             = Cardinality(SanctionsIn(reviews[p])) + 1
      BY <2>2, <2>3, <2>5, SanctionsGrow DEF OpensWhatItSanctions, HistoryInv, FileInv, FileOK
    <3>4. ASSUME NEW o \in Proposals
          PROVE  (Cardinality(CasesOf(o)) = Cardinality(SanctionsIn(reviews[o])))'
      <4>1. reviews'[o] = IF o = p THEN Append(reviews[p], review) ELSE reviews[o]
        BY <2>1 DEF HistoryInv, FileInv
      <4>2. CASE o = p
        BY <3>2, <3>3, <4>1, <4>2 DEF CaseInv
      <4>3. CASE o # p
        BY <3>2, <4>1, <4>3 DEF CaseInv
      <4> QED
        BY <4>2, <4>3
    <3>5. \A v \in Workers : OpensWhatItSanctions(request[v])'
      BY <1>7, <1>q, <1>r DEF CommitMove, OpensWhatItSanctions
    <3> QED
      BY <3>2, <3>4, <3>5 DEF CaseInv
  <2> QED
    BY <1>7, <2>1, <2>4, <2>5 DEF CommitMove
<1>8. ASSUME UNCHANGED vars PROVE CaseInv'
  BY <1>8 DEF vars, CaseInv, CasesOf, SanctionsIn, OpensWhatItSanctions
<1> QED
  BY <1>1, <1>2, <1>3, <1>4, <1>5, <1>6, <1>7, <1>8 DEF Next

LEMMA CasesInitially == Init => CaseInv
<1> SUFFICES ASSUME Init PROVE CaseInv
  OBVIOUS
<1>1. IsFiniteSet(cases)
  BY FS_EmptySet DEF Init
<1>2. ASSUME NEW p \in Proposals PROVE CasesOf(p) = {} /\ SanctionsIn(reviews[p]) = {}
  BY DEF Init, CasesOf, SanctionsIn
<1>3. \A w \in Workers : OpensWhatItSanctions(request[w])
  BY DEF Init, OpensWhatItSanctions, Idle
<1> QED
  BY <1>1, <1>2, <1>3 DEF CaseInv

\* However requests overlap, a proposal has as many cases as its file history
\* has sanctions.
THEOREM CaseForEverySanction == Spec => []OneCasePerSanction
<1>1. CaseInv => OneCasePerSanction
  BY DEF CaseInv, OneCasePerSanction, CasesOf, Sanctions, SanctionsIn
<1> QED
  BY <1>1, CasesInitially, CaseInvStep, HistoryInitially, HistoryInductive, PTL DEF Spec
-----------------------------------------------------------------------------
(***************************************************************************)
(* One request at a time.  What a request loaded is then what is stored,   *)
(* its columns are written as it assigned them, and the file history is a  *)
(* path whose last sanction is the one the case was opened for.            *)
(***************************************************************************)
OneWorker == \A v, w \in Workers : v = w

Columns == {"status", "content", "state", "numberedIn", "number", "case"}

\* The request knows the row as it is, and a move assigns no content.
Current(r) ==
    /\ r.op \in {"edit", "sanction", "move", "open"} => r.loaded = proposal[r.p]
    /\ r.op = "edit" => r.loaded.status \in {"DRAFT", "RETURNED"}
    /\ r.op \in {"sanction", "move", "open"} =>
          "content" \in DOMAIN r.assigned /\ r.assigned.content = r.loaded.content

CasesNamed(p) == {c.number : c \in CasesOf(p)}

IsPath(file) == \A i \in 2..Len(file) : file[i].from = file[i - 1].to

\* One proposal, with its file history and the numbers of its cases.
Told(row, file, numbers) ==
    /\ DOMAIN row = Columns
    /\ IsPath(file)
    /\ numbers = IF row.status = "APPROVED" THEN {row.case} ELSE {}

SerialInv ==
    /\ HistoryInv
    /\ CaseInv
    /\ \A w \in Workers : Current(request[w])
    /\ \A p \in Proposals : Told(proposal[p], reviews[p], CasesNamed(p))

\* A row that starts where the file history ends.
LEMMA PathGrows ==
    ASSUME NEW file \in Seq(ReviewRow), NEW review \in ReviewRow, IsPath(file),
           file # <<>> => review.from = file[Len(file)].to
    PROVE  IsPath(Append(file, review))
<1> DEFINE longer == Append(file, review)
           n == Len(file)
<1>1. /\ Len(longer) = n + 1 /\ \A i \in 1..n : longer[i] = file[i]
      /\ longer[n + 1] = review /\ n \in Nat
  BY AppendProperties
<1> HIDE DEF longer
<1>2. ASSUME NEW i \in 2..Len(longer) PROVE longer[i].from = longer[i - 1].to
  <2>1. CASE i = n + 1
    <3>1. file # <<>> /\ i - 1 = n /\ n \in 1..n
      BY <1>1, <2>1
    <3> QED
      BY <1>1, <2>1, <3>1
  <2>2. CASE i # n + 1
    <3>1. i \in 2..n /\ i \in 1..n /\ i - 1 \in 1..n
      BY <1>1, <2>2
    <3> QED
      BY <1>1, <3>1 DEF IsPath
  <2> QED
    BY <2>1, <2>2
<1> QED
  BY <1>2 DEF IsPath, longer

LEMMA DecisionsAreFinal ==
    ASSUME NEW from, NEW to, MayMove(from, to) # {}
    PROVE  from # "APPROVED"
BY DEF MayMove

\* The one request that is under way is the one that changed.
LEMMA OnlyRequestCurrent ==
    ASSUME OneWorker, HistoryInv, NEW w \in Workers, NEW r,
           request' = [request EXCEPT ![w] = r], Current(r)'
    PROVE  \A v \in Workers : Current(request[v])'
<1> SUFFICES ASSUME NEW v \in Workers PROVE Current(request[v])'
  OBVIOUS
<1>1. v = w /\ request'[v] = r
  BY DEF OneWorker, HistoryInv, RequestsInv
<1> QED
  BY <1>1 DEF Current

LEMMA SerialStep == OneWorker /\ SerialInv /\ [Next]_vars => SerialInv'
<1> SUFFICES ASSUME OneWorker, SerialInv, [Next]_vars PROVE SerialInv'
  OBVIOUS
<1> USE DEF Begin, Finish
<1>h. HistoryInv /\ CaseInv /\ HistoryInv' /\ CaseInv'
  BY HistoryInductive, CaseInvStep DEF SerialInv
<1>i. Current(Idle)'
  BY DEF Current, Idle
<1>a. ASSUME NEW w \in Workers, NEW r, request' = [request EXCEPT ![w] = r],
             Current(r), UNCHANGED <<proposal, reviews, cases>>
      PROVE  SerialInv'
  <2>1. Current(r)'
    BY <1>a DEF Current
  <2>2. \A v \in Workers : Current(request[v])'
    BY <1>a, <1>h, <2>1, OnlyRequestCurrent
  <2>3. \A p \in Proposals : CasesNamed(p)' = CasesNamed(p)
    BY <1>a DEF CasesNamed, CasesOf
  <2>4. \A p \in Proposals : Told(proposal[p], reviews[p], CasesNamed(p))'
    BY <1>a, <2>3 DEF SerialInv
  <2> QED
    BY <1>h, <2>2, <2>4 DEF SerialInv
<1>b. ASSUME NEW w \in Workers, NEW p \in Proposals, NEW row, NEW file,
             request' = [request EXCEPT ![w] = Idle],
             proposal' = [proposal EXCEPT ![p] = row],
             reviews' = [reviews EXCEPT ![p] = file],
             Told(row, file, CasesNamed(p)'),
             \A q \in Proposals \ {p} : CasesNamed(q)' = CasesNamed(q)
      PROVE  SerialInv'
  <2>1. \A v \in Workers : Current(request[v])'
    BY <1>b, <1>h, <1>i, OnlyRequestCurrent
  <2>2. ASSUME NEW q \in Proposals PROVE Told(proposal'[q], reviews'[q], CasesNamed(q)')
    <3>1. CASE q = p
      BY <1>b, <1>h, <3>1 DEF HistoryInv, FileInv
    <3>2. CASE q # p
      BY <1>b, <1>h, <3>2 DEF HistoryInv, FileInv, SerialInv
    <3> QED
      BY <2>2, <3>1, <3>2
  <2> QED
    BY <1>h, <2>1, <2>2 DEF SerialInv
<1>1. ASSUME NEW w \in Workers, NEW p \in Proposals, NEW s \in States, CreateProposal(w, p, s)
      PROVE  SerialInv'
  BY <1>1, <1>a DEF CreateProposal, Current
<1>2. ASSUME NEW w \in Workers, CommitCreate(w) PROVE SerialInv'
  <2>1. PICK p, row, review :
            /\ p = request[w].p
            /\ row = [status |-> "DRAFT", content |-> 0, state |-> request[w].state,
                      numberedIn |-> request[w].state, number |-> request[w].number,
                      case |-> NoCase]
            /\ review = [from |-> "ABSENT", to |-> "DRAFT", by |-> "REQUIRING_BODY"]
    OBVIOUS
  <2>2. p \in Proposals \ Opened
    BY <1>2, <1>h, <2>1 DEF CommitCreate, HistoryInv, RequestsInv, RequestOK
  <2>3. reviews[p] = <<>> /\ CasesNamed(p) = {} /\ reviews[p] \in Seq(ReviewRow)
    BY <1>h, <2>2 DEF HistoryInv, FileInv, FileOK, Opened, SerialInv, Told
  <2>4. review \in ReviewRow
    BY <2>1 DEF ReviewRow, ProposalStatus, Role
  <2>5. IsPath(Append(reviews[p], review))
    BY <2>3, <2>4, PathGrows DEF IsPath
  <2>6. \A q \in Proposals : CasesNamed(q)' = CasesNamed(q)
    BY <1>2 DEF CommitCreate, CasesNamed, CasesOf
  <2>7. Told(row, Append(reviews[p], review), CasesNamed(p)')
    BY <2>1, <2>2, <2>3, <2>5, <2>6 DEF Told, Columns
  <2> QED
    BY <1>2, <1>b, <2>1, <2>2, <2>6, <2>7 DEF CommitCreate, Reviewed
<1>3. ASSUME NEW w \in Workers, NEW p \in Proposals, NEW s \in States, UpdateProposal(w, p, s)
      PROVE  SerialInv'
  <2> DEFINE r == [op |-> "edit", p |-> p, loaded |-> proposal[p],
                   assigned |-> [proposal[p] EXCEPT !.content = @ + 1, !.state = s]]
  <2>1. Current(r)
    BY <1>3 DEF UpdateProposal, Current
  <2> QED
    BY <1>3, <1>a, <2>1 DEF UpdateProposal
<1>4. ASSUME NEW w \in Workers, CommitEdit(w) PROVE SerialInv'
  <2>1. PICK p, q, row :
            /\ p = q.p /\ q = request[w]
            /\ row = WrittenRow(proposal[p], q.loaded, q.assigned)
            /\ proposal' = [proposal EXCEPT ![p] = row]
    BY <1>4 DEF CommitEdit
  <2>2. /\ p \in Proposals /\ q.loaded = proposal[p]
        /\ q.loaded.status \in {"DRAFT", "RETURNED"} /\ q.assigned.status = q.loaded.status
    BY <1>4, <1>h, <2>1
    DEF CommitEdit, HistoryInv, RequestsInv, RequestOK, SerialInv, Current
  <2>3. Told(proposal[p], reviews[p], CasesNamed(p))
    BY <2>2 DEF SerialInv
  <2>4. DOMAIN row = Columns /\ row.status = proposal[p].status
    BY <2>1, <2>2, <2>3 DEF Told, Columns, WrittenRow, Written
  <2>5. \A o \in Proposals : CasesNamed(o)' = CasesNamed(o)
    BY <1>4 DEF CommitEdit, CasesNamed, CasesOf
  <2>6. Told(row, reviews[p], CasesNamed(p)')
    <3>1. CasesNamed(p)' = CasesNamed(p)
      BY <2>2, <2>5
    <3>2. Told(row, reviews[p], CasesNamed(p))
      BY <2>2, <2>3, <2>4 DEF Told
    <3> QED
      BY <2>2, <3>1, <3>2
  <2>7. reviews' = [reviews EXCEPT ![p] = reviews[p]]
    BY <1>4, <1>h, <2>2 DEF CommitEdit, HistoryInv, FileInv
  <2> QED
    BY <1>4, <1>b, <2>1, <2>2, <2>5, <2>6, <2>7 DEF CommitEdit
<1>5. ASSUME NEW w \in Workers, NEW p \in Proposals, NEW to \in ProposalStatus,
             NEW role \in Roles, TransitionProposal(w, p, to, role)
      PROVE  SerialInv'
  <2>1. PICK r : /\ request' = [request EXCEPT ![w] = r]
                 /\ r = [op |-> IF to = "APPROVED" THEN "sanction" ELSE "move",
                         p |-> p, by |-> role, loaded |-> proposal[p],
                         assigned |-> [proposal[p] EXCEPT !.status = to]]
    BY <1>5 DEF TransitionProposal
  <2>2. "content" \in DOMAIN r.assigned /\ r.assigned.content = r.loaded.content
    BY <2>1 DEF SerialInv, Told, Columns
  <2>3. Current(r)
    BY <2>1, <2>2 DEF Current
  <2> QED
    BY <1>5, <1>a, <2>1, <2>3 DEF TransitionProposal
<1>6. ASSUME NEW w \in Workers, SanctionToCase(w) PROVE SerialInv'
  <2>1. PICK q, number : /\ q = request[w] /\ q.op = "sanction"
                         /\ request' = [request EXCEPT ![w] =
                                [q EXCEPT !.op = "open", !.assigned.case = number]]
    BY <1>6 DEF SanctionToCase
  <2> DEFINE r == [q EXCEPT !.op = "open", !.assigned.case = number]
  <2>2. MoveOK(q) /\ Current(q) /\ q.p \in Proposals
    BY <1>h, <2>1 DEF HistoryInv, RequestsInv, RequestOK, SerialInv
  <2>3. /\ r.op = "open" /\ r.p = q.p /\ r.loaded = q.loaded
        /\ r.assigned = [q.assigned EXCEPT !.case = number]
    BY <2>2 DEF MoveOK
  <2>4. "content" \in DOMAIN r.assigned /\ r.assigned.content = r.loaded.content
    BY <2>1, <2>2, <2>3 DEF Current
  <2>5. Current(r)
    BY <2>1, <2>2, <2>3, <2>4 DEF Current
  <2> QED
    BY <1>6, <1>a, <2>1, <2>5 DEF SanctionToCase
<1>7. ASSUME NEW w \in Workers, CommitMove(w) PROVE SerialInv'
  <2>1. PICK p, q, row, review :
            /\ p = q.p /\ q = request[w]
            /\ row = WrittenRow(proposal[p], q.loaded, q.assigned)
            /\ proposal' = [proposal EXCEPT ![p] = row]
            /\ review = [from |-> q.loaded.status, to |-> q.assigned.status, by |-> q.by]
            /\ reviews' = [reviews EXCEPT ![p] = Append(@, review)]
    BY <1>7 DEF CommitMove, Reviewed
  <2>2. p \in Proposals /\ MoveOK(q) /\ q.loaded = proposal[p] /\ OpensWhatItSanctions(q)
    BY <1>7, <1>h, <2>1
    DEF CommitMove, HistoryInv, RequestsInv, RequestOK, SerialInv, Current, CaseInv
  <2>3. Told(proposal[p], reviews[p], CasesNamed(p)) /\ FileOK(proposal[p], reviews[p])
    BY <1>h, <2>2 DEF SerialInv, HistoryInv, FileInv
  <2>4. review \in ReviewRow /\ q.loaded.status # "APPROVED"
    BY <2>1, <2>2, DecisionsAreFinal DEF ReviewRow, MoveOK, HasStatus
  <2>5. IsPath(Append(reviews[p], review))
    BY <2>1, <2>2, <2>3, <2>4, PathGrows DEF Told, FileOK
  <2>6. DOMAIN row = Columns /\ row.status = q.assigned.status /\ row.case = q.assigned.case
    BY <2>1, <2>2, <2>3 DEF Told, Columns, WrittenRow, Written
  <2>7. CasesNamed(p) = {}
    BY <2>2, <2>3, <2>4 DEF Told
  <2>8. CASE q.op = "move"
    <3>1. \A o \in Proposals : CasesNamed(o)' = CasesNamed(o)
      BY <1>7, <2>1, <2>8 DEF CommitMove, CasesAfter, CasesNamed, CasesOf
    <3>2. Told(row, Append(reviews[p], review), CasesNamed(p)')
      BY <2>2, <2>5, <2>6, <2>7, <2>8, <3>1 DEF Told, OpensWhatItSanctions
    <3> QED
      BY <1>7, <1>b, <2>1, <2>2, <3>1, <3>2 DEF CommitMove
  <2>9. CASE q.op = "open"
    <3>1. cases' = cases \cup {[number |-> q.assigned.case, of |-> p]}
      BY <1>7, <2>1, <2>9 DEF CommitMove, CasesAfter
    <3>2. /\ CasesNamed(p)' = CasesNamed(p) \cup {q.assigned.case}
          /\ \A o \in Proposals \ {p} : CasesNamed(o)' = CasesNamed(o)
      <4> DEFINE new == [number |-> q.assigned.case, of |-> p]
      <4>1. CasesOf(p)' = CasesOf(p) \cup {new} /\ new.number = q.assigned.case
        BY <3>1 DEF CasesOf
      <4>2. \A o \in Proposals \ {p} : CasesOf(o)' = CasesOf(o)
        BY <3>1 DEF CasesOf
      <4> HIDE DEF new
      <4> QED
        BY <4>1, <4>2 DEF CasesNamed
    <3>3. Told(row, Append(reviews[p], review), CasesNamed(p)')
      BY <2>2, <2>5, <2>6, <2>7, <2>9, <3>2 DEF Told, OpensWhatItSanctions
    <3> QED
      BY <1>7, <1>b, <2>1, <2>2, <3>2, <3>3 DEF CommitMove
  <2> QED
    BY <1>7, <2>1, <2>8, <2>9 DEF CommitMove
<1>8. ASSUME NEW w \in Workers, SanctionRefused(w) \/ NumberTaken(w) PROVE SerialInv'
  BY <1>8, <1>a DEF SanctionRefused, NumberTaken, Current, Idle
<1>9. ASSUME UNCHANGED vars PROVE SerialInv'
  <2>1. \A p \in Proposals : CasesNamed(p)' = CasesNamed(p)
    BY <1>9 DEF vars, CasesNamed, CasesOf
  <2> QED
    BY <1>9, <1>h, <2>1 DEF vars, SerialInv, Current
<1> QED
  BY <1>1, <1>2, <1>3, <1>4, <1>5, <1>6, <1>7, <1>8, <1>9 DEF Next

LEMMA SerialCorrect ==
    ASSUME OneWorker
    PROVE  Spec => []SerialInv
<1>1. Init => SerialInv
  <2> SUFFICES ASSUME Init PROVE SerialInv
    OBVIOUS
  <2>1. \A w \in Workers : Current(request[w])
    BY DEF Init, Current, Idle
  <2>2. ASSUME NEW p \in Proposals PROVE Told(proposal[p], reviews[p], CasesNamed(p))
    <3>1. CasesNamed(p) = {} /\ IsPath(reviews[p])
      BY DEF Init, CasesNamed, CasesOf, IsPath
    <3>2. DOMAIN proposal[p] = Columns /\ proposal[p].status = "ABSENT"
      BY DEF Init, Columns
    <3> QED
      BY <3>1, <3>2 DEF Told
  <2> QED
    BY <2>1, <2>2, HistoryInitially, CasesInitially DEF SerialInv
<1>2. SerialInv /\ [Next]_vars => SerialInv'
  BY SerialStep
<1> QED
  BY <1>1, <1>2, PTL DEF Spec

\* One request after another, a proposal is approved exactly when one case was
\* opened for it, and that case is the one it names.
THEOREM SerialSanction ==
    ASSUME OneWorker
    PROVE  Spec => []ApprovedIsSanctioned
<1>1. SerialInv => ApprovedIsSanctioned
  BY DEF SerialInv, Told, ApprovedIsSanctioned, CasesNamed, CasesOf
<1> QED
  BY <1>1, SerialCorrect, PTL

\* One request after another, a file history is one path.
THEOREM SerialFileHistory ==
    ASSUME OneWorker
    PROVE  Spec => []FileHistoryIsAPath
<1>1. SerialInv => FileHistoryIsAPath
  BY DEF SerialInv, Told, IsPath, FileHistoryIsAPath
<1> QED
  BY <1>1, SerialCorrect, PTL

\* One request after another, nothing is edited while an office has the file.
THEOREM SerialScrutiny ==
    ASSUME OneWorker
    PROVE  Spec => FileUnchangedUnderScrutiny
<1> DEFINE Kept == \A p \in Opened : proposal[p].status \notin {"DRAFT", "RETURNED"}
                      => proposal'[p].content = proposal[p].content
<1>1. SerialInv /\ [Next]_vars => [Kept]_vars
  <2> SUFFICES ASSUME SerialInv, Next, NEW p \in Opened,
                      proposal[p].status \notin {"DRAFT", "RETURNED"}
               PROVE  proposal'[p].content = proposal[p].content
    BY DEF vars
  <2>1. ASSUME proposal' = proposal PROVE proposal'[p].content = proposal[p].content
    BY <2>1
  <2>2. p \in Proposals /\ "content" \in DOMAIN proposal[p]
    BY DEF Opened, SerialInv, Told, Columns
  <2>3. ASSUME NEW w \in Workers, CommitCreate(w)
        PROVE  proposal'[p].content = proposal[p].content
    <3>1. request[w].p # p
      BY <2>3 DEF CommitCreate, SerialInv, HistoryInv, RequestsInv, RequestOK
    <3> QED
      BY <2>2, <2>3, <3>1 DEF CommitCreate, SerialInv, HistoryInv, FileInv
  <2>4. ASSUME NEW w \in Workers, CommitEdit(w)
        PROVE  proposal'[p].content = proposal[p].content
    <3>1. request[w].p # p
      BY <2>4 DEF CommitEdit, SerialInv, Current
    <3> QED
      BY <2>2, <2>4, <3>1 DEF CommitEdit, SerialInv, HistoryInv, FileInv
  <2>5. ASSUME NEW w \in Workers, CommitMove(w)
        PROVE  proposal'[p].content = proposal[p].content
    <3>1. CASE request[w].p # p
      BY <2>2, <2>5, <3>1 DEF CommitMove, SerialInv, HistoryInv, FileInv
    <3>2. CASE request[w].p = p
      <4>1. request[w].assigned.content = request[w].loaded.content
        BY <2>5 DEF CommitMove, SerialInv, Current
      <4>2. proposal'[p] = WrittenRow(proposal[p], request[w].loaded, request[w].assigned)
        BY <2>2, <2>5, <3>2 DEF CommitMove, SerialInv, HistoryInv, FileInv
      <4> QED
        BY <2>2, <4>1, <4>2 DEF WrittenRow, Written
    <3> QED
      BY <2>2, <3>1, <3>2
  <2> QED
    BY <2>1, <2>3, <2>4, <2>5
    DEF Next, Begin, CreateProposal, UpdateProposal, TransitionProposal, SanctionToCase,
        SanctionRefused, NumberTaken
<1> QED
  BY <1>1, SerialCorrect, PTL DEF Spec, FileUnchangedUnderScrutiny
-----------------------------------------------------------------------------
(***************************************************************************)
(* The number a sanction mints.  As long as the numbers of a district fit  *)
(* their width, strings and numbers have the same order, so the last one   *)
(* is the highest and the next one is free.  Numbers stay that small as    *)
(* long as there are few cases: each is at most one more than all that     *)
(* were opened before it, whoever mints it and when.                       *)
(***************************************************************************)
LEMMA GreatestBelow ==
    ASSUME NEW top \in Nat, NEW S, S \subseteq 1..top, S # {}
    PROVE  \E n \in S : \A m \in S : m <= n
<1> DEFINE T == {top - n : n \in S}
<1>1. T \subseteq Nat /\ T # {}
  <2>1. \A n \in S : n \in 1..top /\ top - n \in Nat
    OBVIOUS
  <2> QED
    BY <2>1
<1>2. PICK x \in T : \A y \in T : <<y, x>> \notin OpToRel(<, Nat)
  <2> HIDE DEF T
  <2> QED
    BY <1>1, NatLessThanWellFounded, WFMin, Zenon
<1>3. PICK n \in S : x = top - n
  OBVIOUS
<1>4. ASSUME NEW m \in S PROVE m <= n
  <2>1. top - m \in T /\ top - m \in Nat /\ x \in Nat
    BY <1>1
  <2>2. ~(top - m < x)
    <3> HIDE DEF T
    <3> QED
      BY <1>2, <2>1 DEF OpToRel
  <2> QED
    BY <1>3, <2>2
<1> QED
  BY <1>4

\* Numbers that fit are written with the same number of digits.
Fitting == 1..999

LEMMA OrderOfNumbers ==
    ASSUME NEW m \in Fitting, NEW n \in Fitting
    PROVE  SortsBefore(m, n, CaseWidth) <=> m < n
<1>0. m \in 1..999 /\ n \in 1..999
  BY DEF Fitting
<1>1. Digits(m, CaseWidth) = CaseWidth /\ Digits(n, CaseWidth) = CaseWidth
  BY <1>0 DEF Digits, CaseWidth
<1>2. 10 ^ (CaseWidth - CaseWidth) = 1 /\ ~(CaseWidth < CaseWidth)
  <2>1. CaseWidth - CaseWidth = 0 /\ ~(CaseWidth < CaseWidth)
    BY DEF CaseWidth
  <2>2. 10 ^ 0 = 1
    OBVIOUS
  <2> QED
    BY <2>1, <2>2
<1>3. m \div 1 = m /\ n \div 1 = n
  BY <1>0
<1>4. SortsBefore(m, n, CaseWidth)
        <=> m \div 10 ^ (CaseWidth - CaseWidth) < n \div 10 ^ (CaseWidth - CaseWidth)
  BY <1>1, <1>2 DEF SortsBefore
<1> QED
  BY <1>2, <1>3, <1>4

LEMMA NextIsFree ==
    ASSUME NEW top \in Nat, top < 1000, NEW issued, issued \subseteq 1..top
    PROVE  /\ NextNumber(issued, CaseWidth) \in 1..top + 1
           /\ NextNumber(issued, CaseWidth) \notin issued
<1>1. CASE issued = {}
  BY <1>1 DEF NextNumber
<1>2. CASE issued # {}
  <2>1. PICK g \in issued : \A m \in issued : m <= g
    BY <1>2, GreatestBelow, Zenon
  <2>2. \A n \in issued : n \in Fitting /\ n \in 1..top
    BY DEF Fitting
  <2>3. \A m \in issued : ~SortsBefore(g, m, CaseWidth)
    <3> SUFFICES ASSUME NEW m \in issued PROVE ~SortsBefore(g, m, CaseWidth)
      OBVIOUS
    <3>1. g \in Fitting /\ m \in Fitting /\ m <= g
      BY <2>1, <2>2
    <3>2. SortsBefore(g, m, CaseWidth) <=> g < m
      BY <3>1, OrderOfNumbers, Zenon
    <3> QED
      BY <2>2, <3>1, <3>2
  <2> DEFINE n == Latest(issued, CaseWidth)
  <2>4. n \in issued /\ \A m \in issued : ~SortsBefore(n, m, CaseWidth)
    BY <2>3 DEF Latest
  <2> HIDE DEF n
  <2>5. \A m \in issued : m <= n
    <3> SUFFICES ASSUME NEW m \in issued PROVE m <= n
      OBVIOUS
    <3>1. n \in Fitting /\ m \in Fitting
      BY <2>2, <2>4
    <3>2. SortsBefore(n, m, CaseWidth) <=> n < m
      BY <3>1, OrderOfNumbers, Zenon
    <3> QED
      BY <2>2, <2>4, <3>2
  <2>6. NextNumber(issued, CaseWidth) = n + 1
    BY <1>2 DEF NextNumber, n
  <2> QED
    BY <2>2, <2>4, <2>5, <2>6
<1> QED
  BY <1>1, <1>2

\* Rows keep their columns.
RowsInv ==
    /\ \A p \in Proposals : DOMAIN proposal[p] = Columns
    /\ \A w \in Workers :
          request[w].op \in {"sanction", "move", "open"} => DOMAIN request[w].assigned = Columns

LEMMA RowsStep ==
    ASSUME HistoryInv, RowsInv, [Next]_vars
    PROVE  RowsInv'
<1> USE DEF Begin, Finish
<1>a. ASSUME NEW w \in Workers, NEW r, request' = [request EXCEPT ![w] = r],
             r.op \in {"sanction", "move", "open"} => DOMAIN r.assigned = Columns,
             \A p \in Proposals : DOMAIN proposal'[p] = Columns
      PROVE  RowsInv'
  <2>1. \A v \in Workers : request'[v] = IF v = w THEN r ELSE request[v]
    BY <1>a DEF HistoryInv, RequestsInv
  <2> QED
    BY <1>a, <2>1 DEF RowsInv
<1>i. Idle.op \notin {"sanction", "move", "open"}
  BY DEF Idle
<1>p. ASSUME NEW p \in Proposals, NEW row, DOMAIN row = Columns,
             proposal' = [proposal EXCEPT ![p] = row]
      PROVE  \A q \in Proposals : DOMAIN proposal'[q] = Columns
  <2>1. \A q \in Proposals : proposal'[q] = IF q = p THEN row ELSE proposal[q]
    BY <1>p DEF HistoryInv, FileInv
  <2> QED
    BY <1>p, <2>1 DEF RowsInv
<1>w. \A loaded, assigned : \A p \in Proposals :
          DOMAIN WrittenRow(proposal[p], loaded, assigned) = Columns
  BY DEF RowsInv, WrittenRow
<1>1. ASSUME NEW w \in Workers, NEW p \in Proposals, NEW s \in States,
             CreateProposal(w, p, s) \/ UpdateProposal(w, p, s)
      PROVE  RowsInv'
  BY <1>1, <1>a DEF CreateProposal, UpdateProposal, RowsInv
<1>2. ASSUME NEW w \in Workers, NEW p \in Proposals, NEW to \in ProposalStatus,
             NEW role \in Roles, TransitionProposal(w, p, to, role)
      PROVE  RowsInv'
  <2>1. DOMAIN [proposal[p] EXCEPT !.status = to] = Columns
    BY DEF RowsInv
  <2> QED
    BY <1>2, <1>a, <2>1 DEF TransitionProposal, RowsInv
<1>3. ASSUME NEW w \in Workers, CommitCreate(w) PROVE RowsInv'
  <2>1. PICK row : /\ row = [status |-> "DRAFT", content |-> 0, state |-> request[w].state,
                             numberedIn |-> request[w].state, number |-> request[w].number,
                             case |-> NoCase]
                   /\ proposal' = [proposal EXCEPT ![request[w].p] = row]
    BY <1>3 DEF CommitCreate
  <2>2. DOMAIN row = Columns /\ request[w].p \in Proposals
    BY <1>3, <2>1 DEF Columns, CommitCreate, HistoryInv, RequestsInv, RequestOK
  <2> QED
    BY <1>3, <1>a, <1>i, <1>p, <2>1, <2>2 DEF CommitCreate
<1>4. ASSUME NEW w \in Workers, CommitEdit(w) \/ CommitMove(w) PROVE RowsInv'
  <2>1. PICK row : /\ row = WrittenRow(proposal[request[w].p], request[w].loaded,
                                       request[w].assigned)
                   /\ proposal' = [proposal EXCEPT ![request[w].p] = row]
    BY <1>4 DEF CommitEdit, CommitMove
  <2>2. request[w].p \in Proposals
    BY <1>4 DEF CommitEdit, CommitMove, HistoryInv, RequestsInv, RequestOK
  <2>3. DOMAIN row = Columns
    BY <1>w, <2>1, <2>2
  <2>4. \A q \in Proposals : DOMAIN proposal'[q] = Columns
    BY <1>p, <2>1, <2>2, <2>3
  <2> QED
    BY <1>4, <1>a, <1>i, <2>4 DEF CommitEdit, CommitMove
<1>5. ASSUME NEW w \in Workers, SanctionToCase(w) PROVE RowsInv'
  <2>1. PICK q, number : /\ q = request[w] /\ q.op = "sanction"
                         /\ request' = [request EXCEPT ![w] =
                                [q EXCEPT !.op = "open", !.assigned.case = number]]
    BY <1>5 DEF SanctionToCase
  <2> DEFINE r == [q EXCEPT !.op = "open", !.assigned.case = number]
  <2>2. MoveOK(q) /\ DOMAIN q.assigned = Columns
    BY <2>1 DEF HistoryInv, RequestsInv, RequestOK, RowsInv
  <2>3. r.assigned = [q.assigned EXCEPT !.case = number]
    BY <2>2 DEF MoveOK
  <2>4. DOMAIN r.assigned = Columns
    BY <2>2, <2>3
  <2> QED
    BY <1>5, <1>a, <2>1, <2>4 DEF SanctionToCase, RowsInv
<1>6. ASSUME NEW w \in Workers, SanctionRefused(w) \/ NumberTaken(w) PROVE RowsInv'
  BY <1>6, <1>a, <1>i DEF SanctionRefused, NumberTaken, RowsInv
<1>7. ASSUME UNCHANGED vars PROVE RowsInv'
  BY <1>7 DEF vars, RowsInv
<1> QED
  BY <1>1, <1>2, <1>3, <1>4, <1>5, <1>6, <1>7 DEF Next

\* How far the numbers go: those before, and one for every case.
Reached(last) == last + Cardinality(cases)

MintedUpTo(r, top) == r.op = "open" => r.assigned.case \in 1..top

Lowest(numbers, requests, top) ==
    /\ numbers \subseteq 1..top
    /\ \A w \in Workers : MintedUpTo(requests[w], top + 1)

\* While fewer than a thousand numbers are taken, they are the lowest ones.
NumbersInv(last) == Reached(last) < 1000 => Lowest(CaseNumbers, request, Reached(last))

\* The next number is free, and not far up.
LEMMA NextFollows ==
    ASSUME NEW top \in Nat, top < 1000, CaseNumbers \subseteq 1..top
    PROVE  NextCaseNumberIsFree /\ NextNumber(CaseNumbers, CaseWidth) \in 1..top + 1
BY NextIsFree, Zenon DEF NextCaseNumberIsFree

LEMMA ReachedIs ==
    ASSUME CaseInv, NEW last \in Nat
    PROVE  Reached(last) \in Nat
<1>1. Cardinality(cases) \in Nat
  BY FS_CardinalityType DEF CaseInv
<1> QED
  BY <1>1 DEF Reached

LEMMA NumbersStep ==
    ASSUME NEW last \in Nat, HistoryInv, CaseInv, RowsInv, NumbersInv(last),
           [Next]_vars
    PROVE  NumbersInv(last)'
<1> USE DEF Begin, Finish
<1>0. PICK top \in Nat : top = Reached(last)
  BY ReachedIs
<1>l. top < 1000 => Lowest(CaseNumbers, request, top)
  BY <1>0 DEF NumbersInv
<1>q. Idle.op # "open"
  BY DEF Idle
\* Cases stay, and the one request that changes opens none or one with a number
\* that follows.
<1>a. ASSUME NEW w \in Workers, NEW r, request' = [request EXCEPT ![w] = r], cases' = cases,
             top < 1000 => MintedUpTo(r, top + 1)
      PROVE  NumbersInv(last)'
  <2>1. CaseNumbers' = CaseNumbers /\ Reached(last)' = top
    BY <1>0, <1>a DEF CaseNumbers, Reached
  <2>2. \A v \in Workers : request'[v] = IF v = w THEN r ELSE request[v]
    BY <1>a DEF HistoryInv, RequestsInv
  <2>3. Lowest(CaseNumbers, request, top) /\ MintedUpTo(r, top + 1)
            => Lowest(CaseNumbers, request', top)
    BY <2>2, Zenon DEF Lowest
  <2> QED
    BY <1>l, <1>a, <2>1, <2>3 DEF NumbersInv
<1>b. ASSUME NEW w \in Workers, NEW r, request' = [request EXCEPT ![w] = r], cases' = cases,
             r.op # "open"
      PROVE  NumbersInv(last)'
  <2>1. MintedUpTo(r, top + 1)
    BY <1>b DEF MintedUpTo
  <2> QED
    BY <1>a, <1>b, <2>1, Zenon
<1>1. ASSUME NEW w \in Workers, NEW p \in Proposals, NEW s \in States,
             CreateProposal(w, p, s) \/ UpdateProposal(w, p, s)
      PROVE  NumbersInv(last)'
  <2>1. PICK r : /\ request' = [request EXCEPT ![w] = r] /\ cases' = cases
                 /\ \/ r = [op |-> "create", p |-> p, state |-> s,
                            number |-> NextNumber(IssuedIn(s), ProposalWidth)]
                    \/ r = [op |-> "edit", p |-> p, loaded |-> proposal[p],
                            assigned |-> [proposal[p] EXCEPT !.content = @ + 1, !.state = s]]
    BY <1>1 DEF CreateProposal, UpdateProposal
  <2>2. r.op # "open"
    BY <2>1
  <2> QED
    BY <1>b, <2>1, <2>2, Zenon
<1>2. ASSUME NEW w \in Workers, NEW p \in Proposals, NEW to \in ProposalStatus,
             NEW role \in Roles, TransitionProposal(w, p, to, role)
      PROVE  NumbersInv(last)'
  <2>1. PICK r : /\ request' = [request EXCEPT ![w] = r] /\ cases' = cases
                 /\ r = [op |-> IF to = "APPROVED" THEN "sanction" ELSE "move",
                         p |-> p, by |-> role, loaded |-> proposal[p],
                         assigned |-> [proposal[p] EXCEPT !.status = to]]
    BY <1>2 DEF TransitionProposal
  <2>2. r.op # "open"
    BY <2>1
  <2> QED
    BY <1>b, <2>1, <2>2, Zenon
<1>3. ASSUME NEW w \in Workers,
             CommitCreate(w) \/ CommitEdit(w) \/ SanctionRefused(w) \/ NumberTaken(w)
      PROVE  NumbersInv(last)'
  <2>1. request' = [request EXCEPT ![w] = Idle] /\ cases' = cases
    BY <1>3 DEF CommitCreate, CommitEdit, SanctionRefused, NumberTaken
  <2> QED
    BY <1>b, <1>q, <2>1, Zenon
<1>4. ASSUME NEW w \in Workers, SanctionToCase(w) PROVE NumbersInv(last)'
  <2>1. PICK q, number : /\ q = request[w] /\ q.op = "sanction" /\ cases' = cases
                         /\ number = NextNumber(CaseNumbers, CaseWidth)
                         /\ request' = [request EXCEPT ![w] =
                                [q EXCEPT !.op = "open", !.assigned.case = number]]
    BY <1>4 DEF SanctionToCase
  <2> DEFINE r == [q EXCEPT !.op = "open", !.assigned.case = number]
  <2>2. MoveOK(q) /\ "case" \in DOMAIN q.assigned
    BY <2>1 DEF HistoryInv, RequestsInv, RequestOK, RowsInv, Columns
  <2>3. r.assigned.case = number
    BY <2>2 DEF MoveOK
  <2>4. ASSUME top < 1000 PROVE number \in 1..top + 1
    <3>1. CaseNumbers \subseteq 1..top
      BY <1>l, <2>4 DEF Lowest
    <3> QED
      BY <2>1, <2>4, <3>1, NextFollows, Zenon
  <2> HIDE DEF r
  <2>5. top < 1000 => MintedUpTo(r, top + 1)
    BY <2>3, <2>4 DEF MintedUpTo
  <2> QED
    BY <1>a, <2>1, <2>5 DEF r
<1>5. ASSUME NEW w \in Workers, CommitMove(w) PROVE NumbersInv(last)'
  <2>1. PICK q : q = request[w] /\ q.op \in {"move", "open"} /\ cases' = CasesAfter(q)
                 /\ request' = [request EXCEPT ![w] = Idle]
                 /\ (q.op = "open" => q.assigned.case \notin CaseNumbers)
    BY <1>5 DEF CommitMove
  <2>2. CASE q.op = "move"
    <3>1. cases' = cases
      BY <2>1, <2>2 DEF CasesAfter
    <3> QED
      BY <1>b, <1>q, <2>1, <3>1, Zenon
  <2>3. CASE q.op = "open"
    <3> DEFINE number == q.assigned.case
               new == [number |-> number, of |-> q.p]
    <3>1. cases' = cases \cup {new} /\ number \notin CaseNumbers
      BY <2>1, <2>3 DEF CasesAfter
    <3>2. new \notin cases
      <4>1. \A c \in cases : c.number # number
        BY <3>1 DEF CaseNumbers
      <4> QED
        BY <4>1
    <3>3. Cardinality(cases') = Cardinality(cases) + 1 /\ Cardinality(cases) \in Nat
      BY <3>1, <3>2, FS_AddElement, FS_CardinalityType DEF CaseInv
    <3>4. CaseNumbers' = CaseNumbers \cup {number}
      <4>1. new.number = number
        OBVIOUS
      <4> HIDE DEF new, number
      <4> QED
        BY <3>1, <4>1 DEF CaseNumbers
    <3>5. Reached(last)' = top + 1
      BY <1>0, <3>3 DEF Reached
    <3>6. top + 1 < 1000 => Lowest(CaseNumbers, request, top)
      BY <1>l
    <3> HIDE DEF new
    <3>7. /\ 1..top \subseteq 1..top + 1
          /\ 1..top + 1 \subseteq 1..(top + 1) + 1
      OBVIOUS
    <3>8. \A v \in Workers : request'[v] = IF v = w THEN Idle ELSE request[v]
      BY <2>1 DEF HistoryInv, RequestsInv
    <3>9. Lowest(CaseNumbers, request, top) => Lowest(CaseNumbers', request', top + 1)
      <4> SUFFICES ASSUME Lowest(CaseNumbers, request, top)
                   PROVE  Lowest(CaseNumbers', request', top + 1)
        OBVIOUS
      <4>1. number \in 1..top + 1
        BY <2>1, <2>3 DEF MintedUpTo, Lowest
      <4> HIDE DEF number
      <4>2. CaseNumbers' \subseteq 1..top + 1
        BY <3>4, <3>7, <4>1, Zenon DEF Lowest
      <4>3. \A v \in Workers : MintedUpTo(request'[v], (top + 1) + 1)
        BY <1>q, <3>7, <3>8, Zenon DEF MintedUpTo, Lowest
      <4> QED
        BY <4>2, <4>3, Zenon DEF Lowest
    <3> QED
      BY <3>5, <3>6, <3>9 DEF NumbersInv
  <2> QED
    BY <2>1, <2>2, <2>3
<1>6. ASSUME UNCHANGED vars PROVE NumbersInv(last)'
  BY <1>6 DEF vars, NumbersInv, CaseNumbers, Lowest, Reached
<1> QED
  BY <1>1, <1>2, <1>3, <1>4, <1>5, <1>6 DEF Next

\* However requests overlap, a sanction can always open its case as long as the
\* cases of the district and those before them are fewer than a thousand.
THEOREM NumbersAreFree ==
    ASSUME NEW last \in Nat, EarlierCases \subseteq 1..last
    PROVE  Spec => [](last + Cardinality(cases) < 1000 => NextCaseNumberIsFree)
<1> DEFINE Inv == HistoryInv /\ CaseInv /\ RowsInv /\ NumbersInv(last)
<1>1. Init => Inv
  <2> SUFFICES ASSUME Init PROVE RowsInv /\ NumbersInv(last)
    BY HistoryInitially, CasesInitially
  <2>1. RowsInv
    BY DEF Init, RowsInv, Columns, Idle
  <2>2. Reached(last) = last /\ CaseNumbers = EarlierCases
    BY FS_EmptySet DEF Init, CaseNumbers, Reached
  <2>3. \A w \in Workers : MintedUpTo(request[w], Reached(last) + 1)
    BY DEF Init, MintedUpTo, Idle
  <2> QED
    BY <2>1, <2>2, <2>3 DEF NumbersInv, Lowest
<1>2. Inv /\ [Next]_vars => Inv'
  BY HistoryInductive, CaseInvStep, RowsStep, NumbersStep
<1>3. Inv => (last + Cardinality(cases) < 1000 => NextCaseNumberIsFree)
  <2>1. SUFFICES ASSUME Inv, Reached(last) < 1000 PROVE NextCaseNumberIsFree
    BY DEF Reached
  <2>2. Reached(last) \in Nat /\ CaseNumbers \subseteq 1..Reached(last)
    BY <2>1, ReachedIs DEF NumbersInv, Lowest
  <2> QED
    BY <2>1, <2>2, NextFollows, Zenon
<1> QED
  BY <1>1, <1>2, <1>3, PTL DEF Spec
=============================================================================
