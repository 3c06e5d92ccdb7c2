----------------------------- MODULE Documents -----------------------------
(***************************************************************************)
(* The versions of one type of document on one case, and the files behind  *)
(* them: app/routers/documents.py and app/services/uploads.py.  An upload  *)
(* supersedes the version that is current; a download puts a missing seed  *)
(* placeholder back on disk; a restart of the service empties the disk.    *)
(*                                                                         *)
(* There is one server process.  Uploads run in its event loop: nothing    *)
(* but an awaited file comes between the steps of two of them, so what an  *)
(* upload does after its file has arrived is one step.  The other handlers *)
(* run in threads and load and commit in different steps.                  *)
(*                                                                         *)
(* Contents of files are numbers in the order they are written: no two     *)
(* have the same bytes, a placeholder's neither (its PDF carries the time  *)
(* it was made).  A digest is the number of the content it was taken of.   *)
(***************************************************************************)
EXTENDS Requests, Sequences, Naturals

CONSTANTS
    MaxVersions,  \* bound: rows of documents
    MaxContents   \* bound: files written

VARIABLES
    documents,    \* rows of documents, by id
    disk,         \* content of the file under each row's stored_name
    written       \* number of files written so far

vars == <<orderly, request, documents, disk, written>>

-----------------------------------------------------------------------------
NoFile == 0

\* "nested" is the old name of a seeded row, which no download can serve.
StoredName == {"upload", "seed", "nested"}

VerificationStatus == {"PENDING", "VERIFIED", "REJECTED", "CORRECTION_REQUESTED"}

Contents == 0..MaxContents

Id == 1..MaxVersions

DocumentRow == [name : StoredName, version : Nat, supersedes : Nat, current : BOOLEAN,
                digest : Contents, status : VerificationStatus]

Request ==
    [op : {"upload"}]
    \cup [op : {"verify", "heal", "served"}, d : Id, loaded : DocumentRow, assigned : DocumentRow]

\* A case has no document of the type, or the one it was seeded with: with its
\* file, or with a nested name no file was ever written to.
Init ==
    /\ InitRequests
    /\ \E name \in StoredName :
          IF name = "upload" THEN documents = <<>> /\ disk = <<>> /\ written = 0
          ELSE /\ documents = <<[name |-> name, version |-> 1, supersedes |-> 0,
                                 current |-> TRUE, digest |-> 1, status |-> "PENDING"]>>
               /\ disk = <<IF name = "seed" THEN 1 ELSE NoFile>>
               /\ written = 1

Rows == DOMAIN documents

-----------------------------------------------------------------------------
\* POST /documents, up to the await of save_upload_file.
UploadDocument(w) == Begin(w, [op |-> "upload"]) /\ UNCHANGED <<documents, disk, written>>

\* Mutant of IsPrevious: a verified version is not superseded.
IsUnverifiedPrevious(d) == documents[d].current /\ documents[d].status # "VERIFIED"

IsPrevious(d) == documents[d].current

\* The current version with the highest number, 0 if there is none.
Previous ==
    LET found == {d \in Rows : IsPrevious(d)} IN
    IF found = {} THEN 0
    ELSE CHOOSE d \in found : \A e \in found : documents[e].version <= documents[d].version

\* The file has arrived: supersede, insert and commit.
FileDocument(w) ==
    /\ request[w].op = "upload"
    /\ Len(documents) < MaxVersions
    /\ written < MaxContents
    /\ written' = written + 1
    /\ disk' = Append(disk, written')
    /\ documents' = Append(
            [d \in Rows |-> [documents[d] EXCEPT !.current = @ /\ d # Previous]],
            [name |-> "upload",
             version |-> IF Previous = 0 THEN 1 ELSE documents[Previous].version + 1,
             supersedes |-> Previous, current |-> TRUE,
             digest |-> written', status |-> "PENDING"])
    /\ Finish(w)

-----------------------------------------------------------------------------
\* POST /documents/{id}/verify: any version, superseded ones too, and
\* back to PENDING as well.
VerifyDocument(w, d, verdict) ==
    /\ Begin(w, [op |-> "verify", d |-> d, loaded |-> documents[d],
                 assigned |-> [documents[d] EXCEPT !.status = verdict]])
    /\ UNCHANGED <<documents, disk, written>>

-----------------------------------------------------------------------------
\* GET /documents/{id}/download, when it has something to put right: a nested
\* name is replaced, and a placeholder that is not on disk is made again.
DownloadDocument(w, d) ==
    LET row == documents[d]
        named == [row EXCEPT !.name = "seed"]
        missing == disk[d] = NoFile
    IN  /\ row.name # "upload"
        /\ row.name = "nested" \/ missing
        /\ Begin(w, [op |-> IF missing THEN "heal" ELSE "served", d |-> d,
                     loaded |-> row, assigned |-> named])
        /\ UNCHANGED <<documents, disk, written>>

\* Mutant of WritePlaceholder: the row keeps the digest of the file it had.
WritePlaceholderOnly(w) ==
    LET r == request[w] IN
    /\ r.op = "heal"
    /\ written < MaxContents
    /\ written' = written + 1
    /\ disk' = [disk EXCEPT ![r.d] = written']
    /\ GoOn(w, [r EXCEPT !.op = "served"])
    /\ UNCHANGED documents

\* write_seed_placeholder_pdf, and its digest in the session.
WritePlaceholder(w) ==
    LET r == request[w] IN
    /\ r.op = "heal"
    /\ written < MaxContents
    /\ written' = written + 1
    /\ disk' = [disk EXCEPT ![r.d] = written']
    /\ GoOn(w, [r EXCEPT !.op = "served", !.assigned.digest = written'])
    /\ UNCHANGED documents

\* The commit of a verification or a download.
CommitRow(w) ==
    LET r == request[w] IN
    /\ r.op \in {"verify", "served"}
    /\ documents' = [documents EXCEPT ![r.d] = WrittenRow(@, r.loaded, r.assigned)]
    /\ Finish(w)
    /\ UNCHANGED <<disk, written>>

FailRequest(w) == Fail(w) /\ UNCHANGED <<documents, disk, written>>

\* A deploy, or the container going to sleep: requests under way are gone and
\* so is the disk.
Restart ==
    /\ orderly => AllIdle
    /\ disk' = [d \in Rows |-> NoFile]
    /\ request' = [w \in Workers |-> Idle]
    /\ UNCHANGED <<orderly, documents, written>>

Next ==
    \/ \E w \in Workers :
        \/ UploadDocument(w)
        \/ FileDocument(w)
        \/ \E d \in Rows, verdict \in VerificationStatus : VerifyDocument(w, d, verdict)
        \/ \E d \in Rows : DownloadDocument(w, d)
        \/ WritePlaceholder(w)
        \/ CommitRow(w)
        \/ FailRequest(w)
    \/ Restart

Spec == orderly \in BOOLEAN /\ Init /\ [][Next]_vars

-----------------------------------------------------------------------------
\* Rows, files and requests are well formed.
TypeOK ==
    /\ RequestsOK(Request)
    /\ documents \in Seq(DocumentRow)
    /\ Len(documents) <= MaxVersions
    /\ disk \in [Rows -> Contents]
    /\ written \in Contents

\* "the history stays complete" (documents.py): the versions of a document are
\* numbered without gaps, each supersedes the one before, and exactly the last
\* one is current, however uploads, verifications and downloads overlap.
VersionsFormAChain ==
    \A d \in Rows :
        /\ documents[d].version = d
        /\ documents[d].supersedes = d - 1
        /\ documents[d].current <=> d = Len(documents)

\* "SHA-256 of the bytes as written" (tables.py): when requests come one after
\* the other, a file on disk that no request is serving is the file its row
\* has the digest of, however often the disk was emptied.
DigestDescribesFile ==
    orderly /\ AllIdle =>
        \A d \in Rows : disk[d] # NoFile => disk[d] = documents[d].digest
=============================================================================
