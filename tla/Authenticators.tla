--------------------------- MODULE Authenticators ---------------------------
(***************************************************************************)
(* The second factors of one account: the authenticator app of app/        *)
(* routers/mfa.py and the face of app/routers/biometrics.py.               *)
(*                                                                         *)
(* Setting up an app mints a secret and holds it as pending until a code   *)
(* made with it is shown.  Enrolling a face adds a credential and retires  *)
(* the one before; a partial unique index allows one that is active.  The  *)
(* codes and the pictures are left out: an attempt that fails the check    *)
(* changes nothing.                                                        *)
(***************************************************************************)
EXTENDS Requests, Naturals, Sequences

CONSTANTS
    Secrets,      \* secrets of authenticator apps
    NoSecret,     \* no secret
    MaxFaces      \* bound: rows of biometric_credentials

VARIABLES
    totp,         \* totp_secret and totp_pending_secret of the account
    shown,        \* secrets a right code was shown for
    minted,       \* secrets handed out
    faces         \* is_active of the account's face credentials, by id

vars == <<orderly, request, totp, shown, minted, faces>>

-----------------------------------------------------------------------------
TotpRow == [active : Secrets \cup {NoSecret}, pending : Secrets \cup {NoSecret}]

\* The id of a credential, and no credential.
FaceIds == 1..MaxFaces

NoFace == 0

Request ==
    [op : {"setup", "confirm", "disable"}, loaded : TotpRow, assigned : TotpRow]
    \cup [op : {"enrol"}, existing : FaceIds \cup {NoFace}]

Init ==
    /\ InitRequests
    /\ totp = [active |-> NoSecret, pending |-> NoSecret]
    /\ shown = {}
    /\ minted = {}
    /\ faces = <<>>

-----------------------------------------------------------------------------
\* POST /mfa/totp/setup: a secret like no other.
SetupTotp(w, secret) ==
    /\ secret \notin minted
    /\ minted' = minted \cup {secret}
    /\ Begin(w, [op |-> "setup", loaded |-> totp,
                 assigned |-> [totp EXCEPT !.pending = secret]])
    /\ UNCHANGED <<totp, shown, faces>>

\* POST /mfa/totp/confirm with the code of the pending secret.
ConfirmTotp(w) ==
    /\ totp.pending # NoSecret
    /\ Begin(w, [op |-> "confirm", loaded |-> totp,
                 assigned |-> [active |-> totp.pending, pending |-> NoSecret]])
    /\ shown' = shown \cup {totp.pending}
    /\ UNCHANGED <<totp, minted, faces>>

\* POST /mfa/totp/disable.
DisableTotp(w) ==
    /\ Begin(w, [op |-> "disable", loaded |-> totp,
                 assigned |-> [active |-> NoSecret, pending |-> NoSecret]])
    /\ UNCHANGED <<totp, shown, minted, faces>>

\* Mutant of CommitTotp: the pending secret is the one stored by then.
CommitTotpReloaded(w) ==
    LET r == request[w]
        assigned == IF r.op = "confirm" THEN [active |-> totp.pending, pending |-> NoSecret]
                    ELSE r.assigned
    IN  /\ r.op \in {"setup", "confirm", "disable"}
        /\ totp' = WrittenRow(totp, r.loaded, assigned)
        /\ Finish(w)
        /\ UNCHANGED <<shown, minted, faces>>

CommitTotp(w) ==
    LET r == request[w] IN
    /\ r.op \in {"setup", "confirm", "disable"}
    /\ totp' = WrittenRow(totp, r.loaded, r.assigned)
    /\ Finish(w)
    /\ UNCHANGED <<shown, minted, faces>>

-----------------------------------------------------------------------------
Active == {f \in DOMAIN faces : faces[f]}

\* POST /biometrics/face/enroll, as far as _active_credential.
EnrolFace(w) ==
    /\ Begin(w, [op |-> "enrol",
                 existing |-> IF Active = {} THEN NoFace ELSE CHOOSE f \in Active : TRUE])
    /\ UNCHANGED <<totp, shown, minted, faces>>

Retired(existing) == [f \in DOMAIN faces |-> faces[f] /\ f # existing]

\* The UPDATE of the credential that was active and the INSERT of the new one.
CommitFace(w) ==
    LET r == request[w] IN
    /\ r.op = "enrol"
    /\ Len(faces) < MaxFaces
    /\ Active \subseteq {r.existing}
    /\ faces' = Append(Retired(r.existing), TRUE)
    /\ Finish(w)
    /\ UNCHANGED <<totp, shown, minted>>

\* Another enrolment came first: the unique index refuses the row.
FaceRefused(w) ==
    LET r == request[w] IN
    /\ r.op = "enrol"
    /\ ~ Active \subseteq {r.existing}
    /\ Finish(w)
    /\ UNCHANGED <<totp, shown, minted, faces>>

FailRequest(w) == Fail(w) /\ UNCHANGED <<totp, shown, minted, faces>>

Next ==
    \E w \in Workers :
        \/ \E secret \in Secrets : SetupTotp(w, secret)
        \/ ConfirmTotp(w)
        \/ DisableTotp(w)
        \/ CommitTotp(w)
        \/ EnrolFace(w)
        \/ CommitFace(w)
        \/ FaceRefused(w)
        \/ FailRequest(w)

Spec == orderly \in BOOLEAN /\ Init /\ [][Next]_vars

-----------------------------------------------------------------------------
\* The row, the credentials and the requests are well formed.
TypeOK ==
    /\ RequestsOK(Request)
    /\ totp \in TotpRow
    /\ shown \subseteq minted /\ minted \subseteq Secrets
    /\ faces \in Seq(BOOLEAN)

(***************************************************************************)
(* "nothing is active until it's confirmed" (mfa.py) and "Only one row per *)
(* (user, kind) is ever active at a time" (BiometricCredential): however   *)
(* requests overlap or fail, the secret codes are checked with is one its  *)
(* owner has shown a code of, and an account that has enrolled a face has  *)
(* one to be compared with, never two and never none.                      *)
(***************************************************************************)
FactorsAreProven ==
    /\ totp.active \in shown \cup {NoSecret}
    /\ faces # <<>> => Active # {}
    /\ \A f, g \in Active : f = g
=============================================================================
