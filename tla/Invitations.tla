---------------------------- MODULE Invitations ----------------------------
(***************************************************************************)
(* One invitation and the accounts made with it: app/services/invites.py,  *)
(* POST /auth/register and the invitation routes of app/routers/admin.py.  *)
(*                                                                         *)
(* A registration verifies the code, spends seconds on the password and    *)
(* the face, and then inserts the account and writes the use count it      *)
(* raised.  Presenting a wrong code changes nothing and is left out.       *)
(***************************************************************************)
EXTENDS Requests, Naturals, FiniteSets

CONSTANTS
    Usernames,   \* usernames that registrations ask for
    MaxUses      \* max_uses of the invitation

VARIABLES
    invite,      \* its row of invite_codes
    expired,     \* whether expires_at has passed
    accounts     \* usernames of the accounts made with it

vars == <<orderly, request, invite, expired, accounts>>

-----------------------------------------------------------------------------
InviteRow == [issued : BOOLEAN, used : Nat, revoked : BOOLEAN, plain : BOOLEAN]

Request ==
    [op : {"register"}, name : Usernames, loaded : InviteRow, assigned : InviteRow]
    \cup [op : {"revoke", "wipe"}, loaded : InviteRow, assigned : InviteRow]

\* redeem_reason finds nothing against the invitation.
Redeemable(row) == row.issued /\ ~row.revoked /\ ~expired /\ row.used < MaxUses

\* Nobody can register with it any more, whoever holds the code.
Dead(row) == row.revoked \/ expired

Init ==
    /\ InitRequests
    /\ invite = [issued |-> FALSE, used |-> 0, revoked |-> FALSE, plain |-> FALSE]
    /\ expired = FALSE
    /\ accounts = {}

-----------------------------------------------------------------------------
\* POST /admin/invite-codes.  One INSERT, so one step.
IssueInviteCode(w) ==
    /\ request[w] = Idle
    /\ ~invite.issued
    /\ invite' = [invite EXCEPT !.issued = TRUE, !.plain = TRUE]
    /\ UNCHANGED <<orderly, request, expired, accounts>>

\* POST /auth/register, with the code and a username nobody has.
Register(w, name) ==
    /\ Redeemable(invite)
    /\ name \notin accounts
    /\ Begin(w, [op |-> "register", name |-> name, loaded |-> invite,
                 assigned |-> [invite EXCEPT !.used = @ + 1]])
    /\ UNCHANGED <<invite, expired, accounts>>

\* The account and the use of the invitation, in one transaction.
CommitRegister(w) ==
    LET r == request[w] IN
    /\ r.op = "register"
    /\ r.name \notin accounts
    /\ invite' = WrittenRow(invite, r.loaded, r.assigned)
    /\ accounts' = accounts \cup {r.name}
    /\ Finish(w)
    /\ UNCHANGED expired

\* A username taken meanwhile fails the account and the use with it.
UsernameTaken(w) ==
    /\ request[w].op = "register"
    /\ request[w].name \in accounts
    /\ Finish(w)
    /\ UNCHANGED <<invite, expired, accounts>>

-----------------------------------------------------------------------------
\* POST /admin/invite-codes/{id}/revoke.
RevokeInviteCode(w) ==
    /\ invite.issued
    /\ Begin(w, [op |-> "revoke", loaded |-> invite,
                 assigned |-> [invite EXCEPT !.revoked = TRUE, !.plain = FALSE]])
    /\ UNCHANGED <<invite, expired, accounts>>

\* GET /admin/invite-codes, when there is a dead secret to wipe.
ListInviteCodes(w) ==
    /\ invite.plain /\ Dead(invite)
    /\ Begin(w, [op |-> "wipe", loaded |-> invite,
                 assigned |-> [invite EXCEPT !.plain = FALSE]])
    /\ UNCHANGED <<invite, expired, accounts>>

CommitInvite(w) ==
    LET r == request[w] IN
    /\ r.op \in {"revoke", "wipe"}
    /\ invite' = WrittenRow(invite, r.loaded, r.assigned)
    /\ Finish(w)
    /\ UNCHANGED <<expired, accounts>>

\* EXPIRY_HOURS after it was issued.
Expire ==
    /\ invite.issued /\ ~expired
    /\ expired' = TRUE
    /\ UNCHANGED <<orderly, request, invite, accounts>>

\* Mutant of FailRequest: the use was counted in a transaction of its own.
FailAfterCounting(w) ==
    LET r == request[w] IN
    /\ Fail(w)
    /\ invite' = IF r.op = "register" THEN WrittenRow(invite, r.loaded, r.assigned) ELSE invite
    /\ UNCHANGED <<expired, accounts>>

\* Nothing of a request that fails is committed, its count of a use neither.
FailRequest(w) == Fail(w) /\ UNCHANGED <<invite, expired, accounts>>

Next ==
    \/ \E w \in Workers :
        \/ IssueInviteCode(w)
        \/ \E name \in Usernames : Register(w, name)
        \/ CommitRegister(w)
        \/ UsernameTaken(w)
        \/ RevokeInviteCode(w)
        \/ ListInviteCodes(w)
        \/ CommitInvite(w)
        \/ FailRequest(w)
    \/ Expire

Spec == orderly \in BOOLEAN /\ Init /\ [][Next]_vars

-----------------------------------------------------------------------------
\* The row, the accounts and the requests are well formed.
TypeOK ==
    /\ RequestsOK(Request)
    /\ invite \in InviteRow
    /\ expired \in BOOLEAN
    /\ accounts \subseteq Usernames

(***************************************************************************)
(* "a failure cannot consume an invitation without creating the user it    *)
(* was for" (auth.py), "That invitation has already been used" (invites.   *)
(* py): however registrations overlap or fail, no more uses are counted    *)
(* than accounts were made; when they come one by one, no more accounts    *)
(* are made than the invitation admits.                                    *)
(***************************************************************************)
AccountsMatchUses ==
    /\ invite.used <= Cardinality(accounts)
    /\ orderly => Cardinality(accounts) <= MaxUses
=============================================================================
