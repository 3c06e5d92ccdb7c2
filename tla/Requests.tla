------------------------------ MODULE Requests ------------------------------
(***************************************************************************)
(* The threads of the backend at one desk of it: what each is doing, and   *)
(* whether requests come one after the other.  In an orderly behaviour     *)
(* they do and none fails; otherwise they overlap, and any may end early   *)
(* with an exception or a lost connection, which rolls back what it had    *)
(* not committed.                                                          *)
(***************************************************************************)
EXTENDS UnitOfWork

CONSTANT Workers    \* threads handling requests

VARIABLES
    orderly,    \* whether requests come one after the other and none fails
    request     \* what each worker is doing, with the rows it loaded

Idle == [op |-> "idle"]

AllIdle == \A w \in Workers : request[w] = Idle

InitRequests == request = [w \in Workers |-> Idle]

Begin(w, r) ==
    /\ request[w] = Idle
    /\ orderly => AllIdle
    /\ request' = [request EXCEPT ![w] = r]
    /\ UNCHANGED orderly

\* A request of one statement, which begins and ends in one step.
AtOnce(w) ==
    /\ request[w] = Idle
    /\ orderly => AllIdle
    /\ UNCHANGED <<orderly, request>>

GoOn(w, r) == request' = [request EXCEPT ![w] = r] /\ UNCHANGED orderly

Finish(w) == GoOn(w, Idle)

\* Whatever goes wrong, the session is closed without a commit.
Fail(w) ==
    /\ ~orderly
    /\ request[w] # Idle
    /\ Finish(w)

RequestsOK(Request) ==
    /\ orderly \in BOOLEAN
    /\ request \in [Workers -> {Idle} \cup Request]
=============================================================================
