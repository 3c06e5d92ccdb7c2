------------------------------ MODULE SignIns ------------------------------
(***************************************************************************)
(* Sign-in attempts from one address and the limit on those that fail:     *)
(* app/services/ratelimit.py, as the three sign-in routes use it           *)
(* (password and code of app/routers/auth.py, face of app/routers/         *)
(* biometrics.py).                                                         *)
(*                                                                         *)
(* A route asks the limiter first, then spends its time on the password,   *)
(* the code or the face, and only then records a failure or forgets the    *)
(* earlier ones.  The failures are in the memory of the process.  Time is  *)
(* real in the code and counted in ticks here, several to a second.        *)
(***************************************************************************)
EXTENDS Requests, Integers, Sequences, FiniteSetsExt

CONSTANTS
    Attempts,        \* login_rate_limit_attempts
    Window,          \* login_rate_limit_window_seconds, in ticks
    TicksPerSecond,
    LastTick         \* bound: the time that passes

VARIABLES
    failures,        \* _failures of the address, newest last
    now,
    promised         \* when the last refusal said to try again

vars == <<orderly, request, failures, now, promised>>

-----------------------------------------------------------------------------
\* What is tried, and how an attempt may end: with a failure recorded, with
\* the failures forgotten, or with neither (a session for the code that has
\* expired, or an account that is gone).
Outcomes(factor) ==
    IF factor = "code" THEN {"wrong", "right", "void"} ELSE {"wrong", "right"}

Factor == {"password", "code", "face"}

Request == [op : Factor, outcome : {"wrong", "right", "void"}]

\* No refusal stands: the address was let in, or the process is new.
NoPromise == 0

InWindow(t) == now - t < Window

Init ==
    /\ InitRequests
    /\ failures = <<>>
    /\ now = 0
    /\ promised = NoPromise

-----------------------------------------------------------------------------
\* Failures are newest last, so those in the window are the last ones.
Oldest == Min({i \in DOMAIN failures : InWindow(failures[i])} \cup {Len(failures) + 1})

Recent == SubSeq(failures, Oldest, Len(failures))

\* Mutant of RetryAfter: the fraction of a second left is cut off.
RetryAfterCut ==
    LET left == Window - (now - Recent[1])
        seconds == left \div TicksPerSecond
    IN  IF seconds < 1 THEN 1 ELSE seconds

\* The seconds to wait: until the oldest failure in the window ages out.
RetryAfter ==
    LET left == Window - (now - Recent[1])
        seconds == (left \div TicksPerSecond) + 1
    IN  IF seconds < 1 THEN 1 ELSE seconds

\* retry_after_seconds and _prune: failures that aged out are dropped.  The list is
\* read and written back in one step, as if no other thread came in between.
AskLimiter == failures' = Recent

\* An attempt the limiter lets through.
TryToSignIn(w, factor, outcome) ==
    /\ Len(Recent) < Attempts
    /\ Begin(w, [op |-> factor, outcome |-> outcome])
    /\ AskLimiter
    /\ promised' = NoPromise
    /\ UNCHANGED now

\* 429, with the Retry-After header.
Refuse(w) ==
    /\ Len(Recent) >= Attempts
    /\ AtOnce(w)
    /\ AskLimiter
    /\ promised' = now + RetryAfter * TicksPerSecond
    /\ UNCHANGED now

\* record_failure, clear, or neither.
EndAttempt(w) ==
    LET r == request[w] IN
    /\ r.op \in Factor
    /\ failures' = CASE r.outcome = "wrong" -> Append(failures, now)
                     [] r.outcome = "right" -> <<>>
                     [] r.outcome = "void" -> failures
    /\ Finish(w)
    /\ UNCHANGED <<now, promised>>

\* A route that raises in between, the database gone, counts as nothing.
FailRequest(w) == Fail(w) /\ UNCHANGED <<failures, now, promised>>

Tick ==
    /\ now < LastTick
    /\ now' = now + 1
    /\ UNCHANGED <<orderly, request, failures, promised>>

\* Another address asks the limiter, which prunes the whole map.
Prune ==
    /\ failures # Recent
    /\ AskLimiter
    /\ UNCHANGED <<orderly, request, now, promised>>

\* The counters and the requests are lost with the process.
Restart ==
    /\ ~orderly
    /\ failures' = <<>>
    /\ request' = [w \in Workers |-> Idle]
    /\ promised' = NoPromise
    /\ UNCHANGED <<orderly, now>>

Next ==
    \/ \E w \in Workers :
        \/ \E factor \in Factor : \E outcome \in Outcomes(factor) :
              TryToSignIn(w, factor, outcome)
        \/ Refuse(w)
        \/ EndAttempt(w)
        \/ FailRequest(w)
    \/ Tick
    \/ Prune
    \/ Restart

Spec == orderly \in BOOLEAN /\ Init /\ [][Next]_vars

-----------------------------------------------------------------------------
\* Failures, times and requests are well formed.
TypeOK ==
    /\ RequestsOK(Request)
    /\ failures \in Seq(0..LastTick)
    /\ \A i, j \in DOMAIN failures : i <= j => failures[i] <= failures[j]
    /\ now \in 0..LastTick
    /\ promised \in Nat

(***************************************************************************)
(* "the block lifts when the oldest failure in it ages out" (ratelimit.    *)
(* py).  However attempts overlap, the failures in the window stay below   *)
(* the limit but for those of attempts already under way.  When attempts   *)
(* come one by one, who comes back when the last refusal said is let in.   *)
(***************************************************************************)
RefusalsArePromises ==
    /\ Len(Recent) < Attempts + Cardinality(Workers)
    /\ orderly /\ promised # NoPromise /\ promised <= now => Len(Recent) < Attempts
=============================================================================
