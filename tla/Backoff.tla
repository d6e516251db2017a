------------------------------- MODULE Backoff -------------------------------
(***************************************************************************)
(* How long a REST call waits before it is made again, and what the two    *)
(* endpoint groups remember of the server's rate limits.  Each thread is   *)
(* inside retry_with_backoff; the threads of one group share its           *)
(* middleware, and with it last_rate_limit, from which the delay of an     *)
(* error is computed after another thread may have overwritten it.         *)
(*                                                                         *)
(* Which errors are retried at all is in Rest; here every call may be      *)
(* repeated.  Time is in seconds where the server speaks of it, delays are *)
(* in milliseconds.                                                        *)
(***************************************************************************)
EXTENDS Integers, FiniteSets

CONSTANTS
    Threads,
    AuthThreads,    \* those that call the auth group; the others the public one
    None,           \* an absent header
    Replies,        \* bound: the replies the server may give
    max_attempts,
    base_delay,     \* ms
    max_delay,      \* ms
    NetworkCap,     \* 60 s in the code, in ms
    MaxNow,         \* bound: the latest second of the clock
    MaxResponses    \* bound: responses in all

ASSUME ThreadsAssumption == AuthThreads \subseteq Threads
ASSUME NoneAssumption == None \notin Int
ASSUME NumbersAssumption ==
    /\ max_attempts \in Nat \ {0}
    /\ base_delay \in Nat /\ max_delay \in Nat /\ NetworkCap \in Nat /\ MaxNow \in Nat
    /\ MaxResponses \in Nat
ASSUME PowersAssumption == \A n \in 0 .. max_attempts - 1 : 2^n \in Nat

VARIABLES
    now,               \* the clock, in seconds
    responses,         \* responses so far: time.monotonic() of the latest
    last_response_at,  \* group -> time.monotonic() of its latest response
    last_rate_limit,   \* group -> RateLimitInfo, with the response it is of
    pc,                \* thread -> Places
    attempt,           \* thread -> the loop variable
    answer,            \* thread -> the answer it is processing
    wake,              \* thread -> when its sleep is over, in ms
    mixed,             \* history: threads whose answer was overwritten under them
    crossed            \* history: groups that stored two answers in reverse, the latest
                       \* not since

sharedVars == <<responses, last_response_at, last_rate_limit>>
threadVars == <<pc, attempt, answer, wake>>
vars == <<now, sharedVars, threadVars, mixed, crossed>>

Groups == {"auth", "public"}
Group(t) == IF t \in AuthThreads THEN "auth" ELSE "public"
Of(g) == {t \in Threads : Group(t) = g}

Places == {"waiting", "stamped", "stored", "sleeping", "done", "failed"}

\* How a call ends: a rate limit (429, 10010, 11010), a 5xx or a body that is
\* not JSON, "nonce: small", an error whose message names a nonce, an error
\* that is not retried, any other exception of the call, a result.
Kinds == {"rateLimit", "noAnswer", "nonce", "namesNonce", "rejected", "other", "result"}

\* `of` tells a response from the others; 0 is "none yet".
\* Headers: Retry-After in ms, X-RateLimit-Reset in seconds.
ASSUME RepliesAssumption ==
    Replies \subseteq [kind : Kinds, retry_after_ms : Nat \cup {None}, reset : Nat \cup {None}]

RateLimitInfos == [retry_after_ms : Nat \cup {None}, reset : Nat \cup {None}, of : Nat]
NoInfo == [retry_after_ms |-> None, reset |-> None, of |-> 0]
Answers == [kind : Kinds, info : RateLimitInfos, at : Nat]
NoAnswer == [kind |-> "result", info |-> NoInfo, at |-> 0]

Smaller(a, b) == IF a < b THEN a ELSE b
Larger(a, b) == IF a > b THEN a ELSE b

Init ==
    /\ now = 0
    /\ responses = 0
    /\ last_response_at = [g \in Groups |-> 0]
    /\ last_rate_limit = [g \in Groups |-> NoInfo]
    /\ pc = [t \in Threads |-> "waiting"]
    /\ attempt = [t \in Threads |-> 0]
    /\ answer = [t \in Threads |-> NoAnswer]
    /\ wake = [t \in Threads |-> 0]
    /\ mixed = {}
    /\ crossed = {}
-----------------------------------------------------------------------------
(* Delays.                                                                 *)

\* Mutant: without the floor of a second.
rate_limit_delay_ms_NoFloor(g) ==
    LET info == last_rate_limit[g]
    IN IF info.retry_after_ms # None THEN info.retry_after_ms
       ELSE IF info.reset # None /\ info.reset # 0 THEN Larger(0, (info.reset - now) * 1000)
       ELSE 60000

\* __rate_limit_delay_ms: of whatever response is in last_rate_limit by now.
rate_limit_delay_ms(g) ==
    LET info == last_rate_limit[g]
    IN Larger(1000,
         IF info.retry_after_ms # None THEN info.retry_after_ms
         ELSE IF info.reset # None /\ info.reset # 0 THEN (info.reset - now) * 1000
         ELSE 60000)

\* What the middleware gives an error of this kind as its retry_after_ms.
error_retry_after_ms(g, kind) ==
    IF kind = "rateLimit" THEN rate_limit_delay_ms(g) ELSE last_rate_limit[g].retry_after_ms

\* get_backoff_delay: a RateLimitError's, an error's that is, or names, a nonce
\* error, a NetworkError's with and without Retry-After, any other's.
get_backoff_delay(kind, retry_after, n) ==
    CASE kind = "rateLimit" -> Smaller(retry_after, max_delay)
      [] kind \in {"nonce", "namesNonce"} -> 1000
      [] kind = "noAnswer" -> IF retry_after # None THEN Smaller(retry_after, max_delay)
                              ELSE Smaller(base_delay * (n + 1), NetworkCap)
      [] OTHER -> Smaller(base_delay * 2^n, max_delay)

\* The except block of retry_with_backoff and of its async twin, for the error
\* a call ended with.
Fails(t, error, retry_after) ==
    IF attempt[t] = max_attempts - 1 \/ error.kind = "rejected"
    THEN /\ pc' = [pc EXCEPT ![t] = "failed"]
         /\ answer' = [answer EXCEPT ![t] = NoAnswer]
         /\ UNCHANGED wake
    ELSE /\ pc' = [pc EXCEPT ![t] = "sleeping"]
         /\ answer' = [answer EXCEPT ![t] = error]
         /\ wake' = [wake EXCEPT ![t] =
                       now * 1000 + get_backoff_delay(error.kind, retry_after, attempt[t])]
-----------------------------------------------------------------------------
(* A call.                                                                 *)

\* __process_response: first the time is stored...
Stamp(t) ==
    /\ pc[t] = "waiting"
    /\ responses < MaxResponses   \* bound
    /\ responses' = responses + 1
    /\ last_response_at' = [last_response_at EXCEPT ![Group(t)] = responses']
    /\ \E r \in Replies :
          answer' = [answer EXCEPT ![t] = [kind |-> r.kind, at |-> now, info |->
              [retry_after_ms |-> r.retry_after_ms, reset |-> r.reset, of |-> responses']]]
    /\ pc' = [pc EXCEPT ![t] = "stamped"]
    /\ UNCHANGED <<now, last_rate_limit, attempt, wake, mixed, crossed>>

\* The groups left with an older answer over a newer one once t has stored its
\* own: the latest of all puts that right, any other may be too old itself.
Crossed(t) ==
    LET g == Group(t)
    IN IF answer[t].info.of = last_response_at[g] THEN crossed \ {g}
       ELSE IF last_rate_limit[g].of > answer[t].info.of THEN crossed \cup {g}
       ELSE crossed

\* Mutant: an answer without rate limit headers leaves the older ones.
Store_KeepsOld(t) ==
    /\ pc[t] = "stamped"
    /\ last_rate_limit' = [last_rate_limit EXCEPT ![Group(t)] =
                             IF answer[t].info.retry_after_ms = None /\ answer[t].info.reset = None
                             THEN @ ELSE answer[t].info]
    /\ mixed' = (mixed \cup {u \in Of(Group(t)) : pc[u] = "stored"}) \ {t}
    /\ crossed' = Crossed(t)
    /\ pc' = [pc EXCEPT ![t] = "stored"]
    /\ UNCHANGED <<now, responses, last_response_at, attempt, answer, wake>>

\* ... then the headers, in a second statement.
Store(t) ==
    /\ pc[t] = "stamped"
    /\ last_rate_limit' = [last_rate_limit EXCEPT ![Group(t)] = answer[t].info]
    /\ mixed' = (mixed \cup {u \in Of(Group(t)) : pc[u] = "stored"}) \ {t}
    /\ crossed' = Crossed(t)
    /\ pc' = [pc EXCEPT ![t] = "stored"]
    /\ UNCHANGED <<now, responses, last_response_at, attempt, answer, wake>>

Return(t) ==
    /\ pc[t] = "stored"
    /\ answer[t].kind = "result"
    /\ pc' = [pc EXCEPT ![t] = "done"]
    /\ answer' = [answer EXCEPT ![t] = NoAnswer]
    /\ UNCHANGED <<now, sharedVars, attempt, wake, mixed, crossed>>

\* Mutant: the error is made before the headers are stored.
Raise_TooEarly(t) ==
    /\ pc[t] \in {"stamped", "stored"}
    /\ answer[t].kind # "result"
    /\ Fails(t, answer[t], error_retry_after_ms(Group(t), answer[t].kind))
    /\ UNCHANGED <<now, sharedVars, attempt, mixed, crossed>>

\* ... and the error is made, which reads the headers back.
Raise(t) ==
    /\ pc[t] = "stored"
    /\ answer[t].kind # "result"
    /\ Fails(t, answer[t], error_retry_after_ms(Group(t), answer[t].kind))
    /\ UNCHANGED <<now, sharedVars, attempt, mixed, crossed>>

\* The call ends without a response: nothing is stored.  A NetworkError has no
\* Retry-After then; any other exception of the call is taken as it
\* is.
NoResponse(t) ==
    /\ pc[t] = "waiting"
    /\ \E kind \in {"noAnswer", "other"} :
          Fails(t, [kind |-> kind, at |-> now, info |-> NoInfo], None)
    /\ UNCHANGED <<now, sharedVars, attempt, mixed, crossed>>

Wake(t) ==
    /\ pc[t] = "sleeping"
    /\ now * 1000 >= wake[t]
    /\ pc' = [pc EXCEPT ![t] = "waiting"]
    /\ attempt' = [attempt EXCEPT ![t] = @ + 1]
    /\ answer' = [answer EXCEPT ![t] = NoAnswer]
    /\ wake' = [wake EXCEPT ![t] = 0]
    /\ UNCHANGED <<now, sharedVars, mixed, crossed>>

Tick ==
    /\ now < MaxNow   \* bound
    /\ now' = now + 1
    /\ UNCHANGED <<sharedVars, threadVars, mixed, crossed>>

\* BfxRestInterface.last_rate_limit: the newer of the two groups'.
facade_last_rate_limit ==
    IF last_response_at["public"] > last_response_at["auth"]
    THEN last_rate_limit["public"] ELSE last_rate_limit["auth"]

Next ==
    \/ \E t \in Threads : Stamp(t) \/ Store(t) \/ Return(t) \/ Raise(t) \/ NoResponse(t) \/ Wake(t)
    \/ Tick

Spec == Init /\ [][Next]_vars
-----------------------------------------------------------------------------
TypeOK ==
    /\ now \in Nat /\ responses \in Nat
    /\ last_response_at \in [Groups -> Nat]
    /\ last_rate_limit \in [Groups -> RateLimitInfos]
    /\ pc \in [Threads -> Places]
    /\ attempt \in [Threads -> 0 .. max_attempts - 1]
    /\ answer \in [Threads -> Answers]
    /\ wake \in [Threads -> Nat]
    /\ mixed \subseteq Threads
    /\ crossed \subseteq Groups

\* When its own answer asked the thread to come back, in ms.
Asked(t) ==
    LET info == answer[t].info
    IN IF info.retry_after_ms # None THEN answer[t].at * 1000 + info.retry_after_ms
       ELSE IF info.reset # None THEN info.reset * 1000
       ELSE answer[t].at * 1000

\* A rate limited call is not made again before its own answer allows it,
\* max_delay permitting, unless another thread's answer took the place of its
\* own between the two statements.
WaitsAsAsked ==
    \A t \in Threads \ mixed :
        pc[t] = "sleeping" /\ answer[t].kind = "rateLimit" =>
            wake[t] >= Smaller(Asked(t), answer[t].at * 1000 + max_delay)

\* Even then it pauses: whatever headers it reads, a rate limited call waits a
\* second at least, if max_delay allows one.
RateLimitedPauses ==
    \A t \in Threads : pc[t] = "sleeping" /\ answer[t].kind = "rateLimit" =>
        wake[t] >= answer[t].at * 1000 + Smaller(1000, max_delay)

\* "Rate-limit headers of the most recent REST response, auth or public":
\* while no response is half stored, and unless two threads of a group stored
\* theirs in reverse.
FacadeFresh ==
    crossed = {} /\ (\A t \in Threads : pc[t] # "stamped") =>
        facade_last_rate_limit.of = responses
=============================================================================
