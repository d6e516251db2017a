-------------------------------- MODULE Rest --------------------------------
(***************************************************************************)
(* Authenticated REST calls made from several threads, each of them inside *)
(* retry_with_backoff: the nonce every attempt is signed with, what becomes *)
(* of the request, the class the middleware gives to what comes back, and  *)
(* the decision to send it again.                                          *)
(*                                                                         *)
(* Bitfinex is modelled by what the code relies on: one nonce counter per  *)
(* API key, a request refused with an error or a 4xx is not applied, one   *)
(* that got no answer may have been applied, or may still be.              *)
(*                                                                         *)
(* Errors are abstracted to the classes that is_retryable tells apart.     *)
(***************************************************************************)
EXTENDS Naturals, FiniteSets

CONSTANTS
    Calls,        \* the calls, each on a thread of its own
    Writes,       \* those that post to auth/w/...
    Idempotent,   \* those declared idempotent=True
    InHandler,    \* those made inside the except block of a refused connection
    None,
    max_attempts,
    MaxClock      \* bound: the latest microsecond of the clock

ASSUME CallsAssumption ==
    /\ Writes \subseteq Calls /\ Idempotent \subseteq Calls /\ InHandler \subseteq Calls
    /\ None \notin Calls
ASSUME AttemptsAssumption == max_attempts \in Nat \ {0}
ASSUME ClockAssumption == MaxClock \in Nat

VARIABLES
    clock,     \* time.time_ns() // 1_000
    LAST,      \* _LAST of the nonce module
    LOCK,      \* the call that holds its _LOCK
    pc,        \* call -> where it is
    attempt,   \* call -> the loop variable of retry_with_backoff
    nonce,     \* call -> the nonce of its latest attempt, 0 before the first
    error,     \* call -> the error it was raised with last
    inflight,  \* requests the server may still handle
    accepted,  \* the server's nonce counter
    applied    \* call -> times the server applied it

nonceVars  == <<clock, LAST, LOCK>>
callVars   == <<pc, attempt, nonce, error>>
serverVars == <<inflight, accepted, applied>>
vars       == <<nonceVars, callVars, serverVars>>

Places == {"ready", "signing", "signed", "waiting", "backoff", "done", "failed"}

\* The error classes, with the exceptions each stands for.
Errors == {
    "invalid",    \* _NEVER_SUCCEEDS: a URL, a header that cannot be sent
    "refused",    \* never connected: refused, DNS failure, connect timeout
    "lost",       \* ConnectionError, Timeout of a request that was sent
    "broken",     \* any other RequestException: a body cut short
    "noAnswer",   \* a 5xx with no error body, a body that is not JSON
    "notJson4xx", \* a 4xx whose body is not JSON
    "rateLimit",  \* 429, 10010, 11010: RateLimitError
    "nonce",      \* 10114: NonceError
    "generic",    \* 10000, 10001: GenericError
    "genericNonce", \* the same, and its message speaks of the nonce
    "rejected",   \* RequestParameter, InsufficientFunds, credentials, unexpected
    "noNonce",    \* NonceProviderError
    "noNonceKeyword"} \* the same, and its message speaks of a connection, a timeout

Requests == [call : Calls, nonce : Nat]
-----------------------------------------------------------------------------
Init ==
    /\ clock \in 1 .. MaxClock
    /\ LAST = 0
    /\ LOCK = None
    /\ pc = [c \in Calls |-> "ready"]
    /\ attempt = [c \in Calls |-> 0]
    /\ nonce = [c \in Calls |-> 0]
    /\ error = [c \in Calls |-> None]
    /\ inflight = {}
    /\ accepted = 0
    /\ applied = [c \in Calls |-> 0]
-----------------------------------------------------------------------------
(* Classification.                                                         *)

\* Mutant: a request that timed out counts as one never sent.
never_reached_server_Timeouts(c, kind) == kind \in {"refused", "lost"}

\* _never_reached_server follows __cause__ and __context__, and the latter leads
\* out of the call, to the exception being handled around it.
never_reached_server(c, kind) == kind = "refused" \/ c \in InHandler

\* Mutant: an answer that is no answer is taken for a refusal.
outcome_unknown_OnlyTransport(c, kind) ==
    /\ c \in Writes
    /\ \/ kind = "broken"
       \/ kind = "lost" /\ ~never_reached_server(c, kind)

\* NetworkError.outcome_unknown, as _transport_error, _wrap_request_exception
\* and __process_response set it.
outcome_unknown(c, kind) ==
    /\ c \in Writes
    /\ \/ kind \in {"broken", "noAnswer"}
       \/ kind = "lost" /\ ~never_reached_server(c, kind)

\* Mutant: a nonce error is like any other unexpected one.
is_retryable_NotNonce(c, kind) ==
    \/ kind = "rateLimit"
    \/ /\ kind \in {"refused", "lost", "broken", "noAnswer", "notJson4xx"}
       /\ outcome_unknown(c, kind) => c \in Idempotent

is_retryable(c, kind) ==
    \/ kind \in {"rateLimit", "nonce"}
    \/ /\ kind \in {"refused", "lost", "broken", "noAnswer", "notJson4xx"}
       /\ outcome_unknown(c, kind) => c \in Idempotent
    \/ kind \in {"genericNonce", "noNonceKeyword"} /\ c \in Idempotent

\* fn() raised: raised again, or retried after a delay.
Fails(c, kind) ==
    /\ error' = [error EXCEPT ![c] = kind]
    /\ pc' = [pc EXCEPT ![c] =
                IF attempt[c] = max_attempts - 1 \/ ~is_retryable(c, kind)
                THEN "failed" ELSE "backoff"]
    /\ UNCHANGED <<attempt, nonce>>
-----------------------------------------------------------------------------
(* The nonce.                                                              *)

candidate == IF clock <= LAST THEN LAST + 1 ELSE clock

\* Mutant: the lock is not waited for.
EnterNonce_NoLock(c) ==
    /\ pc[c] = "ready"
    /\ LOCK' = c
    /\ nonce' = [nonce EXCEPT ![c] = candidate]
    /\ pc' = [pc EXCEPT ![c] = "signing"]
    /\ UNCHANGED <<clock, LAST, attempt, error, serverVars>>

\* next_nonce: the lock is taken, the clock and _LAST are read...
EnterNonce(c) ==
    /\ pc[c] = "ready"
    /\ LOCK = None
    /\ LOCK' = c
    /\ nonce' = [nonce EXCEPT ![c] = candidate]
    /\ pc' = [pc EXCEPT ![c] = "signing"]
    /\ UNCHANGED <<clock, LAST, attempt, error, serverVars>>

\* Mutant: the lock is kept.
LeaveNonce_KeepsLock(c) ==
    /\ pc[c] = "signing"
    /\ LAST' = nonce[c]
    /\ pc' = [pc EXCEPT ![c] = "signed"]
    /\ UNCHANGED <<clock, LOCK, attempt, nonce, error, serverVars>>

\* ... and _LAST is written, and the lock released; the request is then signed.
LeaveNonce(c) ==
    /\ pc[c] = "signing"
    /\ LAST' = nonce[c]
    /\ LOCK' = None
    /\ pc' = [pc EXCEPT ![c] = "signed"]
    /\ UNCHANGED <<clock, attempt, nonce, error, serverVars>>
-----------------------------------------------------------------------------
(* One attempt.                                                            *)

\* A NaN or an infinity anywhere in the body: NonFiniteNumberError.
encode_body(c) == attempt[c] = 0 /\ Fails(c, "rejected")

\* The nonce_provider raises, or returns anything but a positive int.
resolve_nonce(c) == \E kind \in {"noNonce", "noNonceKeyword"} : Fails(c, kind)

\* The attempt ends before anything is signed.
Unsigned(c) ==
    /\ pc[c] = "ready"
    /\ encode_body(c) \/ resolve_nonce(c)
    /\ UNCHANGED <<nonceVars, serverVars>>

Send(c) ==
    /\ pc[c] = "signed"
    /\ inflight' = inflight \cup {[call |-> c, nonce |-> nonce[c]]}
    /\ pc' = [pc EXCEPT ![c] = "waiting"]
    /\ UNCHANGED <<nonceVars, attempt, nonce, error, accepted, applied>>

NotSent(c) ==
    /\ pc[c] = "signed"
    /\ \E kind \in {"invalid", "refused"} : Fails(c, kind)
    /\ UNCHANGED <<nonceVars, serverVars>>

\* The connection is lost, the 30 seconds are over, the body is cut short.
\* The request is lost too, or still to be handled.
NoReply(c) ==
    /\ pc[c] = "waiting"
    /\ \E kind \in {"lost", "broken"} : Fails(c, kind)
    /\ \/ UNCHANGED inflight
       \/ inflight' = {q \in inflight : q.call # c}
    /\ UNCHANGED <<nonceVars, accepted, applied>>

\* What the caller makes of an answer, if it still waits for this one.
Hears(q, kind) ==
    IF pc[q.call] = "waiting" /\ nonce[q.call] = q.nonce
    THEN Fails(q.call, kind)
    ELSE UNCHANGED callVars

\* The delay is over: the next attempt, signed anew.
Retry(c) ==
    /\ pc[c] = "backoff"
    /\ pc' = [pc EXCEPT ![c] = "ready"]
    /\ attempt' = [attempt EXCEPT ![c] = @ + 1]
    /\ UNCHANGED <<nonceVars, nonce, error, serverVars>>
-----------------------------------------------------------------------------
(* Bitfinex.                                                               *)

\* "nonce: small"
RejectsNonce(q) ==
    /\ q \in inflight
    /\ q.nonce <= accepted
    /\ inflight' = inflight \ {q}
    /\ Hears(q, "nonce")
    /\ UNCHANGED <<nonceVars, accepted, applied>>

\* Refused for a reason of its own, or fails before it applies anything.
Refuses(q) ==
    /\ q \in inflight
    /\ q.nonce > accepted
    /\ inflight' = inflight \ {q}
    /\ accepted' = q.nonce
    /\ \E kind \in {"noAnswer", "notJson4xx", "rateLimit", "generic", "genericNonce", "rejected"} :
          Hears(q, kind)
    /\ UNCHANGED <<nonceVars, applied>>

Accepts(q) ==
    /\ q \in inflight
    /\ q.nonce > accepted
    /\ inflight' = inflight \ {q}
    /\ accepted' = q.nonce
    /\ applied' = [applied EXCEPT ![q.call] = @ + 1]
    /\ UNCHANGED nonceVars

\* Applied and answered.
Applies(q) ==
    /\ Accepts(q)
    /\ IF pc[q.call] = "waiting" /\ nonce[q.call] = q.nonce
       THEN /\ pc' = [pc EXCEPT ![q.call] = "done"]
            /\ UNCHANGED <<attempt, nonce, error>>
       ELSE UNCHANGED callVars

\* Applied, and answered with an error page.
AppliesSilently(q) ==
    /\ Accepts(q)
    /\ Hears(q, "noAnswer")

\* The clock of the host goes on, or is set back.
Tick == clock' \in 1 .. MaxClock /\ UNCHANGED <<LAST, LOCK, callVars, serverVars>>
-----------------------------------------------------------------------------
GoesOn(c) == LeaveNonce(c) \/ Send(c) \/ NotSent(c) \/ NoReply(c) \/ Retry(c)

CallStep(c) == Unsigned(c) \/ EnterNonce(c) \/ GoesOn(c)

ServerStep ==
    \E q \in inflight : RejectsNonce(q) \/ Refuses(q) \/ Applies(q) \/ AppliesSilently(q)

Next == (\E c \in Calls : CallStep(c)) \/ ServerStep \/ Tick

Spec == Init /\ [][Next]_vars

\* Threads are scheduled, the lock is handed on, and no request waits longer
\* than its 30 seconds.  A thread that waits for the lock is not made to give up:
\* only the lock lets it go on.
Fairness == \A c \in Calls :
    /\ SF_vars(EnterNonce(c))
    /\ WF_vars(GoesOn(c))

FairSpec == Spec /\ Fairness
-----------------------------------------------------------------------------
Once == Writes \ Idempotent

TypeOK ==
    /\ clock \in Nat
    /\ LAST \in Nat
    /\ LOCK \in Calls \cup {None}
    /\ pc \in [Calls -> Places]
    /\ attempt \in [Calls -> 0 .. max_attempts - 1]
    /\ nonce \in [Calls -> Nat]
    /\ error \in [Calls -> Errors \cup {None}]
    /\ inflight \subseteq Requests
    /\ accepted \in Nat
    /\ applied \in [Calls -> Nat]

\* A write that was not declared idempotent is never applied twice, however
\* its replies are lost and its nonces race.
AppliedOnce == \A c \in Once : applied[c] <= 1

\* "retryable: Whether sending the same request again is safe": a write that
\* fails with an error that does not say its outcome is unknown was not
\* applied, and nothing on the wire can still apply it.
KnownMeansNotApplied ==
    \A c \in Once : pc[c] = "failed" /\ ~outcome_unknown(c, error[c]) =>
        applied[c] = 0 /\ \A q \in inflight : q.call # c

\* No two attempts are signed with one nonce, and a call's latest attempt has
\* the greatest: its retry is not refused because of itself.
UniqueNonces ==
    /\ \A c, d \in Calls : c # d /\ nonce[c] = nonce[d] => nonce[c] = 0
    /\ \A q \in inflight : \A d \in Calls :
          q.nonce = nonce[d] => q.call = d /\ pc[d] \notin {"signing", "signed"}

\* Two threads whose requests overtake each other get a nonce error; it never
\* ends a call that has an attempt left.
NonceRaceRetried ==
    \A c \in Calls : pc[c] = "failed" /\ error[c] = "nonce"
        => attempt[c] = max_attempts - 1

\* Why they hold.  A call that waits to try again has an attempt left; only the
\* holder of the lock is ahead of _LAST, and everything on the wire is behind.
AttemptLeft == \A c \in Calls : pc[c] = "backoff" => attempt[c] # max_attempts - 1

NonceOrder ==
    /\ \A c \in Calls : IF pc[c] = "signing" THEN LOCK = c /\ nonce[c] > LAST
                                             ELSE nonce[c] <= LAST
    /\ \A c \in Calls : pc[c] = "signed" => 0 < nonce[c]
    /\ \A q \in inflight : q.nonce <= LAST

\* A write made once has one request, of its only attempt that was sent, and
\* what it applied it applied after that.
OneRequest ==
    \A c \in Once :
        /\ \A q \in inflight : q.call = c =>
              /\ q.nonce = nonce[c]
              /\ pc[c] \in {"waiting", "failed"}
        /\ applied[c] # 0 =>
              /\ applied[c] = 1
              /\ pc[c] \in {"done", "failed"}
              /\ \A q \in inflight : q.call # c

\* Every call ends, whatever the server and the network do.
EveryCallEnds == \A c \in Calls : <>(pc[c] \in {"done", "failed"})
=============================================================================
