----------------------------- MODULE RestProofs -----------------------------
(***************************************************************************)
(* What is proved of Rest, for any number of calls and of attempts.        *)
(***************************************************************************)
EXTENDS Rest, TLAPS

\* The type of Next's parameters, and the steps a call makes as Fails.
LEMMA FailsType ==
    ASSUME TypeOK, AttemptLeft, NEW c \in Calls, NEW kind \in Errors, Fails(c, kind)
    PROVE  /\ pc' \in [Calls -> Places]
           /\ error' \in [Calls -> Errors \cup {None}]
           /\ attempt' = attempt /\ nonce' = nonce
           /\ AttemptLeft'
  BY DEF TypeOK, AttemptLeft, Fails, Places

LEMMA HearsType ==
    ASSUME TypeOK, AttemptLeft, NEW q \in inflight, NEW kind \in Errors, Hears(q, kind)
    PROVE  /\ pc' \in [Calls -> Places]
           /\ error' \in [Calls -> Errors \cup {None}]
           /\ attempt' = attempt /\ nonce' = nonce
           /\ AttemptLeft'
<1>1. q.call \in Calls
  BY DEF TypeOK, Requests
<1>2. CASE pc[q.call] = "waiting" /\ nonce[q.call] = q.nonce
  BY <1>1, <1>2, FailsType DEF Hears
<1>3. CASE ~(pc[q.call] = "waiting" /\ nonce[q.call] = q.nonce)
  BY <1>3 DEF Hears, callVars, TypeOK, AttemptLeft
<1> QED  BY <1>2, <1>3

\* An attempt that fails before it is sent leaves the nonces and the server alone.
LEMMA BeforeSending ==
    ASSUME NEW c \in Calls, NotSent(c) \/ Unsigned(c)
    PROVE  /\ \E kind \in Errors : Fails(c, kind)
           /\ pc[c] \in {"ready", "signed"}
           /\ UNCHANGED <<nonceVars, serverVars>>
<1>1. CASE NotSent(c)
  BY <1>1 DEF NotSent, Errors
<1>2. CASE Unsigned(c)
  BY <1>2 DEF Unsigned, encode_body, resolve_nonce, Errors
<1> QED  BY <1>1, <1>2

\* The type invariant is inductive, with the attempts that are left.
LEMMA TypeInit == Init => TypeOK /\ AttemptLeft
  BY AttemptsAssumption, ClockAssumption DEF Init, TypeOK, AttemptLeft, Places, Errors, Requests

LEMMA TypeNext ==
    ASSUME TypeOK, AttemptLeft, [Next]_vars
    PROVE  TypeOK' /\ AttemptLeft'
<1> USE DEF TypeOK
<1>1. ASSUME NEW c \in Calls, EnterNonce(c)
      PROVE  TypeOK' /\ AttemptLeft'
  BY <1>1 DEF EnterNonce, candidate, serverVars, Places, AttemptLeft
<1>2. ASSUME NEW c \in Calls, LeaveNonce(c)
      PROVE  TypeOK' /\ AttemptLeft'
  BY <1>2 DEF LeaveNonce, serverVars, Places, AttemptLeft
<1>3. ASSUME NEW c \in Calls, Send(c)
      PROVE  TypeOK' /\ AttemptLeft'
  <2>1. [call |-> c, nonce |-> nonce[c]] \in Requests
    BY DEF Requests
  <2> QED  BY <1>3, <2>1 DEF Send, nonceVars, Places, AttemptLeft
<1>4. ASSUME NEW c \in Calls, NotSent(c) \/ Unsigned(c)
      PROVE  TypeOK' /\ AttemptLeft'
  <2>1. PICK kind \in Errors : Fails(c, kind)
    BY <1>4, BeforeSending
  <2>2. UNCHANGED <<nonceVars, serverVars>>
    BY <1>4, BeforeSending
  <2> QED  BY <2>1, <2>2, FailsType DEF nonceVars, serverVars
<1>5. ASSUME NEW c \in Calls, NoReply(c)
      PROVE  TypeOK' /\ AttemptLeft'
  <2>1. PICK kind \in {"lost", "broken"} : Fails(c, kind)
    BY <1>5 DEF NoReply
  <2>2. kind \in Errors
    BY DEF Errors
  <2>3. inflight' \subseteq inflight
    BY <1>5 DEF NoReply
  <2> QED  BY <1>5, <2>1, <2>2, <2>3, FailsType DEF NoReply, nonceVars
<1>6. ASSUME NEW c \in Calls, Retry(c)
      PROVE  TypeOK' /\ AttemptLeft'
  <2>1. attempt[c] + 1 \in 0 .. max_attempts - 1
    BY <1>6, AttemptsAssumption DEF Retry, AttemptLeft
  <2> QED  BY <1>6, <2>1 DEF Retry, nonceVars, serverVars, Places, AttemptLeft
<1>7. ASSUME NEW q \in inflight, RejectsNonce(q)
      PROVE  TypeOK' /\ AttemptLeft'
  <2>1. "nonce" \in Errors
    BY DEF Errors
  <2> QED  BY <1>7, <2>1, HearsType DEF RejectsNonce, nonceVars
<1>8. ASSUME NEW q \in inflight, Refuses(q)
      PROVE  TypeOK' /\ AttemptLeft'
  <2>1. PICK kind \in {"noAnswer", "notJson4xx", "rateLimit", "generic",
                       "genericNonce", "rejected"} : Hears(q, kind)
    BY <1>8 DEF Refuses
  <2>2. kind \in Errors
    BY DEF Errors
  <2> QED  BY <1>8, <2>1, <2>2, HearsType DEF Refuses, nonceVars, Requests
<1>9. ASSUME NEW q \in inflight, Applies(q)
      PROVE  TypeOK' /\ AttemptLeft'
  <2>1. q.call \in Calls /\ q.nonce \in Nat
    BY DEF Requests
  <2>2. /\ pc' \in [Calls -> Places]
        /\ UNCHANGED <<attempt, nonce, error>>
        /\ AttemptLeft'
    BY <1>9, <2>1 DEF Applies, callVars, AttemptLeft, Places
  <2>3. /\ applied' \in [Calls -> Nat] /\ accepted' \in Nat
        /\ inflight' \subseteq Requests
        /\ UNCHANGED <<clock, LAST, LOCK>>
    BY <1>9, <2>1 DEF Applies, Accepts, nonceVars
  <2> QED  BY <2>2, <2>3
<1>10. ASSUME NEW q \in inflight, AppliesSilently(q)
       PROVE  TypeOK' /\ AttemptLeft'
  <2>1. q.call \in Calls /\ q.nonce \in Nat
    BY DEF Requests
  <2>2. "noAnswer" \in Errors
    BY DEF Errors
  <2>3. /\ applied' \in [Calls -> Nat] /\ accepted' \in Nat
        /\ inflight' \subseteq Requests
        /\ UNCHANGED <<clock, LAST, LOCK>>
        /\ Hears(q, "noAnswer")
    BY <1>10, <2>1 DEF AppliesSilently, Accepts, nonceVars
  <2> QED  BY <2>2, <2>3, HearsType
<1>11. CASE Tick
  BY <1>11, ClockAssumption DEF Tick, callVars, serverVars, AttemptLeft
<1>12. CASE UNCHANGED vars
  BY <1>12 DEF vars, nonceVars, callVars, serverVars, AttemptLeft
<1> QED
  BY <1>1, <1>2, <1>3, <1>4, <1>5, <1>6, <1>7, <1>8, <1>9, <1>10, <1>11, <1>12
  DEF Next, CallStep, GoesOn, ServerStep

\* Every variable keeps its type (next_nonce, retry_with_backoff, the server).
THEOREM TypeCorrect == Spec => [](TypeOK /\ AttemptLeft)
  BY TypeInit, TypeNext, PTL DEF Spec
-----------------------------------------------------------------------------
\* An answer, heard or not, touches neither nonces nor the lock, and can only
\* make a waiting call fail or wait to try again.
LEMMA HearsOnly ==
    ASSUME TypeOK, NEW q \in inflight, NEW kind \in Errors, Hears(q, kind)
    PROVE  /\ nonce' = nonce
           /\ \A c \in Calls : pc'[c] # pc[c] =>
                /\ c = q.call
                /\ pc[c] = "waiting" /\ q.nonce = nonce[c]
                /\ pc'[c] \in {"failed", "backoff"}
  BY DEF TypeOK, Hears, Fails, callVars, Requests

\* The places where a nonce is not being drawn or freshly drawn.
Quiet == {"ready", "waiting", "backoff", "done", "failed"}

NonceInv == TypeOK /\ NonceOrder /\ UniqueNonces

\* A step that draws no nonce, sends nothing, and only moves calls among the
\* quiet places, keeps the order.
LEMMA QuietStep ==
    ASSUME NonceInv, TypeOK', UNCHANGED <<LAST, LOCK, nonce>>, inflight' \subseteq inflight,
           \A c \in Calls : pc'[c] = pc[c] \/ (pc'[c] \in Quiet /\ pc[c] # "signing")
    PROVE  NonceInv'
<1>1. \A c \in Calls : (pc'[c] = "signing" <=> pc[c] = "signing")
                         /\ (pc'[c] = "signed" => pc[c] = "signed")
  BY DEF Quiet
<1>2. NonceOrder'
  BY <1>1 DEF NonceInv, NonceOrder
<1>3. UniqueNonces'
  BY <1>1 DEF NonceInv, UniqueNonces
<1> QED  BY <1>2, <1>3 DEF NonceInv

LEMMA NonceInit == Init => NonceInv
<1> SUFFICES ASSUME Init PROVE NonceInv
  OBVIOUS
<1>1. TypeOK
  BY TypeInit
<1> QED  BY <1>1 DEF Init, NonceInv, NonceOrder, UniqueNonces

LEMMA NonceNext ==
    ASSUME NonceInv, TypeOK', [Next]_vars
    PROVE  NonceInv'
<1> USE DEF NonceInv
<1>1. ASSUME NEW c \in Calls, EnterNonce(c)
      PROVE  NonceInv'
  <2>1. candidate > LAST /\ candidate \in Nat
    BY DEF candidate, TypeOK
  <2>2. /\ nonce'[c] = candidate /\ pc'[c] = "signing" /\ LOCK' = c
        /\ \A d \in Calls : d # c => nonce'[d] = nonce[d] /\ pc'[d] = pc[d]
        /\ inflight' = inflight /\ LAST' = LAST
    BY <1>1 DEF EnterNonce, TypeOK, serverVars
  <2>3. \A d \in Calls : pc[d] # "signing" /\ nonce[d] <= LAST
    BY <1>1, CallsAssumption DEF EnterNonce, NonceOrder, TypeOK
  <2>4. NonceOrder'
    BY <2>1, <2>2, <2>3 DEF NonceOrder, TypeOK
  <2>5. UniqueNonces'
    <3>1. \A a, d \in Calls : a # d /\ nonce'[a] = nonce'[d] => nonce'[a] = 0
      BY <2>1, <2>2, <2>3 DEF UniqueNonces, TypeOK
    <3>2. ASSUME NEW q \in inflight, NEW d \in Calls, q.nonce = nonce'[d]
          PROVE  q.call = d /\ pc'[d] \notin {"signing", "signed"}
      <4>1. q.nonce <= LAST /\ q.nonce \in Nat
        BY DEF NonceOrder, TypeOK, Requests
      <4>2. d # c
        BY <2>1, <2>2, <3>2, <4>1 DEF TypeOK
      <4> QED  BY <2>2, <3>2, <4>2 DEF UniqueNonces
    <3> QED  BY <2>2, <3>1, <3>2 DEF UniqueNonces
  <2> QED  BY <2>4, <2>5
<1>2. ASSUME NEW c \in Calls, LeaveNonce(c)
      PROVE  NonceInv'
  <2>1. /\ LAST' = nonce[c] /\ pc'[c] = "signed" /\ nonce' = nonce /\ inflight' = inflight
        /\ \A d \in Calls : d # c => pc'[d] = pc[d]
    BY <1>2 DEF LeaveNonce, TypeOK, serverVars
  <2>2. LOCK = c /\ nonce[c] > LAST
    BY <1>2 DEF LeaveNonce, NonceOrder
  <2>3. \A d \in Calls : d # c => pc[d] # "signing" /\ nonce[d] <= LAST
    BY <2>2 DEF NonceOrder
  <2>4. NonceOrder'
    <3>1. \A d \in Calls : nonce[d] <= LAST'
      BY <2>1, <2>2, <2>3 DEF TypeOK
    <3>2. \A q \in inflight : q.nonce <= LAST'
      BY <2>1, <2>2 DEF NonceOrder, TypeOK, Requests
    <3>3. \A d \in Calls : pc'[d] # "signing"
      BY <2>1, <2>3
    <3>4. \A d \in Calls : pc'[d] = "signed" => 0 < nonce[d]
      BY <2>1, <2>2, <2>3 DEF NonceOrder, TypeOK
    <3> QED  BY <2>1, <3>1, <3>2, <3>3, <3>4 DEF NonceOrder
  <2>5. UniqueNonces'
    <3>1. ASSUME NEW q \in inflight, NEW d \in Calls, q.nonce = nonce[d]
          PROVE  q.call = d /\ pc'[d] \notin {"signing", "signed"}
      <4>1. d # c
        BY <2>2, <3>1 DEF NonceOrder, TypeOK, Requests
      <4> QED  BY <2>1, <3>1, <4>1 DEF UniqueNonces
    <3> QED  BY <2>1, <3>1 DEF UniqueNonces
  <2> QED  BY <2>4, <2>5
<1>3. ASSUME NEW c \in Calls, Send(c)
      PROVE  NonceInv'
  <2> DEFINE r == [call |-> c, nonce |-> nonce[c]]
  <2>1. /\ inflight' = inflight \cup {r} /\ pc[c] = "signed" /\ pc'[c] = "waiting"
        /\ UNCHANGED <<LAST, LOCK, nonce>>
        /\ \A d \in Calls : d # c => pc'[d] = pc[d]
    BY <1>3 DEF Send, TypeOK, nonceVars
  <2>2. r.call = c /\ r.nonce = nonce[c]
    OBVIOUS
  <2>3. nonce[c] <= LAST /\ 0 < nonce[c]
    BY <2>1 DEF NonceOrder
  <2> HIDE DEF r
  <2>4. NonceOrder'
    BY <2>1, <2>2, <2>3 DEF NonceOrder
  <2>5. UniqueNonces'
    <3>1. ASSUME NEW d \in Calls, r.nonce = nonce[d]
          PROVE  r.call = d /\ pc'[d] \notin {"signing", "signed"}
      <4>1. nonce[c] = nonce[d] /\ nonce[c] # 0
        BY <2>2, <2>3, <3>1 DEF TypeOK
      <4>2. c = d
        BY <4>1 DEF UniqueNonces
      <4> QED  BY <2>1, <2>2, <4>2
    <3>2. ASSUME NEW q \in inflight, NEW d \in Calls, q.nonce = nonce[d]
          PROVE  q.call = d /\ pc'[d] \notin {"signing", "signed"}
      BY <2>1, <3>2 DEF UniqueNonces
    <3> QED  BY <2>1, <3>1, <3>2 DEF UniqueNonces
  <2> QED  BY <2>4, <2>5
<1>4. ASSUME NEW c \in Calls, NotSent(c) \/ Unsigned(c)
      PROVE  NonceInv'
  <2>0. PICK kind \in Errors : Fails(c, kind)
    BY <1>4, BeforeSending
  <2>1. UNCHANGED <<LAST, LOCK, nonce>> /\ inflight' \subseteq inflight
    BY <1>4, <2>0, BeforeSending DEF Fails, nonceVars, serverVars
  <2>2. \A d \in Calls : pc'[d] = pc[d] \/ (pc'[d] \in Quiet /\ pc[d] # "signing")
    BY <1>4, <2>0, BeforeSending DEF Fails, TypeOK, Quiet
  <2> QED  BY <2>1, <2>2, QuietStep
<1>5. ASSUME NEW c \in Calls, NoReply(c)
      PROVE  NonceInv'
  <2>1. UNCHANGED <<LAST, LOCK, nonce>> /\ inflight' \subseteq inflight
    BY <1>5 DEF NoReply, Fails, nonceVars
  <2>2. \A d \in Calls : pc'[d] = pc[d] \/ (pc'[d] \in Quiet /\ pc[d] # "signing")
    BY <1>5 DEF NoReply, Fails, TypeOK, Quiet
  <2> QED  BY <2>1, <2>2, QuietStep
<1>6. ASSUME NEW c \in Calls, Retry(c)
      PROVE  NonceInv'
  <2>1. UNCHANGED <<LAST, LOCK, nonce>> /\ inflight' \subseteq inflight
    BY <1>6 DEF Retry, nonceVars, serverVars
  <2>2. \A d \in Calls : pc'[d] = pc[d] \/ (pc'[d] \in Quiet /\ pc[d] # "signing")
    BY <1>6 DEF Retry, TypeOK, Quiet
  <2> QED  BY <2>1, <2>2, QuietStep
<1>7. ASSUME NEW q \in inflight, NEW kind \in Errors, Hears(q, kind),
             UNCHANGED nonceVars, inflight' \subseteq inflight
      PROVE  NonceInv'
  <2>1. UNCHANGED <<LAST, LOCK, nonce>>
    BY <1>7, HearsOnly DEF nonceVars
  <2>2. \A d \in Calls : pc'[d] = pc[d] \/ (pc'[d] \in Quiet /\ pc[d] # "signing")
    BY <1>7, HearsOnly DEF Quiet
  <2> QED  BY <1>7, <2>1, <2>2, QuietStep
<1>8. ASSUME NEW q \in inflight, RejectsNonce(q) \/ Refuses(q) \/ AppliesSilently(q)
      PROVE  NonceInv'
  <2>1. PICK kind \in Errors : Hears(q, kind)
    BY <1>8 DEF RejectsNonce, Refuses, AppliesSilently, Errors
  <2>2. UNCHANGED nonceVars /\ inflight' \subseteq inflight
    BY <1>8 DEF RejectsNonce, Refuses, AppliesSilently, Accepts
  <2> QED  BY <1>7, <2>1, <2>2
<1>9. ASSUME NEW q \in inflight, Applies(q)
      PROVE  NonceInv'
  <2>1. \A c \in Calls : pc'[c] = pc[c] \/ (pc'[c] = "done" /\ pc[c] = "waiting")
    BY <1>9 DEF Applies, callVars, TypeOK, Requests
  <2>2. nonce' = nonce
    BY <1>9 DEF Applies, callVars
  <2>3. UNCHANGED <<LAST, LOCK, nonce>> /\ inflight' \subseteq inflight
    BY <1>9, <2>2 DEF Applies, Accepts, nonceVars
  <2>4. \A d \in Calls : pc'[d] = pc[d] \/ (pc'[d] \in Quiet /\ pc[d] # "signing")
    BY <2>1 DEF Quiet
  <2> QED  BY <2>3, <2>4, QuietStep
<1>10. CASE Tick
  <2>1. UNCHANGED <<LAST, LOCK, nonce>> /\ inflight' \subseteq inflight /\ pc' = pc
    BY <1>10 DEF Tick, callVars, serverVars
  <2> QED  BY <2>1, QuietStep
<1>11. CASE UNCHANGED vars
  <2>1. UNCHANGED <<LAST, LOCK, nonce>> /\ inflight' \subseteq inflight /\ pc' = pc
    BY <1>11 DEF vars, nonceVars, callVars, serverVars
  <2> QED  BY <2>1, QuietStep
<1> QED
  BY <1>1, <1>2, <1>3, <1>4, <1>5, <1>6, <1>8, <1>9, <1>10, <1>11
  DEF Next, CallStep, GoesOn, ServerStep

\* The lock of next_nonce keeps every signature's nonce apart from all others,
\* and a retry's ahead of what its call has already sent.
THEOREM NoncesAreUnique == Spec => []UniqueNonces
<1>1. NonceInv /\ TypeOK' /\ [Next]_vars => NonceInv'
  BY NonceNext
<1>2. NonceInv => UniqueNonces
  BY DEF NonceInv
<1> QED  BY NonceInit, TypeCorrect, <1>1, <1>2, PTL DEF Spec
-----------------------------------------------------------------------------
(* A write that is not declared idempotent, of a call whose errors are not  *)
(* read through the exception handled around it.                           *)

\* OneRequest and KnownMeansNotApplied, of one call.
WriteOf(c) ==
    /\ \A q \in inflight : q.call = c => /\ q.nonce = nonce[c]
                                         /\ pc[c] \in {"waiting", "failed"}
    /\ applied[c] # 0 => /\ applied[c] = 1
                         /\ pc[c] \in {"done", "failed"}
                         /\ \A q \in inflight : q.call # c
    /\ pc[c] = "failed" /\ ~outcome_unknown(c, error[c]) =>
          /\ applied[c] = 0
          /\ \A q \in inflight : q.call # c

WriteInv == TypeOK /\ \A c \in Once : WriteOf(c)

\* What the middleware does not know the outcome of is not sent again.
LEMMA UnknownNotRetried ==
    ASSUME NEW c \in Once, NEW kind, outcome_unknown(c, kind)
    PROVE  ~is_retryable(c, kind)
  BY DEF Once, is_retryable, outcome_unknown

LEMMA WriteInit == Init => WriteInv
<1> SUFFICES ASSUME Init PROVE WriteInv
  OBVIOUS
<1>1. TypeOK
  BY TypeInit
<1> QED
  BY <1>1, CallsAssumption DEF Init, WriteInv, WriteOf, Once

\* A request of a write is gone once it has been answered: there was only one.
LEMMA Answered ==
    ASSUME WriteInv, NEW q \in inflight, q.call \in Once
    PROVE  \A p \in inflight \ {q} : p.call # q.call
<1>1. SUFFICES ASSUME NEW p \in inflight, p.call = q.call
               PROVE  p = q
  OBVIOUS
<1>2. p \in Requests /\ q \in Requests
  BY DEF WriteInv, TypeOK
<1>3. p.nonce = q.nonce
  BY <1>1 DEF WriteInv, WriteOf
<1> QED  BY <1>1, <1>2, <1>3 DEF Requests

\* What a step of other calls, or none, leaves alone.
LEMMA Undisturbed ==
    ASSUME WriteInv, NEW c \in Once,
           pc'[c] = pc[c], nonce'[c] = nonce[c], error'[c] = error[c],
           applied'[c] = applied[c],
           \A q \in inflight' : q \in inflight \/ q.call # c
    PROVE  WriteOf(c)'
  BY DEF WriteInv, WriteOf, outcome_unknown

\* A call that has nothing on the wire and applied nothing may go anywhere.
LEMMA NothingSent ==
    ASSUME NEW c \in Once, applied'[c] = 0, \A q \in inflight' : q.call # c
    PROVE  WriteOf(c)'
  BY DEF WriteOf

\* An answer that comes back for a request the server did not apply.
LEMMA HeardOf ==
    ASSUME WriteInv, NEW q \in inflight, NEW kind \in Errors, Hears(q, kind),
           inflight' = inflight \ {q}, applied' = applied, NEW c \in Once
    PROVE  WriteOf(c)'
<1>1. CASE q.call = c
  <2>1. applied[c] = 0
    BY <1>1 DEF WriteInv, WriteOf
  <2>2. \A p \in inflight' : p.call # c
    BY <1>1, Answered
  <2> QED  BY <2>1, <2>2, NothingSent
<1>2. CASE q.call # c
  <2>1. pc'[c] = pc[c] /\ nonce'[c] = nonce[c] /\ error'[c] = error[c]
    BY <1>2, CallsAssumption DEF Hears, Fails, callVars, WriteInv, TypeOK, Once
  <2> QED  BY <2>1, Undisturbed
<1> QED  BY <1>1, <1>2

\* An answer that says nothing, for a request the server did apply.
LEMMA AppliedOf ==
    ASSUME WriteInv, NEW q \in inflight, AppliesSilently(q) \/ Applies(q), NEW c \in Once
    PROVE  WriteOf(c)'
<1>1. /\ inflight' = inflight \ {q}
      /\ applied' = [applied EXCEPT ![q.call] = @ + 1]
  BY DEF AppliesSilently, Applies, Accepts
<1>2. CASE q.call # c
  <2>1. pc'[c] = pc[c] /\ nonce'[c] = nonce[c] /\ error'[c] = error[c]
    BY <1>2, CallsAssumption
    DEF AppliesSilently, Applies, Hears, Fails, callVars, WriteInv, TypeOK, Once
  <2>2. applied'[c] = applied[c]
    BY <1>1, <1>2 DEF WriteInv, TypeOK, Once
  <2> QED  BY <1>1, <2>1, <2>2, Undisturbed
<1>3. CASE q.call = c
  <2>1. \A p \in inflight' : p.call # c
    BY <1>1, <1>3, Answered
  <2>2. c \in Calls /\ c \in Writes
    BY CallsAssumption DEF Once
  <2>3. applied'[c] = 1
    BY <1>1, <1>3, <2>2 DEF WriteInv, WriteOf, TypeOK
  <2>4. q.nonce = nonce[c] /\ pc[c] \in {"waiting", "failed"}
    BY <1>3 DEF WriteInv, WriteOf
  <2>5. pc[c] = "failed" => outcome_unknown(c, error[c])
    BY <1>3 DEF WriteInv, WriteOf
  <2>6. CASE pc[c] = "waiting" /\ Applies(q)
    <3>1. pc'[c] = "done"
      BY <1>3, <2>2, <2>4, <2>6 DEF Applies, WriteInv, TypeOK
    <3> QED  BY <2>1, <2>3, <3>1 DEF WriteOf
  <2>7. CASE pc[c] = "waiting" /\ AppliesSilently(q)
    <3>1. Fails(c, "noAnswer")
      BY <1>3, <2>4, <2>7 DEF AppliesSilently, Hears
    <3>2. outcome_unknown(c, "noAnswer")
      BY <2>2 DEF outcome_unknown
    <3>3. pc'[c] = "failed" /\ error'[c] = "noAnswer"
      BY <2>2, <3>1, <3>2, UnknownNotRetried DEF Fails, WriteInv, TypeOK
    <3>4. outcome_unknown(c, error'[c])
      BY <3>2, <3>3
    <3> QED  BY <2>1, <2>3, <3>3, <3>4 DEF WriteOf, outcome_unknown
  <2>8. CASE pc[c] = "failed"
    <3>1. pc'[c] = "failed" /\ error'[c] = error[c]
      BY <1>3, <2>8 DEF AppliesSilently, Applies, Hears, callVars
    <3> QED  BY <2>1, <2>3, <2>5, <2>8, <3>1 DEF WriteOf, outcome_unknown
  <2> QED  BY <2>4, <2>6, <2>7, <2>8
<1> QED  BY <1>2, <1>3

\* A request nobody answers: the error says that it may have been applied.
LEMMA NoReplyOf ==
    ASSUME InHandler = {}, WriteInv, NEW b \in Calls, NoReply(b), NEW c \in Once
    PROVE  WriteOf(c)'
<1>1. PICK kind \in {"lost", "broken"} : Fails(b, kind)
  BY DEF NoReply
<1>2. inflight' \subseteq inflight /\ applied' = applied
  BY DEF NoReply
<1>3. CASE b # c
  <2>1. pc'[c] = pc[c] /\ nonce'[c] = nonce[c] /\ error'[c] = error[c]
    BY <1>1, <1>3 DEF Fails, WriteInv, TypeOK, Once
  <2> QED  BY <1>2, <2>1, Undisturbed
<1>4. CASE b = c
  <2>1. pc[c] = "waiting" /\ c \in Calls /\ c \in Writes
    BY <1>4, CallsAssumption DEF NoReply, Once
  <2>2. outcome_unknown(c, kind)
    BY <2>1 DEF outcome_unknown, never_reached_server
  <2>3. pc'[c] = "failed" /\ error'[c] = kind /\ nonce' = nonce
    BY <1>1, <1>4, <2>1, <2>2, UnknownNotRetried DEF Fails, WriteInv, TypeOK
  <2>4. applied'[c] = 0
    BY <1>2, <2>1 DEF WriteInv, WriteOf
  <2>5. outcome_unknown(c, error'[c])
    BY <2>2, <2>3
  <2> QED  BY <1>2, <2>3, <2>4, <2>5 DEF WriteInv, WriteOf, outcome_unknown
<1> QED  BY <1>3, <1>4

LEMMA WriteNext ==
    ASSUME InHandler = {}, WriteInv, TypeOK', [Next]_vars
    PROVE  WriteInv'
<1>1. SUFFICES ASSUME NEW c \in Once PROVE WriteOf(c)'
  BY DEF WriteInv
<1>2. c \in Calls
  BY CallsAssumption DEF Once
<1>3. ASSUME NEW b \in Calls, EnterNonce(b)
      PROVE  WriteOf(c)'
  <2>1. /\ inflight' = inflight /\ applied' = applied /\ error' = error
        /\ b # c => pc'[c] = pc[c] /\ nonce'[c] = nonce[c]
    BY <1>3 DEF EnterNonce, serverVars, WriteInv, TypeOK
  <2>2. CASE b = c
    BY <1>3, <2>1, <2>2, NothingSent DEF EnterNonce, WriteInv, WriteOf
  <2>3. CASE b # c
    BY <2>1, <2>3, Undisturbed
  <2> QED  BY <2>2, <2>3
<1>4. ASSUME NEW b \in Calls, LeaveNonce(b) \/ Retry(b)
      PROVE  WriteOf(c)'
  <2>1. /\ inflight' = inflight /\ applied' = applied /\ error' = error /\ nonce' = nonce
        /\ b # c => pc'[c] = pc[c]
    <3>1. CASE LeaveNonce(b)
      BY <1>2, <3>1 DEF LeaveNonce, serverVars, WriteInv, TypeOK
    <3>2. CASE Retry(b)
      BY <1>2, <3>2 DEF Retry, serverVars, WriteInv, TypeOK
    <3> QED  BY <1>4, <3>1, <3>2
  <2>2. CASE b = c
    <3>1. pc[c] \in {"signing", "backoff"}
      BY <1>4, <2>2 DEF LeaveNonce, Retry
    <3>2. applied[c] = 0 /\ \A q \in inflight : q.call # c
      BY <3>1 DEF WriteInv, WriteOf
    <3> QED  BY <2>1, <3>2, NothingSent
  <2>3. CASE b # c
    BY <2>1, <2>3, Undisturbed
  <2> QED  BY <2>2, <2>3
<1>5. ASSUME NEW b \in Calls, Send(b)
      PROVE  WriteOf(c)'
  <2>1. /\ applied' = applied /\ error' = error /\ nonce' = nonce
        /\ inflight' = inflight \cup {[call |-> b, nonce |-> nonce[b]]}
        /\ pc[b] = "signed" /\ pc' = [pc EXCEPT ![b] = "waiting"]
    BY <1>5 DEF Send
  <2>2. CASE b = c
    <3>1. pc'[c] = "waiting" /\ applied'[c] = 0
      BY <1>2, <2>1, <2>2 DEF WriteInv, WriteOf, TypeOK
    <3>2. \A q \in inflight : q.call # c
      BY <2>1, <2>2 DEF WriteInv, WriteOf
    <3> QED  BY <2>1, <2>2, <3>1, <3>2 DEF WriteOf
  <2>3. CASE b # c
    BY <2>1, <2>3, Undisturbed DEF WriteInv, TypeOK
  <2> QED  BY <2>2, <2>3
<1>6. ASSUME NEW b \in Calls, NotSent(b) \/ Unsigned(b)
      PROVE  WriteOf(c)'
  <2>1. PICK kind \in Errors : Fails(b, kind)
    BY <1>6, BeforeSending
  <2>2. inflight' = inflight /\ applied' = applied /\ pc[b] \in {"ready", "signed"}
    BY <1>6, BeforeSending DEF serverVars
  <2>3. CASE b = c
    BY <2>2, <2>3, NothingSent DEF WriteInv, WriteOf
  <2>4. CASE b # c
    <3>1. pc'[c] = pc[c] /\ nonce'[c] = nonce[c] /\ error'[c] = error[c]
      BY <1>2, <2>1, <2>4 DEF Fails, WriteInv, TypeOK
    <3> QED  BY <2>2, <3>1, Undisturbed
  <2> QED  BY <2>3, <2>4
<1>7. ASSUME NEW b \in Calls, NoReply(b)
      PROVE  WriteOf(c)'
  BY <1>7, NoReplyOf
<1>8. ASSUME NEW q \in inflight, RejectsNonce(q) \/ Refuses(q)
      PROVE  WriteOf(c)'
  <2>1. PICK kind \in Errors : Hears(q, kind)
    BY <1>8 DEF RejectsNonce, Refuses, Errors
  <2>2. inflight' = inflight \ {q} /\ applied' = applied
    BY <1>8 DEF RejectsNonce, Refuses
  <2> QED  BY <2>1, <2>2, HeardOf
<1>9. ASSUME NEW q \in inflight, Applies(q) \/ AppliesSilently(q)
      PROVE  WriteOf(c)'
  BY <1>9, AppliedOf
<1>10. CASE Tick \/ UNCHANGED vars
  <2>1. UNCHANGED <<callVars, serverVars>>
    BY <1>10 DEF Tick, vars
  <2> QED  BY <2>1, Undisturbed DEF callVars, serverVars
<1> QED
  BY <1>3, <1>4, <1>5, <1>6, <1>7, <1>8, <1>9, <1>10 DEF Next, CallStep, GoesOn, ServerStep

\* A write that is not declared idempotent is applied at most once, whatever
\* is lost on the way and however often the call is retried, provided no call
\* is made while a refused connection is being handled (_never_reached_server).
THEOREM WritesAppliedOnce ==
    ASSUME InHandler = {}
    PROVE  Spec => []AppliedOnce
<1>1. WriteInv /\ TypeOK' /\ [Next]_vars => WriteInv'
  BY WriteNext
<1>2. WriteInv => AppliedOnce
  BY CallsAssumption DEF WriteInv, WriteOf, AppliedOnce, Once, TypeOK
<1> QED  BY WriteInit, TypeCorrect, <1>1, <1>2, PTL DEF Spec

\* An error that does not say its outcome is unknown can be believed: nothing
\* was applied, nothing can still be (NetworkError's retryable).
THEOREM KnownOutcomesAreKnown ==
    ASSUME InHandler = {}
    PROVE  Spec => []KnownMeansNotApplied
<1>1. WriteInv /\ TypeOK' /\ [Next]_vars => WriteInv'
  BY WriteNext
<1>2. WriteInv => KnownMeansNotApplied
  BY DEF WriteInv, WriteOf, KnownMeansNotApplied
<1> QED  BY WriteInit, TypeCorrect, <1>1, <1>2, PTL DEF Spec
-----------------------------------------------------------------------------
\* A call that fails on a nonce error has no attempt left when it does.
LEMMA FailsRaced ==
    ASSUME TypeOK, NonceRaceRetried, NEW c \in Calls, NEW kind \in Errors, Fails(c, kind)
    PROVE  NonceRaceRetried'
  BY DEF TypeOK, NonceRaceRetried, Fails, is_retryable

LEMMA RaceNext ==
    ASSUME TypeOK, NonceRaceRetried, [Next]_vars
    PROVE  NonceRaceRetried'
<1> USE DEF TypeOK
<1>1. ASSUME NEW c \in Calls, EnterNonce(c) \/ LeaveNonce(c) \/ Send(c) \/ Retry(c)
      PROVE  NonceRaceRetried'
  BY <1>1 DEF EnterNonce, LeaveNonce, Send, Retry, NonceRaceRetried
<1>2. ASSUME NEW c \in Calls, NotSent(c) \/ Unsigned(c) \/ NoReply(c)
      PROVE  NonceRaceRetried'
  <2>1. \E kind \in Errors : Fails(c, kind)
    BY <1>2, BeforeSending DEF NoReply, Errors
  <2> QED  BY <2>1, FailsRaced
<1>3. ASSUME NEW q \in inflight, RejectsNonce(q) \/ Refuses(q) \/ AppliesSilently(q)
      PROVE  NonceRaceRetried'
  <2>1. PICK kind \in Errors : Hears(q, kind)
    BY <1>3 DEF RejectsNonce, Refuses, AppliesSilently, Errors
  <2>2. q.call \in Calls
    BY DEF Requests
  <2> QED  BY <2>1, <2>2, FailsRaced DEF Hears, callVars, NonceRaceRetried
<1>4. ASSUME NEW q \in inflight, Applies(q)
      PROVE  NonceRaceRetried'
  BY <1>4 DEF Applies, callVars, Requests, NonceRaceRetried
<1>5. CASE Tick \/ UNCHANGED vars
  BY <1>5 DEF Tick, vars, callVars, NonceRaceRetried
<1> QED
  BY <1>1, <1>2, <1>3, <1>4, <1>5 DEF Next, CallStep, GoesOn, ServerStep

\* Two threads whose requests overtake each other never lose a call to it that
\* has an attempt left (NonceError is always retryable).
THEOREM NonceRacesAreRetried == Spec => []NonceRaceRetried
<1>1. Init => NonceRaceRetried
  BY DEF Init, NonceRaceRetried
<1> QED  BY TypeCorrect, RaceNext, <1>1, PTL DEF Spec
=============================================================================
