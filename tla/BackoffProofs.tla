---------------------------- MODULE BackoffProofs -----------------------------
(***************************************************************************)
(* What is proved of Backoff, for any number of threads and attempts, any  *)
(* headers and any delays: the delays computed from an answer that another *)
(* thread may have replaced are still a second at least where the server   *)
(* asked for a pause, and are what the answer asked for when none did.     *)
(***************************************************************************)
EXTENDS Backoff, TLAPS

\* No answer is from the future.
AnswersArePast == \A t \in Threads : answer[t].at <= now

\* What a thread reads back is what it stored, unless another thread of its
\* group stored its own after that.
ReadsItsOwn ==
    \A t \in Threads \ mixed : pc[t] = "stored" => last_rate_limit[Group(t)] = answer[t].info

LEMMA GroupType == \A t \in Threads : Group(t) \in Groups
  BY DEF Group, Groups

LEMMA NoAnswerType == NoAnswer \in Answers
  BY NoneAssumption DEF NoAnswer, Answers, NoInfo, RateLimitInfos, Kinds

\* The three ways __rate_limit_delay_ms finds a delay, never below a second.
LEMMA RateLimitDelay ==
    ASSUME TypeOK, NEW g \in Groups
    PROVE  /\ rate_limit_delay_ms(g) \in Nat
           /\ rate_limit_delay_ms(g) >= 1000
           /\ last_rate_limit[g].retry_after_ms # None =>
                 rate_limit_delay_ms(g) >= last_rate_limit[g].retry_after_ms
           /\ last_rate_limit[g].retry_after_ms = None /\ last_rate_limit[g].reset # None
                 /\ last_rate_limit[g].reset # 0 =>
                 now * 1000 + rate_limit_delay_ms(g) >= last_rate_limit[g].reset * 1000
<1> DEFINE info == last_rate_limit[g]
<1>1. info \in RateLimitInfos /\ now \in Nat
  BY DEF TypeOK
<1>2. /\ info.retry_after_ms \in Nat \/ info.retry_after_ms = None
      /\ info.reset \in Nat \/ info.reset = None
  BY <1>1 DEF RateLimitInfos
<1>3. CASE info.retry_after_ms # None
  BY <1>2, <1>3 DEF rate_limit_delay_ms, Larger
<1>4. CASE info.retry_after_ms = None /\ info.reset # None /\ info.reset # 0
  BY <1>1, <1>2, <1>4 DEF rate_limit_delay_ms, Larger
<1>5. CASE info.retry_after_ms = None /\ ~(info.reset # None /\ info.reset # 0)
  BY <1>5 DEF rate_limit_delay_ms, Larger
<1> QED  BY <1>3, <1>4, <1>5

\* get_backoff_delay is a delay, and a rate limit's is what __rate_limit_delay_ms
\* says, as far as max_delay allows.
LEMMA BackoffDelay ==
    ASSUME NEW kind \in Kinds, NEW retry_after \in Nat \cup {None}, NEW n \in 0 .. max_attempts - 1,
           kind = "rateLimit" => retry_after # None
    PROVE  /\ get_backoff_delay(kind, retry_after, n) \in Nat
           /\ kind = "rateLimit" =>
                 get_backoff_delay(kind, retry_after, n) = Smaller(retry_after, max_delay)
<1>1. n \in Nat /\ base_delay * (n + 1) \in Nat
  BY NumbersAssumption
<1>2. base_delay * 2^n \in Nat
  <2>1. 2^n \in Nat
    BY PowersAssumption
  <2> DEFINE power == 2^n
  <2> HIDE DEF power
  <2>2. power \in Nat => base_delay * power \in Nat
    BY NumbersAssumption
  <2> QED  BY <2>1, <2>2 DEF power
<1>3. CASE kind = "rateLimit"
  BY <1>3, NumbersAssumption DEF get_backoff_delay, Smaller
<1>4. CASE kind \in {"nonce", "namesNonce"}
  BY <1>4 DEF get_backoff_delay
<1>5. CASE kind = "noAnswer"
  BY <1>1, <1>5, NumbersAssumption DEF get_backoff_delay, Smaller
<1>6. CASE kind \notin {"rateLimit", "nonce", "namesNonce", "noAnswer"}
  <2>1. get_backoff_delay(kind, retry_after, n) = Smaller(base_delay * 2^n, max_delay)
    BY <1>6 DEF get_backoff_delay
  <2> DEFINE growing == base_delay * 2^n
  <2>2. growing \in Nat
    BY <1>2
  <2> HIDE DEF growing
  <2>3. Smaller(growing, max_delay) \in Nat
    BY <2>2, NumbersAssumption DEF Smaller
  <2> QED  BY <1>6, <2>1, <2>3 DEF growing
<1> QED  BY <1>3, <1>4, <1>5, <1>6

\* What Raise and NoResponse give it.
LEMMA ErrorRetryAfter ==
    ASSUME TypeOK, NEW g \in Groups, NEW kind
    PROVE  /\ error_retry_after_ms(g, kind) \in Nat \cup {None}
           /\ kind = "rateLimit" => /\ error_retry_after_ms(g, kind) = rate_limit_delay_ms(g)
                                    /\ error_retry_after_ms(g, kind) # None
<1>1. rate_limit_delay_ms(g) \in Nat /\ rate_limit_delay_ms(g) # None
  BY RateLimitDelay, NoneAssumption
<1>2. last_rate_limit[g].retry_after_ms \in Nat \cup {None}
  BY DEF TypeOK, RateLimitInfos
<1> QED  BY <1>1, <1>2 DEF error_retry_after_ms
-----------------------------------------------------------------------------
(* Types.                                                                  *)

\* A thread that sleeps has an attempt left.
AttemptLeft == \A t \in Threads : pc[t] = "sleeping" => attempt[t] # max_attempts - 1

TypeInv == TypeOK /\ AttemptLeft

LEMMA TypeInit == Init => TypeInv
<1> SUFFICES ASSUME Init PROVE TypeInv
  OBVIOUS
<1>1. NoInfo \in RateLimitInfos
  BY NoneAssumption DEF NoInfo, RateLimitInfos
<1>2. 0 \in 0 .. max_attempts - 1
  BY NumbersAssumption
<1> QED  BY <1>1, <1>2, NoAnswerType DEF Init, TypeInv, TypeOK, AttemptLeft, Places

LEMMA FailsType ==
    ASSUME TypeInv, NEW t \in Threads, NEW error \in Answers, NEW retry_after,
           get_backoff_delay(error.kind, retry_after, attempt[t]) \in Nat,
           Fails(t, error, retry_after), UNCHANGED <<now, sharedVars, attempt, mixed, crossed>>
    PROVE  TypeInv'
<1> DEFINE delay == get_backoff_delay(error.kind, retry_after, attempt[t])
<1>1. now * 1000 + delay \in Nat
  BY DEF TypeInv, TypeOK
<1>2. CASE attempt[t] = max_attempts - 1 \/ error.kind = "rejected"
  BY <1>2, NoAnswerType DEF Fails, TypeInv, TypeOK, AttemptLeft, sharedVars, Places
<1>3. CASE ~(attempt[t] = max_attempts - 1 \/ error.kind = "rejected")
  <2>1. /\ attempt[t] # max_attempts - 1
        /\ pc' = [pc EXCEPT ![t] = "sleeping"]
        /\ answer' = [answer EXCEPT ![t] = error]
        /\ wake' = [wake EXCEPT ![t] = now * 1000 + delay]
    BY <1>3 DEF Fails
  <2> HIDE DEF delay
  <2> QED  BY <1>1, <2>1 DEF TypeInv, TypeOK, AttemptLeft, sharedVars, Places
<1> QED  BY <1>2, <1>3

LEMMA TypeNext == TypeInv /\ [Next]_vars => TypeInv'
<1> SUFFICES ASSUME TypeInv, [Next]_vars PROVE TypeInv'
  OBVIOUS
<1> USE DEF TypeInv, TypeOK, AttemptLeft
<1>1. ASSUME NEW t \in Threads, Stamp(t)
      PROVE  TypeInv'
  <2>1. PICK r \in Replies :
           answer' = [answer EXCEPT ![t] = [kind |-> r.kind, at |-> now, info |->
              [retry_after_ms |-> r.retry_after_ms, reset |-> r.reset, of |-> responses']]]
    BY <1>1 DEF Stamp
  <2>2. responses' \in Nat /\ r \in [kind : Kinds, retry_after_ms : Nat \cup {None}, reset : Nat \cup {None}]
    BY <1>1, RepliesAssumption DEF Stamp
  <2>3. [kind |-> r.kind, at |-> now, info |->
              [retry_after_ms |-> r.retry_after_ms, reset |-> r.reset, of |-> responses']] \in Answers
    BY <2>2 DEF Answers, RateLimitInfos
  <2> QED  BY <1>1, <2>1, <2>2, <2>3, GroupType DEF Stamp, Places
<1>2. ASSUME NEW t \in Threads, Store(t)
      PROVE  TypeInv'
  <2>1. answer[t].info \in RateLimitInfos
    BY DEF Answers
  <2>2. mixed' \subseteq Threads /\ crossed' \subseteq Groups
    BY <1>2, GroupType DEF Store, Of, Crossed
  <2> QED  BY <1>2, <2>1, <2>2 DEF Store, Places
<1>3. ASSUME NEW t \in Threads, Return(t)
      PROVE  TypeInv'
  BY <1>3, NoAnswerType DEF Return, sharedVars, Places
<1>4. ASSUME NEW t \in Threads, Raise(t)
      PROVE  TypeInv'
  <2> DEFINE retry_after == error_retry_after_ms(Group(t), answer[t].kind)
  <2>1. answer[t] \in Answers /\ answer[t].kind \in Kinds
    BY DEF Answers
  <2>2. get_backoff_delay(answer[t].kind, retry_after, attempt[t]) \in Nat
    BY <2>1, BackoffDelay, ErrorRetryAfter, GroupType
  <2>3. Fails(t, answer[t], retry_after) /\ UNCHANGED <<now, sharedVars, attempt, mixed, crossed>>
    BY <1>4 DEF Raise
  <2> HIDE DEF retry_after
  <2> QED  BY <2>1, <2>2, <2>3, FailsType
<1>5. ASSUME NEW t \in Threads, NoResponse(t)
      PROVE  TypeInv'
  <2>1. PICK kind \in {"noAnswer", "other"} :
           Fails(t, [kind |-> kind, at |-> now, info |-> NoInfo], None)
    BY <1>5 DEF NoResponse
  <2>2. [kind |-> kind, at |-> now, info |-> NoInfo] \in Answers /\ kind \in Kinds
    BY NoneAssumption DEF Answers, NoInfo, RateLimitInfos, Kinds
  <2>3. get_backoff_delay(kind, None, attempt[t]) \in Nat
    BY <2>2, BackoffDelay
  <2>4. UNCHANGED <<now, sharedVars, attempt, mixed, crossed>>
    BY <1>5 DEF NoResponse
  <2> QED  BY <2>1, <2>2, <2>3, <2>4, FailsType
<1>6. ASSUME NEW t \in Threads, Wake(t)
      PROVE  TypeInv'
  <2>1. attempt[t] + 1 \in 0 .. max_attempts - 1
    BY <1>6, NumbersAssumption DEF Wake
  <2> QED  BY <1>6, <2>1, NoAnswerType DEF Wake, sharedVars, Places
<1>7. CASE Tick
  BY <1>7 DEF Tick, sharedVars, threadVars
<1>8. CASE UNCHANGED vars
  BY <1>8 DEF vars, sharedVars, threadVars
<1> QED  BY <1>1, <1>2, <1>3, <1>4, <1>5, <1>6, <1>7, <1>8 DEF Next

\* Every variable keeps its type, the attempts their bound.
THEOREM TypeCorrect == Spec => []TypeOK
<1>1. TypeInv => TypeOK
  BY DEF TypeInv
<1> QED  BY <1>1, TypeInit, TypeNext, PTL DEF Spec
-----------------------------------------------------------------------------
(* Delays.                                                                 *)

\* Both properties of the waits, for one thread.
Waits(t) ==
    pc[t] = "sleeping" /\ answer[t].kind = "rateLimit" =>
         /\ wake[t] >= answer[t].at * 1000 + Smaller(1000, max_delay)
         /\ t \notin mixed => wake[t] >= Smaller(Asked(t), answer[t].at * 1000 + max_delay)

Inv == TypeInv /\ AnswersArePast /\ ReadsItsOwn /\ \A t \in Threads : Waits(t)

\* A rate limited thread that reads what it stored waits for as long as it was
\* asked to, and whatever it reads, a second.
LEMMA RateLimitedWait ==
    ASSUME TypeOK, NEW t \in Threads, answer[t].at <= now
    PROVE  LET until == now * 1000 + Smaller(rate_limit_delay_ms(Group(t)), max_delay)
           IN /\ until >= answer[t].at * 1000 + Smaller(1000, max_delay)
              /\ last_rate_limit[Group(t)] = answer[t].info =>
                    until >= Smaller(Asked(t), answer[t].at * 1000 + max_delay)
<1> DEFINE delay == rate_limit_delay_ms(Group(t))
           info == last_rate_limit[Group(t)]
           until == now * 1000 + Smaller(delay, max_delay)
<1>1. Group(t) \in Groups /\ now \in Nat /\ answer[t] \in Answers /\ info \in RateLimitInfos
  BY GroupType DEF TypeOK
<1>2. answer[t].at \in Nat /\ answer[t].at * 1000 <= now * 1000
  BY <1>1 DEF Answers
<1>3. delay \in Nat /\ delay >= 1000
  BY <1>1, RateLimitDelay
<1>4. until >= answer[t].at * 1000 + Smaller(1000, max_delay)
  BY <1>1, <1>2, <1>3, NumbersAssumption DEF Smaller
<1>5. ASSUME info = answer[t].info
      PROVE  until >= Smaller(Asked(t), answer[t].at * 1000 + max_delay)
  <2>1. /\ info.retry_after_ms \in Nat \/ info.retry_after_ms = None
        /\ info.reset \in Nat \/ info.reset = None
    BY <1>1 DEF RateLimitInfos
  <2>2. now * 1000 + delay >= Asked(t) /\ Asked(t) \in Nat
    <3>1. CASE info.retry_after_ms # None
      <4>1. delay >= info.retry_after_ms
        BY <1>1, <3>1, RateLimitDelay
      <4> QED  BY <1>1, <1>2, <1>3, <1>5, <2>1, <3>1, <4>1 DEF Asked
    <3>2. CASE info.retry_after_ms = None /\ info.reset # None /\ info.reset # 0
      <4>1. now * 1000 + delay >= info.reset * 1000
        BY <1>1, <3>2, RateLimitDelay
      <4>2. Asked(t) = info.reset * 1000
        BY <1>5, <3>2 DEF Asked
      <4> QED  BY <2>1, <3>2, <4>1, <4>2
    <3>3. CASE info.retry_after_ms = None /\ info.reset = 0
      <4>1. Asked(t) = 0
        BY <1>5, <3>3, NoneAssumption DEF Asked
      <4> QED  BY <1>1, <1>3, <4>1
    <3>4. CASE info.retry_after_ms = None /\ info.reset = None
      <4>1. Asked(t) = answer[t].at * 1000
        BY <1>5, <3>4 DEF Asked
      <4> QED  BY <1>1, <1>2, <1>3, <4>1
    <3> QED  BY <3>1, <3>2, <3>3, <3>4
  <2>3. now * 1000 + max_delay >= answer[t].at * 1000 + max_delay
    BY <1>1, <1>2, NumbersAssumption
  <2> HIDE DEF delay
  <2> QED  BY <1>1, <1>2, <1>3, <2>2, <2>3, NumbersAssumption DEF Smaller
<1> QED  BY <1>4, <1>5

LEMMA InvInit == Init => Inv
<1> SUFFICES ASSUME Init PROVE Inv
  OBVIOUS
<1>1. TypeInv
  BY TypeInit
<1>2. \A t \in Threads : answer[t] = NoAnswer /\ pc[t] = "waiting" /\ now = 0
  BY DEF Init
<1> QED  BY <1>1, <1>2 DEF Inv, AnswersArePast, ReadsItsOwn, Waits, NoAnswer

\* A thread whose own variables a step leaves alone waits as before.
LEMMA WaitsKept ==
    ASSUME Inv, NEW t \in Threads, t \in mixed => t \in mixed',
           pc'[t] = pc[t], answer'[t] = answer[t], wake'[t] = wake[t]
    PROVE  Waits(t)'
<1>1. Asked(t)' = Asked(t)
  BY DEF Asked
<1>2. Waits(t)
  BY DEF Inv
<1> QED  BY <1>1, <1>2 DEF Waits, Smaller

\* A call that ends disturbs no thread but its own.
LEMMA InvFails ==
    ASSUME Inv, TypeInv', NEW t \in Threads, UNCHANGED <<now, last_rate_limit, mixed>>,
           pc'[t] \in {"failed", "sleeping"}, pc' = [pc EXCEPT ![t] = pc'[t]], answer'[t].at <= now,
           \A u \in Threads \ {t} : answer'[u] = answer[u] /\ wake'[u] = wake[u],
           Waits(t)'
    PROVE  Inv'
<1>1. TypeOK /\ TypeOK'
  BY DEF Inv, TypeInv
<1>2. AnswersArePast'
  BY <1>1 DEF Inv, AnswersArePast, TypeOK
<1>3. ReadsItsOwn'
  BY <1>1 DEF Inv, ReadsItsOwn, TypeOK
<1>4. \A u \in Threads \ {t} : Waits(u)'
  BY <1>1, WaitsKept DEF TypeOK
<1> QED  BY <1>2, <1>3, <1>4 DEF Inv

LEMMA InvNext == Inv /\ [Next]_vars => Inv'
<1> SUFFICES ASSUME Inv, [Next]_vars PROVE Inv'
  OBVIOUS
<1>1. TypeInv' /\ TypeOK /\ TypeOK'
  BY TypeNext DEF Inv, TypeInv
<1>2. ASSUME NEW t \in Threads, Stamp(t)
      PROVE  Inv'
  <2>1. /\ UNCHANGED <<now, last_rate_limit, attempt, wake, mixed>>
        /\ pc' = [pc EXCEPT ![t] = "stamped"]
        /\ \A u \in Threads \ {t} : answer'[u] = answer[u]
        /\ answer'[t].at = now
    BY <1>2, <1>1 DEF Stamp, TypeOK
  <2>2. AnswersArePast'
    BY <2>1, <1>1 DEF Inv, AnswersArePast, TypeOK
  <2>3. ReadsItsOwn'
    BY <2>1, <1>1 DEF Inv, ReadsItsOwn, TypeOK
  <2>4. \A u \in Threads : Waits(u)'
    <3> TAKE u \in Threads
    <3>1. CASE u = t
      BY <2>1, <3>1, <1>1 DEF Waits, TypeOK
    <3>2. CASE u # t
      BY <2>1, <3>2, <1>1, WaitsKept DEF TypeOK
    <3> QED  BY <3>1, <3>2
  <2> QED  BY <1>1, <2>2, <2>3, <2>4 DEF Inv
<1>3. ASSUME NEW t \in Threads, Store(t)
      PROVE  Inv'
  <2>1. /\ UNCHANGED <<now, attempt, wake, answer>>
        /\ pc' = [pc EXCEPT ![t] = "stored"]
        /\ last_rate_limit' = [last_rate_limit EXCEPT ![Group(t)] = answer[t].info]
        /\ mixed' = (mixed \cup {u \in Of(Group(t)) : pc[u] = "stored"}) \ {t}
    BY <1>3 DEF Store
  <2>2. AnswersArePast'
    BY <2>1 DEF Inv, AnswersArePast
  <2>3. ReadsItsOwn'
    <3> SUFFICES ASSUME NEW u \in Threads \ mixed', pc'[u] = "stored"
                 PROVE  last_rate_limit'[Group(u)] = answer'[u].info
      BY DEF ReadsItsOwn
    <3>1. CASE u = t
      BY <2>1, <3>1, <1>1, GroupType DEF TypeOK
    <3>2. CASE u # t
      <4>1. pc[u] = "stored" /\ u \notin mixed /\ Group(u) # Group(t)
        BY <2>1, <3>2, <1>1 DEF TypeOK, Of
      <4> QED  BY <2>1, <4>1, <1>1, GroupType DEF TypeOK, Inv, ReadsItsOwn
    <3> QED  BY <3>1, <3>2
  <2>4. \A u \in Threads : Waits(u)'
    <3> TAKE u \in Threads
    <3>1. CASE u = t
      BY <2>1, <3>1, <1>1 DEF Waits, TypeOK
    <3>2. CASE u # t
      <4>1. pc'[u] = pc[u] /\ (u \in mixed => u \in mixed')
        BY <2>1, <3>2, <1>1 DEF TypeOK
      <4> QED  BY <2>1, <4>1, <1>1, WaitsKept DEF TypeOK
    <3> QED  BY <3>1, <3>2
  <2> QED  BY <1>1, <2>2, <2>3, <2>4 DEF Inv
<1>4. ASSUME NEW t \in Threads, Return(t)
      PROVE  Inv'
  <2>1. /\ UNCHANGED <<now, last_rate_limit, attempt, wake, mixed>>
        /\ pc' = [pc EXCEPT ![t] = "done"]
        /\ answer' = [answer EXCEPT ![t] = NoAnswer]
    BY <1>4 DEF Return, sharedVars
  <2>2. AnswersArePast'
    BY <2>1, <1>1 DEF Inv, AnswersArePast, TypeOK, NoAnswer
  <2>3. ReadsItsOwn'
    BY <2>1, <1>1 DEF Inv, ReadsItsOwn, TypeOK
  <2>4. ASSUME NEW u \in Threads
        PROVE  Waits(u)'
    <3>1. CASE u = t
      BY <2>1, <3>1, <1>1 DEF Waits, TypeOK
    <3>2. CASE u # t
      BY <2>1, <3>2, <1>1, WaitsKept DEF TypeOK
    <3> QED  BY <3>1, <3>2
  <2> QED  BY <1>1, <2>2, <2>3, <2>4 DEF Inv
<1>5. ASSUME NEW t \in Threads, Raise(t)
      PROVE  Inv'
  <2> DEFINE retry_after == error_retry_after_ms(Group(t), answer[t].kind)
  <2>1. /\ UNCHANGED <<now, last_rate_limit, mixed>>
        /\ pc[t] = "stored" /\ answer[t] \in Answers /\ answer[t].kind \in Kinds
        /\ answer[t].at <= now /\ (t \notin mixed => last_rate_limit[Group(t)] = answer[t].info)
        /\ Fails(t, answer[t], retry_after)
    BY <1>5, <1>1 DEF Raise, sharedVars, TypeOK, Answers, Inv, AnswersArePast, ReadsItsOwn
  <2>2. Waits(t)'
    <3> SUFFICES ASSUME pc'[t] = "sleeping", answer'[t].kind = "rateLimit"
                 PROVE  /\ wake'[t] >= answer'[t].at * 1000 + Smaller(1000, max_delay)
                        /\ t \notin mixed => wake'[t] >= Smaller(Asked(t)', answer'[t].at * 1000 + max_delay)
      BY <2>1 DEF Waits
    <3>1. /\ answer'[t] = answer[t]
          /\ wake'[t] = now * 1000 + get_backoff_delay(answer[t].kind, retry_after, attempt[t])
      BY <2>1, <1>1 DEF Fails, TypeOK
    <3>2. answer[t].kind = "rateLimit" /\ Asked(t)' = Asked(t)
      BY <3>1 DEF Asked
    <3>3. /\ retry_after = rate_limit_delay_ms(Group(t)) /\ retry_after # None
          /\ retry_after \in Nat \cup {None}
      BY <1>1, <3>2, ErrorRetryAfter, GroupType
    <3>4. attempt[t] \in 0 .. max_attempts - 1
      BY <1>1 DEF TypeOK
    <3>5. get_backoff_delay(answer[t].kind, retry_after, attempt[t])
            = Smaller(rate_limit_delay_ms(Group(t)), max_delay)
      <4> HIDE DEF retry_after
      <4> QED  BY <2>1, <3>2, <3>3, <3>4, BackoffDelay
    <3>6. wake'[t] = now * 1000 + Smaller(rate_limit_delay_ms(Group(t)), max_delay)
      BY <3>1, <3>5
    <3> QED  BY <1>1, <2>1, <3>1, <3>2, <3>6, RateLimitedWait
  <2>3. /\ pc'[t] \in {"failed", "sleeping"} /\ pc' = [pc EXCEPT ![t] = pc'[t]]
        /\ answer'[t].at <= now /\ \A u \in Threads \ {t} : answer'[u] = answer[u] /\ wake'[u] = wake[u]
    BY <2>1, <1>1 DEF Fails, TypeOK, NoAnswer
  <2> QED  BY <1>1, <2>1, <2>2, <2>3, InvFails
<1>6. ASSUME NEW t \in Threads, NoResponse(t)
      PROVE  Inv'
  <2>1. PICK kind \in {"noAnswer", "other"} :
           Fails(t, [kind |-> kind, at |-> now, info |-> NoInfo], None)
    BY <1>6 DEF NoResponse
  <2>2. /\ UNCHANGED <<now, last_rate_limit, mixed>>
        /\ pc'[t] \in {"failed", "sleeping"} /\ pc' = [pc EXCEPT ![t] = pc'[t]]
        /\ answer'[t].at <= now /\ answer'[t].kind # "rateLimit"
        /\ \A u \in Threads \ {t} : answer'[u] = answer[u] /\ wake'[u] = wake[u]
    BY <1>6, <2>1, <1>1 DEF NoResponse, Fails, sharedVars, TypeOK, NoAnswer
  <2> QED  BY <1>1, <2>2, InvFails DEF Waits
<1>7. ASSUME NEW t \in Threads, Wake(t)
      PROVE  Inv'
  <2>1. /\ UNCHANGED <<now, last_rate_limit, mixed>>
        /\ pc' = [pc EXCEPT ![t] = "waiting"]
        /\ answer' = [answer EXCEPT ![t] = NoAnswer]
        /\ \A u \in Threads \ {t} : attempt'[u] = attempt[u] /\ wake'[u] = wake[u]
    BY <1>7, <1>1 DEF Wake, sharedVars, TypeOK
  <2>2. AnswersArePast'
    BY <2>1, <1>1 DEF Inv, AnswersArePast, TypeOK, NoAnswer
  <2>3. ReadsItsOwn'
    BY <2>1, <1>1 DEF Inv, ReadsItsOwn, TypeOK
  <2>4. ASSUME NEW u \in Threads
        PROVE  Waits(u)'
    <3>1. CASE u = t
      BY <2>1, <3>1, <1>1 DEF Waits, TypeOK
    <3>2. CASE u # t
      BY <2>1, <3>2, <1>1, WaitsKept DEF TypeOK
    <3> QED  BY <3>1, <3>2
  <2> QED  BY <1>1, <2>2, <2>3, <2>4 DEF Inv
<1>8. CASE Tick \/ UNCHANGED vars
  <2>1. /\ UNCHANGED <<last_rate_limit, pc, attempt, answer, wake, mixed>>
        /\ now \in Nat /\ now' >= now /\ now' \in Nat
    BY <1>8, <1>1 DEF Tick, vars, sharedVars, threadVars, TypeOK
  <2>2. AnswersArePast'
    BY <2>1, <1>1 DEF Inv, AnswersArePast, TypeOK, Answers
  <2>3. ReadsItsOwn'
    BY <2>1 DEF Inv, ReadsItsOwn
  <2>4. \A u \in Threads : Waits(u)'
    BY <2>1, <1>1, WaitsKept
  <2> QED  BY <1>1, <2>2, <2>3, <2>4 DEF Inv
<1> QED  BY <1>2, <1>3, <1>4, <1>5, <1>6, <1>7, <1>8 DEF Next

\* A call that was rate limited is not made again before its own answer allows
\* it, max_delay permitting, unless another thread of the group stored its
\* answer between the two statements.
THEOREM WaitsAreAsAsked == Spec => []WaitsAsAsked
<1>1. Inv => WaitsAsAsked
  BY DEF Inv, Waits, WaitsAsAsked
<1> QED  BY <1>1, InvInit, InvNext, PTL DEF Spec

\* Even one whose headers were overwritten pauses for a second, if max_delay
\* allows one.
THEOREM RateLimitsPause == Spec => []RateLimitedPauses
<1>1. Inv => RateLimitedPauses
  BY DEF Inv, Waits, RateLimitedPauses
<1> QED  BY <1>1, InvInit, InvNext, PTL DEF Spec
-----------------------------------------------------------------------------
(* What the facade reports.                                                *)

\* The headers of a group's latest response are stored, or about to be.
LatestAtHand(g) ==
    \/ last_rate_limit[g].of = last_response_at[g]
    \/ \E t \in Of(g) : pc[t] = "stamped" /\ answer[t].info.of = last_response_at[g]

\* One of the groups had the latest response; no thread holds an answer later
\* than its group's; a group that stored nothing in reverse has its latest.
FreshInv ==
    /\ \E g \in Groups : last_response_at[g] = responses
    /\ \A g \in Groups : last_response_at[g] <= responses
    /\ \A t \in Threads : pc[t] = "stamped" => answer[t].info.of <= last_response_at[Group(t)]
    /\ \A g \in Groups \ crossed : LatestAtHand(g)

LEMMA OfGroup == \A g \in Groups, t \in Threads : t \in Of(g) <=> Group(t) = g
  BY DEF Of

\* Steps that stamp and store nothing, and leave no answer half stored.
LEMMA FreshKept ==
    ASSUME TypeOK, FreshInv, UNCHANGED <<sharedVars, crossed>>,
           \A t \in Threads : pc'[t] = "stamped" <=> pc[t] = "stamped",
           \A t \in Threads : pc[t] = "stamped" => answer'[t] = answer[t]
    PROVE  FreshInv'
<1>1. \A g \in Groups : LatestAtHand(g) => LatestAtHand(g)'
  BY DEF LatestAtHand, sharedVars, Of
<1> QED  BY <1>1 DEF FreshInv, sharedVars

LEMMA FreshInit == Init => FreshInv
  BY DEF Init, FreshInv, LatestAtHand, NoInfo, Groups

LEMMA FreshNext == TypeInv /\ FreshInv /\ [Next]_vars => FreshInv'
<1> SUFFICES ASSUME TypeInv, FreshInv, [Next]_vars PROVE FreshInv'
  OBVIOUS
<1>0. TypeOK /\ responses \in Nat /\ last_response_at \in [Groups -> Nat]
  BY DEF TypeInv, TypeOK
<1>1. ASSUME NEW t \in Threads, Stamp(t)
      PROVE  FreshInv'
  <2> DEFINE g == Group(t)
  <2>1. g \in Groups
    BY GroupType
  <2>2. /\ responses' = responses + 1
        /\ last_response_at' = [last_response_at EXCEPT ![g] = responses']
        /\ last_rate_limit' = last_rate_limit /\ crossed' = crossed
        /\ pc[t] = "waiting" /\ pc' = [pc EXCEPT ![t] = "stamped"]
    BY <1>1 DEF Stamp
  <2>3. /\ answer'[t].info.of = responses'
        /\ \A u \in Threads \ {t} : answer'[u] = answer[u]
    BY <1>1, <1>0 DEF Stamp, TypeOK
  <2>4. /\ last_response_at'[g] = responses'
        /\ \A h \in Groups \ {g} : last_response_at'[h] = last_response_at[h]
    BY <1>0, <2>1, <2>2
  <2>5. LatestAtHand(g)'
    BY <1>0, <2>1, <2>2, <2>3, <2>4 DEF LatestAtHand, Of, TypeOK
  <2>6. ASSUME NEW h \in Groups \ {g}, LatestAtHand(h)
        PROVE  LatestAtHand(h)'
    BY <1>0, <2>2, <2>3, <2>4, <2>6, OfGroup DEF LatestAtHand, Of, TypeOK
  <2>7. ASSUME NEW u \in Threads, pc'[u] = "stamped"
        PROVE  answer'[u].info.of <= last_response_at'[Group(u)]
    <3>1. CASE u = t
      BY <1>0, <2>2, <2>3, <2>4, <3>1
    <3>2. CASE u # t
      <4>1. answer[u].info.of <= last_response_at[Group(u)] /\ answer'[u] = answer[u]
        BY <1>0, <2>2, <2>3, <2>7, <3>2 DEF FreshInv, TypeOK
      <4>2. answer[u].info.of \in Nat /\ Group(u) \in Groups
        BY <1>0, GroupType DEF TypeOK, Answers, RateLimitInfos
      <4>3. last_response_at[Group(u)] <= responses
        BY <4>2 DEF FreshInv
      <4>4. last_response_at[Group(u)] <= last_response_at'[Group(u)]
        BY <1>0, <2>2, <2>4, <4>2, <4>3
      <4> QED  BY <1>0, <2>2, <2>4, <4>1, <4>2, <4>4
    <3> QED  BY <3>1, <3>2
  <2>8. \A h \in Groups : last_response_at'[h] <= responses'
    BY <1>0, <2>2, <2>4 DEF FreshInv
  <2> QED  BY <2>1, <2>2, <2>4, <2>5, <2>6, <2>7, <2>8 DEF FreshInv
<1>2. ASSUME NEW t \in Threads, Store(t)
      PROVE  FreshInv'
  <2> DEFINE g == Group(t)
             mine == answer[t].info.of
  <2>1. g \in Groups /\ t \in Of(g)
    BY GroupType, OfGroup
  <2>2. /\ UNCHANGED <<responses, last_response_at, answer>>
        /\ last_rate_limit' = [last_rate_limit EXCEPT ![g] = answer[t].info]
        /\ pc[t] = "stamped" /\ pc' = [pc EXCEPT ![t] = "stored"]
        /\ crossed' = Crossed(t)
    BY <1>2 DEF Store
  <2>3. /\ last_rate_limit'[g].of = mine
        /\ \A h \in Groups \ {g} : last_rate_limit'[h] = last_rate_limit[h]
        /\ \A u \in Threads : pc'[u] = "stamped" <=> pc[u] = "stamped" /\ u # t
    BY <1>0, <2>1, <2>2 DEF TypeOK
  <2>4. /\ mine \in Nat /\ last_rate_limit[g].of \in Nat /\ last_response_at[g] \in Nat
        /\ mine <= last_response_at[g]
    BY <1>0, <2>1, <2>2 DEF FreshInv, TypeOK, Answers, RateLimitInfos
  <2>5. ASSUME NEW h \in Groups \ {g}, LatestAtHand(h)
        PROVE  LatestAtHand(h)'
    BY <2>2, <2>3, <2>5, OfGroup DEF LatestAtHand, Of
  <2>6. ASSUME g \notin crossed'
        PROVE  LatestAtHand(g)'
    <3>1. CASE mine = last_response_at[g]
      BY <2>2, <2>3, <3>1 DEF LatestAtHand
    <3>2. CASE mine # last_response_at[g]
      <4>1. g \notin crossed /\ ~(last_rate_limit[g].of > mine)
        BY <2>2, <2>6, <3>2 DEF Crossed
      <4>2. last_rate_limit[g].of # last_response_at[g]
        BY <2>4, <3>2, <4>1
      <4>3. PICK u \in Of(g) : pc[u] = "stamped" /\ answer[u].info.of = last_response_at[g]
        BY <2>1, <4>1, <4>2 DEF FreshInv, LatestAtHand
      <4>4. u # t /\ u \in Threads
        BY <3>2, <4>3 DEF Of
      <4>5. pc'[u] = "stamped" /\ answer'[u].info.of = last_response_at'[g] /\ u \in Of(g)'
        BY <2>2, <2>3, <4>3, <4>4 DEF Of
      <4> QED  BY <4>5 DEF LatestAtHand
    <3> QED  BY <3>1, <3>2
  <2>7. \A h \in Groups \ {g} : h \notin crossed' => h \notin crossed
    BY <2>2 DEF Crossed
  <2>8. \A h \in Groups \ crossed' : LatestAtHand(h)'
    BY <2>1, <2>5, <2>6, <2>7 DEF FreshInv
  <2> QED  BY <2>2, <2>3, <2>8 DEF FreshInv
<1>3. ASSUME NEW t \in Threads, Return(t) \/ Raise(t) \/ NoResponse(t) \/ Wake(t)
      PROVE  FreshInv'
  <2>1. UNCHANGED <<sharedVars, crossed>>
    BY <1>3 DEF Return, Raise, NoResponse, Wake
  <2>2. /\ pc[t] # "stamped" /\ pc'[t] # "stamped"
        /\ \A u \in Threads \ {t} : pc'[u] = pc[u] /\ answer'[u] = answer[u]
    BY <1>0, <1>3 DEF Return, Raise, Fails, NoResponse, Wake, TypeOK
  <2> QED  BY <1>0, <2>1, <2>2, FreshKept
<1>4. CASE Tick \/ UNCHANGED vars
  BY <1>0, <1>4, FreshKept DEF Tick, vars, sharedVars, threadVars
<1> QED  BY <1>1, <1>2, <1>3, <1>4 DEF Next

\* Whatever the order the threads of both groups store their answers in, the
\* facade reports the latest, once it is stored, unless an older one of its
\* group was stored over a newer.
THEOREM FacadeIsFresh == Spec => []FacadeFresh
<1>1. TypeInv /\ FreshInv => FacadeFresh
  <2> SUFFICES ASSUME TypeInv, FreshInv, crossed = {}, \A t \in Threads : pc[t] # "stamped"
               PROVE  facade_last_rate_limit.of = responses
    BY DEF FacadeFresh
  <2>1. \A g \in Groups : last_rate_limit[g].of = last_response_at[g]
    BY DEF FreshInv, LatestAtHand, Of
  <2>2. /\ last_response_at["auth"] \in Nat /\ last_response_at["public"] \in Nat
        /\ last_response_at["auth"] <= responses /\ last_response_at["public"] <= responses
        /\ last_response_at["auth"] = responses \/ last_response_at["public"] = responses
    BY DEF TypeInv, TypeOK, FreshInv, Groups
  <2>3. responses \in Nat
    BY DEF TypeInv, TypeOK
  <2> QED  BY <2>1, <2>2, <2>3 DEF facade_last_rate_limit, Groups
<1> QED  BY <1>1, TypeInit, TypeNext, FreshInit, FreshNext, PTL DEF Spec
=============================================================================
