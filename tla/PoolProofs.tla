------------------------------ MODULE PoolProofs ------------------------------
(***************************************************************************)
(* What is proved of Pool, for any number of buckets, callers and sub_ids  *)
(* and any limits: what subscribe() returned for is carried exactly once,  *)
(* within the room there is, and each bucket has the supervisor it should. *)
(***************************************************************************)
EXTENDS Pool, FiniteSetTheorems, TLAPS

\* Who waits for a bucket of its own asks for a sub_id.
Asking == \A c \in opens : wants[c] # None

TypeInv == TypeOK /\ Asking

CallersOK ==
    /\ wants' \in [Callers -> SubIds \cup {None}]
    /\ on' \in [Callers -> SUBSET Buckets]
    /\ opens' \subseteq Callers
    /\ Asking'

\* The steps of subscribe() and unsubscribe() that change a bucket.
TakesASlot == \E c \in Callers, s \in SubIds : TakesSlot(c, s)
OpensABucket == \E c \in Callers, s \in SubIds : OpensBucket(c, s)
Discards == \E c \in Callers : c \in opens /\ Discard(c)
Unsubscribes == \E b \in Buckets, s \in SubIds : Unsubscribe(b, s)
UnsubscribesLast == \E b \in Buckets, s \in SubIds : UnsubscribeLast(b, s)
Reissues ==
    \E b \in Buckets, s \in SubIds : Resubscribe(b, s) \/ Retakes(b, s) \/ RetakeFails(b, s)

LEMMA SettledCallers == ASSUME TypeInv, UNCHANGED callerVars PROVE CallersOK
  BY DEF TypeInv, TypeOK, Asking, CallersOK, callerVars

LEMMA ReturnsCallers == ASSUME TypeInv, NEW c \in Callers, Returns(c) PROVE CallersOK
  BY DEF TypeInv, TypeOK, Asking, CallersOK, Returns

\* A pass of subscribe(): it ends or waits, takes a slot, or opens a bucket.
LEMMA APass ==
    ASSUME TypeInv, NEW c \in Callers, NEW s \in SubIds, NEW late, Pass(c, s, late)
    PROVE  CallersOK /\ (UNCHANGED <<bucketVars, history>> \/ TakesSlot(c, s) \/ OpensBucket(c, s))
<1>1. CASE Raises(c, s, late)
  BY <1>1, ReturnsCallers DEF Raises
<1>2. CASE TakesSlot(c, s)
  BY <1>2, ReturnsCallers DEF TakesSlot
<1>3. CASE Waits(c, s)
  <2>1. coming_back \subseteq Buckets
    BY DEF coming_back, TypeInv, TypeOK
  <2> QED  BY <1>3, <2>1 DEF Waits, TypeInv, TypeOK, Asking, CallersOK
<1>4. CASE OpensBucket(c, s)
  <2>1. PICK b \in Unused : on' = [on EXCEPT ![c] = {b}]
    BY <1>4 DEF OpensBucket
  <2>2. wants' = [wants EXCEPT ![c] = s] /\ opens' = opens \cup {c} /\ b \in Buckets
    BY <1>4, <2>1 DEF OpensBucket, Unused
  <2> QED  BY <1>4, <2>1, <2>2, NoneAssumption DEF TypeInv, TypeOK, Asking, CallersOK
<1> QED  BY <1>1, <1>2, <1>3, <1>4 DEF Pass

LEMMA Subscribing ==
    ASSUME TypeInv, NEW c \in Callers, Opened(c) \/ Resume(c) \/ \E s \in SubIds : Subscribe(c, s)
    PROVE  /\ CallersOK /\ UNCHANGED clientVars
           /\ UNCHANGED <<bucketVars, history>> \/ TakesASlot \/ OpensABucket
<1>1. PICK s \in SubIds : \E late \in BOOLEAN : Pass(c, s, late)
  <2>1. CASE Opened(c)
    <3>1. wants[c] \in SubIds
      BY <2>1 DEF Opened, TypeInv, TypeOK, Asking
    <3> QED  BY <2>1, <3>1 DEF Opened
  <2>2. CASE Resume(c)
    <3>1. wants[c] \in SubIds
      BY <2>2 DEF Resume, TypeInv, TypeOK
    <3> QED  BY <2>2, <3>1 DEF Resume
  <2>3. CASE \E s \in SubIds : Subscribe(c, s)
    BY <2>3 DEF Subscribe
  <2> QED  BY <2>1, <2>2, <2>3
<1>2. UNCHANGED clientVars
  BY DEF Opened, Resume, Subscribe
<1> QED  BY <1>1, <1>2, APass DEF TakesASlot, OpensABucket

\* What a step does to the buckets' subscriptions.
SubsMoves ==
    \/ UNCHANGED <<pool, subs, again, held, raced>>
    \/ TakesASlot \/ OpensABucket \/ Discards \/ Unsubscribes \/ UnsubscribesLast \/ Reissues
-----------------------------------------------------------------------------
(* Types.                                                                  *)

LEMMA TypeInit == Init => TypeInv
<1> SUFFICES ASSUME Init PROVE TypeInv
  OBVIOUS
<1>1. 0 \in 0 .. RestartLimit - 1
  BY LimitAssumption
<1> QED  BY <1>1 DEF Init, TypeInv, TypeOK, Asking, Clients, Supervisors, Sockets

LEMMA GoneType == \A s \in Sockets : Gone(s) \in Sockets \ {"fresh", "stable"}
  BY DEF Gone, Sockets

BucketsOK ==
    /\ pool' \subseteq Buckets
    /\ sup' \in [Buckets -> Supervisors]
    /\ socket' \in [Buckets -> Sockets]
    /\ shut' \subseteq Buckets
    /\ failures' \in [Buckets -> 0 .. RestartLimit - 1]
    /\ subs' \in [Buckets -> SUBSET SubIds]
    /\ again' \in [Buckets -> SUBSET SubIds]
    /\ held' \subseteq SubIds
    /\ gaveUp' \subseteq Buckets
    /\ doubled' \in BOOLEAN
    /\ raced' \subseteq SubIds

ClientOK ==
    /\ client' \in Clients
    /\ closing' \in BOOLEAN
    /\ toClose' = None \/ toClose' \subseteq Buckets

LEMMA CancelType ==
    ASSUME TypeInv, NEW bs, CancelAll(bs)
    PROVE  sup' \in [Buckets -> Supervisors] /\ socket' \in [Buckets -> Sockets]
  BY GoneType DEF CancelAll, TypeInv, TypeOK, Supervisors

LEMMA SuperviseType ==
    ASSUME TypeInv, NEW bs, Supervise(bs)
    PROVE  /\ sup' \in [Buckets -> Supervisors]
           /\ socket' \in [Buckets -> Sockets]
           /\ failures' \in [Buckets -> 0 .. RestartLimit - 1]
           /\ gaveUp' \subseteq Buckets /\ doubled' \in BOOLEAN
<1>1. 0 \in 0 .. RestartLimit - 1
  BY LimitAssumption
<1> QED  BY <1>1 DEF Supervise, TypeInv, TypeOK, Supervisors, Sockets

LEMMA Kept ==
    ASSUME TypeInv
    PROVE  /\ UNCHANGED clientVars => ClientOK
           /\ UNCHANGED <<bucketVars, history>> => BucketsOK
  BY DEF TypeInv, TypeOK, ClientOK, BucketsOK, clientVars, bucketVars, history

LEMMA SupervisorType ==
    ASSUME TypeInv, NEW b \in Buckets,
           SupervisorStep(b) \/ BucketStaysUp(b) \/ BucketDrops(b)
    PROVE  /\ BucketsOK /\ CallersOK /\ ClientOK
           /\ UNCHANGED <<pool, subs, again, held, shut, clientVars, doubled, raced>>
<1> USE DEF TypeInv, TypeOK, BucketsOK, history
<1>1. UNCHANGED <<callerVars, clientVars, pool, subs, again, held, shut, doubled, raced>>
  BY DEF SupervisorStep, BucketStaysUp, BucketDrops, BucketOpens, StartEnds, Wakes, CancelDone
<1>2. CallersOK /\ ClientOK
  BY <1>1, SettledCallers, Kept
<1>3. ASSUME BucketOpens(b)
      PROVE  BucketsOK
  BY <1>1, <1>3 DEF BucketOpens, Supervisors, Sockets
<1>4. ASSUME NEW failing \in BOOLEAN, StartEnds(b, failing)
      PROVE  BucketsOK
  <2> DEFINE stable == socket[b] = "goneStable"
             count == IF stable THEN 0 ELSE IF failing THEN failures[b] + 1 ELSE failures[b]
             gives_up == ~Done(b) /\ ~stable /\ failing /\ count >= RestartLimit
             over == Done(b) \/ gives_up
  <2>1. (IF over THEN 0 ELSE count) \in 0 .. RestartLimit - 1
    <3>1. failures[b] \in 0 .. RestartLimit - 1 /\ RestartLimit \in Nat \ {0}
      BY LimitAssumption
    <3>2. CASE over
      BY <3>1, <3>2
    <3>3. CASE ~over
      BY <3>1, <3>3
    <3> QED  BY <3>2, <3>3
  <2>2. /\ failures' = [failures EXCEPT ![b] = IF over THEN 0 ELSE count]
        /\ sup' = [sup EXCEPT ![b] = IF over THEN "none" ELSE "asleep"]
        /\ gaveUp' = IF gives_up THEN gaveUp \cup {b} ELSE gaveUp
        /\ socket' = [socket EXCEPT ![b] = "none"]
    BY <1>4 DEF StartEnds
  <2> HIDE DEF over, count, gives_up
  <2>3. failures' \in [Buckets -> 0 .. RestartLimit - 1]
    BY <2>1, <2>2
  <2>4. sup' \in [Buckets -> Supervisors]
    BY <2>2 DEF Supervisors
  <2>5. socket' \in [Buckets -> Sockets]
    BY <2>2 DEF Sockets
  <2>6. gaveUp' \subseteq Buckets
    BY <2>2
  <2> QED  BY <1>1, <2>3, <2>4, <2>5, <2>6
<1>5. ASSUME Wakes(b)
      PROVE  BucketsOK
  BY <1>1, <1>5 DEF Wakes, Supervisors
<1>6. ASSUME CancelDone(b)
      PROVE  BucketsOK
  <2>1. 0 \in 0 .. RestartLimit - 1
    BY LimitAssumption
  <2> QED  BY <1>1, <1>6, <2>1 DEF CancelDone, Supervisors, Sockets
<1>7. ASSUME BucketStaysUp(b)
      PROVE  BucketsOK
  BY <1>1, <1>7 DEF BucketStaysUp, Sockets
<1>8. ASSUME BucketDrops(b)
      PROVE  BucketsOK
  <2>1. Gone(socket[b]) \in Sockets
    BY GoneType
  <2> QED  BY <1>1, <1>8, <2>1 DEF BucketDrops
<1> QED  BY <1>1, <1>2, <1>3, <1>4, <1>5, <1>6, <1>7, <1>8 DEF SupervisorStep

\* The client's own steps.
ClientStep ==
    \/ Lost \/ StopBuckets \/ Reconnect \/ SessionEnds \/ RunFails \/ NewSession
    \/ Close \/ CloseSupervisors \/ CloseSocket \/ \E b \in Buckets : CloseBucket(b)

LEMMA ClientType ==
    ASSUME TypeInv, ClientStep
    PROVE  BucketsOK /\ CallersOK /\ ClientOK /\ UNCHANGED <<pool, subs, again, held, raced>>
<1> USE DEF TypeInv, TypeOK, BucketsOK, ClientOK, history, bucketVars, clientVars
<1>1. UNCHANGED <<callerVars, pool, subs, again, held, raced>>
  BY DEF ClientStep, Lost, StopBuckets, Reconnect, SessionEnds, RunFails, NewSession, Close,
     CloseSupervisors, CloseSocket, CloseBucket, ShutBucket
<1>2. CallersOK
  BY <1>1, SettledCallers
<1>3. CASE Lost \/ SessionEnds \/ Close \/ CloseSocket
  BY <1>2, <1>1, <1>3 DEF Lost, SessionEnds, Close, CloseSocket, Clients
<1>4. CASE StopBuckets \/ RunFails \/ CloseSupervisors
  <2>1. sup' \in [Buckets -> Supervisors] /\ socket' \in [Buckets -> Sockets]
    BY <1>4, CancelType DEF StopBuckets, RunFails, CloseSupervisors
  <2> QED  BY <1>1, <1>2, <1>4, <2>1 DEF StopBuckets, RunFails, CloseSupervisors, Clients
<1>5. CASE Reconnect \/ NewSession
  <2>1. /\ sup' \in [Buckets -> Supervisors]
        /\ socket' \in [Buckets -> Sockets]
        /\ failures' \in [Buckets -> 0 .. RestartLimit - 1]
        /\ gaveUp' \subseteq Buckets /\ doubled' \in BOOLEAN
    BY <1>5, SuperviseType DEF Reconnect, NewSession
  <2> QED  BY <1>1, <1>2, <1>5, <2>1 DEF Reconnect, NewSession, Clients
<1>6. ASSUME NEW b \in Buckets, CloseBucket(b)
      PROVE  BucketsOK /\ ClientOK
  <2>1. toClose' = None \/ toClose' \subseteq Buckets
    BY <1>6 DEF CloseBucket
  <2> QED  BY <1>1, <1>6, <2>1, GoneType DEF CloseBucket, ShutBucket
<1> QED  BY <1>1, <1>2, <1>3, <1>4, <1>5, <1>6 DEF ClientStep

LEMMA TakesSlotType ==
    ASSUME TypeInv, NEW c \in Callers, NEW s \in SubIds, TakesSlot(c, s)
    PROVE  BucketsOK
<1>1. PICK b \in Ready : subs' = [subs EXCEPT ![b] = @ \cup {s}]
  BY DEF TakesSlot
<1>2. b \in Buckets /\ subs \in [Buckets -> SUBSET SubIds] /\ held \subseteq SubIds
  BY DEF Ready, TypeInv, TypeOK
<1>3. subs' \in [Buckets -> SUBSET SubIds] /\ held' \subseteq SubIds /\ raced' \subseteq SubIds
  BY <1>1, <1>2 DEF TakesSlot, TypeInv, TypeOK
<1> QED  BY <1>3 DEF TakesSlot, TypeInv, TypeOK, BucketsOK

LEMMA OpensBucketType ==
    ASSUME TypeInv, NEW c \in Callers, NEW s \in SubIds, OpensBucket(c, s)
    PROVE  BucketsOK
<1>1. PICK b \in Unused :
          /\ pool' = pool \cup {b} /\ Supervise({b}) /\ shut' = shut \ {b}
          /\ subs' = [subs EXCEPT ![b] = {}]
  BY DEF OpensBucket
<1>2. b \in Buckets
  BY DEF Unused
<1>3. /\ sup' \in [Buckets -> Supervisors]
      /\ socket' \in [Buckets -> Sockets]
      /\ failures' \in [Buckets -> 0 .. RestartLimit - 1]
      /\ gaveUp' \subseteq Buckets /\ doubled' \in BOOLEAN
  BY <1>1, SuperviseType
<1>4. UNCHANGED <<again, held, raced>>
  BY DEF OpensBucket
<1> QED  BY <1>1, <1>2, <1>3, <1>4 DEF TypeInv, TypeOK, BucketsOK

LEMMA DiscardType ==
    ASSUME TypeInv, NEW c \in Callers, Discard(c)
    PROVE  BucketsOK /\ CallersOK /\ ClientOK
<1>1. CallersOK /\ ClientOK
  BY ReturnsCallers, Kept DEF Discard
<1>2. sup' \in [Buckets -> Supervisors] /\ socket' \in [Buckets -> Sockets]
  BY CancelType DEF Discard
<1>3. on[c] \subseteq Buckets
  BY DEF TypeInv, TypeOK
<1> QED  BY <1>1, <1>2, <1>3 DEF Discard, Removed, TypeInv, TypeOK, BucketsOK

LEMMA UnsubscribeType ==
    ASSUME TypeInv, NEW b \in Buckets, NEW s \in SubIds,
           Unsubscribe(b, s) \/ UnsubscribeLast(b, s)
    PROVE  BucketsOK /\ CallersOK /\ ClientOK
<1>1. UNCHANGED callerVars /\ UNCHANGED clientVars
  BY DEF Unsubscribe, UnsubscribeLast
<1>2. CallersOK /\ ClientOK
  BY <1>1, SettledCallers, Kept
<1>3. CASE Unsubscribe(b, s)
  BY <1>2, <1>3 DEF Unsubscribe, TypeInv, TypeOK, BucketsOK
<1>4. CASE UnsubscribeLast(b, s)
  <2>1. Gone(socket[b]) \in Sockets
    BY GoneType DEF TypeInv, TypeOK
  <2> QED  BY <1>2, <1>4, <2>1 DEF UnsubscribeLast, Removed, ShutBucket, TypeInv, TypeOK, BucketsOK
<1> QED  BY <1>3, <1>4

LEMMA ReissueType ==
    ASSUME TypeInv, NEW b \in Buckets, NEW s \in SubIds,
           Resubscribe(b, s) \/ Retakes(b, s) \/ RetakeFails(b, s)
    PROVE  BucketsOK /\ CallersOK /\ ClientOK
<1>1. UNCHANGED <<clientVars, callerVars, pool, sup, socket, shut, failures, gaveUp, doubled, raced>>
  BY DEF Resubscribe, Retakes, RetakeFails, history
<1>2. CallersOK /\ ClientOK
  BY <1>1, SettledCallers, Kept
<1>3. /\ subs' \in [Buckets -> SUBSET SubIds]
      /\ again' \in [Buckets -> SUBSET SubIds]
      /\ held' \subseteq SubIds
  BY DEF Resubscribe, Retakes, RetakeFails, history, TypeInv, TypeOK
<1> QED  BY <1>1, <1>2, <1>3 DEF TypeInv, TypeOK, BucketsOK

LEMMA TypeNext ==
    ASSUME TypeInv, [Next]_vars
    PROVE  TypeInv' /\ SubsMoves
<1>1. ASSUME BucketsOK, CallersOK, ClientOK
      PROVE  TypeInv'
  BY <1>1 DEF BucketsOK, CallersOK, ClientOK, TypeInv, TypeOK
<1>2. ASSUME NEW b \in Buckets, SupervisorStep(b) \/ BucketStaysUp(b) \/ BucketDrops(b)
      PROVE  TypeInv' /\ SubsMoves
  BY <1>1, <1>2, SupervisorType DEF SubsMoves
<1>3. CASE ClientStep
  BY <1>1, <1>3, ClientType DEF SubsMoves
<1>4. ASSUME NEW b \in Buckets, NEW s \in SubIds, Unsubscribe(b, s) \/ UnsubscribeLast(b, s)
      PROVE  TypeInv' /\ SubsMoves
  BY <1>1, <1>4, UnsubscribeType DEF SubsMoves, Unsubscribes, UnsubscribesLast
<1>5. ASSUME NEW c \in Callers, Opened(c) \/ Resume(c) \/ \E s \in SubIds : Subscribe(c, s)
      PROVE  TypeInv' /\ SubsMoves
  <2>1. /\ CallersOK /\ ClientOK
        /\ UNCHANGED <<bucketVars, history>> \/ TakesASlot \/ OpensABucket
    BY <1>5, Subscribing, Kept
  <2>2. BucketsOK
    BY <2>1, Kept, TakesSlotType, OpensBucketType DEF TakesASlot, OpensABucket
  <2> QED  BY <1>1, <2>1, <2>2 DEF SubsMoves, bucketVars, history
<1>6. ASSUME NEW c \in Callers, NotOpened(c) \/ CancelOpening(c)
      PROVE  TypeInv' /\ SubsMoves
  <2>1. c \in opens /\ Discard(c)
    BY <1>6 DEF NotOpened, CancelOpening
  <2> QED  BY <1>1, <2>1, DiscardType DEF SubsMoves, Discards
<1>7. ASSUME NEW c \in Callers, CancelWaiting(c)
      PROVE  TypeInv' /\ SubsMoves
  <2>1. CallersOK /\ ClientOK /\ BucketsOK
    BY <1>7, ReturnsCallers, Kept DEF CancelWaiting
  <2> QED  BY <1>1, <1>7, <2>1 DEF SubsMoves, CancelWaiting, bucketVars, history
<1>8. ASSUME NEW b \in Buckets, NEW s \in SubIds,
             Resubscribe(b, s) \/ Retakes(b, s) \/ RetakeFails(b, s)
      PROVE  TypeInv' /\ SubsMoves
  BY <1>1, <1>8, ReissueType DEF SubsMoves, Reissues
<1>9. CASE UNCHANGED vars
  <2>1. CallersOK /\ ClientOK /\ BucketsOK
    BY <1>9, SettledCallers, Kept DEF vars
  <2> QED  BY <1>1, <1>9, <2>1 DEF SubsMoves, vars, bucketVars, history
<1> QED  BY <1>2, <1>3, <1>4, <1>5, <1>6, <1>7, <1>8, <1>9 DEF Next, ClientStep, CallerStep

\* Every variable keeps its type; a supervisor's failures stay under the limit.
THEOREM TypeCorrect == Spec => []TypeOK
<1>1. TypeInv => TypeOK
  BY DEF TypeInv
<1>2. TypeInv /\ [Next]_vars => TypeInv'
  BY TypeNext
<1> QED  BY <1>1, <1>2, TypeInit, PTL DEF Spec
-----------------------------------------------------------------------------
(* The buckets' supervisors.                                               *)

\* Between two connections no supervisor runs.
NoneAway == client \in {"away", "ended"} => \A b \in pool : sup[b] \notin Alive

\* A bucket of the client is shut by close() only.
ShutByClose == (toClose # None => closing) /\ (~closing => pool \cap shut = {})

\* A bucket that left the pool is down, and its supervisor will find it shut.
LeftBehind == \A b \in Buckets \ pool : ~Open(b) /\ (sup[b] \in Alive => b \in shut)

\* close() shuts one bucket after the other, and stops their supervisors last.
BeingClosed ==
    closing => /\ \A b \in pool : \/ toClose # None /\ b \in toClose
                                  \/ b \in shut /\ ~Open(b)
               /\ toClose = None => \A b \in pool : sup[b] \notin Alive

LifeInv == NoneAway /\ ShutByClose /\ LeftBehind /\ BeingClosed /\ KeptUp /\ OneSupervisor

lifeVars == <<clientVars, pool, sup, socket, shut, gaveUp, doubled>>

LEMMA LifeInit == Init => LifeInv
  BY DEF Init, LifeInv, NoneAway, ShutByClose, LeftBehind, BeingClosed, KeptUp, OneSupervisor, Alive, Open

LEMMA LifeKept == ASSUME LifeInv, UNCHANGED lifeVars PROVE LifeInv'
  BY DEF LifeInv, NoneAway, ShutByClose, LeftBehind, BeingClosed, KeptUp, OneSupervisor, Open,
     lifeVars, clientVars

\* What a supervisor does to itself: it goes on only if its bucket is not done.
LEMMA OneBucket ==
    ASSUME TypeInv, LifeInv, NEW b \in Buckets,
           UNCHANGED <<clientVars, pool, shut, doubled>>,
           \A d \in Buckets : d # b => sup'[d] = sup[d] /\ socket'[d] = socket[d],
           \A d \in Buckets : d # b => (d \in gaveUp' <=> d \in gaveUp),
           Open(b)' => Open(b) \/ (sup[b] \in Alive /\ b \notin shut),
           sup'[b] \in Alive => sup[b] \in Alive,
           b \in gaveUp \/ sup[b] \in Alive =>
              sup'[b] \in Alive \/ b \in gaveUp' \/ Done(b)
    PROVE  LifeInv'
<1> USE DEF LifeInv, TypeInv, TypeOK, clientVars
<1>1. NoneAway'
  BY DEF NoneAway
<1>2. ShutByClose'
  BY DEF ShutByClose
<1>3. LeftBehind'
  BY DEF LeftBehind, Open
<1>4. BeingClosed'
  BY DEF BeingClosed, Open
<1>5. KeptUp'
  BY DEF KeptUp, Done, ShutByClose
<1>6. OneSupervisor'
  BY DEF OneSupervisor
<1> QED  BY <1>1, <1>2, <1>3, <1>4, <1>5, <1>6

LEMMA SupervisorLife ==
    ASSUME TypeInv, LifeInv, NEW b \in Buckets,
           SupervisorStep(b) \/ BucketStaysUp(b) \/ BucketDrops(b)
    PROVE  LifeInv'
<1> USE DEF TypeInv, TypeOK
<1>0. UNCHANGED <<clientVars, pool, shut, doubled>>
  BY SupervisorType
<1>1. ASSUME BucketOpens(b)
      PROVE  LifeInv'
  BY <1>0, <1>1, OneBucket DEF BucketOpens, Alive, history
<1>2. ASSUME NEW failing \in BOOLEAN, StartEnds(b, failing)
      PROVE  LifeInv'
  <2> DEFINE stable == socket[b] = "goneStable"
             count == IF stable THEN 0 ELSE IF failing THEN failures[b] + 1 ELSE failures[b]
             gives_up == ~Done(b) /\ ~stable /\ failing /\ count >= RestartLimit
             over == Done(b) \/ gives_up
  <2>1. /\ sup' = [sup EXCEPT ![b] = IF over THEN "none" ELSE "asleep"]
        /\ gaveUp' = IF gives_up THEN gaveUp \cup {b} ELSE gaveUp
        /\ socket' = [socket EXCEPT ![b] = "none"]
        /\ sup[b] \in Alive
    BY <1>2 DEF StartEnds, Alive
  <2>2. over <=> Done(b) \/ gives_up
    OBVIOUS
  <2> HIDE DEF over, gives_up
  <2>3. ~Open(b)'
    BY <2>1 DEF Open
  <2>4. sup'[b] \in Alive \/ b \in gaveUp' \/ Done(b)
    BY <2>1, <2>2 DEF Alive
  <2>5. \A d \in Buckets : d # b => sup'[d] = sup[d] /\ socket'[d] = socket[d]
    BY <2>1
  <2>6. \A d \in Buckets : d # b => (d \in gaveUp' <=> d \in gaveUp)
    BY <2>1
  <2> QED  BY <1>0, <2>1, <2>3, <2>4, <2>5, <2>6, OneBucket
<1>3. ASSUME Wakes(b)
      PROVE  LifeInv'
  BY <1>0, <1>3, OneBucket DEF Wakes, Alive, history, Open
<1>4. ASSUME CancelDone(b)
      PROVE  LifeInv'
  BY <1>0, <1>4, OneBucket DEF CancelDone, Alive, history, Open
<1>5. ASSUME BucketStaysUp(b) \/ BucketDrops(b)
      PROVE  LifeInv'
  <2>1. UNCHANGED <<sup, gaveUp>> /\ \A d \in Buckets : d # b => socket'[d] = socket[d]
    BY <1>5 DEF BucketStaysUp, BucketDrops, history
  <2>2. Open(b)
    BY <1>5 DEF BucketStaysUp, BucketDrops, Open
  <2> QED  BY <1>0, <2>1, <2>2, OneBucket
<1> QED  BY <1>1, <1>2, <1>3, <1>4, <1>5 DEF SupervisorStep

\* task.cancel() leaves no supervisor running and opens nothing.
LEMMA CancelLife ==
    ASSUME TypeInv, NEW bs \in SUBSET Buckets, CancelAll(bs)
    PROVE  /\ \A b \in Buckets : /\ Open(b)' => Open(b)
                                 /\ sup'[b] \in Alive => sup[b] \in Alive
           /\ \A b \in bs : ~Open(b)' /\ sup'[b] \notin Alive
  BY GoneType DEF CancelAll, TypeInv, TypeOK, Open, Alive

LEMMA ClientLife ==
    ASSUME TypeInv, LifeInv, ClientStep
    PROVE  LifeInv'
<1> USE DEF TypeInv, TypeOK, LifeInv, clientVars, bucketVars, history
<1>1. ASSUME UNCHANGED bucketVars, UNCHANGED history, UNCHANGED <<closing, toClose>>,
             client' \notin {"up"}, client' \in {"away", "ended"} => client \in {"away", "ended"}
      PROVE  LifeInv'
  BY <1>1 DEF NoneAway, ShutByClose, LeftBehind, BeingClosed, KeptUp, OneSupervisor, Open
<1>2. CASE Lost \/ SessionEnds
  BY <1>1, <1>2 DEF Lost, SessionEnds
<1>3. CASE StopBuckets \/ RunFails \/ CloseSupervisors
  <2>1. /\ CancelAll(pool) /\ UNCHANGED <<closing, toClose, pool, shut, gaveUp, doubled>>
        /\ closing \/ client' # "up"
    BY <1>3, NoneAssumption DEF StopBuckets, RunFails, CloseSupervisors, ShutByClose
  <2>2. /\ \A b \in Buckets : /\ Open(b)' => Open(b)
                              /\ sup'[b] \in Alive => sup[b] \in Alive
        /\ \A b \in pool : ~Open(b)' /\ sup'[b] \notin Alive
    BY <2>1, CancelLife
  <2>3. NoneAway' /\ ShutByClose' /\ KeptUp' /\ OneSupervisor'
    BY <2>1, <2>2 DEF NoneAway, ShutByClose, KeptUp, OneSupervisor
  <2>4. LeftBehind' /\ BeingClosed'
    BY <2>1, <2>2 DEF LeftBehind, BeingClosed
  <2> QED  BY <2>3, <2>4
<1>4. CASE Reconnect \/ NewSession
  <2>1. /\ client' = "up" /\ ~closing' /\ Supervise(pool) /\ UNCHANGED <<toClose, pool>>
        /\ toClose = None \/ ~closing
        /\ client \in {"away", "ended"}
        /\ shut' = shut \/ shut' = shut \ pool
        /\ pool \cap shut' = {}
    BY <1>4 DEF Reconnect, NewSession, ShutByClose
  <2>2. /\ \A b \in pool : sup'[b] \in Alive
        /\ \A b \in Buckets \ pool : /\ sup'[b] = sup[b] /\ socket'[b] = socket[b]
                                    /\ (b \in shut' <=> b \in shut)
    BY <2>1 DEF Supervise, Alive
  <2>3. NoneAway' /\ ShutByClose' /\ KeptUp'
    BY <2>1, <2>2 DEF NoneAway, ShutByClose, KeptUp
  <2>4. OneSupervisor'
    BY <2>1 DEF OneSupervisor, NoneAway, Supervise
  <2>5. LeftBehind' /\ BeingClosed'
    BY <2>1, <2>2 DEF LeftBehind, BeingClosed, Open
  <2> QED  BY <2>3, <2>4, <2>5
<1>5. CASE Close
  <2>1. toClose' # None /\ toClose' = pool /\ closing' /\ UNCHANGED <<client, bucketVars, history>>
    BY <1>5, NoneAssumption DEF Close
  <2> QED  BY <2>1 DEF NoneAway, ShutByClose, LeftBehind, BeingClosed, KeptUp, OneSupervisor, Open
<1>6. ASSUME NEW b \in Buckets, CloseBucket(b)
      PROVE  LifeInv'
  <2>1. /\ toClose # None /\ toClose' = toClose \ {b} /\ toClose' # None /\ closing /\ closing'
        /\ shut' = shut \cup {b} /\ UNCHANGED <<client, pool, sup, gaveUp, doubled>>
    <3>1. toClose # None /\ toClose' = toClose \ {b}
      BY <1>6 DEF CloseBucket
    <3>2. toClose' # None
      BY <3>1, NoneAssumption
    <3> QED  BY <1>6, <3>1, <3>2 DEF CloseBucket, ShutBucket, ShutByClose
  <2>2. ~Open(b)' /\ \A d \in Buckets : Open(d)' => Open(d)
    BY <1>6, GoneType DEF CloseBucket, ShutBucket, Open
  <2>3. NoneAway' /\ ShutByClose' /\ KeptUp' /\ OneSupervisor'
    BY <2>1 DEF NoneAway, ShutByClose, KeptUp, OneSupervisor
  <2>4. LeftBehind' /\ BeingClosed'
    BY <2>1, <2>2 DEF LeftBehind, BeingClosed
  <2> QED  BY <2>3, <2>4
<1>7. CASE CloseSocket
  <2>1. /\ closing /\ closing' /\ toClose' = None /\ toClose = {}
        /\ \A b \in pool : sup[b] = "none"
        /\ client' \in {"away", "ended"} => client \in {"away", "ended"}
        /\ UNCHANGED <<pool, sup, socket, shut, gaveUp, doubled>>
    BY <1>7, NoneAssumption DEF CloseSocket, ShutByClose
  <2> QED  BY <2>1 DEF NoneAway, ShutByClose, LeftBehind, BeingClosed, KeptUp, OneSupervisor, Open, Alive
<1> QED  BY <1>2, <1>3, <1>4, <1>5, <1>6, <1>7 DEF ClientStep

LEMMA OpensLife ==
    ASSUME TypeInv, LifeInv, NEW c \in Callers, NEW s \in SubIds, OpensBucket(c, s),
           UNCHANGED clientVars
    PROVE  LifeInv'
<1> USE DEF TypeInv, TypeOK, LifeInv, clientVars
<1>1. PICK b \in Unused :
          /\ pool' = pool \cup {b} /\ Supervise({b}) /\ shut' = shut \ {b}
  BY DEF OpensBucket
<1>2. b \in Buckets /\ sup[b] = "none" /\ ~closing /\ client = "up"
  BY DEF OpensBucket, Unused, Passes
<1>3. /\ sup'[b] \in Alive /\ ~Open(b)'
      /\ \A d \in Buckets : d # b => /\ sup'[d] = sup[d] /\ socket'[d] = socket[d]
                                     /\ (d \in gaveUp' <=> d \in gaveUp)
      /\ doubled' = doubled
  BY <1>1, <1>2 DEF Supervise, Alive, Open
<1>4. NoneAway' /\ ShutByClose' /\ BeingClosed' /\ OneSupervisor'
  BY <1>1, <1>2, <1>3 DEF NoneAway, ShutByClose, BeingClosed, OneSupervisor
<1>5. KeptUp'
  BY <1>1, <1>3 DEF KeptUp
<1>6. LeftBehind'
  BY <1>1, <1>3 DEF LeftBehind, Open
<1> QED  BY <1>4, <1>5, <1>6

\* A bucket leaves the pool: it is shut, and down or cancelled.
LEMMA RemovedLife ==
    ASSUME TypeInv, LifeInv, NEW bs \in SUBSET Buckets, Removed(bs), shut' = shut \cup bs,
           UNCHANGED <<clientVars, doubled>>,
           \A b \in Buckets : /\ Open(b)' => Open(b)
                              /\ b \in bs \cap pool => ~Open(b)'
                              /\ sup'[b] \in Alive => sup[b] \in Alive
                              /\ b \notin bs => sup'[b] = sup[b]
    PROVE  LifeInv'
<1> USE DEF TypeInv, TypeOK, LifeInv, clientVars, Removed
<1>1. NoneAway' /\ ShutByClose' /\ OneSupervisor'
  BY DEF NoneAway, ShutByClose, OneSupervisor
<1>2. LeftBehind'
  BY DEF LeftBehind
<1>3. BeingClosed'
  BY DEF BeingClosed
<1>4. KeptUp'
  BY DEF KeptUp
<1> QED  BY <1>1, <1>2, <1>3, <1>4

LEMMA LifeNext ==
    ASSUME TypeInv, LifeInv, [Next]_vars
    PROVE  LifeInv'
<1>1. ASSUME NEW c \in Callers, Opened(c) \/ Resume(c) \/ \E s \in SubIds : Subscribe(c, s)
      PROVE  LifeInv'
  <2>1. /\ UNCHANGED clientVars
        /\ UNCHANGED <<bucketVars, history>> \/ TakesASlot \/ OpensABucket
    BY <1>1, Subscribing
  <2>2. CASE UNCHANGED <<bucketVars, history>>
    BY <2>1, <2>2, LifeKept DEF bucketVars, history, lifeVars
  <2>3. CASE TakesASlot
    <3>1. UNCHANGED <<pool, sup, socket, shut, gaveUp, doubled>>
      BY <2>3 DEF TakesASlot, TakesSlot
    <3> QED  BY <2>1, <3>1, LifeKept DEF lifeVars
  <2>4. CASE OpensABucket
    BY <2>1, <2>4, OpensLife DEF OpensABucket
  <2> QED  BY <2>1, <2>2, <2>3, <2>4
<1>2. ASSUME NEW c \in Callers, NotOpened(c) \/ CancelOpening(c)
      PROVE  LifeInv'
  <2>1. /\ Removed(on[c]) /\ shut' = shut \cup on[c] /\ CancelAll(on[c] \cap pool)
        /\ UNCHANGED <<clientVars, doubled>> /\ on[c] \in SUBSET Buckets
    BY <1>2 DEF NotOpened, CancelOpening, Discard, TypeInv, TypeOK
  <2>2. \A b \in Buckets : b \notin on[c] => sup'[b] = sup[b]
    BY <2>1 DEF CancelAll
  <2> QED  BY <2>1, <2>2, CancelLife, RemovedLife
<1>3. ASSUME NEW b \in Buckets, NEW s \in SubIds, UnsubscribeLast(b, s)
      PROVE  LifeInv'
  <2>1. /\ Removed({b}) /\ shut' = shut \cup {b} /\ UNCHANGED <<clientVars, doubled, sup>>
        /\ {b} \in SUBSET Buckets
    BY <1>3 DEF UnsubscribeLast, ShutBucket
  <2>2. ~Open(b)' /\ \A d \in Buckets : Open(d)' => Open(d)
    BY <1>3, GoneType DEF UnsubscribeLast, ShutBucket, Open, TypeInv, TypeOK
  <2> QED  BY <2>1, <2>2, RemovedLife
<1>4. ASSUME NEW b \in Buckets, NEW s \in SubIds, Unsubscribe(b, s)
      PROVE  LifeInv'
  BY <1>4, LifeKept DEF Unsubscribe, lifeVars
<1>5. ASSUME NEW c \in Callers, CancelWaiting(c)
      PROVE  LifeInv'
  BY <1>5, LifeKept DEF CancelWaiting, lifeVars, bucketVars, history
<1>6. ASSUME NEW b \in Buckets, NEW s \in SubIds,
             Resubscribe(b, s) \/ Retakes(b, s) \/ RetakeFails(b, s)
      PROVE  LifeInv'
  BY <1>6, LifeKept DEF Resubscribe, Retakes, RetakeFails, lifeVars, history
<1>7. CASE UNCHANGED vars
  BY <1>7, LifeKept DEF vars, lifeVars, bucketVars, history
<1> QED  BY <1>1, <1>2, <1>3, <1>4, <1>5, <1>6, <1>7, SupervisorLife, ClientLife
         DEF Next, ClientStep, CallerStep

LEMMA LifeAlways == Spec => [](TypeInv /\ LifeInv)
<1>1. Init => TypeInv /\ LifeInv
  BY TypeInit, LifeInit
<1>2. TypeInv /\ LifeInv /\ [Next]_vars => (TypeInv /\ LifeInv)'
  BY TypeNext, LifeNext
<1> QED  BY <1>1, <1>2, PTL DEF Spec

\* No bucket ever has two supervisors that would both redial it.
THEOREM SupervisedOnce == Spec => []OneSupervisor
<1>1. TypeInv /\ LifeInv => OneSupervisor
  BY DEF LifeInv
<1> QED  BY <1>1, LifeAlways, PTL

\* A client that is up forgets none of its buckets.
THEOREM BucketsAreKeptUp == Spec => []KeptUp
<1>1. TypeInv /\ LifeInv => KeptUp
  BY DEF LifeInv
<1> QED  BY <1>1, LifeAlways, PTL

\* After close() no bucket is open and none comes back.
THEOREM ClosedBucketsStayClosed == Spec => []ClosedStaysClosed
<1>1. TypeInv /\ LifeInv => ClosedStaysClosed
  BY NoneAssumption DEF LifeInv, LeftBehind, BeingClosed, ClosedStaysClosed, TypeInv, TypeOK
<1> QED  BY <1>1, LifeAlways, PTL
-----------------------------------------------------------------------------
(* What the buckets carry.                                                 *)

\* A bucket nobody refers to carries nothing; what is carried or being reissued
\* was subscribed to, and in one place.
SubsInv ==
    /\ \A b \in Buckets \ pool : subs[b] = {}
    /\ \A b \in Buckets : IsFiniteSet(subs[b]) /\ IsFiniteSet(again[b])
    /\ \A b, d \in Buckets : b # d => again[b] \cap again[d] = {}
    /\ Carried \cap Reissued \subseteq raced
    /\ UniqueSubIds
    /\ SubscribedIsCarried

LEMMA CarriedIn == \A b \in pool : subs[b] \subseteq Carried
  BY DEF Carried

LEMMA TakesSlotSubs ==
    ASSUME TypeOK, SubsInv, NEW c \in Callers, NEW s \in SubIds, TakesSlot(c, s)
    PROVE  SubsInv'
<1> USE DEF TypeOK, SubsInv
<1>1. PICK b \in Ready : subs' = [subs EXCEPT ![b] = @ \cup {s}]
  BY DEF TakesSlot
<1>2. /\ b \in pool /\ b \in Buckets /\ s \notin Carried
      /\ pool' = pool /\ held' = held \cup {s} /\ again' = again
      /\ raced' = IF s \in Reissued THEN raced \cup {s} ELSE raced
  BY DEF TakesSlot, Ready, Passes
<1>3. \A d \in Buckets : subs'[d] = IF d = b THEN subs[b] \cup {s} ELSE subs[d]
  BY <1>1, <1>2
<1>4. IsFiniteSet(subs'[b])
  <2>1. IsFiniteSet(subs[b] \cup {s})
    BY <1>2, FS_AddElement
  <2> QED  BY <1>2, <1>3, <2>1
<1>5. UniqueSubIds'
  BY <1>2, <1>3, CarriedIn DEF UniqueSubIds
<1>6. Reissued' = Reissued /\ Carried' = Carried \cup {s}
  BY <1>2, <1>3 DEF Reissued, Carried
<1>7. SubscribedIsCarried' /\ (Carried \cap Reissued)' \subseteq raced'
  BY <1>2, <1>6 DEF SubscribedIsCarried
<1> QED  BY <1>2, <1>3, <1>4, <1>5, <1>7

LEMMA OpensBucketSubs ==
    ASSUME TypeOK, SubsInv, NEW c \in Callers, NEW s \in SubIds, OpensBucket(c, s)
    PROVE  SubsInv' /\ UNCHANGED <<subs, again>>
<1> USE DEF TypeOK, SubsInv
<1>1. PICK b \in Unused : pool' = pool \cup {b} /\ subs' = [subs EXCEPT ![b] = {}]
  BY DEF OpensBucket
<1>2. b \in Buckets \ pool /\ UNCHANGED <<held, again, raced>>
  BY <1>1 DEF OpensBucket, Unused
<1>3. UNCHANGED subs /\ subs[b] = {}
  BY <1>1, <1>2
<1>4. UniqueSubIds'
  BY <1>1, <1>2, <1>3 DEF UniqueSubIds
<1>5. Carried' = Carried /\ Reissued' = Reissued
  BY <1>1, <1>2, <1>3 DEF Carried, Reissued
<1>6. SubscribedIsCarried'
  BY <1>2, <1>5 DEF SubscribedIsCarried
<1> QED  BY <1>1, <1>2, <1>3, <1>4, <1>5, <1>6

\* Buckets leave, and what they carried is no longer owed.
LEMMA RemovedSubs ==
    ASSUME TypeOK, SubsInv, NEW bs \in SUBSET Buckets, Removed(bs),
           held' = held \ UNION {subs[b] : b \in bs}, UNCHANGED <<again, raced>>
    PROVE  SubsInv'
<1> USE DEF TypeOK, SubsInv
<1>1. /\ pool' = pool \ bs
      /\ \A b \in Buckets : subs'[b] = IF b \in bs THEN {} ELSE subs[b]
  BY DEF Removed
<1>2. \A b \in Buckets : IsFiniteSet(subs'[b])
  BY <1>1, FS_EmptySet
<1>3. UniqueSubIds'
  BY <1>1 DEF UniqueSubIds
<1>4. Reissued' = Reissued /\ Carried' \subseteq Carried
  BY <1>1 DEF Reissued, Carried
<1>5. ASSUME NEW s \in SubIds \ raced'
      PROVE  s \in held' <=> s \in (Carried \cup Reissued)'
  <2>1. CASE \E b \in bs : s \in subs[b]
    <3>1. PICK b \in bs : s \in subs[b]
      BY <2>1
    <3>2. b \in pool /\ s \in Carried /\ s \notin Reissued
      BY <1>5, <3>1 DEF Carried
    <3>3. s \notin Carried'
      BY <1>1, <1>5, <3>1, <3>2 DEF UniqueSubIds, Carried
    <3> QED  BY <1>4, <3>1, <3>2, <3>3
  <2>2. CASE ~\E b \in bs : s \in subs[b]
    <3>1. s \in Carried' <=> s \in Carried
      BY <1>1, <2>2 DEF Carried
    <3> QED  BY <1>4, <1>5, <2>2, <3>1 DEF SubscribedIsCarried
  <2> QED  BY <2>1, <2>2
<1>6. SubscribedIsCarried'
  BY <1>5 DEF SubscribedIsCarried
<1> QED  BY <1>1, <1>2, <1>3, <1>4, <1>6

LEMMA UnsubscribeSubs ==
    ASSUME TypeOK, SubsInv, NEW b \in Buckets, NEW s \in SubIds, Unsubscribe(b, s)
    PROVE  SubsInv'
<1> USE DEF TypeOK, SubsInv
<1>1. /\ b \in pool /\ s \in subs[b] /\ UNCHANGED <<pool, again, raced>> /\ held' = held \ {s}
      /\ \A d \in Buckets : subs'[d] = IF d = b THEN subs[b] \ {s} ELSE subs[d]
  BY DEF Unsubscribe
<1>2. IsFiniteSet(subs'[b])
  BY <1>1, FS_Subset
<1>3. UniqueSubIds'
  BY <1>1 DEF UniqueSubIds
<1>4. Reissued' = Reissued /\ Carried' \subseteq Carried /\ \A t : t # s /\ t \in Carried => t \in Carried'
  BY <1>1 DEF Reissued, Carried
<1>5. s \notin raced => s \notin Carried' /\ s \notin Reissued
  BY <1>1 DEF UniqueSubIds, Carried
<1>6. SubscribedIsCarried'
  BY <1>1, <1>4, <1>5 DEF SubscribedIsCarried
<1> QED  BY <1>1, <1>2, <1>3, <1>4, <1>6

\* The halves of resubscribe(): what is reissued changes places, or is lost.
LEMMA ReissueSubs ==
    ASSUME TypeOK, SubsInv, LeftBehind, NEW b \in Buckets, NEW s \in SubIds,
           Resubscribe(b, s) \/ Retakes(b, s) \/ RetakeFails(b, s)
    PROVE  SubsInv'
<1> USE DEF TypeOK, SubsInv
<1>1. UNCHANGED <<pool, raced>>
  BY DEF Resubscribe, Retakes, RetakeFails, history
<1>2. ASSUME \A d \in Buckets \ pool : subs'[d] = {},
             \A d \in Buckets : IsFiniteSet(subs'[d]) /\ IsFiniteSet(again'[d]),
             \A d, e \in Buckets : d # e => again'[d] \cap again'[e] = {},
             \A d, e \in pool : d # e => subs'[d] \cap subs'[e] \subseteq raced,
             \A t \in SubIds \ raced : ~(t \in Carried' /\ t \in Reissued'),
             \A t \in SubIds \ raced : t \in held' <=> t \in Carried' \cup Reissued'
      PROVE  SubsInv'
  <2>1. Carried' \subseteq SubIds /\ Carried' \cap Reissued' \subseteq raced
    <3>1. subs' \in [Buckets -> SUBSET SubIds]
      BY DEF Resubscribe, Retakes, RetakeFails
    <3>2. Carried' \subseteq SubIds
      BY <1>1, <3>1 DEF Carried
    <3> QED  BY <1>2, <3>2
  <2> QED  BY <1>1, <1>2, <2>1 DEF UniqueSubIds, SubscribedIsCarried
<1>3. CASE Resubscribe(b, s)
  <2>1. /\ b \in pool /\ s \in subs[b] /\ s \notin Reissued /\ held' = held
        /\ \A d \in Buckets : /\ subs'[d] = IF d = b THEN subs[b] \ {s} ELSE subs[d]
                              /\ again'[d] = IF d = b THEN again[b] \cup {s} ELSE again[d]
    BY <1>3 DEF Resubscribe, history
  <2>2. \A d \in Buckets : s \notin again[d]
    BY <2>1 DEF Reissued
  <2>3. \A d \in Buckets : IsFiniteSet(subs'[d]) /\ IsFiniteSet(again'[d])
    <3>1. IsFiniteSet(subs[b] \ {s}) /\ IsFiniteSet(again[b] \cup {s})
      BY FS_Subset, FS_AddElement
    <3> QED  BY <2>1, <3>1
  <2>4. /\ Reissued' = Reissued \cup {s}
        /\ \A t : t # s => (t \in Carried' <=> t \in Carried)
        /\ s \in Carried
    BY <1>1, <2>1 DEF Reissued, Carried
  <2>5. s \notin raced => s \notin Carried'
    BY <1>1, <2>1 DEF UniqueSubIds, Carried
  <2>6. \A t \in SubIds \ raced : t \in held' <=> t \in Carried' \cup Reissued'
    BY <2>1, <2>4 DEF SubscribedIsCarried
  <2>7. \A d, e \in pool : d # e => subs'[d] \cap subs'[e] \subseteq raced
    BY <2>1 DEF UniqueSubIds
  <2> QED  BY <1>2, <2>1, <2>2, <2>3, <2>4, <2>5, <2>6, <2>7
<1>4. ASSUME Retakes(b, s) \/ RetakeFails(b, s)
      PROVE  /\ s \in again[b] /\ Reissued' = Reissued \ {s}
             /\ \A d \in Buckets : again'[d] = IF d = b THEN again[b] \ {s} ELSE again[d]
             /\ \A d \in Buckets : IsFiniteSet(again'[d])
             /\ \A d, e \in Buckets : d # e => again'[d] \cap again'[e] = {}
             /\ s \in Reissued
  <2>1. /\ s \in again[b]
        /\ \A d \in Buckets : again'[d] = IF d = b THEN again[b] \ {s} ELSE again[d]
    BY <1>4 DEF Retakes, RetakeFails
  <2>2. \A d \in Buckets : d # b => s \notin again[d]
    BY <2>1
  <2>3. Reissued' = Reissued \ {s} /\ s \in Reissued
    BY <2>1, <2>2 DEF Reissued
  <2>4. \A d \in Buckets : IsFiniteSet(again'[d])
    <3>1. IsFiniteSet(again[b] \ {s})
      BY FS_Subset
    <3> QED  BY <2>1, <3>1
  <2> QED  BY <2>1, <2>3, <2>4
<1>5. CASE Retakes(b, s)
  <2>1. /\ b \in pool /\ held' = held
        /\ \A d \in Buckets : subs'[d] = IF d = b THEN subs[b] \cup {s} ELSE subs[d]
    BY <1>5 DEF Retakes, LeftBehind, history
  <2>2. \A d \in Buckets : IsFiniteSet(subs'[d])
    <3>1. IsFiniteSet(subs[b] \cup {s})
      BY FS_AddElement
    <3> QED  BY <2>1, <3>1
  <2>3. Carried' = Carried \cup {s}
    BY <1>1, <2>1 DEF Carried
  <2>4. s \notin raced => \A d \in pool : s \notin subs[d]
    BY <1>4, <1>5 DEF Carried
  <2>5. \A d, e \in pool : d # e => subs'[d] \cap subs'[e] \subseteq raced
    BY <2>1, <2>4 DEF UniqueSubIds
  <2>6. \A t \in SubIds \ raced : t \in held' <=> t \in Carried' \cup Reissued'
    BY <1>4, <1>5, <2>1, <2>3 DEF SubscribedIsCarried
  <2>7. \A t \in SubIds \ raced : ~(t \in Carried' /\ t \in Reissued')
    BY <1>4, <1>5, <2>3
  <2> QED  BY <1>2, <1>4, <1>5, <2>1, <2>2, <2>5, <2>6, <2>7
<1>6. CASE RetakeFails(b, s)
  <2>1. subs' = subs /\ held' = IF s \in Carried THEN held ELSE held \ {s}
    BY <1>6 DEF RetakeFails
  <2>2. Carried' = Carried
    BY <1>1, <2>1 DEF Carried
  <2>3. s \notin raced => s \notin Carried
    BY <1>4, <1>6
  <2>4. \A t \in SubIds \ raced : t \in held' <=> t \in Carried' \cup Reissued'
    BY <1>4, <1>6, <2>1, <2>2, <2>3 DEF SubscribedIsCarried
  <2>5. \A t \in SubIds \ raced : ~(t \in Carried' /\ t \in Reissued')
    BY <1>4, <1>6, <2>2
  <2> QED  BY <1>2, <1>4, <1>6, <2>1, <2>4, <2>5 DEF UniqueSubIds
<1> QED  BY <1>3, <1>5, <1>6

LEMMA SubsNext ==
    ASSUME TypeOK, LifeInv, SubsInv, SubsMoves
    PROVE  SubsInv'
<1>1. CASE UNCHANGED <<pool, subs, again, held, raced>>
  BY <1>1 DEF SubsInv, UniqueSubIds, SubscribedIsCarried, Carried, Reissued
<1>2. CASE TakesASlot
  BY <1>2, TakesSlotSubs DEF TakesASlot
<1>3. CASE OpensABucket
  BY <1>3, OpensBucketSubs DEF OpensABucket
<1>4. CASE Discards
  <2>1. PICK c \in Callers : Discard(c)
    BY <1>4 DEF Discards
  <2>2. /\ Removed(on[c]) /\ held' = held \ UNION {subs[b] : b \in on[c]}
        /\ UNCHANGED <<again, raced>> /\ on[c] \in SUBSET Buckets
    BY <2>1 DEF Discard, TypeOK
  <2> QED  BY <2>2, RemovedSubs
<1>5. CASE Unsubscribes
  BY <1>5, UnsubscribeSubs DEF Unsubscribes
<1>6. CASE UnsubscribesLast
  <2>1. PICK b \in Buckets, s \in SubIds : UnsubscribeLast(b, s)
    BY <1>6 DEF UnsubscribesLast
  <2>2. /\ Removed({b}) /\ held' = held \ UNION {subs[d] : d \in {b}}
        /\ UNCHANGED <<again, raced>> /\ {b} \in SUBSET Buckets
    BY <2>1 DEF UnsubscribeLast
  <2> QED  BY <2>2, RemovedSubs
<1>7. CASE Reissues
  BY <1>7, ReissueSubs DEF Reissues, LifeInv
<1> QED  BY <1>1, <1>2, <1>3, <1>4, <1>5, <1>6, <1>7 DEF SubsMoves

LEMMA SubsInit == Init => SubsInv
<1> SUFFICES ASSUME Init PROVE SubsInv
  OBVIOUS
<1>1. IsFiniteSet({})
  BY FS_EmptySet
<1>2. pool = {} /\ held = {} /\ \A b \in Buckets : subs[b] = {} /\ again[b] = {}
  BY DEF Init
<1>3. Carried = {} /\ Reissued = {}
  BY <1>2 DEF Carried, Reissued
<1> QED  BY <1>1, <1>2, <1>3 DEF SubsInv, UniqueSubIds, SubscribedIsCarried

LEMMA SubsAlways == Spec => [](TypeInv /\ LifeInv /\ SubsInv)
<1>1. Init => TypeInv /\ LifeInv /\ SubsInv
  BY TypeInit, LifeInit, SubsInit
<1>2. TypeInv /\ LifeInv /\ SubsInv /\ [Next]_vars => (TypeInv /\ LifeInv /\ SubsInv)'
  <2> SUFFICES ASSUME TypeInv, LifeInv, SubsInv, [Next]_vars
               PROVE  (TypeInv /\ LifeInv /\ SubsInv)'
    OBVIOUS
  <2>1. TypeInv' /\ SubsMoves /\ LifeInv'
    BY TypeNext, LifeNext
  <2> QED  BY <2>1, SubsNext DEF TypeInv
<1> QED  BY <1>1, <1>2, PTL DEF Spec

\* No two buckets carry one sub_id, however the calls of subscribe(), unsubscribe()
\* and resubscribe() interleave, unless it was subscribed again in the middle of its
\* own resubscribe().
THEOREM SubIdsAreUnique == Spec => []UniqueSubIds
<1>1. TypeInv /\ LifeInv /\ SubsInv => UniqueSubIds
  BY DEF SubsInv
<1> QED  BY <1>1, SubsAlways, PTL

\* What subscribe() returned for is carried, or being reissued, and nothing else is.
THEOREM SubscriptionsAreCarried == Spec => []SubscribedIsCarried
<1>1. TypeInv /\ LifeInv /\ SubsInv => SubscribedIsCarried
  BY DEF SubsInv
<1> QED  BY <1>1, SubsAlways, PTL
-----------------------------------------------------------------------------
(* Room.                                                                   *)

Overtaken(b) ==
    \E c \in Callers, s \in SubIds : again[b] # {} /\ TakesSlot(c, s) /\ s \in subs'[b]

LEMMA FewerFit ==
    ASSUME SubsInv, NEW b \in Buckets, Fits(b), MaxSubscriptions \in Nat,
           subs'[b] \cup again'[b] \subseteq subs[b] \cup again[b]
    PROVE  Fits(b)'
<1>1. IsFiniteSet(subs[b] \cup again[b])
  BY FS_Union DEF SubsInv
<1>2. /\ IsFiniteSet(subs'[b] \cup again'[b])
      /\ Cardinality(subs'[b] \cup again'[b]) <= Cardinality(subs[b] \cup again[b])
  BY <1>1, FS_Subset
<1>3. /\ Cardinality(subs[b] \cup again[b]) \in Nat
      /\ Cardinality(subs'[b] \cup again'[b]) \in Nat
  BY <1>1, <1>2, FS_CardinalityType
<1> QED  BY <1>2, <1>3 DEF Fits

LEMMA RoomNext ==
    ASSUME TypeOK, SubsInv, SubsMoves, NEW b \in Buckets, Fits(b)
    PROVE  Fits(b)' \/ Overtaken(b)
<1> USE LimitAssumption DEF TypeOK
<1>1. CASE UNCHANGED <<pool, subs, again, held, raced>>
  BY <1>1, FewerFit
<1>2. ASSUME NEW c \in Callers, NEW s \in SubIds, TakesSlot(c, s)
      PROVE  Fits(b)' \/ Overtaken(b)
  <2>1. PICK d \in Ready : subs' = [subs EXCEPT ![d] = @ \cup {s}]
    BY <1>2 DEF TakesSlot
  <2>2. d \in pool /\ d \in Buckets /\ ~is_full(d) /\ s \notin Carried /\ again' = again
    BY <1>2 DEF TakesSlot, Ready, Passes
  <2>3. CASE d # b
    <3>1. subs'[b] = subs[b]
      BY <2>1, <2>2, <2>3
    <3> QED  BY <2>2, <3>1, FewerFit
  <2>4. CASE d = b /\ again[b] = {}
    <3>1. subs'[b] = subs[b] \cup {s} /\ s \notin subs[b]
      BY <2>1, <2>2, <2>4, CarriedIn
    <3>2. IsFiniteSet(subs[b]) /\ Cardinality(subs'[b]) = Cardinality(subs[b]) + 1
      BY <3>1, FS_AddElement DEF SubsInv
    <3>3. subs[b] \cup again[b] = subs[b] /\ subs'[b] \cup again'[b] = subs'[b]
      BY <2>2, <2>4
    <3>4. /\ Cardinality(subs[b]) \in Nat /\ Cardinality(subs[b]) <= MaxSubscriptions
          /\ Cardinality(subs[b]) # MaxSubscriptions
      BY <2>2, <2>4, <3>2, <3>3, FS_CardinalityType DEF Fits, is_full
    <3>5. Cardinality(subs'[b] \cup again'[b]) = Cardinality(subs[b]) + 1
      BY <3>2, <3>3
    <3>6. Cardinality(subs'[b] \cup again'[b]) <= MaxSubscriptions
      BY <3>4, <3>5
    <3> QED  BY <3>6 DEF Fits
  <2>5. CASE d = b /\ again[b] # {}
    <3>1. s \in subs'[b]
      BY <2>1, <2>2, <2>5
    <3> QED  BY <1>2, <2>5, <3>1 DEF Overtaken
  <2> QED  BY <2>3, <2>4, <2>5
<1>3. CASE OpensABucket
  BY <1>3, OpensBucketSubs, FewerFit DEF OpensABucket
<1>4. ASSUME NEW bs \in SUBSET Buckets, Removed(bs), again' = again
      PROVE  Fits(b)'
  <2>1. subs'[b] \subseteq subs[b]
    BY <1>4 DEF Removed
  <2> QED  BY <1>4, <2>1, FewerFit
<1>5. CASE Discards
  <2>1. PICK c \in Callers : Discard(c)
    BY <1>5 DEF Discards
  <2>2. Removed(on[c]) /\ on[c] \in SUBSET Buckets /\ again' = again
    BY <2>1 DEF Discard
  <2> QED  BY <1>4, <2>2
<1>6. CASE UnsubscribesLast
  <2>1. PICK d \in Buckets, s \in SubIds : UnsubscribeLast(d, s)
    BY <1>6 DEF UnsubscribesLast
  <2>2. Removed({d}) /\ {d} \in SUBSET Buckets /\ again' = again
    BY <2>1 DEF UnsubscribeLast
  <2> QED  BY <1>4, <2>2
<1>7. CASE Unsubscribes
  <2>1. PICK d \in Buckets, s \in SubIds : Unsubscribe(d, s)
    BY <1>7 DEF Unsubscribes
  <2>2. subs'[b] \subseteq subs[b] /\ again' = again
    BY <2>1 DEF Unsubscribe
  <2> QED  BY <2>2, FewerFit
<1>8. CASE Reissues
  <2>1. PICK d \in Buckets, s \in SubIds :
              Resubscribe(d, s) \/ Retakes(d, s) \/ RetakeFails(d, s)
    BY <1>8 DEF Reissues
  <2>2. subs'[b] \cup again'[b] \subseteq subs[b] \cup again[b]
    <3>1. CASE b # d
      BY <2>1, <3>1 DEF Resubscribe, Retakes, RetakeFails
    <3>2. CASE b = d
      BY <2>1, <3>2 DEF Resubscribe, Retakes, RetakeFails
    <3> QED  BY <3>1, <3>2
  <2> QED  BY <2>2, FewerFit
<1> QED  BY <1>1, <1>2, <1>3, <1>5, <1>6, <1>7, <1>8 DEF SubsMoves, TakesASlot

\* A bucket outgrows its limit only by a subscribe() that takes the slot a
\* resubscribe() has freed: for any limit and any number of callers.
THEOREM RoomIsRespected == Spec => RoomRespected
<1>1. ASSUME TypeInv, SubsInv, [Next]_vars
      PROVE  \A b \in Buckets : Fits(b) => Fits(b)' \/ Overtaken(b)
  BY <1>1, TypeNext, RoomNext DEF TypeInv
<1>2. TypeInv /\ LifeInv /\ SubsInv /\ [Next]_vars =>
         [\A b \in Buckets : Fits(b) =>
             \/ Fits(b)'
             \/ \E c \in Callers, s \in SubIds :
                   again[b] # {} /\ TakesSlot(c, s) /\ s \in subs'[b]]_vars
  BY <1>1 DEF Overtaken
<1> QED  BY <1>2, SubsAlways, PTL DEF Spec, RoomRespected
=============================================================================
