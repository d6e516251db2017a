-------------------------------- MODULE Pool ---------------------------------
(***************************************************************************)
(* The buckets of one BfxWebSocketClient: the supervisor that keeps each   *)
(* of them up, the concurrent subscribe() calls that fill them, wait for   *)
(* one that is coming back or open a new one, and the client's own socket, *)
(* whose end stops them all.                                               *)
(*                                                                         *)
(* A bucket is reduced to its socket and the sub_ids it carries (Bucket has *)
(* the rest).  Tasks interleave between awaits: a call of subscribe() looks *)
(* at all the buckets at once, and everything may have changed when a wait *)
(* is over; and one of resubscribe() frees a slot before it waits, to take *)
(* it again afterwards whatever has become of it.                          *)
(***************************************************************************)
EXTENDS Naturals, FiniteSets

CONSTANTS
    Buckets,           \* bucket objects; one nobody refers to stands for a new one
    SubIds,
    Callers,           \* the tasks that call subscribe()
    None,
    MaxSubscriptions,  \* 25 in the code
    RestartLimit,      \* _BUCKET_RESTART_LIMIT
    MaxReissues,       \* bound: sub_ids that are being reissued at once
    MaxRaced           \* bound: sub_ids that are subscribed while being reissued

ASSUME NoneAssumption == None \notin SubIds /\ \A bs \in SUBSET Buckets : bs # None
ASSUME LimitAssumption == MaxSubscriptions \in Nat \ {0} /\ RestartLimit \in Nat \ {0}
ASSUME BoundAssumption == MaxReissues \in Nat /\ MaxRaced \in Nat

VARIABLES
    client,     \* where the client's run is (Clients)
    closing,    \* __closing
    toClose,    \* the buckets a close() has still to close, None outside of one
    pool,       \* the keys of __buckets
    sup,        \* bucket -> its supervisor (Supervisors)
    socket,     \* bucket -> its socket (Sockets)
    shut,       \* the buckets whose _closing is set
    failures,   \* bucket -> the variable of its supervisor
    subs,       \* bucket -> the sub_ids it carries
    again,      \* bucket -> the sub_ids a resubscribe() has freed and not yet retaken
    wants,      \* caller -> the sub_id it asks for, None if it is not in subscribe()
    on,         \* caller -> the buckets it waits for
    opens,      \* callers that wait for a bucket they have created
    held,       \* history: sub_ids the owner was told it is subscribed to
    gaveUp,     \* history: buckets given up with a BucketRestartLimitError
    doubled,    \* history: a bucket got a supervisor while it had one
    raced       \* history: sub_ids subscribed while they were being reissued

clientVars == <<client, closing, toClose>>
bucketVars == <<pool, sup, socket, shut, failures, subs, again>>
callerVars == <<wants, on, opens>>
history    == <<held, gaveUp, doubled, raced>>
vars       == <<clientVars, bucketVars, callerVars, history>>

Clients == {"up",      \* self.open
            "lost",    \* its socket is gone
            "away",    \* __stop_buckets awaits the supervisors, then it redials
            "ended"}   \* start() is over, or was never called

\* A supervisor runs start() ("connecting", then "reading"), sleeps, or was
\* cancelled and is still closing its socket.
Supervisors == {"none", "connecting", "reading", "asleep", "cancelled"}

Alive == {"connecting", "reading", "asleep"}

\* Open for less than 30 s, or longer; and what is known of it once it is gone.
Sockets == {"none", "fresh", "stable", "goneFresh", "goneStable"}

Open(b) == socket[b] \in {"fresh", "stable"}

Gone(s) == IF s = "fresh" THEN "goneFresh" ELSE IF s = "stable" THEN "goneStable" ELSE s

is_full(b) == Cardinality(subs[b]) = MaxSubscriptions

Carried == UNION {subs[b] : b \in pool}

\* Between the two halves of a resubscribe(), where no bucket knows them.
Reissued == UNION {again[b] : b \in Buckets}
-----------------------------------------------------------------------------
Init ==
    /\ client = "ended"
    /\ closing = FALSE
    /\ toClose = None
    /\ pool = {}
    /\ sup = [b \in Buckets |-> "none"]
    /\ socket = [b \in Buckets |-> "none"]
    /\ shut = {}
    /\ failures = [b \in Buckets |-> 0]
    /\ subs = [b \in Buckets |-> {}]
    /\ again = [b \in Buckets |-> {}]
    /\ wants = [c \in Callers |-> None]
    /\ on = [c \in Callers |-> {}]
    /\ opens = {}
    /\ held = {}
    /\ gaveUp = {}
    /\ doubled = FALSE
    /\ raced = {}
-----------------------------------------------------------------------------
(* Supervisors.                                                            *)

\* __wait_any is over, other than by its deadline.
Woken(c) ==
    \/ closing
    \/ \E b \in on[c] : Open(b) \/ sup[b] \notin Alive

\* A task whose wait is over, or whose send has failed, runs before the handshake
\* of the client, which comes after a sleep of seconds, can end.
Settled == /\ \A c \in Callers : wants[c] # None => ~Woken(c)
           /\ \A b \in Buckets : again[b] # {} => Open(b)

\* create_task(__supervise(b)) for each of them.  What it counts is its own: the
\* failures, and whether a connection opened under it lasted.
Supervise(bs) ==
    /\ sup' = [b \in Buckets |-> IF b \in bs THEN "connecting" ELSE sup[b]]
    /\ socket' = [b \in Buckets |-> IF b \in bs THEN "none" ELSE socket[b]]
    /\ failures' = [b \in Buckets |-> IF b \in bs THEN 0 ELSE failures[b]]
    /\ gaveUp' = gaveUp \ bs
    /\ doubled' = (doubled \/ \E b \in bs : sup[b] \in Alive)

\* task.cancel() for each of them: leaving the block closes the socket.
CancelAll(bs) ==
    /\ sup' = [b \in Buckets |-> IF b \in bs /\ sup[b] \in Alive THEN "cancelled" ELSE sup[b]]
    /\ socket' = [b \in Buckets |-> IF b \in bs THEN Gone(socket[b]) ELSE socket[b]]

\* __bucket_is_done
Done(b) == closing \/ b \notin pool \/ b \in shut \/ client # "up"

\* Mutant: a bucket closed during its handshake comes up.
BucketOpens_IgnoresShut(b) ==
    /\ sup[b] = "connecting"
    /\ sup' = [sup EXCEPT ![b] = "reading"]
    /\ socket' = [socket EXCEPT ![b] = "fresh"]
    /\ UNCHANGED <<clientVars, pool, shut, failures, subs, again, callerVars, history>>

\* The handshake succeeds; if the bucket was closed meanwhile it stays down.
BucketOpens(b) ==
    /\ sup[b] = "connecting"
    /\ b \notin shut
    /\ sup' = [sup EXCEPT ![b] = "reading"]
    /\ socket' = [socket EXCEPT ![b] = "fresh"]
    /\ UNCHANGED <<clientVars, pool, shut, failures, subs, again, callerVars, history>>

BucketStaysUp(b) ==
    /\ socket[b] = "fresh"
    /\ socket' = [socket EXCEPT ![b] = "stable"]
    /\ UNCHANGED <<clientVars, pool, sup, shut, failures, subs, again, callerVars, history>>

\* The network, the server, or an exception on the way out of the read loop.
BucketDrops(b) ==
    /\ Open(b)
    /\ socket' = [socket EXCEPT ![b] = Gone(@)]
    /\ UNCHANGED <<clientVars, pool, sup, shut, failures, subs, again, callerVars, history>>

\* start() has ended, by a drop that is expected (or quietly), or by a failure:
\* an exception of another kind, a handshake refused for good.  Without an
\* await in between, the supervisor ends, gives up, or goes to sleep.
StartEnds(b, failing) ==
    /\ \/ sup[b] = "connecting"
       \/ sup[b] = "reading" /\ ~Open(b)
    /\ socket' = [socket EXCEPT ![b] = "none"]
    /\ LET stable == socket[b] = "goneStable"
           count == IF stable THEN 0 ELSE IF failing THEN failures[b] + 1 ELSE failures[b]
           gives_up == ~Done(b) /\ ~stable /\ failing /\ count >= RestartLimit
           over == Done(b) \/ gives_up
       IN /\ sup' = [sup EXCEPT ![b] = IF over THEN "none" ELSE "asleep"]
          /\ failures' = [failures EXCEPT ![b] = IF over THEN 0 ELSE count]
          /\ gaveUp' = IF gives_up THEN gaveUp \cup {b} ELSE gaveUp
    /\ UNCHANGED <<clientVars, pool, shut, subs, again, callerVars, held, doubled, raced>>

Wakes(b) ==
    /\ sup[b] = "asleep"
    /\ again[b] = {}
    /\ sup' = [sup EXCEPT ![b] = IF Done(b) THEN "none" ELSE "connecting"]
    /\ UNCHANGED <<clientVars, pool, socket, shut, failures, subs, again, callerVars, history>>

\* A cancelled supervisor is through with its close handshake.
CancelDone(b) ==
    /\ sup[b] = "cancelled"
    /\ sup' = [sup EXCEPT ![b] = "none"]
    /\ socket' = [socket EXCEPT ![b] = "none"]
    /\ failures' = [failures EXCEPT ![b] = 0]
    /\ UNCHANGED <<clientVars, pool, shut, subs, again, callerVars, history>>

SupervisorStep(b) ==
    \/ BucketOpens(b)
    \/ \E failing \in BOOLEAN : StartEnds(b, failing)
    \/ Wakes(b) \/ CancelDone(b)
-----------------------------------------------------------------------------
(* The client's own socket, and close().                                   *)

Lost ==
    /\ client = "up"
    /\ client' = "lost"
    /\ UNCHANGED <<closing, toClose, bucketVars, callerVars, history>>

\* __run awaits __stop_buckets.
StopBuckets ==
    /\ client = "lost"
    /\ client' = "away"
    /\ CancelAll(pool)
    /\ UNCHANGED <<closing, toClose, pool, shut, failures, subs, again, callerVars, history>>

Stopped == \A b \in pool : sup[b] # "cancelled"

\* A new connection: every bucket gets a supervisor.
Reconnect ==
    /\ client = "away"
    /\ Stopped
    /\ ~closing
    /\ Settled
    /\ client' = "up"
    /\ Supervise(pool)
    /\ UNCHANGED <<closing, toClose, pool, shut, subs, again, callerVars, held, raced>>

\* The session is over: closed, ended by the server, or out of time.
SessionEnds ==
    /\ client = "away"
    /\ Stopped
    /\ client' = "ended"
    /\ UNCHANGED <<closing, toClose, bucketVars, callerVars, history>>

\* Mutant: the supervisors outlive the run.
RunFails_NoCancel ==
    /\ client = "lost"
    /\ client' = "ended"
    /\ UNCHANGED <<closing, toClose, bucketVars, callerVars, history>>

\* An exception __run does not handle, or a cancelled task: the supervisors
\* are cancelled, and not awaited.
RunFails ==
    /\ client = "lost"
    /\ client' = "ended"
    /\ CancelAll(pool)
    /\ UNCHANGED <<closing, toClose, pool, shut, failures, subs, again, callerVars, history>>

\* Mutant: the buckets of the last session stay closed.
NewSession_KeepsShut ==
    /\ client = "ended"
    /\ toClose = None
    /\ Settled
    /\ client' = "up"
    /\ closing' = FALSE
    /\ Supervise(pool)
    /\ UNCHANGED <<toClose, pool, shut, subs, again, callerVars, held, raced>>

\* start() again, up to its first connection.  start() does not look whether the
\* last run is over; two that overlap are in Session, without their buckets.
NewSession ==
    /\ client = "ended"
    /\ toClose = None
    /\ Settled
    /\ client' = "up"
    /\ closing' = FALSE
    /\ shut' = shut \ pool
    /\ Supervise(pool)
    /\ UNCHANGED <<toClose, pool, subs, again, callerVars, held, raced>>

Close ==
    /\ toClose = None
    /\ ~closing
    /\ closing' = TRUE
    /\ toClose' = pool
    /\ UNCHANGED <<client, bucketVars, callerVars, history>>

\* bucket.close()
ShutBucket(b) ==
    /\ shut' = shut \cup {b}
    /\ socket' = [socket EXCEPT ![b] = Gone(@)]

CloseBucket(b) ==
    /\ toClose # None
    /\ b \in toClose
    /\ ShutBucket(b)
    /\ toClose' = toClose \ {b}
    /\ UNCHANGED <<client, closing, pool, sup, failures, subs, again, callerVars, history>>

\* The buckets are closed: __stop_buckets.
CloseSupervisors ==
    /\ toClose = {}
    /\ \E b \in pool : sup[b] \in Alive
    /\ CancelAll(pool)
    /\ UNCHANGED <<clientVars, pool, shut, failures, subs, again, callerVars, history>>

\* ... and the client's socket.
CloseSocket ==
    /\ toClose = {}
    /\ \A b \in pool : sup[b] = "none"
    /\ toClose' = None
    /\ client' = IF client = "up" THEN "lost" ELSE client
    /\ UNCHANGED <<closing, bucketVars, callerVars, history>>
-----------------------------------------------------------------------------
(* subscribe().                                                            *)

\* subscribe() is over, and so is the caller's wait.
Returns(c) ==
    /\ wants' = [wants EXCEPT ![c] = None]
    /\ on' = [on EXCEPT ![c] = {}]
    /\ opens' = opens \ {c}

\* Buckets with room whose supervisor is still bringing them up.
coming_back == {b \in pool : ~is_full(b) /\ ~Open(b) /\ sup[b] \in Alive}

Ready == {b \in pool : ~is_full(b) /\ Open(b)}

Unused == {b \in Buckets : /\ b \notin pool /\ sup[b] = "none" /\ again[b] = {}
                          /\ \A c \in Callers : b \notin on[c]}

\* A pass of the loop, up to its next await.  The deadline of 15 s is over at any
\* time that suits it.
Raises(c, s, late) ==
    /\ \/ closing \/ client # "up"   \* ConnectionNotOpen
       \/ s \in Carried              \* SubIdError
       \/ Ready = {} /\ coming_back # {} /\ late   \* ConnectionNotOpen
    /\ Returns(c)
    /\ UNCHANGED <<bucketVars, history>>

Passes(s) == ~closing /\ client = "up" /\ s \notin Carried

\* bucket.subscribe()
TakesSlot(c, s) ==
    /\ Passes(s)
    /\ \E b \in Ready : subs' = [subs EXCEPT ![b] = @ \cup {s}]
    /\ held' = held \cup {s}
    /\ raced' = IF s \in Reissued THEN raced \cup {s} ELSE raced
    /\ Cardinality(raced') <= MaxRaced   \* bound
    /\ Returns(c)
    /\ UNCHANGED <<pool, sup, socket, shut, failures, again, gaveUp, doubled>>

\* __wait_any(coming_back)
Waits(c, s) ==
    /\ Passes(s)
    /\ Ready = {}
    /\ coming_back # {}
    /\ wants' = [wants EXCEPT ![c] = s]
    /\ on' = [on EXCEPT ![c] = coming_back]
    /\ opens' = opens \ {c}
    /\ UNCHANGED <<bucketVars, history>>

\* __new_bucket
OpensBucket(c, s) ==
    /\ Passes(s)
    /\ Ready = {}
    /\ coming_back = {}
    /\ \E b \in Unused :
          /\ pool' = pool \cup {b}
          /\ Supervise({b})
          /\ shut' = shut \ {b}
          /\ subs' = [subs EXCEPT ![b] = {}]
          /\ on' = [on EXCEPT ![c] = {b}]
    /\ wants' = [wants EXCEPT ![c] = s]
    /\ opens' = opens \cup {c}
    /\ UNCHANGED <<again, held, raced>>

Pass(c, s, late) ==
    \/ Raises(c, s, late)
    \/ TakesSlot(c, s)
    \/ Waits(c, s) /\ ~late
    \/ OpensBucket(c, s)

\* The call: only on an open connection.
Subscribe(c, s) ==
    /\ wants[c] = None
    /\ client = "up"
    /\ Pass(c, s, FALSE)
    /\ UNCHANGED clientVars

\* Mutant: what was read before the wait is taken to hold after it.
Resume_NoReread(c) ==
    /\ wants[c] # None
    /\ c \notin opens
    /\ Woken(c)
    /\ \/ \E b \in on[c] :
             /\ Open(b)
             /\ subs' = [subs EXCEPT ![b] = @ \cup {wants[c]}]
             /\ held' = held \cup {wants[c]}
             /\ Returns(c)
             /\ UNCHANGED <<pool, sup, socket, shut, failures, again, gaveUp, doubled, raced>>
       \/ (\A b \in on[c] : ~Open(b)) /\ Pass(c, wants[c], FALSE)
    /\ UNCHANGED clientVars

\* After a wait for buckets that were coming back: the next pass.
Resume(c) ==
    /\ wants[c] # None
    /\ c \notin opens
    /\ \E late \in BOOLEAN :
          /\ late \/ Woken(c)
          /\ Pass(c, wants[c], late)
    /\ UNCHANGED clientVars

\* The bucket it created is open: the next pass.
Opened(c) ==
    /\ c \in opens
    /\ \A b \in on[c] : Open(b)
    /\ ~closing
    /\ \E late \in BOOLEAN : Pass(c, wants[c], late)
    /\ UNCHANGED clientVars

\* Out of the dictionary, and with it what nothing looks at any more.
Removed(bs) ==
    /\ pool' = pool \ bs
    /\ subs' = [b \in Buckets |-> IF b \in bs THEN {} ELSE subs[b]]
    /\ gaveUp' = gaveUp \ bs

\* It is not, or its caller was cancelled: the bucket goes.  The code takes it to
\* be empty; another call may have used it in the moment between its opening and
\* the end of this wait, and loses its subscription then.
Discard(c) ==
    /\ Removed(on[c])
    /\ shut' = shut \cup on[c]
    /\ CancelAll(on[c] \cap pool)
    /\ Returns(c)
    /\ held' = held \ UNION {subs[b] : b \in on[c]}
    /\ UNCHANGED <<clientVars, failures, again, doubled, raced>>

NotOpened(c) ==
    /\ c \in opens
    /\ closing \/ \A b \in on[c] : ~Open(b)
    /\ Discard(c)

CancelOpening(c) == c \in opens /\ Discard(c)

CancelWaiting(c) ==
    /\ wants[c] # None
    /\ c \notin opens
    /\ Returns(c)
    /\ UNCHANGED <<clientVars, bucketVars, history>>

\* unsubscribe(), of one of several subscriptions or of the last.
Unsubscribe(b, s) ==
    /\ client = "up"
    /\ b \in pool
    /\ s \in subs[b]
    /\ Cardinality(subs[b]) # 1
    /\ Open(b)
    /\ subs' = [subs EXCEPT ![b] = @ \ {s}]
    /\ held' = held \ {s}
    /\ UNCHANGED <<clientVars, pool, sup, socket, shut, failures, again, callerVars, gaveUp, doubled, raced>>

\* Mutant: the bucket is dropped with whatever else it carries.
UnsubscribeLast_Any(b, s) ==
    /\ client = "up"
    /\ b \in pool
    /\ s \in subs[b]
    /\ Removed({b})
    /\ ShutBucket(b)
    /\ held' = held \ {s}
    /\ UNCHANGED <<clientVars, sup, failures, again, callerVars, doubled, raced>>

UnsubscribeLast(b, s) ==
    /\ client = "up"
    /\ b \in pool
    /\ subs[b] = {s}
    /\ Removed({b})
    /\ ShutBucket(b)
    /\ held' = held \ {s}
    /\ UNCHANGED <<clientVars, sup, failures, again, callerVars, doubled, raced>>

\* resubscribe(), up to the await of its first send: the slot is free.  (One that
\* is only pending is left alone; Bucket tells the two apart.)
Resubscribe(b, s) ==
    /\ client = "up"
    /\ b \in pool
    /\ s \in subs[b]
    /\ Open(b)
    /\ s \notin Reissued
    /\ Cardinality(Reissued) < MaxReissues   \* bound
    /\ subs' = [subs EXCEPT ![b] = @ \ {s}]
    /\ again' = [again EXCEPT ![b] = @ \cup {s}]
    /\ UNCHANGED <<clientVars, pool, sup, socket, shut, failures, callerVars, history>>

\* Its second half takes a slot, and looks neither at is_full nor at the ids.
Retakes(b, s) ==
    /\ s \in again[b]
    /\ Open(b)
    /\ subs' = [subs EXCEPT ![b] = @ \cup {s}]
    /\ again' = [again EXCEPT ![b] = @ \ {s}]
    /\ UNCHANGED <<clientVars, pool, sup, socket, shut, failures, callerVars, history>>

\* The bucket dropped or was closed meanwhile: ConnectionNotOpen, and nobody
\* remembers the subscription.
RetakeFails(b, s) ==
    /\ s \in again[b]
    /\ ~Open(b)
    /\ again' = [again EXCEPT ![b] = @ \ {s}]
    /\ held' = IF s \in Carried THEN held ELSE held \ {s}
    /\ UNCHANGED <<clientVars, pool, sup, socket, shut, failures, subs, callerVars,
                   gaveUp, doubled, raced>>

CallerStep(c) == Resume(c) \/ Opened(c) \/ NotOpened(c)
-----------------------------------------------------------------------------
Next ==
    \/ \E b \in Buckets :
          \/ SupervisorStep(b) \/ BucketStaysUp(b) \/ BucketDrops(b) \/ CloseBucket(b)
          \/ \E s \in SubIds : \/ Unsubscribe(b, s) \/ UnsubscribeLast(b, s)
                               \/ Resubscribe(b, s) \/ Retakes(b, s) \/ RetakeFails(b, s)
    \/ Lost \/ StopBuckets \/ Reconnect \/ SessionEnds \/ RunFails \/ NewSession
    \/ Close \/ CloseSupervisors \/ CloseSocket
    \/ \E c \in Callers :
          \/ \E s \in SubIds : Subscribe(c, s)
          \/ CallerStep(c) \/ CancelOpening(c) \/ CancelWaiting(c)

Spec == Init /\ [][Next]_vars
-----------------------------------------------------------------------------
TypeOK ==
    /\ client \in Clients
    /\ closing \in BOOLEAN
    /\ toClose = None \/ toClose \subseteq Buckets
    /\ pool \subseteq Buckets
    /\ sup \in [Buckets -> Supervisors]
    /\ socket \in [Buckets -> Sockets]
    /\ shut \subseteq Buckets
    /\ failures \in [Buckets -> 0 .. RestartLimit - 1]
    /\ subs \in [Buckets -> SUBSET SubIds]
    /\ again \in [Buckets -> SUBSET SubIds]
    /\ wants \in [Callers -> SubIds \cup {None}]
    /\ on \in [Callers -> SUBSET Buckets]
    /\ opens \subseteq Callers
    /\ held \subseteq SubIds
    /\ gaveUp \subseteq Buckets
    /\ doubled \in BOOLEAN
    /\ raced \subseteq SubIds

\* "sub_id must be unique for all subscriptions", whoever took it while another
\* call waited: no two buckets carry one sub_id.
UniqueSubIds == \A b, d \in pool : b # d => subs[b] \cap subs[d] \subseteq raced

\* What a bucket carries and what it is asking for again have room.
Fits(b) == Cardinality(subs[b] \cup again[b]) <= MaxSubscriptions

\* Nor does a slot that was free before a wait get taken twice after it: a bucket
\* outgrows its limit in one way only, by a subscribe() that takes the slot a
\* resubscribe() has freed and will take again without a look at is_full.
RoomRespected ==
    [][\A b \in Buckets : Fits(b) =>
          \/ Fits(b)'
          \/ \E c \in Callers, s \in SubIds :
                again[b] # {} /\ TakesSlot(c, s) /\ s \in subs'[b]]_vars

\* "a later start() would otherwise put a second one on the same bucket": no
\* bucket ever has two supervisors that would both redial it.
OneSupervisor == ~doubled

\* What subscribe() returned for is carried by a bucket of the client until it
\* is unsubscribed, across drops, reconnections, give-ups and sessions.
\* (Discard is the exception; see there.)
SubscribedIsCarried ==
    \A s \in SubIds \ raced : s \in held <=> s \in Carried \cup Reissued

\* After close() no bucket comes back, not even one that was being opened,
\* dropped, unsubscribed or asleep when it was called.
ClosedStaysClosed ==
    closing /\ toClose = None =>
        /\ \A b \in Buckets : ~Open(b)
        /\ \A b \in pool : sup[b] \notin Alive

\* While the client is up each of its buckets is being kept up, unless it was
\* given up "loudly": none is forgotten by a reconnection or a new session.
KeptUp ==
    client = "up" /\ ~closing => \A b \in pool : sup[b] \in Alive \/ b \in gaveUp
=============================================================================
