------------------------------ MODULE Session -------------------------------
(***************************************************************************)
(* The lifecycle of BfxWebSocketClient: start(), its reconnection loop and *)
(* close(), which the owner may call at any point of it.                   *)
(*                                                                         *)
(* Every call of start() is a run, a task of its own; the runs share the   *)
(* client's attributes.  A run connects, waits for its buckets, opens,     *)
(* authenticates, reads, and on a lost connection goes through an outage:  *)
(* a backoff before each attempt, until one succeeds or the deadline is    *)
(* over.  close() is two steps: it raises its flags at once, and closes    *)
(* the socket after awaiting the buckets.                                  *)
(*                                                                         *)
(* Time is abstracted to what the code tests: whether the deadline of the  *)
(* outage has passed, whether a connection stayed up long enough to count. *)
(***************************************************************************)
EXTENDS Naturals, FiniteSets

CONSTANTS
    Runs,       \* the calls of start()
    None,
    MaxCloses,  \* bound: calls of close()
    MaxDelay,   \* bound: the step of the backoff that stands for 60 seconds
    Overlap     \* whether start() may be called again, after a completed close(),
                \* before the run that close() ends has ended

ASSUME RunsAssumption == None \notin Runs
ASSUME BoundAssumption == MaxCloses \in Nat /\ MaxDelay \in Nat \ {0}
ASSUME OverlapAssumption == Overlap \in BOOLEAN

VARIABLES
    pc,            \* run -> where its task is
    epochAt,       \* run -> __close_epoch when start() was called
    delay,         \* run -> step of its _Delay
    sock,          \* run -> its socket: "none", "open" or how it ended
    outcome,       \* run -> how start() ended
    disconnected,  \* run -> "disconnected" events it emitted
    opened,        \* run -> connections it has had: 0, 1, 2 (or more)
    requested,     \* run -> its __close_requested event is set
    ws,            \* the run whose socket is self._websocket
    event,         \* the run whose event is self.__close_requested
    closing,       \* __closing
    epoch,         \* __close_epoch
    closer,        \* "idle", or "buckets": a close() awaits the buckets
    reconnection,  \* __reconnection: "none", "live", "expired" (deadline passed)
    auth,          \* _authentication
    connectedAt,   \* __connected_at: None, "fresh" or "stable" (30 s and more)
    credentials,   \* whether the client was given credentials to authenticate with
    ledger,        \* BfxEventEmitter._connection
    heard          \* history: what was delivered on the current connection

runVars    == <<pc, epochAt, delay, sock, outcome, disconnected, opened, requested>>
clientVars == <<ws, event, closing, epoch, closer, reconnection, auth, connectedAt,
                credentials>>
eventVars  == <<ledger, heard>>
vars       == <<runVars, clientVars, eventVars>>

Places == {"uncalled", "scheduled", "backoff", "connecting", "buckets",
           "reading", "hungUp", "ended"}

\* How a socket ends: with 1000, whoever closed it; with 1001 from the server; with
\* 1012, or no close frame at all (lost); with any other code (abnormal).
Ends == {"normal", "goingAway", "lost", "abnormal"}

\* What async for makes of it: it just ends, or raises ConnectionClosedError.
EndsQuietly == {"normal", "goingAway"}

Outcomes == {"none", "normal", "cancelled",
             "timeout",       \* ReconnectionTimeoutError
             "refused",       \* an error of the handshake that is not retried
             "credentials",   \* InvalidCredentialError
             "closedOK",      \* ConnectionClosedOK out of send()
             "abnormal",      \* a close code that is not a lost connection
             "assertion",     \* __time_left without an outage
             "nonce"}         \* NonceProviderError, before the auth frame is signed

open == ws # None /\ sock[ws] = "open"

Active == {r \in Runs : pc[r] \notin {"uncalled", "ended"}}

\* A close() came after this run's start() was called.
Stale(r) == epochAt[r] # epoch
-----------------------------------------------------------------------------
Init ==
    /\ pc = [r \in Runs |-> "uncalled"]
    /\ epochAt = [r \in Runs |-> 0]
    /\ delay = [r \in Runs |-> 0]
    /\ sock = [r \in Runs |-> "none"]
    /\ outcome = [r \in Runs |-> "none"]
    /\ disconnected = [r \in Runs |-> 0]
    /\ opened = [r \in Runs |-> 0]
    /\ requested = [r \in Runs |-> FALSE]
    /\ ws = None
    /\ event = None
    /\ closing = FALSE
    /\ epoch = 0
    /\ closer = "idle"
    /\ reconnection = "none"
    /\ auth = FALSE
    /\ connectedAt = None
    /\ credentials \in BOOLEAN
    /\ ledger = {}
    /\ heard = {}
-----------------------------------------------------------------------------
(* Ends and turns of a run, shared by the actions below.                   *)

\* A once-per-connection event: swallowed if the ledger has it.
emit(e) ==
    /\ ledger' = ledger \cup {e}
    /\ heard' = IF e \in ledger THEN heard ELSE heard \cup {e}

\* start() is over, and its _Delay with it.
Over(r, how) ==
    /\ pc' = [pc EXCEPT ![r] = "ended"]
    /\ outcome' = [outcome EXCEPT ![r] = how]
    /\ delay' = [delay EXCEPT ![r] = 0]

\* It returns after emitting "disconnected".
Finish(r) ==
    /\ Over(r, "normal")
    /\ disconnected' = [disconnected EXCEPT ![r] = @ + 1]

\* It emits "error" and raises; leaving the block closed the socket.
Raise(r, error) ==
    /\ Over(r, error)
    /\ UNCHANGED disconnected

Hangs(r) == sock' = [sock EXCEPT ![r] = IF @ = "open" THEN "lost" ELSE @]

\* It goes on, with its _Delay at step d.
Goes(r, place, d) ==
    /\ pc' = [pc EXCEPT ![r] = place]
    /\ delay' = [delay EXCEPT ![r] = d]
    /\ UNCHANGED <<outcome, disconnected>>

\* _Delay.next()
next(d) == IF d < MaxDelay THEN d + 1 ELSE d

\* Mutant: the deadline is never looked at.
TimeLeft_NoDeadline(r, place, d) ==
    IF reconnection = "none" THEN Raise(r, "assertion") ELSE Goes(r, place, d)

\* __time_left() for a run about to sleep, or about to attempt.
TimeLeft(r, place, d) ==
    \/ /\ reconnection = "none"
       /\ Raise(r, "assertion")
    \/ /\ reconnection = "expired"
       /\ Raise(r, "timeout")
    \/ /\ reconnection = "live"
       /\ Goes(r, place, d)

\* The top of the loop, with a new _Delay: an attempt at once, or a backoff.
LoopTop(r) ==
    IF reconnection = "none"
    THEN Goes(r, "connecting", 0)
    ELSE TimeLeft(r, "backoff", next(0))

\* Mutants: the client stays authenticated; every outage starts a new backoff.
BeginOutage_KeepsAuth(r) ==
    /\ reconnection' = "live"
    /\ UNCHANGED auth
    /\ connectedAt' = None
    /\ Goes(r, "backoff", next(IF connectedAt = "stable" THEN 0 ELSE delay[r]))

BeginOutage_ResetsDelay(r) ==
    /\ reconnection' = "live"
    /\ auth' = FALSE
    /\ connectedAt' = None
    /\ Goes(r, "backoff", next(0))

\* __begin_outage, then the top of the loop with a deadline just set.
BeginOutage(r) ==
    /\ reconnection' = "live"
    /\ auth' = FALSE
    /\ connectedAt' = None
    /\ Goes(r, "backoff", next(IF connectedAt = "stable" THEN 0 ELSE delay[r]))
-----------------------------------------------------------------------------
(* The owner.                                                              *)

\* Where a run has no socket, close() has nothing to await: the owner is back
\* from it, and may call start(), before the run has taken another step.
NothingAwaited == \A r \in Active : pc[r] \in {"backoff", "connecting"}

\* start(): the session is pinned here; the coroutine has not run yet.
Start(r) ==
    /\ pc[r] = "uncalled"
    /\ closer = "idle"
    /\ Active = {} \/ (Overlap /\ closing /\ NothingAwaited)
    /\ pc' = [pc EXCEPT ![r] = "scheduled"]
    /\ epochAt' = [epochAt EXCEPT ![r] = epoch]
    /\ UNCHANGED <<delay, sock, outcome, disconnected, opened, requested,
                   clientVars, eventVars>>

\* Mutant: the backoff is left to run its time.
Close_NoWake ==
    /\ closer = "idle"
    /\ epoch < MaxCloses
    /\ closing' = TRUE
    /\ epoch' = epoch + 1
    /\ closer' = "buckets"
    /\ UNCHANGED <<runVars, ws, event, reconnection, auth, connectedAt, credentials, eventVars>>

\* close(), up to its first await.
Close ==
    /\ closer = "idle"
    /\ epoch < MaxCloses   \* bound
    /\ closing' = TRUE
    /\ epoch' = epoch + 1
    /\ requested' = IF event = None THEN requested
                    ELSE [requested EXCEPT ![event] = TRUE]
    /\ closer' = "buckets"
    /\ UNCHANGED <<pc, epochAt, delay, sock, outcome, disconnected, opened,
                   ws, event, reconnection, auth, connectedAt, credentials, eventVars>>

\* The buckets are closed: so is the client's socket, if there is one.
CloseSocket ==
    /\ closer = "buckets"
    /\ closer' = "idle"
    /\ IF open THEN \E end \in {"normal", "lost"} : sock' = [sock EXCEPT ![ws] = end]
               ELSE UNCHANGED sock
    /\ UNCHANGED <<pc, epochAt, delay, outcome, disconnected, opened, requested,
                   ws, event, closing, epoch, reconnection, auth, connectedAt, credentials,
                   eventVars>>

\* The task that awaits start() is cancelled.
Cancel(r) ==
    /\ pc[r] \notin {"uncalled", "scheduled", "ended"}
    /\ Over(r, "cancelled")
    /\ Hangs(r)
    /\ UNCHANGED <<epochAt, disconnected, opened, requested, clientVars, eventVars>>
-----------------------------------------------------------------------------
(* A run.                                                                  *)

\* Mutant: the session is not pinned by the call of start().
Begin_IgnoresEpoch(r) ==
    /\ pc[r] = "scheduled"
    /\ closing' = FALSE
    /\ event' = r
    /\ requested' = [requested EXCEPT ![r] = FALSE]
    /\ LoopTop(r)
    /\ UNCHANGED <<epochAt, sock, opened, ws, epoch, closer, reconnection, auth,
                   connectedAt, credentials, eventVars>>

\* __start and the head of __run: a close() since the call wins; else a new
\* session begins, with whatever __reconnection an earlier run left.
Begin(r) ==
    /\ pc[r] = "scheduled"
    /\ IF Stale(r)
       THEN /\ Finish(r)
            /\ UNCHANGED <<closing, event, requested>>
       ELSE /\ closing' = FALSE
            /\ event' = r
            /\ requested' = [requested EXCEPT ![r] = FALSE]
            /\ LoopTop(r)
    /\ UNCHANGED <<epochAt, sock, opened, ws, epoch, closer, reconnection, auth,
                   connectedAt, credentials, eventVars>>

\* Mutant: "disconnected" is emitted, and the loop is not left.
Wake_NoBreak(r) ==
    /\ pc[r] = "backoff"
    /\ IF closing
       THEN /\ pc' = [pc EXCEPT ![r] = "connecting"]
            /\ disconnected' = [disconnected EXCEPT ![r] = 1]
            /\ UNCHANGED <<outcome, delay>>
       ELSE TimeLeft(r, "connecting", delay[r])
    /\ UNCHANGED <<epochAt, sock, opened, requested, clientVars, eventVars>>

\* The backoff is over, or close() ended it.
Wake(r) ==
    /\ pc[r] = "backoff"
    /\ IF closing THEN Finish(r) ELSE TimeLeft(r, "connecting", delay[r])
    /\ UNCHANGED <<epochAt, sock, opened, requested, clientVars, eventVars>>

\* The handshake fails: an OSError, an InvalidMessage or a status that is
\* waited out (retryable), or a status the server means.
ConnectFails(r, retryable) ==
    /\ pc[r] = "connecting"
    /\ \/ closing /\ Finish(r)
       \/ /\ ~closing /\ reconnection # "none" /\ retryable
          /\ TimeLeft(r, "backoff", next(delay[r]))
       \/ /\ ~closing /\ ~(reconnection # "none" /\ retryable)
          /\ Raise(r, "refused")
    /\ UNCHANGED <<epochAt, sock, opened, requested, clientVars, eventVars>>

\* What __connect does with the socket it got: if close() arrived during the
\* handshake it is hung up.
Enter(r) ==
    /\ ws' = r
    /\ connectedAt' = "fresh"
    /\ opened' = [opened EXCEPT ![r] = IF @ < 2 THEN @ + 1 ELSE @]
    /\ IF closing
       THEN /\ Goes(r, "hungUp", delay[r])
            /\ \E end \in {"normal", "lost"} : sock' = [sock EXCEPT ![r] = end]
       ELSE /\ Goes(r, "buckets", delay[r])
            /\ sock' = [sock EXCEPT ![r] = "open"]

\* Mutant: the once-events stay latched.
Connect_KeepsLedger(r) ==
    /\ pc[r] = "connecting"
    /\ heard' = {}
    /\ reconnection' = "none"
    /\ Enter(r)
    /\ UNCHANGED <<epochAt, requested, event, closing, epoch, closer, auth, credentials, ledger>>

\* A new connection: a new scope for its events, and the outage is over.
Connect(r) ==
    /\ pc[r] = "connecting"
    /\ ledger' = {}
    /\ heard' = {}
    /\ reconnection' = "none"
    /\ Enter(r)
    /\ UNCHANGED <<epochAt, requested, event, closing, epoch, closer, auth, credentials>>

\* The auth frame: a nonce_provider may fail to give the nonce it is signed with,
\* and the socket may be gone by the time it is sent.
authenticate(r) ==
    \/ /\ Raise(r, "nonce")
       /\ Hangs(r)
    \/ /\ sock[r] \in EndsQuietly
       /\ Raise(r, "closedOK")
       /\ UNCHANGED sock
    \/ /\ sock[r] \notin EndsQuietly
       /\ Goes(r, "reading", delay[r])
       /\ UNCHANGED sock

\* "open" is emitted, and a client with credentials authenticates.
Announce(r) ==
    /\ emit("open")
    /\ \/ credentials /\ authenticate(r)
       \/ ~credentials /\ Goes(r, "reading", delay[r]) /\ UNCHANGED sock

\* Mutant: a close() while the buckets come back goes unnoticed.
BucketsReady_IgnoresClose(r) ==
    /\ pc[r] = "buckets"
    /\ Announce(r)
    /\ UNCHANGED <<epochAt, opened, requested, clientVars>>

\* The buckets are back, or the wait for them is over, or close() ended it.
BucketsReady(r) ==
    /\ pc[r] = "buckets"
    /\ \/ /\ closing
          /\ Goes(r, "hungUp", delay[r])
          /\ \E end \in {"normal", "lost"} :
                sock' = [sock EXCEPT ![r] = IF @ = "open" THEN end ELSE @]
          /\ UNCHANGED eventVars
       \/ ~closing /\ Announce(r)
    /\ UNCHANGED <<epochAt, opened, requested, clientVars>>

\* The operations of an authenticated connection: notify(), and the inputs by
\* the names of their frames.  A call changes nothing here: it is refused, or it
\* sends its frame.
Inputs == {"n", "on", "ou", "oc", "oc_multi", "fon", "foc", "calc"}

\* _require_websocket_authentication, then _require_websocket_connection.
handle_websocket_input(name) ==
    IF ~auth THEN "ActionRequiresAuthentication"
    ELSE IF ~open THEN "ConnectionNotOpen"
    ELSE name

\* {"event": "auth", "status": "OK"}; what had arrived before the socket ended
\* is still read.
Authenticated(r) ==
    /\ pc[r] = "reading"
    /\ credentials
    /\ "authenticated" \notin ledger
    /\ emit("authenticated")
    /\ auth' = TRUE
    /\ UNCHANGED <<runVars, ws, event, closing, epoch, closer, reconnection, connectedAt,
                   credentials>>

\* Any other status raises InvalidCredentialError; a version other than 2 raises
\* VersionMismatchError to the same effect, whether there are credentials or not.
AuthenticationFails(r) ==
    /\ pc[r] = "reading"
    /\ "authenticated" \notin ledger
    /\ Raise(r, "credentials")
    /\ Hangs(r)
    /\ UNCHANGED <<epochAt, opened, requested, clientVars, eventVars>>

\* The session is over: nothing of the client but its task changes.
Ended(r) == Finish(r) /\ UNCHANGED <<reconnection, auth, connectedAt>>

\* info 20051 raises the ConnectionClosedError of a 1012.
RestartAnnounced(r) ==
    /\ pc[r] = "reading"
    /\ Hangs(r)
    /\ IF closing THEN Ended(r) ELSE BeginOutage(r)
    /\ UNCHANGED <<epochAt, opened, requested, ws, event, closing, epoch, closer,
                   credentials, eventVars>>

\* The close code the loop looks at is that of self._websocket.
CloseCode == IF ws = None \/ sock[ws] = "open" THEN "none" ELSE sock[ws]

\* Mutant: a quiet end is always the end of the session.
Returns_AlwaysEnds(r) ==
    /\ \/ pc[r] = "reading" /\ sock[r] \in EndsQuietly
       \/ pc[r] = "hungUp"
    /\ Ended(r)
    /\ UNCHANGED <<epochAt, sock, opened, requested, ws, event, closing, epoch, closer,
                   credentials, eventVars>>

\* __connect returned: the socket ended quietly, or was hung up.
Returns(r) ==
    /\ \/ pc[r] = "reading" /\ sock[r] \in EndsQuietly
       \/ pc[r] = "hungUp"
    /\ IF ~closing /\ CloseCode = "goingAway" THEN BeginOutage(r) ELSE Ended(r)
    /\ UNCHANGED <<epochAt, sock, opened, requested, ws, event, closing, epoch, closer,
                   credentials, eventVars>>

\* __connect raised ConnectionClosedError, out of the loop or of the auth send.
Breaks(r) ==
    /\ pc[r] = "reading"
    /\ sock[r] \in Ends \ EndsQuietly
    /\ \/ closing /\ Ended(r)
       \/ ~closing /\ sock[r] = "lost" /\ BeginOutage(r)
       \/ /\ ~closing /\ sock[r] = "abnormal"
          /\ Raise(r, "abnormal")
          /\ UNCHANGED <<reconnection, auth, connectedAt>>
    /\ UNCHANGED <<epochAt, sock, opened, requested, ws, event, closing, epoch, closer,
                   credentials, eventVars>>

RunStep(r) ==
    \/ Begin(r) \/ Wake(r)
    \/ \E retryable \in BOOLEAN : ConnectFails(r, retryable)
    \/ Connect(r) \/ BucketsReady(r) \/ Returns(r) \/ Breaks(r)

ReadMessage(r) == Authenticated(r) \/ AuthenticationFails(r) \/ RestartAnnounced(r)
-----------------------------------------------------------------------------
(* The server, the network and the clock.                                  *)

ServerCloses(r) ==
    /\ sock[r] = "open"
    /\ \E end \in Ends : sock' = [sock EXCEPT ![r] = end]
    /\ UNCHANGED <<pc, epochAt, delay, outcome, disconnected, opened, requested,
                   clientVars, eventVars>>

DeadlinePasses ==
    /\ reconnection = "live"
    /\ reconnection' = "expired"
    /\ UNCHANGED <<runVars, ws, event, closing, epoch, closer, auth, connectedAt, credentials,
                   eventVars>>

StaysUp ==
    /\ connectedAt = "fresh"
    /\ connectedAt' = "stable"
    /\ UNCHANGED <<runVars, ws, event, closing, epoch, closer, reconnection, auth, credentials,
                   eventVars>>
-----------------------------------------------------------------------------
Next ==
    \/ \E r \in Runs : \/ Start(r) \/ Cancel(r)
                       \/ RunStep(r) \/ ReadMessage(r) \/ ServerCloses(r)
    \/ Close \/ CloseSocket \/ DeadlinePasses \/ StaysUp

Spec == Init /\ [][Next]_vars

\* asyncio resumes a task whose await is over, every sleep and every handshake
\* is bounded, and the clock runs.
Fairness ==
    /\ \A r \in Runs : WF_vars(RunStep(r))
    /\ WF_vars(CloseSocket)
    /\ WF_vars(DeadlinePasses)

FairSpec == Spec /\ Fairness
-----------------------------------------------------------------------------
TypeOK ==
    /\ pc \in [Runs -> Places]
    /\ epochAt \in [Runs -> 0 .. MaxCloses]
    /\ delay \in [Runs -> 0 .. MaxDelay]
    /\ sock \in [Runs -> {"none", "open"} \cup Ends]
    /\ outcome \in [Runs -> Outcomes]
    /\ disconnected \in [Runs -> 0 .. 1]
    /\ opened \in [Runs -> 0 .. 2]
    /\ requested \in [Runs -> BOOLEAN]
    /\ ws \in Runs \cup {None}
    /\ event \in Runs \cup {None}
    /\ closing \in BOOLEAN
    /\ epoch \in 0 .. MaxCloses
    /\ closer \in {"idle", "buckets"}
    /\ reconnection \in {"none", "live", "expired"}
    /\ auth \in BOOLEAN
    /\ connectedAt \in {None, "fresh", "stable"}
    /\ credentials \in BOOLEAN
    /\ ledger \subseteq {"open", "authenticated"}
    /\ heard \subseteq {"open", "authenticated"}

\* A session that ends, however close() and the network interleave, tells the
\* owner so exactly once: "disconnected", or an exception, or a cancellation.
DisconnectedOnce ==
    \A r \in Runs :
        /\ disconnected[r] = 1 <=> outcome[r] = "normal"
        /\ outcome[r] # "none" <=> pc[r] = "ended"

\* A recovered client announces itself anew: what is latched is what was heard
\* on this very connection.
AnnouncedAnew ==
    /\ ledger = heard
    /\ \A r \in Runs : pc[r] = "reading" => "open" \in heard

\* An operation goes out on a connection that has not announced "authenticated".
SentTooEarly ==
    /\ \E name \in Inputs : handle_websocket_input(name) = name
    /\ "authenticated" \notin heard

\* "All operations that require authentication will fail if run before the
\* emission of this event" (README): after a reconnection, nothing is let
\* through before the new connection has announced it.
ReauthenticatedFirst == SentTooEarly => opened[ws] = 1

\* close() ends a backoff at once, and nothing else does before its time: the
\* event a sleeping run waits on is set exactly if close() came after it began.
BackoffEndsAtOnce == \A r \in Runs : pc[r] = "backoff" => (requested[r] <=> Stale(r))

\* "A connection that dropped soon after it opened is the server flapping, not
\* a recovery": a session's backoff only ever starts over after a connection
\* that stayed up.
FlappingKeepsBackoff ==
    [][\A r \in Runs : delay'[r] < delay[r] =>
            pc'[r] = "ended" \/ connectedAt = "stable"]_vars

\* An outage is over the moment a connection is up, so the next one gets its
\* own deadline.
OutageCleared == open /\ pc[ws] \in {"buckets", "reading"} => reconnection = "none"

\* A later start() has taken the client over from this run.
Superseded(r) ==
    \E q \in Runs : epochAt[q] > epochAt[r] /\ pc[q] \notin {"uncalled", "scheduled"}

\* close() wins over a start() called before it, whatever that run is doing: it
\* never gets as far as reading.  Only a start() that begins next to it, which
\* takes its flags back, can let it (see Overlap).
StaleRunNeverOpens ==
    [][\A r \in Runs : Stale(r) /\ ~Superseded(r) /\ pc[r] # "reading"
            => pc'[r] # "reading"]_vars

\* A server that goes away ends the session by closing its socket, and nothing
\* else does: the owner did not close it.
EndedByGoingAway(r) ==
    /\ sock[r] = "goingAway"
    /\ outcome[r] \in {"normal", "closedOK"}
    /\ ~Stale(r)

\* "come back, don't hang up" (the comment in __run), of a server that is going
\* away: it ends no session.  This does not hold: a 1001 that arrives while the
\* buckets come back raises ConnectionClosedOK out of the auth send, and __run
\* does not catch that.
GoingAwayComesBack == \A r \in Runs : ~EndedByGoingAway(r)

\* That is the only way: a client without credentials comes back from every
\* 1001, and one with credentials never just returns from start().
GoingAwayEndsOnlyAuth ==
    \A r \in Runs : EndedByGoingAway(r) => credentials /\ outcome[r] = "closedOK"

\* "A start() called after a completed close() runs normally" (start()): it does
\* not time out of an outage it never had, of a connection it never had, and its
\* first connection lets no operation through before it is authenticated.
StartsNormally ==
    \A r \in Runs : epochAt[r] > 0 =>
        /\ outcome[r] = "timeout" => opened[r] > 0
        /\ ws = r => ~SentTooEarly

\* close() ends the client in any state.
CloseWins == \A r \in Runs : (Stale(r) /\ pc[r] # "uncalled") ~> pc[r] = "ended"

\* An outage ends, one way or the other: its deadline sees to it.
OutageEnds == \A r \in Runs : pc[r] = "backoff" ~> pc[r] \in {"buckets", "hungUp", "ended"}
=============================================================================
