------------------------------- MODULE Bucket -------------------------------
(***************************************************************************)
(* One subscription bucket of the websocket client: its own TCP connection *)
(* to Bitfinex, the subscriptions it carries, and the once-per-subscription *)
(* ledger of the event emitter it announces them on.                        *)
(*                                                                         *)
(* The owner (the program using the client) calls subscribe, unsubscribe   *)
(* and resubscribe between any two steps of the bucket's own task, which   *)
(* connects, recovers what it carried before, reads, and is restarted by   *)
(* its supervisor.  The server and the two directions of the wire are      *)
(* modelled from what the code sends and expects.                          *)
(*                                                                         *)
(* Payloads are abstracted: a subscription is its sub_id, a channel is the *)
(* server's chan_id.                                                       *)
(***************************************************************************)
EXTENDS Naturals, Sequences, FiniteSets

CONSTANTS
    SubIds,            \* the sub_ids the owner uses
    Chans,             \* the chan_ids the server hands out on one connection
    None,              \* "no subscription"
    MaxSubscriptions,  \* 25 in the code
    MaxFrames,         \* bound: client frames in flight at once
    MaxCopies,         \* bound: entries one sub_id may hold when it is asked for again
    MaxRaced           \* bound: sub_ids that are ever asked for again too early

ASSUME NoneAssumption == None \notin SubIds
ASSUME ChansAssumption == IsFiniteSet(Chans) /\ IsFiniteSet(SubIds)
ASSUME LimitAssumption == MaxSubscriptions \in Nat \ {0}
ASSUME BoundAssumption == MaxFrames \in Nat /\ MaxCopies \in Nat /\ MaxRaced \in Nat

VARIABLES
    pendings,       \* sub_id -> number of entries of __pendings that carry it
    subscriptions,  \* __subscriptions: chan_id -> sub_id, None where absent
    cancellations,  \* __cancellations
    closing,        \* _closing
    open,           \* Connection.open: the socket exists and its state is OPEN
    phase,          \* where the bucket's task is (Phases)
    sending,        \* the rest of the snapshot __recover_state is sending
    reissue,        \* sub_id -> subscribe() calls a resubscribe() still owes
    ledger,         \* BfxEventEmitter._subscriptions, for this bucket's sub_ids
    owned,          \* the bucket is in the client's dictionary
    toServer,       \* frames on their way to the server
    toClient,       \* messages on their way to (or buffered in) the client
    channels,       \* the server's table: chan_id -> sub_id, None where closed
    refused,        \* sub_ids the server answered with an error (connection)
    wanted,         \* history: what the owner was told it is subscribed to
    raced           \* history: sub_ids asked for again too early (see Races)

bucketVars == <<pendings, subscriptions, cancellations, closing, owned>>
taskVars   == <<open, phase, sending>>
wireVars   == <<toServer, toClient, channels, refused>>
ownerVars  == <<reissue, wanted, raced>>
vars       == <<bucketVars, taskVars, wireVars, ownerVars, ledger>>

Phases == {"idle",        \* no supervisor runs it
           "down",        \* supervised, between two sockets
           "recovering",  \* connected, re-sending what it carried
           "reading"}     \* in the message loop

\* The events of _ONCE_PER_SUBSCRIPTION: the confirmation and one snapshot.
OnceEvents == {"subscribed", "snapshot"}

NoCopies == [s \in SubIds |-> 0]
NoChannels == [c \in Chans |-> None]
NothingHeard == [s \in SubIds |-> {}]

Frames == [type : {"subscribe"}, sub : SubIds]
            \cup [type : {"unsubscribe"}, chans : SUBSET Chans]

Messages == [type : {"subscribed"}, chan : Chans, sub : SubIds]
              \cup [type : {"snapshot"}, chan : Chans]
              \cup [type : {"restart"}]
-----------------------------------------------------------------------------
Confirmed == {c \in Chans : subscriptions[c] # None}

Carriers(s) == {c \in Chans : subscriptions[c] = s}

\* One element for every entry of the list __pendings.
Slots == UNION {{s} \X (1 .. pendings[s]) : s \in SubIds}

count == Cardinality(Slots) + Cardinality(Confirmed)

\* The code compares with ==, not >=.
is_full == count = MaxSubscriptions

ids == {s \in SubIds : pendings[s] > 0 \/ Carriers(s) # {}}

has(s) == s \in ids

Copies(s) == pendings[s] + Cardinality(Carriers(s))
-----------------------------------------------------------------------------
Init ==
    /\ pendings = NoCopies
    /\ subscriptions = NoChannels
    /\ cancellations = {}
    /\ closing = FALSE
    /\ owned = TRUE
    /\ open = FALSE
    /\ phase = "down"
    /\ sending = NoCopies
    /\ toServer = <<>>
    /\ toClient = <<>>
    /\ channels = NoChannels
    /\ refused = {}
    /\ reissue = NoCopies
    /\ wanted = {}
    /\ raced = {}
    /\ ledger = NothingHeard
-----------------------------------------------------------------------------
(* What the emitter does with a once-per-subscription event: swallow it if *)
(* the ledger already has it, else record it and deliver it.               *)

emit(s, event) == ledger' = [ledger EXCEPT ![s] = @ \cup {event}]

\* Mutant: the ledger is left as it is.
reset_subscription_scope_Nothing(gone) == UNCHANGED ledger

reset_subscription_scope(gone) ==
    ledger' = [s \in SubIds |-> IF s \in gone THEN {} ELSE ledger[s]]

(***************************************************************************)
(* start() has ended, and with it the socket.  The supervisor brings the   *)
(* bucket back, re-arming the once-events of everything it carries, unless *)
(* it is done: closed or removed by the owner, or the client's own socket  *)
(* is down (outside this module, hence a choice).                          *)
(***************************************************************************)
StartEnds ==
    /\ open' = FALSE
    /\ sending' = NoCopies
    /\ toServer' = <<>>
    /\ toClient' = <<>>
    /\ \/ /\ ~closing /\ owned
          /\ phase' = "down"
          /\ reset_subscription_scope(ids)
       \/ /\ phase' = "idle"
          /\ UNCHANGED ledger
-----------------------------------------------------------------------------
(* The bucket's task: start() and __recover_state().                       *)

\* start() returns at once, or after the handshake, if the bucket was closed.
StayClosed ==
    /\ phase = "down"
    /\ closing
    /\ phase' = "idle"
    /\ UNCHANGED <<bucketVars, open, sending, wireVars, ownerVars, ledger>>

\* Mutants of recover_state: chan_ids kept, cancellations kept, only what was
\* confirmed asked for again, only what was pending asked for again.
recover_state_KeepsChannels ==
    /\ cancellations' = {}
    /\ pendings' = [s \in SubIds |-> Copies(s)]
    /\ UNCHANGED subscriptions
    /\ sending' = pendings'

recover_state_KeepsCancellations ==
    /\ UNCHANGED cancellations
    /\ pendings' = [s \in SubIds |-> Copies(s)]
    /\ subscriptions' = NoChannels
    /\ sending' = pendings'

recover_state_ForgetsPendings ==
    /\ cancellations' = {}
    /\ pendings' = [s \in SubIds |-> Cardinality(Carriers(s))]
    /\ subscriptions' = NoChannels
    /\ sending' = pendings'

recover_state_SendsPendingsOnly ==
    /\ cancellations' = {}
    /\ pendings' = [s \in SubIds |-> Copies(s)]
    /\ subscriptions' = NoChannels
    /\ sending' = pendings

\* __recover_state up to its first send, none of which suspends: the
\* cancellations go, every confirmed subscription becomes pending, and the
\* list to send is taken.
recover_state ==
    /\ cancellations' = {}
    /\ pendings' = [s \in SubIds |-> Copies(s)]
    /\ subscriptions' = NoChannels
    /\ sending' = pendings'

Connect ==
    /\ phase = "down"
    /\ ~closing
    /\ phase' = "recovering"
    /\ open' = TRUE
    /\ recover_state
    /\ toServer' = <<>>
    /\ toClient' = <<>>
    /\ channels' = NoChannels
    /\ refused' = {}
    /\ UNCHANGED <<closing, owned, ownerVars, ledger>>

SendSubscribe(s) == toServer' = Append(toServer, [type |-> "subscribe", sub |-> s])

SendUnsubscribe(cs) == toServer' = Append(toServer, [type |-> "unsubscribe", chans |-> cs])

\* One iteration of the loop over the snapshot of __pendings.
RecoverSend(s) ==
    /\ phase = "recovering"
    /\ open
    /\ sending[s] > 0
    /\ sending' = [sending EXCEPT ![s] = @ - 1]
    /\ SendSubscribe(s)
    /\ UNCHANGED <<bucketVars, open, phase, toClient, channels, refused, ownerVars, ledger>>

\* __set_config is sent, the waiters are notified, the loop is entered.
RecoverDone ==
    /\ phase = "recovering"
    /\ open
    /\ sending = NoCopies
    /\ phase' = "reading"
    /\ UNCHANGED <<bucketVars, open, sending, wireVars, ownerVars, ledger>>

\* A send on a dead socket raises out of start(), wherever recovery stood.
RecoverFails ==
    /\ phase = "recovering"
    /\ ~open
    /\ StartEnds
    /\ UNCHANGED <<bucketVars, channels, refused, ownerVars>>

Incoming(type) ==
    /\ phase = "reading"
    /\ toClient # <<>>
    /\ Head(toClient).type = type

\* Mutant: the request stays pending.
Confirm_KeepsPending ==
    /\ Incoming("subscribed")
    /\ LET c == Head(toClient).chan
           s == Head(toClient).sub
       IN /\ s \notin cancellations
          /\ subscriptions' = [subscriptions EXCEPT ![c] = s]
          /\ emit(s, "subscribed")
    /\ toClient' = Tail(toClient)
    /\ UNCHANGED <<pendings, cancellations, closing, owned, taskVars, toServer,
                   channels, refused, ownerVars>>

\* __on_subscribed for a request that was not cancelled.
Confirm ==
    /\ Incoming("subscribed")
    /\ LET c == Head(toClient).chan
           s == Head(toClient).sub
       IN /\ s \notin cancellations
          /\ pendings' = [pendings EXCEPT ![s] = 0]
          /\ subscriptions' = [subscriptions EXCEPT ![c] = s]
          /\ emit(s, "subscribed")
    /\ toClient' = Tail(toClient)
    /\ UNCHANGED <<cancellations, closing, owned, taskVars, toServer,
                   channels, refused, ownerVars>>

\* Mutant: the channel of a cancelled request is not closed.
ConfirmCancelled_NoUnsubscribe ==
    /\ Incoming("subscribed")
    /\ Head(toClient).sub \in cancellations
    /\ pendings' = [pendings EXCEPT ![Head(toClient).sub] = 0]
    /\ cancellations' = cancellations \ {Head(toClient).sub}
    /\ toClient' = Tail(toClient)
    /\ UNCHANGED <<subscriptions, closing, owned, taskVars, toServer, channels,
                   refused, ownerVars, ledger>>

\* __on_subscribed for a request unsubscribed while it was pending: the
\* channel is closed again.  On a dead socket that send ends start().
ConfirmCancelled ==
    /\ Incoming("subscribed")
    /\ LET c == Head(toClient).chan
           s == Head(toClient).sub
       IN /\ s \in cancellations
          /\ pendings' = [pendings EXCEPT ![s] = 0]
          /\ cancellations' = cancellations \ {s}
          /\ \/ /\ open
                /\ SendUnsubscribe({c})
                /\ toClient' = Tail(toClient)
                /\ UNCHANGED <<taskVars, ledger>>
             \/ /\ ~open
                /\ StartEnds
    /\ UNCHANGED <<subscriptions, closing, owned, channels, refused, ownerVars>>

\* A list message: dispatched only for a channel the bucket knows.
Dispatch ==
    /\ Incoming("snapshot")
    /\ LET s == subscriptions[Head(toClient).chan]
       IN IF s = None THEN UNCHANGED ledger ELSE emit(s, "snapshot")
    /\ toClient' = Tail(toClient)
    /\ UNCHANGED <<bucketVars, taskVars, toServer, channels, refused, ownerVars>>

\* info 20051 or 20061 ends the socket as a service restart.
RestartRequested ==
    /\ Incoming("restart")
    /\ StartEnds
    /\ UNCHANGED <<bucketVars, channels, refused, ownerVars>>

\* What was buffered when the socket died is still read; then the loop ends.
ReadEnds ==
    /\ phase = "reading"
    /\ ~open
    /\ toClient = <<>>
    /\ StartEnds
    /\ UNCHANGED <<bucketVars, channels, refused, ownerVars>>

ReadMessage == Confirm \/ ConfirmCancelled \/ Dispatch \/ RestartRequested

TaskStep ==
    \/ StayClosed \/ Connect
    \/ \E s \in SubIds : RecoverSend(s)
    \/ RecoverDone \/ RecoverFails
    \/ ReadMessage \/ ReadEnds
-----------------------------------------------------------------------------
(* The owner's calls, as the client makes them on the bucket.              *)

\* bound
RoomToSend == Len(toServer) < MaxFrames

\* Asked for again while the answer to the previous request is still to be
\* cancelled, or while its own resubscribe() is between its two halves.
Races(s) == s \in cancellations \/ reissue[s] > 0

Race(s, happens) ==
    /\ raced' = IF happens THEN raced \cup {s} ELSE raced
    /\ Cardinality(raced') <= MaxRaced   \* bound

\* client.subscribe: sub_id unused, bucket open and not full, no await before
\* the frame is in __pendings.
Subscribe(s) ==
    /\ open
    /\ s \notin ids
    /\ ~is_full
    /\ RoomToSend
    /\ pendings' = [pendings EXCEPT ![s] = @ + 1]
    /\ SendSubscribe(s)
    /\ wanted' = wanted \cup {s}
    /\ Race(s, Races(s))
    /\ UNCHANGED <<subscriptions, cancellations, closing, owned, taskVars,
                   toClient, channels, refused, reissue, ledger>>

\* bucket.unsubscribe: of a pending request (the first half), of a confirmed
\* subscription (the second).
unsubscribe(s) ==
    IF pendings[s] > 0
    THEN /\ pendings' = [pendings EXCEPT ![s] = @ - 1]
         /\ cancellations' = cancellations \cup {s}
         /\ UNCHANGED <<subscriptions, toServer>>
    ELSE /\ subscriptions' = [c \in Chans |-> IF subscriptions[c] = s
                                              THEN None ELSE subscriptions[c]]
         /\ SendUnsubscribe(Carriers(s))
         /\ UNCHANGED <<pendings, cancellations>>

\* client.unsubscribe, when the bucket carries something else too.
Unsubscribe(s) ==
    /\ open
    /\ has(s)
    /\ count # 1
    /\ RoomToSend
    /\ unsubscribe(s)
    /\ wanted' = wanted \ {s}
    /\ UNCHANGED <<closing, owned, taskVars, toClient, channels, refused,
                   reissue, raced, ledger>>

\* client.unsubscribe of the bucket's only subscription: the bucket is dropped
\* from the dictionary and closed with it.  Up or down: only the client's own
\* socket has to be open.
UnsubscribeLast(s) ==
    /\ owned
    /\ has(s)
    /\ count = 1
    /\ owned' = FALSE
    /\ closing' = TRUE
    /\ open' = FALSE
    /\ wanted' = wanted \ {s}
    /\ UNCHANGED <<pendings, subscriptions, cancellations, phase, sending,
                   wireVars, reissue, raced, ledger>>

\* resubscribe(): up to the send of its first unsubscribe.  A sub_id that is
\* only pending is left alone.
Resubscribe(s) ==
    /\ open
    /\ Carriers(s) # {}
    /\ reissue[s] = 0
    /\ RoomToSend
    /\ unsubscribe(s)
    /\ reissue' = [reissue EXCEPT ![s] = Cardinality(Carriers(s))]
    /\ UNCHANGED <<closing, owned, taskVars, toClient, channels, refused,
                   wanted, raced, ledger>>

\* The await of that send is over: subscribe() again.  If the snapshot held
\* another copy, its unsubscribe then meets the pending it has just made.
Reissue(s) ==
    /\ open
    /\ reissue[s] > 0
    /\ RoomToSend
    /\ Copies(s) < MaxCopies
    /\ IF reissue[s] = 1
       THEN /\ pendings' = [pendings EXCEPT ![s] = @ + 1]
            /\ UNCHANGED cancellations
       ELSE /\ UNCHANGED pendings
            /\ cancellations' = cancellations \cup {s}
    /\ SendSubscribe(s)
    /\ reissue' = [reissue EXCEPT ![s] = @ - 1]
    /\ Race(s, s \in cancellations \/ reissue[s] > 1 \/ has(s))
    /\ UNCHANGED <<subscriptions, closing, owned, taskVars, toClient, channels,
                   refused, wanted, ledger>>

\* The socket dropped under the first half: subscribe() raises
\* ConnectionNotOpen, and nothing remembers the subscription any more.
ReissueFails(s) ==
    /\ ~open
    /\ reissue[s] > 0
    /\ reissue' = [reissue EXCEPT ![s] = 0]
    /\ wanted' = IF has(s) THEN wanted ELSE wanted \ {s}
    /\ UNCHANGED <<bucketVars, taskVars, wireVars, raced, ledger>>

\* client.close(): the bucket is told to stay down, in any state.
Close ==
    /\ ~closing
    /\ closing' = TRUE
    /\ open' = FALSE
    /\ UNCHANGED <<pendings, subscriptions, cancellations, owned, phase, sending,
                   wireVars, ownerVars, ledger>>

\* The client's socket ended: __stop_buckets cancels the supervisor.
Stopped ==
    /\ phase # "idle"
    /\ phase' = "idle"
    /\ open' = FALSE
    /\ sending' = NoCopies
    /\ toServer' = <<>>
    /\ toClient' = <<>>
    /\ UNCHANGED <<bucketVars, channels, refused, ownerVars, ledger>>

\* The client is connected again (a reconnection, or a new session, which
\* clears _closing): reset_connection_scope, then a new supervisor.
Supervised ==
    /\ phase = "idle"
    /\ owned
    /\ closing' = FALSE
    /\ phase' = "down"
    /\ ledger' = NothingHeard
    /\ UNCHANGED <<pendings, subscriptions, cancellations, owned, open, sending,
                   wireVars, ownerVars>>

OwnerStep ==
    \/ \E s \in SubIds : \/ Subscribe(s) \/ Unsubscribe(s) \/ UnsubscribeLast(s)
                         \/ Resubscribe(s) \/ Reissue(s) \/ ReissueFails(s)
    \/ Close \/ Stopped \/ Supervised
-----------------------------------------------------------------------------
(* The server and the network.                                             *)

\* A chan_id nothing refers to any more stands for one never used before.
Fresh(c) ==
    /\ channels[c] = None
    /\ subscriptions[c] = None
    /\ \A i \in 1 .. Len(toClient) : toClient[i].type # "restart" => toClient[i].chan # c
    /\ \A i \in 1 .. Len(toServer) : toServer[i].type = "unsubscribe" => c \notin toServer[i].chans

ServerOpens ==
    /\ open
    /\ toServer # <<>>
    /\ Head(toServer).type = "subscribe"
    /\ \E c \in Chans :
          /\ Fresh(c)
          /\ channels' = [channels EXCEPT ![c] = Head(toServer).sub]
          /\ toClient' = toClient \o
               <<[type |-> "subscribed", chan |-> c, sub |-> Head(toServer).sub],
                 [type |-> "snapshot", chan |-> c]>>
    /\ toServer' = Tail(toServer)
    /\ UNCHANGED <<bucketVars, taskVars, refused, ownerVars, ledger>>

\* The error event that answers a refused request is not read by the bucket.
ServerRefuses ==
    /\ open
    /\ toServer # <<>>
    /\ Head(toServer).type = "subscribe"
    /\ refused' = refused \cup {Head(toServer).sub}
    /\ toServer' = Tail(toServer)
    /\ UNCHANGED <<bucketVars, taskVars, toClient, channels, ownerVars, ledger>>

ServerCloses ==
    /\ open
    /\ toServer # <<>>
    /\ Head(toServer).type = "unsubscribe"
    /\ channels' = [c \in Chans |-> IF c \in Head(toServer).chans
                                    THEN None ELSE channels[c]]
    /\ toServer' = Tail(toServer)
    /\ UNCHANGED <<bucketVars, taskVars, toClient, refused, ownerVars, ledger>>

\* 20051 or 20061; it is the last thing the bucket reads on this socket.
ServerRestarts ==
    /\ open
    /\ \A i \in 1 .. Len(toClient) : toClient[i].type # "restart"
    /\ toClient' = Append(toClient, [type |-> "restart"])
    /\ UNCHANGED <<bucketVars, taskVars, toServer, channels, refused, ownerVars, ledger>>

\* The connection dies, or the server hangs up: what had not arrived is lost.
Drop ==
    /\ open
    /\ open' = FALSE
    /\ toServer' = <<>>
    /\ \E n \in 0 .. Len(toClient) : toClient' = SubSeq(toClient, 1, n)
    /\ UNCHANGED <<bucketVars, phase, sending, channels, refused, ownerVars, ledger>>

ServerAnswers == ServerOpens \/ ServerRefuses \/ ServerCloses

EnvironmentStep == ServerAnswers \/ ServerRestarts \/ Drop
-----------------------------------------------------------------------------
Next == TaskStep \/ OwnerStep \/ EnvironmentStep

Spec == Init /\ [][Next]_vars

\* Everything but the owner's calls, the refusals and the drops keeps going:
\* asyncio runs ready tasks, the supervisor redials, the server answers.
Fairness ==
    /\ WF_vars(TaskStep)
    /\ WF_vars(ServerAnswers)

FairSpec == Spec /\ Fairness
-----------------------------------------------------------------------------
TypeOK ==
    /\ pendings \in [SubIds -> Nat]
    /\ subscriptions \in [Chans -> SubIds \cup {None}]
    /\ cancellations \subseteq SubIds
    /\ closing \in BOOLEAN /\ owned \in BOOLEAN /\ open \in BOOLEAN
    /\ phase \in Phases
    /\ sending \in [SubIds -> Nat]
    /\ toServer \in Seq(Frames)
    /\ toClient \in Seq(Messages)
    /\ channels \in [Chans -> SubIds \cup {None}]
    /\ refused \subseteq SubIds
    /\ reissue \in [SubIds -> Nat]
    /\ wanted \subseteq SubIds
    /\ raced \subseteq SubIds
    /\ ledger \in [SubIds -> SUBSET OnceEvents]

InFlightConfirm(c) == \E i \in 1 .. Len(toClient) :
    /\ toClient[i].type = "subscribed"
    /\ toClient[i].chan = c

InFlightClose(c) == \E i \in 1 .. Len(toServer) :
    /\ toServer[i].type = "unsubscribe"
    /\ c \in toServer[i].chans

\* A request for s that the server or the bucket has still to see.
InFlight(s) ==
    \/ sending[s] > 0
    \/ \E i \in 1 .. Len(toServer) : toServer[i] = [type |-> "subscribe", sub |-> s]
    \/ \E i \in 1 .. Len(toClient) : /\ toClient[i].type = "subscribed"
                                    /\ toClient[i].sub = s

\* start() is between the handshake and its end.
Connected == phase \in {"recovering", "reading"}

\* What the bucket believes of a channel is what the server has on this very
\* connection: an update is never dispatched under another subscription's
\* name, even though the server may use the same chan_id after a reconnect.
ChannelOwner ==
    Connected =>
        \A c \in Confirmed : channels[c] = subscriptions[c]

\* No channel streams with nobody to read or close it: each one is known to
\* the bucket, or its confirmation or its close is on the way.
NoLeakedChannel ==
    open => \A c \in Chans : channels[c] # None =>
        subscriptions[c] = channels[c] \/ InFlightConfirm(c) \/ InFlightClose(c)

\* Why the two hold.  Of a channel opened on this connection, the server's
\* messages tell the truth, once, and before the bucket knows it; a close is
\* only sent for a channel the bucket has given up and was told about.
ConfirmsTrue == \A i \in 1 .. Len(toClient) : toClient[i].type = "subscribed" =>
    /\ channels[toClient[i].chan] = toClient[i].sub
    /\ subscriptions[toClient[i].chan] = None

ConfirmsUnique == \A i, j \in 1 .. Len(toClient) :
    /\ toClient[i].type = "subscribed" /\ toClient[j].type = "subscribed"
    /\ toClient[i].chan = toClient[j].chan
    => i = j

ClosesGivenUp == \A i \in 1 .. Len(toServer) : toServer[i].type = "unsubscribe" =>
    \A c \in toServer[i].chans : subscriptions[c] = None /\ ~InFlightConfirm(c)

WireOfConnection ==
    /\ open => Connected
    /\ ~Connected => toClient = <<>> /\ toServer = <<>>

WireInv ==
    /\ WireOfConnection
    /\ ConfirmsTrue
    /\ ConfirmsUnique
    /\ ClosesGivenUp
    /\ ChannelOwner
    /\ NoLeakedChannel

\* A sub_id is carried exactly when the owner was told it is subscribed: not
\* lost by a drop, in whatever state of recovery, and not brought back after
\* it was cancelled.
CarriedIffWanted ==
    owned => \A s \in SubIds \ raced :
        reissue[s] = 0 => (s \in wanted <=> has(s))

\* A sub_id never holds two entries, so none is answered for another.
OneEntryPerSub == \A s \in SubIds \ raced : Copies(s) <= 1

\* The bucket never carries more channels than Bitfinex allows on a connection
\* (tests/test_websocket_client.py:203).  It does not hold: resubscribe() frees
\* its slot, another task subscribes a new sub_id into it while the first half
\* is sent, and the second half appends its own again without asking is_full.
CapacityRespected == count <= MaxSubscriptions

\* What takes room, now or as soon as it is asked for again.
Load == ids \cup {s \in SubIds : reissue[s] > 0}

\* subscribe() for a new sub_id next to the resubscribe() of another.
Overtakes == \E r, s \in SubIds : r # s /\ reissue[r] > 0 /\ Subscribe(s)

\* That is the only way: whatever else happens to a bucket within its limit, it
\* stays within it, unless a sub_id was asked for again too early.
LimitOnlyOvertaken ==
    [][raced' = {} /\ Cardinality(Load) <= MaxSubscriptions /\ ~Overtakes
         => Cardinality(Load)' <= MaxSubscriptions /\ count' <= MaxSubscriptions]_vars

\* While the socket is up, a pending request or a recorded cancellation has
\* an answer to wait for, unless the server refused it.
AnswerOnItsWay ==
    open => \A s \in SubIds \ raced :
        pendings[s] > 0 \/ s \in cancellations => InFlight(s) \/ s \in refused

\* Between two sockets, and until it has been asked for again, nothing the
\* bucket carries is latched in the ledger: the new connection announces it
\* anew and delivers its new snapshot.
Rearmed ==
    \A s \in ids :
        (phase = "down" /\ ~closing) \/ sending[s] > 0 => ledger[s] = {}

\* "a pending one is re-sent on the next restart until it is confirmed" (the
\* comment in __recover_state): a request the owner still wants leaves
\* __pendings only by being confirmed.
PendingUntilConfirmed ==
    [][\A s \in SubIds : pendings[s] > 0 /\ pendings'[s] = 0
            => Carriers(s)' # {} \/ s \notin wanted']_vars

\* Once the socket stays up, what stays wanted is eventually confirmed for
\* good, unless the server refuses it.
EventuallyConfirmed ==
    \A s \in SubIds :
        <>[](open /\ s \in wanted /\ s \notin raced /\ s \notin refused /\ reissue[s] = 0)
            => <>[](Carriers(s) # {})
-----------------------------------------------------------------------------
\* What the owner sees of a sub_id; one between the two halves of resubscribe()
\* is as good as asked for.
Status(s) ==
    IF ~owned THEN "none"
    ELSE IF Carriers(s) # {} THEN "active"
    ELSE IF pendings[s] > 0 \/ reissue[s] > 0 THEN "asked" ELSE "none"

Contract == INSTANCE SubscriptionContract WITH status <- [s \in SubIds |-> Status(s)]

\* The bucket keeps its contract: through drops and restarts at any step of the
\* recovery, no subscription is lost, revived or left half subscribed.
KeepsContract == Contract!Spec
=============================================================================
