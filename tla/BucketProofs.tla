---------------------------- MODULE BucketProofs ----------------------------
(* Theorems about Bucket, for every set of sub_ids, every set of channels  *)
(* and every limit.                                                        *)
EXTENDS Bucket, FiniteSetTheorems, SequenceTheorems, TLAPS

USE NoneAssumption, ChansAssumption, LimitAssumption, BoundAssumption

\* The copies of a sub_id can be counted: its channels are finitely many.
LEMMA CarriersCounted ==
    ASSUME NEW s \in SubIds
    PROVE  Cardinality(Carriers(s)) \in Nat
BY FS_Subset, FS_CardinalityType DEF Carriers

\* Two messages appended to the wire are two more messages of the same kind.
LEMMA TwoMore ==
    ASSUME NEW S, NEW q \in Seq(S), NEW a \in S, NEW b \in S
    PROVE  /\ q \o <<a, b>> \in Seq(S)
           /\ Len(q \o <<a, b>>) = Len(q) + 2
           /\ \A i \in 1 .. Len(q) : (q \o <<a, b>>)[i] = q[i]
           /\ (q \o <<a, b>>)[Len(q) + 1] = a
           /\ (q \o <<a, b>>)[Len(q) + 2] = b
<1>1. <<a, b>> \in Seq(S)
  OBVIOUS
<1>2. QED
  BY <1>1, ConcatProperties

LEMMA TypeInit == Init => TypeOK
<1>1. <<>> \in Seq(Frames) /\ <<>> \in Seq(Messages)
  BY EmptySeq
<1>2. /\ NoCopies \in [SubIds -> Nat]
      /\ NoChannels \in [Chans -> SubIds \cup {None}]
      /\ NothingHeard \in [SubIds -> SUBSET OnceEvents]
  BY DEF NoCopies, NoChannels, NothingHeard
<1>3. QED
  BY <1>1, <1>2 DEF Init, TypeOK, Phases

\* The end of start() leaves well-typed state, whoever picks the bucket up.
LEMMA StartEndsType ==
    ASSUME TypeOK, StartEnds
    PROVE  /\ open' \in BOOLEAN /\ phase' \in Phases
           /\ sending' \in [SubIds -> Nat]
           /\ toServer' \in Seq(Frames) /\ toClient' \in Seq(Messages)
           /\ ledger' \in [SubIds -> SUBSET OnceEvents]
BY EmptySeq DEF TypeOK, StartEnds, Phases, NoCopies, reset_subscription_scope

\* A frame appended to the wire to the server is one more frame.
LEMMA SendUnsubscribeType ==
    ASSUME TypeOK, NEW cs \in SUBSET Chans, SendUnsubscribe(cs)
    PROVE  toServer' \in Seq(Frames)
<1> DEFINE frame == [type |-> "unsubscribe", chans |-> cs]
<1>1. frame \in Frames
  BY DEF Frames
<1>2. toServer' = Append(toServer, frame) /\ toServer \in Seq(Frames)
  BY DEF TypeOK, SendUnsubscribe
<1> HIDE DEF frame
<1>3. QED
  BY <1>1, <1>2, AppendProperties

LEMMA TypeTask == ASSUME TypeOK, TaskStep PROVE TypeOK'
<1>1. CASE StayClosed
  BY <1>1 DEF TypeOK, StayClosed, Phases, bucketVars, wireVars, ownerVars
<1>2. CASE Connect
  <2>1. \A s \in SubIds : Copies(s) \in Nat
    BY CarriersCounted DEF TypeOK, Copies
  <2>2. QED
    BY <1>2, <2>1 DEF TypeOK, Connect, recover_state, Phases, NoChannels, ownerVars
<1>3. ASSUME NEW s \in SubIds, RecoverSend(s) PROVE TypeOK'
  <2>1. [type |-> "subscribe", sub |-> s] \in Frames
    BY DEF Frames
  <2>2. toServer' \in Seq(Frames)
    BY <1>3, <2>1, AppendProperties DEF TypeOK, RecoverSend, SendSubscribe
  <2>3. sending' \in [SubIds -> Nat]
    BY <1>3 DEF TypeOK, RecoverSend
  <2>4. QED
    BY <1>3, <2>2, <2>3 DEF TypeOK, RecoverSend, bucketVars, ownerVars
<1>4. CASE RecoverDone
  BY <1>4 DEF TypeOK, RecoverDone, Phases, bucketVars, wireVars, ownerVars
<1>5. CASE RecoverFails
  BY <1>5, StartEndsType DEF TypeOK, RecoverFails, bucketVars, ownerVars
<1>6. ASSUME toClient # <<>>
      PROVE  /\ Head(toClient) \in Messages
             /\ Tail(toClient) \in Seq(Messages)
  BY <1>6, HeadTailProperties DEF TypeOK
<1>7. ASSUME Incoming("subscribed")
      PROVE  Head(toClient).chan \in Chans /\ Head(toClient).sub \in SubIds
  BY <1>6, <1>7 DEF Incoming, Messages
<1>8. CASE Confirm
  <2>1. Incoming("subscribed") /\ toClient # <<>>
    BY <1>8 DEF Confirm, Incoming
  <2>2. QED
    BY <1>6, <1>7, <1>8, <2>1
    DEF TypeOK, Confirm, emit, OnceEvents, taskVars, ownerVars
<1>9. CASE ConfirmCancelled
  <2>1. Incoming("subscribed") /\ toClient # <<>>
    BY <1>9 DEF ConfirmCancelled, Incoming
  <2>2. pendings' \in [SubIds -> Nat] /\ cancellations' \subseteq SubIds
    BY <1>7, <1>9, <2>1 DEF TypeOK, ConfirmCancelled
  <2>3. CASE open
    <3>1. {Head(toClient).chan} \subseteq Chans
      BY <1>7, <2>1
    <3>2. toServer' \in Seq(Frames)
      <4>1. SendUnsubscribe({Head(toClient).chan})
        BY <1>9, <2>3 DEF ConfirmCancelled, StartEnds
      <4>2. QED
        BY <3>1, <4>1, SendUnsubscribeType
    <3>3. QED
      BY <1>6, <1>9, <2>1, <2>2, <2>3, <3>2
      DEF TypeOK, ConfirmCancelled, taskVars, ownerVars
  <2>4. CASE ~open
    BY <1>9, <2>2, <2>4, StartEndsType DEF TypeOK, ConfirmCancelled, ownerVars
  <2>5. QED
    BY <2>3, <2>4
<1>10. CASE Dispatch
  <2>1. toClient # <<>> /\ Head(toClient).chan \in Chans
    BY <1>6, <1>10 DEF Dispatch, Incoming, Messages
  <2> DEFINE s == subscriptions[Head(toClient).chan]
  <2>2. ledger' \in [SubIds -> SUBSET OnceEvents]
    <3>1. CASE s = None
      BY <1>10, <3>1 DEF TypeOK, Dispatch
    <3>2. CASE s # None
      <4>1. s \in SubIds
        BY <2>1, <3>2 DEF TypeOK
      <4>2. ledger' = [ledger EXCEPT ![s] = @ \cup {"snapshot"}]
        BY <1>10, <3>2 DEF Dispatch, emit
      <4>3. QED
        BY <4>1, <4>2 DEF TypeOK, OnceEvents
    <3>3. QED
      BY <3>1, <3>2
  <2>3. QED
    BY <1>6, <1>10, <2>1, <2>2 DEF TypeOK, Dispatch, bucketVars, taskVars, ownerVars
<1>11. CASE RestartRequested
  BY <1>11, StartEndsType DEF TypeOK, RestartRequested, bucketVars, ownerVars
<1>12. CASE ReadEnds
  BY <1>12, StartEndsType DEF TypeOK, ReadEnds, bucketVars, ownerVars
<1>13. QED
  BY <1>1, <1>2, <1>3, <1>4, <1>5, <1>8, <1>9, <1>10, <1>11, <1>12
  DEF TaskStep, ReadMessage

\* What unsubscribe() does to the bucket, for client.unsubscribe and resubscribe.
LEMMA unsubscribeType ==
    ASSUME TypeOK, NEW s \in SubIds, unsubscribe(s)
    PROVE  /\ pendings' \in [SubIds -> Nat]
           /\ cancellations' \subseteq SubIds
           /\ subscriptions' \in [Chans -> SubIds \cup {None}]
           /\ toServer' \in Seq(Frames)
<1>1. CASE pendings[s] > 0
  <2>1. pendings[s] \in Nat /\ pendings[s] - 1 \in Nat
    BY <1>1 DEF TypeOK
  <2>2. /\ pendings' = [pendings EXCEPT ![s] = pendings[s] - 1]
        /\ cancellations' = cancellations \cup {s}
        /\ subscriptions' = subscriptions
        /\ toServer' = toServer
    BY <1>1 DEF unsubscribe
  <2>3. QED
    BY <2>1, <2>2 DEF TypeOK
<1>2. CASE ~(pendings[s] > 0)
  <2>1. Carriers(s) \subseteq Chans
    BY DEF Carriers
  <2>2. toServer' \in Seq(Frames)
    BY <1>2, <2>1, SendUnsubscribeType DEF unsubscribe
  <2>3. QED
    BY <1>2, <2>2 DEF TypeOK, unsubscribe
<1>3. QED
  BY <1>1, <1>2

LEMMA TypeOwner == ASSUME TypeOK, OwnerStep PROVE TypeOK'
<1>1. ASSUME NEW s \in SubIds PROVE [type |-> "subscribe", sub |-> s] \in Frames
  BY DEF Frames
<1>2. ASSUME NEW s \in SubIds, Subscribe(s) PROVE TypeOK'
  <2>1. toServer' \in Seq(Frames)
    BY <1>1, <1>2, AppendProperties DEF TypeOK, Subscribe, SendSubscribe
  <2>2. QED
    BY <1>2, <2>1 DEF TypeOK, Subscribe, Race, taskVars
<1>3. ASSUME NEW s \in SubIds, Unsubscribe(s) PROVE TypeOK'
  <2>1. unsubscribe(s)
    BY <1>3 DEF Unsubscribe
  <2>2. QED
    BY <1>3, <2>1, unsubscribeType DEF TypeOK, Unsubscribe, taskVars
<1>4. ASSUME NEW s \in SubIds, UnsubscribeLast(s) PROVE TypeOK'
  BY <1>4 DEF TypeOK, UnsubscribeLast, wireVars
<1>5. ASSUME NEW s \in SubIds, Resubscribe(s) PROVE TypeOK'
  <2>1. unsubscribe(s)
    BY <1>5 DEF Resubscribe
  <2>2. reissue' \in [SubIds -> Nat]
    BY <1>5, CarriersCounted DEF TypeOK, Resubscribe
  <2>3. QED
    BY <1>5, <2>1, <2>2, unsubscribeType DEF TypeOK, Resubscribe, taskVars
<1>6. ASSUME NEW s \in SubIds, Reissue(s) PROVE TypeOK'
  <2>1. toServer' \in Seq(Frames)
    BY <1>1, <1>6, AppendProperties DEF TypeOK, Reissue, SendSubscribe
  <2>2. pendings' \in [SubIds -> Nat] /\ cancellations' \subseteq SubIds
    BY <1>6 DEF TypeOK, Reissue
  <2>3. QED
    <3>1. reissue' \in [SubIds -> Nat] /\ raced' \subseteq SubIds
      BY <1>6 DEF TypeOK, Reissue, Race
    <3>2. QED
      BY <1>6, <2>1, <2>2, <3>1 DEF TypeOK, Reissue, taskVars
<1>7. ASSUME NEW s \in SubIds, ReissueFails(s) PROVE TypeOK'
  BY <1>7 DEF TypeOK, ReissueFails, bucketVars, taskVars, wireVars
<1>8. CASE Close
  BY <1>8 DEF TypeOK, Close, wireVars, ownerVars
<1>9. CASE Stopped
  BY <1>9, EmptySeq DEF TypeOK, Stopped, NoCopies, Phases, bucketVars, ownerVars
<1>10. CASE Supervised
  BY <1>10 DEF TypeOK, Supervised, NothingHeard, Phases, wireVars, ownerVars
<1>11. QED
  BY <1>2, <1>3, <1>4, <1>5, <1>6, <1>7, <1>8, <1>9, <1>10 DEF OwnerStep

LEMMA TypeEnvironment == ASSUME TypeOK, EnvironmentStep PROVE TypeOK'
<1>1. ASSUME toServer # <<>>
      PROVE  Head(toServer) \in Frames /\ Tail(toServer) \in Seq(Frames)
  BY <1>1, HeadTailProperties DEF TypeOK
<1>2. CASE ServerOpens
  <2>1. Head(toServer).sub \in SubIds /\ Tail(toServer) \in Seq(Frames)
    BY <1>1, <1>2 DEF ServerOpens, Frames
  <2>2. PICK c \in Chans :
          /\ channels' = [channels EXCEPT ![c] = Head(toServer).sub]
          /\ toClient' = toClient \o
               <<[type |-> "subscribed", chan |-> c, sub |-> Head(toServer).sub],
                 [type |-> "snapshot", chan |-> c]>>
    BY <1>2 DEF ServerOpens
  <2>3. /\ [type |-> "subscribed", chan |-> c, sub |-> Head(toServer).sub] \in Messages
        /\ [type |-> "snapshot", chan |-> c] \in Messages
    BY <2>1 DEF Messages
  <2>4. toClient' \in Seq(Messages)
    BY <2>2, <2>3, TwoMore DEF TypeOK
  <2>5. QED
    BY <1>2, <2>1, <2>2, <2>4 DEF TypeOK, ServerOpens, bucketVars, taskVars, ownerVars
<1>3. CASE ServerRefuses
  <2>1. Head(toServer).sub \in SubIds /\ Tail(toServer) \in Seq(Frames)
    BY <1>1, <1>3 DEF ServerRefuses, Frames
  <2>2. QED
    BY <1>3, <2>1 DEF TypeOK, ServerRefuses, bucketVars, taskVars, ownerVars
<1>4. CASE ServerCloses
  BY <1>1, <1>4 DEF TypeOK, ServerCloses, bucketVars, taskVars, ownerVars
<1>5. CASE ServerRestarts
  <2>1. [type |-> "restart"] \in Messages
    BY DEF Messages
  <2>2. toClient' \in Seq(Messages)
    BY <1>5, <2>1, AppendProperties DEF TypeOK, ServerRestarts
  <2>3. QED
    BY <1>5, <2>2 DEF TypeOK, ServerRestarts, bucketVars, taskVars, ownerVars
<1>6. CASE Drop
  <2>1. toClient' \in Seq(Messages)
    BY <1>6, SubSeqProperties DEF TypeOK, Drop
  <2>2. QED
    BY <1>6, <2>1, EmptySeq DEF TypeOK, Drop, bucketVars, ownerVars
<1>7. QED
  BY <1>2, <1>3, <1>4, <1>5, <1>6 DEF EnvironmentStep, ServerAnswers

LEMMA TypeNext == TypeOK /\ [Next]_vars => TypeOK'
<1>1. ASSUME TypeOK, UNCHANGED vars PROVE TypeOK'
  BY <1>1 DEF TypeOK, vars, bucketVars, taskVars, wireVars, ownerVars
<1>2. QED
  BY <1>1, TypeTask, TypeOwner, TypeEnvironment DEF Next

\* The state of the bucket, of the wire and of the server's table stays of the
\* types the code gives it, whatever the owner, the network and the server do.
THEOREM TypeCorrect == Spec => []TypeOK
BY TypeInit, TypeNext, PTL DEF Spec

-----------------------------------------------------------------------------
(* The wire: what is in flight agrees with the server's table and with the *)
(* bucket's.                                                               *)

LEMMA AppendFacts ==
    ASSUME NEW S, NEW q \in Seq(S), NEW e \in S
    PROVE  /\ Append(q, e) \in Seq(S)
           /\ Len(Append(q, e)) = Len(q) + 1
           /\ \A i \in 1 .. Len(q) : Append(q, e)[i] = q[i]
           /\ Append(q, e)[Len(q) + 1] = e
           /\ Len(q) \in Nat
BY AppendProperties, LenProperties

LEMMA TailFacts ==
    ASSUME NEW S, NEW q \in Seq(S), q # <<>>
    PROVE  /\ Len(q) \in Nat \ {0}
           /\ Len(Tail(q)) = Len(q) - 1
           /\ \A i \in 1 .. Len(q) - 1 : Tail(q)[i] = q[i + 1]
           /\ Head(q) = q[1]
           /\ Head(q) \in S
BY HeadTailProperties, EmptySeq, LenProperties

LEMMA WireInit == Init => WireInv
BY EmptySeq DEF Init, WireInv, WireOfConnection, ConfirmsTrue, ConfirmsUnique,
   ClosesGivenUp, ChannelOwner, NoLeakedChannel, Connected

\* Without a connection there is nothing to disagree about.
LEMMA Disconnected ==
    ASSUME open' = FALSE, toServer' = <<>>, toClient' = <<>>,
           phase' \in {"idle", "down"}
    PROVE  WireInv'
BY EmptySeq DEF WireInv, WireOfConnection, ConfirmsTrue, ConfirmsUnique,
   ClosesGivenUp, ChannelOwner, NoLeakedChannel, Connected

LEMMA StartEndsWire == ASSUME StartEnds PROVE WireInv'
BY Disconnected DEF StartEnds

\* Neither the socket's death nor a step between two phases of one connection
\* touches the wire or the two tables.
LEMMA SameWire ==
    ASSUME WireInv, UNCHANGED <<subscriptions, toServer, toClient, channels>>,
           open' => open, Connected' <=> Connected
    PROVE  WireInv'
<1>1. ConfirmsTrue' /\ ConfirmsUnique' /\ ClosesGivenUp' /\ WireOfConnection'
  BY DEF WireInv, WireOfConnection, ConfirmsTrue, ConfirmsUnique, ClosesGivenUp,
     InFlightConfirm
<1>2. ChannelOwner' /\ NoLeakedChannel'
  BY DEF WireInv, ChannelOwner, NoLeakedChannel, Confirmed, InFlightConfirm,
     InFlightClose
<1>3. QED
  BY <1>1, <1>2 DEF WireInv

\* A subscribe frame says nothing of a channel.
LEMMA SubscribeSent ==
    ASSUME TypeOK, WireInv, open, NEW s \in SubIds, SendSubscribe(s),
           UNCHANGED <<subscriptions, toClient, channels, open, phase>>
    PROVE  WireInv'
<1> DEFINE frame == [type |-> "subscribe", sub |-> s]
<1>1. frame \in Frames /\ frame.type = "subscribe"
  BY DEF Frames
<1>2. toServer \in Seq(Frames) /\ toServer' = Append(toServer, frame)
  BY DEF TypeOK, SendSubscribe
<1> HIDE DEF frame
<1>3. /\ Len(toServer') = Len(toServer) + 1 /\ Len(toServer) \in Nat
      /\ \A i \in 1 .. Len(toServer) : toServer'[i] = toServer[i]
      /\ toServer'[Len(toServer) + 1] = frame
  BY <1>1, <1>2, AppendFacts
<1>4. \A c : InFlightClose(c) => InFlightClose(c)'
  BY <1>3 DEF InFlightClose
<1>5. ClosesGivenUp'
  <2>1. ASSUME NEW i \in 1 .. Len(toServer'), toServer'[i].type = "unsubscribe"
        PROVE  i \in 1 .. Len(toServer) /\ toServer'[i] = toServer[i]
    BY <1>1, <1>3, <2>1
  <2>2. QED
    BY <2>1 DEF WireInv, ClosesGivenUp, InFlightConfirm
<1>6. QED
  BY <1>4, <1>5 DEF WireInv, WireOfConnection, ConfirmsTrue, ConfirmsUnique,
     ChannelOwner, Confirmed, NoLeakedChannel, InFlightConfirm, Connected

\* An unsubscribe frame is sent for channels the bucket has just given up, of
\* which no confirmation is left.
LEMMA UnsubscribeSent ==
    ASSUME TypeOK, WireInv, open, NEW cs \in SUBSET Chans, SendUnsubscribe(cs),
           UNCHANGED <<channels, open, phase>>,
           \A c \in cs : subscriptions'[c] = None /\ ~InFlightConfirm(c)',
           \A c \in Chans \ cs : subscriptions'[c] = subscriptions[c],
           \A c \in Chans \ cs : InFlightConfirm(c) => InFlightConfirm(c)',
           \A c \in Chans : InFlightConfirm(c)' => InFlightConfirm(c),
           ConfirmsTrue', ConfirmsUnique'
    PROVE  WireInv'
<1> DEFINE frame == [type |-> "unsubscribe", chans |-> cs]
<1>1. frame \in Frames /\ frame.type = "unsubscribe" /\ frame.chans = cs
  BY DEF Frames
<1>2. toServer \in Seq(Frames) /\ toServer' = Append(toServer, frame)
  BY DEF TypeOK, SendUnsubscribe
<1> HIDE DEF frame
<1>3. /\ Len(toServer') = Len(toServer) + 1 /\ Len(toServer) \in Nat
      /\ \A i \in 1 .. Len(toServer) : toServer'[i] = toServer[i]
      /\ toServer'[Len(toServer) + 1] = frame
  BY <1>1, <1>2, AppendFacts
<1>4. \A c : InFlightClose(c) => InFlightClose(c)'
  BY <1>3 DEF InFlightClose
<1>5. \A c \in cs : InFlightClose(c)'
  BY <1>1, <1>3 DEF InFlightClose
<1>6. \A i \in 1 .. Len(toServer) : toServer[i].type = "unsubscribe" => toServer[i].chans \subseteq Chans
  BY <1>2, ElementOfSeq DEF Frames
<1>7. ClosesGivenUp'
  <2>1. ASSUME NEW i \in 1 .. Len(toServer'), toServer'[i].type = "unsubscribe",
               NEW c \in toServer'[i].chans
        PROVE  subscriptions'[c] = None /\ ~InFlightConfirm(c)'
    <3>1. CASE i = Len(toServer) + 1
      BY <1>1, <1>3, <2>1, <3>1
    <3>2. CASE i \in 1 .. Len(toServer)
      <4>1. c \in Chans /\ subscriptions[c] = None /\ ~InFlightConfirm(c)
        BY <1>3, <1>6, <2>1, <3>2 DEF WireInv, ClosesGivenUp
      <4>2. QED
        BY <4>1
    <3>3. QED
      BY <1>3, <3>1, <3>2
  <2>2. QED
    BY <2>1 DEF ClosesGivenUp
<1>8. ChannelOwner'
  BY DEF WireInv, ChannelOwner, Confirmed, Connected
<1>9. NoLeakedChannel'
  BY <1>4, <1>5 DEF WireInv, NoLeakedChannel
<1>10. WireOfConnection'
  BY DEF WireInv, WireOfConnection, Connected
<1>11. QED
  BY <1>7, <1>8, <1>9, <1>10 DEF WireInv

LEMMA WireTask == ASSUME TypeOK, WireInv, TaskStep PROVE WireInv'
<1>1. CASE StayClosed
  <2>1. open = FALSE /\ toClient = <<>> /\ toServer = <<>>
    BY <1>1 DEF StayClosed, TypeOK, WireInv, WireOfConnection, Connected
  <2>2. QED
    BY <1>1, <2>1, Disconnected DEF StayClosed, wireVars
<1>2. CASE Connect
  BY <1>2, EmptySeq DEF Connect, recover_state, NoChannels, WireInv, WireOfConnection,
     ConfirmsTrue, ConfirmsUnique, ClosesGivenUp, ChannelOwner, Confirmed,
     NoLeakedChannel, Connected
<1>3. ASSUME NEW s \in SubIds, RecoverSend(s) PROVE WireInv'
  BY <1>3, SubscribeSent DEF RecoverSend, bucketVars
<1>4. CASE RecoverDone
  BY <1>4, SameWire DEF RecoverDone, bucketVars, wireVars, Connected
<1>5. CASE RecoverFails
  BY <1>5, StartEndsWire DEF RecoverFails
<1>6. ASSUME toClient # <<>>
      PROVE  /\ Len(toClient) \in Nat \ {0}
             /\ Len(Tail(toClient)) = Len(toClient) - 1
             /\ \A i \in 1 .. Len(toClient) - 1 : Tail(toClient)[i] = toClient[i + 1]
             /\ Head(toClient) = toClient[1]
             /\ Head(toClient) \in Messages
  BY <1>6, TailFacts DEF TypeOK
<1>7. ASSUME Incoming("subscribed"), toClient' = Tail(toClient),
             NEW c, c = Head(toClient).chan
      PROVE  /\ c \in Chans /\ Head(toClient).sub \in SubIds
             /\ channels[c] = Head(toClient).sub /\ subscriptions[c] = None
             /\ InFlightConfirm(c) /\ ~InFlightConfirm(c)'
             /\ \A d : d # c => (InFlightConfirm(d) <=> InFlightConfirm(d)')
  <2>1. toClient # <<>> /\ Head(toClient).type = "subscribed"
    BY <1>7 DEF Incoming
  <2>2. 1 \in 1 .. Len(toClient) /\ toClient[1].type = "subscribed" /\ toClient[1].chan = c
    BY <1>6, <1>7, <2>1
  <2>3. c \in Chans /\ Head(toClient).sub \in SubIds
    BY <1>6, <1>7, <2>1 DEF Messages
  <2>4. channels[c] = Head(toClient).sub /\ subscriptions[c] = None
    BY <1>6, <2>1, <2>2 DEF WireInv, ConfirmsTrue
  <2>5. ~InFlightConfirm(c)'
    <3>1. ASSUME NEW i \in 1 .. Len(toClient'), toClient'[i].type = "subscribed",
                 toClient'[i].chan = c
          PROVE  FALSE
      <4>1. i + 1 \in 1 .. Len(toClient) /\ toClient'[i] = toClient[i + 1] /\ i + 1 # 1
        BY <1>6, <1>7, <2>1, <3>1
      <4>2. QED
        BY <2>2, <3>1, <4>1 DEF WireInv, ConfirmsUnique
    <3>2. QED
      BY <3>1 DEF InFlightConfirm
  <2>6. ASSUME NEW d, d # c PROVE InFlightConfirm(d) <=> InFlightConfirm(d)'
    <3>1. ASSUME NEW i \in 1 .. Len(toClient), toClient[i].type = "subscribed",
                 toClient[i].chan = d
          PROVE  InFlightConfirm(d)'
      <4>1. i # 1 /\ i - 1 \in 1 .. Len(toClient')
        BY <1>6, <1>7, <2>1, <2>2, <2>6, <3>1
      <4>2. toClient'[i - 1] = toClient[i]
        BY <1>6, <1>7, <2>1, <4>1
      <4>3. QED
        BY <3>1, <4>1, <4>2 DEF InFlightConfirm
    <3>2. ASSUME NEW i \in 1 .. Len(toClient'), toClient'[i].type = "subscribed",
                 toClient'[i].chan = d
          PROVE  InFlightConfirm(d)
      <4>1. i + 1 \in 1 .. Len(toClient) /\ toClient'[i] = toClient[i + 1]
        BY <1>6, <1>7, <2>1, <3>2
      <4>2. QED
        BY <3>2, <4>1 DEF InFlightConfirm
    <3>3. QED
      BY <3>1, <3>2 DEF InFlightConfirm
  <2>7. QED
    BY <2>2, <2>3, <2>4, <2>5, <2>6 DEF InFlightConfirm
<1>8. ASSUME toClient # <<>>, toClient' = Tail(toClient),
             NEW i \in 1 .. Len(toClient')
      PROVE  i + 1 \in 1 .. Len(toClient) /\ toClient'[i] = toClient[i + 1]
  BY <1>6, <1>8
<1>9. CASE Confirm
  <2>0. PICK c, s : c = Head(toClient).chan /\ s = Head(toClient).sub
    OBVIOUS
  <2>1. /\ Incoming("subscribed") /\ toClient # <<>> /\ toClient' = Tail(toClient)
        /\ subscriptions' = [subscriptions EXCEPT ![c] = s]
        /\ UNCHANGED <<open, phase, toServer, channels>>
    BY <1>9, <2>0 DEF Confirm, Incoming, taskVars
  <2>2. /\ c \in Chans /\ s \in SubIds
        /\ channels[c] = s /\ subscriptions[c] = None
        /\ InFlightConfirm(c) /\ ~InFlightConfirm(c)'
        /\ \A d : d # c => (InFlightConfirm(d) <=> InFlightConfirm(d)')
    BY <1>7, <2>0, <2>1
  <2>3. subscriptions'[c] = s /\ \A d \in Chans : d # c => subscriptions'[d] = subscriptions[d]
    BY <2>1, <2>2 DEF TypeOK
  <2>4. ConfirmsTrue'
    <3>1. ASSUME NEW i \in 1 .. Len(toClient'), toClient'[i].type = "subscribed"
          PROVE  /\ channels'[toClient'[i].chan] = toClient'[i].sub
                 /\ subscriptions'[toClient'[i].chan] = None
      <4>1. i + 1 \in 1 .. Len(toClient) /\ toClient'[i] = toClient[i + 1]
        BY <1>8, <2>1
      <4>2. toClient'[i].chan # c
        BY <2>2, <3>1 DEF InFlightConfirm
      <4>3. toClient'[i].chan \in Chans
        BY <3>1, <4>1, ElementOfSeq DEF TypeOK, Messages
      <4>4. QED
        BY <2>1, <2>3, <3>1, <4>1, <4>2, <4>3 DEF WireInv, ConfirmsTrue
    <3>2. QED
      BY <3>1 DEF ConfirmsTrue
  <2>5. ConfirmsUnique'
    BY <1>8, <2>1 DEF WireInv, ConfirmsUnique
  <2>6. ClosesGivenUp'
    <3>1. \A i \in 1 .. Len(toServer) : toServer[i].type = "unsubscribe" =>
              c \notin toServer[i].chans /\ toServer[i].chans \subseteq Chans
      <4>1. \A i \in 1 .. Len(toServer) : toServer[i] \in Frames
        BY ElementOfSeq DEF TypeOK
      <4>2. QED
        BY <2>2, <4>1 DEF Frames, WireInv, ClosesGivenUp
    <3>2. QED
      BY <2>1, <2>2, <2>3, <3>1 DEF WireInv, ClosesGivenUp
  <2>7. ChannelOwner'
    BY <2>1, <2>2, <2>3 DEF WireInv, ChannelOwner, Confirmed, Connected
  <2>8. NoLeakedChannel'
    BY <2>1, <2>2, <2>3 DEF WireInv, NoLeakedChannel, InFlightClose
  <2>9. WireOfConnection'
    BY <2>1, <1>9 DEF WireInv, WireOfConnection, Connected, Confirm, Incoming
  <2>10. QED
    BY <2>4, <2>5, <2>6, <2>7, <2>8, <2>9 DEF WireInv
<1>10. CASE ConfirmCancelled
  <2>0. PICK c : c = Head(toClient).chan
    OBVIOUS
  <2>1. CASE ~open
    BY <1>10, <2>1, StartEndsWire DEF ConfirmCancelled
  <2>2. CASE open
    <3>1. /\ Incoming("subscribed") /\ toClient # <<>>
          /\ UNCHANGED <<subscriptions, channels>>
      BY <1>10 DEF ConfirmCancelled, Incoming
    <3>2. /\ SendUnsubscribe({c}) /\ toClient' = Tail(toClient)
          /\ UNCHANGED <<open, phase>>
      BY <1>10, <2>0, <2>2 DEF ConfirmCancelled, taskVars
    <3>3. /\ c \in Chans /\ subscriptions[c] = None
          /\ InFlightConfirm(c) /\ ~InFlightConfirm(c)'
          /\ \A d : d # c => (InFlightConfirm(d) <=> InFlightConfirm(d)')
      BY <1>7, <2>0, <3>1, <3>2
    <3>4. ConfirmsTrue' /\ ConfirmsUnique'
      BY <1>8, <3>1, <3>2 DEF WireInv, ConfirmsTrue, ConfirmsUnique
    <3>5. {c} \in SUBSET Chans
      BY <3>3
    <3>6. /\ \A d \in {c} : subscriptions'[d] = None /\ ~InFlightConfirm(d)'
          /\ \A d \in Chans \ {c} : subscriptions'[d] = subscriptions[d]
          /\ \A d \in Chans \ {c} : InFlightConfirm(d) => InFlightConfirm(d)'
          /\ \A d \in Chans : InFlightConfirm(d)' => InFlightConfirm(d)
      BY <3>1, <3>3
    <3>7. QED
      BY <2>2, <3>1, <3>2, <3>4, <3>5, <3>6, UnsubscribeSent
  <2>3. QED
    BY <2>1, <2>2
<1>11. CASE Dispatch
  <2>1. /\ toClient # <<>> /\ toClient' = Tail(toClient)
        /\ Head(toClient).type = "snapshot"
        /\ UNCHANGED <<subscriptions, open, phase, toServer, channels>>
    BY <1>11 DEF Dispatch, Incoming, bucketVars, taskVars
  <2>2. \A d : InFlightConfirm(d) <=> InFlightConfirm(d)'
    <3>1. ASSUME NEW d, NEW i \in 1 .. Len(toClient), toClient[i].type = "subscribed",
                 toClient[i].chan = d
          PROVE  InFlightConfirm(d)'
      <4>1. i # 1 /\ i - 1 \in 1 .. Len(toClient')
        BY <1>6, <2>1, <3>1
      <4>2. toClient'[i - 1] = toClient[i]
        BY <1>6, <2>1, <4>1
      <4>3. QED
        BY <3>1, <4>1, <4>2 DEF InFlightConfirm
    <3>2. ASSUME NEW d, NEW i \in 1 .. Len(toClient'), toClient'[i].type = "subscribed",
                 toClient'[i].chan = d
          PROVE  InFlightConfirm(d)
      <4>1. i + 1 \in 1 .. Len(toClient) /\ toClient'[i] = toClient[i + 1]
        BY <1>6, <2>1, <3>2
      <4>2. QED
        BY <3>2, <4>1 DEF InFlightConfirm
    <3>3. QED
      BY <3>1, <3>2 DEF InFlightConfirm
  <2>3. ConfirmsTrue' /\ ConfirmsUnique'
    BY <1>8, <2>1 DEF WireInv, ConfirmsTrue, ConfirmsUnique
  <2>4. ClosesGivenUp' /\ ChannelOwner' /\ NoLeakedChannel'
    BY <2>1, <2>2 DEF WireInv, ClosesGivenUp, ChannelOwner, Confirmed, Connected,
       NoLeakedChannel, InFlightClose
  <2>5. WireOfConnection'
    BY <1>11, <2>1 DEF WireInv, WireOfConnection, Connected, Dispatch, Incoming
  <2>6. QED
    BY <2>3, <2>4, <2>5 DEF WireInv
<1>12. CASE RestartRequested
  BY <1>12, StartEndsWire DEF RestartRequested
<1>13. CASE ReadEnds
  BY <1>13, StartEndsWire DEF ReadEnds
<1>14. QED
  BY <1>1, <1>2, <1>3, <1>4, <1>5, <1>9, <1>10, <1>11, <1>12, <1>13
  DEF TaskStep, ReadMessage

\* unsubscribe() closes what was confirmed; what is pending has no channel yet.
LEMMA unsubscribeWire ==
    ASSUME TypeOK, WireInv, open, NEW s \in SubIds, unsubscribe(s),
           UNCHANGED <<toClient, channels, open, phase>>
    PROVE  WireInv'
<1>1. CASE pendings[s] > 0
  BY <1>1, SameWire DEF unsubscribe, Connected
<1>2. CASE ~(pendings[s] > 0)
  <2>1. /\ SendUnsubscribe(Carriers(s))
        /\ subscriptions' = [c \in Chans |-> IF subscriptions[c] = s
                                             THEN None ELSE subscriptions[c]]
    BY <1>2 DEF unsubscribe
  <2>2. Carriers(s) \in SUBSET Chans /\ \A c \in Carriers(s) : subscriptions[c] # None
    BY DEF Carriers
  <2>3. \A c \in Carriers(s) : ~InFlightConfirm(c)
    BY <2>2 DEF WireInv, ConfirmsTrue, InFlightConfirm
  <2>4. \A c \in Chans : InFlightConfirm(c) <=> InFlightConfirm(c)'
    BY DEF InFlightConfirm
  <2>5. /\ \A c \in Carriers(s) : subscriptions'[c] = None
        /\ \A c \in Chans \ Carriers(s) : subscriptions'[c] = subscriptions[c]
        /\ \A c \in Chans : subscriptions[c] = None => subscriptions'[c] = None
    BY <2>1 DEF Carriers
  <2>6. \A i \in 1 .. Len(toClient) : toClient[i].type = "subscribed" => toClient[i].chan \in Chans
    BY ElementOfSeq DEF TypeOK, Messages
  <2>7. ConfirmsTrue' /\ ConfirmsUnique'
    BY <2>5, <2>6 DEF WireInv, ConfirmsTrue, ConfirmsUnique
  <2>8. QED
    BY <2>1, <2>2, <2>3, <2>4, <2>5, <2>7, UnsubscribeSent
<1>3. QED
  BY <1>1, <1>2

LEMMA WireOwner == ASSUME TypeOK, WireInv, OwnerStep PROVE WireInv'
<1>1. ASSUME NEW s \in SubIds, Subscribe(s) PROVE WireInv'
  BY <1>1, SubscribeSent DEF Subscribe, taskVars
<1>2. ASSUME NEW s \in SubIds, Unsubscribe(s) PROVE WireInv'
  BY <1>2, unsubscribeWire DEF Unsubscribe, taskVars
<1>3. ASSUME NEW s \in SubIds, UnsubscribeLast(s) PROVE WireInv'
  BY <1>3, SameWire DEF UnsubscribeLast, wireVars, Connected
<1>4. ASSUME NEW s \in SubIds, Resubscribe(s) PROVE WireInv'
  BY <1>4, unsubscribeWire DEF Resubscribe, taskVars
<1>5. ASSUME NEW s \in SubIds, Reissue(s) PROVE WireInv'
  BY <1>5, SubscribeSent DEF Reissue, taskVars
<1>6. ASSUME NEW s \in SubIds, ReissueFails(s) PROVE WireInv'
  BY <1>6, SameWire DEF ReissueFails, bucketVars, taskVars, wireVars, Connected
<1>7. CASE Close
  BY <1>7, SameWire DEF Close, wireVars, Connected
<1>8. CASE Stopped
  BY <1>8, Disconnected DEF Stopped
<1>9. CASE Supervised
  <2>1. open = FALSE /\ toClient = <<>> /\ toServer = <<>>
    BY <1>9 DEF Supervised, TypeOK, WireInv, WireOfConnection, Connected
  <2>2. QED
    BY <1>9, <2>1, Disconnected DEF Supervised, wireVars
<1>10. QED
  BY <1>1, <1>2, <1>3, <1>4, <1>5, <1>6, <1>7, <1>8, <1>9 DEF OwnerStep

LEMMA WireEnvironment == ASSUME TypeOK, WireInv, EnvironmentStep PROVE WireInv'
<1>1. ASSUME toServer # <<>>, toServer' = Tail(toServer)
      PROVE  /\ Head(toServer) = toServer[1] /\ Head(toServer) \in Frames
             /\ 1 \in 1 .. Len(toServer)
             /\ \A i \in 1 .. Len(toServer') :
                   i + 1 \in 1 .. Len(toServer) /\ toServer'[i] = toServer[i + 1]
             /\ \A i \in 1 .. Len(toServer) :
                   i # 1 => i - 1 \in 1 .. Len(toServer') /\ toServer'[i - 1] = toServer[i]
  BY <1>1, TailFacts DEF TypeOK
<1>2. ASSUME toServer # <<>>, toServer' = Tail(toServer), NEW c,
             Head(toServer).type = "unsubscribe" => c \notin Head(toServer).chans,
             InFlightClose(c)
      PROVE  InFlightClose(c)'
  <2>1. PICK i \in 1 .. Len(toServer) :
           toServer[i].type = "unsubscribe" /\ c \in toServer[i].chans
    BY <1>2 DEF InFlightClose
  <2>2. i # 1 /\ i - 1 \in 1 .. Len(toServer') /\ toServer'[i - 1] = toServer[i]
    BY <1>1, <1>2, <2>1
  <2>3. QED
    BY <2>1, <2>2 DEF InFlightClose
<1>3. CASE ServerOpens
  <2>0. PICK c \in Chans :
          /\ Fresh(c)
          /\ channels' = [channels EXCEPT ![c] = Head(toServer).sub]
          /\ toClient' = toClient \o
               <<[type |-> "subscribed", chan |-> c, sub |-> Head(toServer).sub],
                 [type |-> "snapshot", chan |-> c]>>
    BY <1>3 DEF ServerOpens
  <2>1. /\ open /\ toServer # <<>> /\ toServer' = Tail(toServer)
        /\ Head(toServer).type = "subscribe"
        /\ UNCHANGED <<subscriptions, open, phase>>
    BY <1>3 DEF ServerOpens, bucketVars, taskVars
  <2> DEFINE s == Head(toServer).sub
             confirm == [type |-> "subscribed", chan |-> c, sub |-> s]
             snapshot == [type |-> "snapshot", chan |-> c]
  <2>2. s \in SubIds
    BY <1>1, <2>1 DEF Frames
  <2>3. /\ confirm \in Messages /\ snapshot \in Messages
        /\ confirm.type = "subscribed" /\ confirm.chan = c /\ confirm.sub = s
        /\ snapshot.type = "snapshot"
    BY <2>2 DEF Messages
  <2>4. toClient \in Seq(Messages) /\ toClient' = toClient \o <<confirm, snapshot>>
        /\ channels' = [channels EXCEPT ![c] = s]
    BY <2>0 DEF TypeOK
  <2> HIDE DEF s, confirm, snapshot
  <2>5. /\ Len(toClient') = Len(toClient) + 2 /\ Len(toClient) \in Nat
        /\ \A i \in 1 .. Len(toClient) : toClient'[i] = toClient[i]
        /\ toClient'[Len(toClient) + 1] = confirm
        /\ toClient'[Len(toClient) + 2] = snapshot
    BY <2>3, <2>4, TwoMore, LenProperties
  <2>6. ASSUME NEW i \in 1 .. Len(toClient'), toClient'[i].type = "subscribed"
        PROVE  \/ i = Len(toClient) + 1 /\ toClient'[i] = confirm
               \/ i \in 1 .. Len(toClient) /\ toClient'[i] = toClient[i]
    <3>1. i # Len(toClient) + 2
      BY <2>3, <2>5, <2>6
    <3>2. QED
      BY <2>5, <2>6, <3>1
  <2>7. \A i \in 1 .. Len(toClient) : toClient[i].type = "subscribed" =>
            toClient[i].chan # c /\ toClient[i].chan \in Chans
    <3>1. \A i \in 1 .. Len(toClient) : toClient[i] \in Messages
      BY <2>4, ElementOfSeq
    <3>2. QED
      BY <2>0, <3>1 DEF Fresh, Messages
  <2>8. /\ channels'[c] = s /\ subscriptions[c] = None
        /\ \A d \in Chans : d # c => channels'[d] = channels[d]
    BY <2>0, <2>4 DEF TypeOK, Fresh
  <2>9. /\ InFlightConfirm(c)'
        /\ \A d : d # c => (InFlightConfirm(d)' <=> InFlightConfirm(d))
    <3>1. InFlightConfirm(c)'
      BY <2>3, <2>5 DEF InFlightConfirm
    <3>2. ASSUME NEW d, d # c, InFlightConfirm(d)' PROVE InFlightConfirm(d)
      BY <2>3, <2>6, <3>2 DEF InFlightConfirm
    <3>3. ASSUME NEW d, InFlightConfirm(d) PROVE InFlightConfirm(d)'
      BY <2>5, <3>3 DEF InFlightConfirm
    <3>4. QED
      BY <3>1, <3>2, <3>3
  <2>10. ConfirmsTrue'
    BY <2>1, <2>3, <2>6, <2>7, <2>8 DEF WireInv, ConfirmsTrue
  <2>11. ConfirmsUnique'
    BY <2>3, <2>6, <2>7 DEF WireInv, ConfirmsUnique
  <2>12. ClosesGivenUp'
    <3>1. \A i \in 1 .. Len(toServer) : toServer[i].type = "unsubscribe" => c \notin toServer[i].chans
      BY <2>0 DEF Fresh
    <3>2. ASSUME NEW i \in 1 .. Len(toServer'), toServer'[i].type = "unsubscribe",
                 NEW d \in toServer'[i].chans
          PROVE  subscriptions'[d] = None /\ ~InFlightConfirm(d)'
      <4>1. i + 1 \in 1 .. Len(toServer) /\ toServer'[i] = toServer[i + 1]
        BY <1>1, <2>1
      <4>2. d # c /\ subscriptions[d] = None /\ ~InFlightConfirm(d)
        BY <3>1, <3>2, <4>1 DEF WireInv, ClosesGivenUp
      <4>3. QED
        BY <2>1, <2>9, <4>2
    <3>3. QED
      BY <3>2 DEF ClosesGivenUp
  <2>13. ChannelOwner'
    BY <2>1, <2>8 DEF WireInv, ChannelOwner, Confirmed, Connected
  <2>14. NoLeakedChannel'
    <3>1. \A d : InFlightClose(d) => InFlightClose(d)'
      BY <1>2, <2>1
    <3>2. QED
      BY <2>1, <2>8, <2>9, <3>1 DEF WireInv, NoLeakedChannel
  <2>15. WireOfConnection'
    BY <2>1 DEF WireInv, WireOfConnection, Connected
  <2>16. QED
    BY <2>10, <2>11, <2>12, <2>13, <2>14, <2>15 DEF WireInv
<1>4. CASE ServerRefuses
  <2>1. /\ open /\ toServer # <<>> /\ toServer' = Tail(toServer)
        /\ Head(toServer).type = "subscribe"
        /\ UNCHANGED <<subscriptions, open, phase, toClient, channels>>
    BY <1>4 DEF ServerRefuses, bucketVars, taskVars
  <2>2. ClosesGivenUp'
    BY <1>1, <2>1 DEF WireInv, ClosesGivenUp, InFlightConfirm
  <2>3. NoLeakedChannel'
    BY <1>2, <2>1 DEF WireInv, NoLeakedChannel, InFlightConfirm
  <2>4. QED
    BY <2>1, <2>2, <2>3 DEF WireInv, WireOfConnection, ConfirmsTrue, ConfirmsUnique,
       ChannelOwner, Confirmed, Connected
<1>5. CASE ServerCloses
  <2>0. PICK cs : cs = Head(toServer).chans
    OBVIOUS
  <2>1. /\ open /\ toServer # <<>> /\ toServer' = Tail(toServer)
        /\ Head(toServer).type = "unsubscribe"
        /\ channels' = [c \in Chans |-> IF c \in cs THEN None ELSE channels[c]]
        /\ UNCHANGED <<subscriptions, open, phase, toClient>>
    BY <1>5, <2>0 DEF ServerCloses, bucketVars, taskVars
  <2>2. \A c \in cs : subscriptions[c] = None /\ ~InFlightConfirm(c)
    BY <1>1, <2>0, <2>1 DEF WireInv, ClosesGivenUp
  <2>3. \A c \in Chans \ cs : channels'[c] = channels[c]
    BY <2>1
  <2>4. ConfirmsTrue'
    <3>1. \A i \in 1 .. Len(toClient) : toClient[i].type = "subscribed" =>
              toClient[i].chan \in Chans \ cs
      <4>1. \A i \in 1 .. Len(toClient) : toClient[i] \in Messages
        BY ElementOfSeq DEF TypeOK
      <4>2. QED
        BY <2>2, <4>1 DEF InFlightConfirm, Messages
    <3>2. QED
      BY <2>1, <2>3, <3>1 DEF WireInv, ConfirmsTrue
  <2>5. ClosesGivenUp'
    BY <1>1, <2>1 DEF WireInv, ClosesGivenUp, InFlightConfirm
  <2>6. ChannelOwner'
    BY <2>1, <2>2, <2>3 DEF WireInv, ChannelOwner, Confirmed, Connected
  <2>7. NoLeakedChannel'
    <3>1. ASSUME NEW c \in Chans, channels'[c] # None
          PROVE  subscriptions'[c] = channels'[c] \/ InFlightConfirm(c)' \/ InFlightClose(c)'
      <4>1. c \notin cs /\ channels[c] # None
        BY <2>1, <3>1
      <4>2. InFlightClose(c) => InFlightClose(c)'
        BY <1>2, <2>0, <2>1, <4>1
      <4>3. QED
        BY <2>1, <2>3, <4>1, <4>2 DEF WireInv, NoLeakedChannel, InFlightConfirm
    <3>2. QED
      BY <3>1 DEF NoLeakedChannel
  <2>8. QED
    BY <2>1, <2>4, <2>5, <2>6, <2>7 DEF WireInv, WireOfConnection, ConfirmsUnique, Connected
<1>6. CASE ServerRestarts
  <2> DEFINE restart == [type |-> "restart"]
  <2>1. restart \in Messages /\ restart.type # "subscribed"
    BY DEF Messages
  <2>2. /\ toClient \in Seq(Messages) /\ toClient' = Append(toClient, restart)
        /\ open /\ UNCHANGED <<subscriptions, open, phase, toServer, channels>>
    BY <1>6 DEF TypeOK, ServerRestarts, bucketVars, taskVars
  <2> HIDE DEF restart
  <2>3. /\ Len(toClient') = Len(toClient) + 1 /\ Len(toClient) \in Nat
        /\ \A i \in 1 .. Len(toClient) : toClient'[i] = toClient[i]
        /\ toClient'[Len(toClient) + 1] = restart
    BY <2>1, <2>2, AppendFacts
  <2>4. ASSUME NEW i \in 1 .. Len(toClient'), toClient'[i].type = "subscribed"
        PROVE  i \in 1 .. Len(toClient) /\ toClient'[i] = toClient[i]
    BY <2>1, <2>3, <2>4
  <2>5. ConfirmsTrue' /\ ConfirmsUnique'
    BY <2>2, <2>4 DEF WireInv, ConfirmsTrue, ConfirmsUnique
  <2>6. \A d : InFlightConfirm(d) <=> InFlightConfirm(d)'
    BY <2>3, <2>4 DEF InFlightConfirm
  <2>7. QED
    BY <2>2, <2>5, <2>6 DEF WireInv, WireOfConnection, ClosesGivenUp, ChannelOwner,
       Confirmed, NoLeakedChannel, InFlightClose, Connected
<1>7. CASE Drop
  <2>1. PICK n \in 0 .. Len(toClient) : toClient' = SubSeq(toClient, 1, n)
    BY <1>7 DEF Drop
  <2>2. /\ open /\ open' = FALSE /\ toServer' = <<>>
        /\ UNCHANGED <<subscriptions, phase, channels>>
    BY <1>7 DEF Drop, bucketVars
  <2>3. /\ Len(toClient') = n /\ \A i \in 1 .. n : toClient'[i] = toClient[i]
        /\ Len(toClient) \in Nat
    BY <2>1, SubSeqProperties, LenProperties DEF TypeOK
  <2>4. \A i \in 1 .. Len(toClient') : i \in 1 .. Len(toClient) /\ toClient'[i] = toClient[i]
    BY <2>1, <2>3
  <2>5. ConfirmsTrue' /\ ConfirmsUnique'
    BY <2>2, <2>4 DEF WireInv, ConfirmsTrue, ConfirmsUnique
  <2>6. QED
    BY <2>2, <2>5, EmptySeq DEF WireInv, WireOfConnection, ClosesGivenUp,
       ChannelOwner, Confirmed, NoLeakedChannel, Connected
<1>8. QED
  BY <1>3, <1>4, <1>5, <1>6, <1>7 DEF EnvironmentStep, ServerAnswers

LEMMA WireNext == TypeOK /\ WireInv /\ [Next]_vars => WireInv'
<1>1. ASSUME TypeOK, WireInv, UNCHANGED vars PROVE WireInv'
  BY <1>1, SameWire DEF vars, bucketVars, taskVars, wireVars, Connected
<1>2. QED
  BY <1>1, WireTask, WireOwner, WireEnvironment DEF Next

THEOREM WireCorrect == Spec => []WireInv
BY WireInit, WireNext, TypeCorrect, PTL DEF Spec

\* An update is never dispatched under another subscription's name: what
\* __subscriptions says of a chan_id is what the server means by it on this
\* connection, for any number of reconnections and any reuse of chan_ids.
THEOREM UpdatesReachTheirOwner == Spec => []ChannelOwner
BY WireCorrect, PTL DEF WireInv

\* A request unsubscribed while pending does not leave its channel streaming:
\* __on_subscribed closes it, whatever the owner does in between.
THEOREM NoChannelLeaks == Spec => []NoLeakedChannel
BY WireCorrect, PTL DEF WireInv

=============================================================================
