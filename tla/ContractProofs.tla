---------------------------- MODULE ContractProofs ----------------------------
(***************************************************************************)
(* What a bucket owes its owner, proved for any number of sub_ids and      *)
(* channels and any limit.                                                 *)
(*                                                                         *)
(* First a request and its entry: a sub_id that was never asked for again  *)
(* too early has one entry and one request, the request has its answer on  *)
(* the way, and a connection announces what it carries anew.               *)
(*                                                                         *)
(* From that, the contract: a sub_id is carried exactly while it is        *)
(* wanted, the limit is passed only where a subscribe() overtakes a        *)
(* resubscribe(), and a bucket none of whose sub_ids was asked for again   *)
(* too early keeps the SubscriptionContract.                               *)
(***************************************************************************)
EXTENDS BucketProofs

\* Where the subscribe frames and the confirmations of s are on the wire.
SentAt(s, i) == i \in 1 .. Len(toServer) /\ toServer[i] = [type |-> "subscribe", sub |-> s]
AnsweredAt(s, i) ==
    i \in 1 .. Len(toClient) /\ toClient[i].type = "subscribed" /\ toClient[i].sub = s

Sent(s) == \E i : SentAt(s, i)
Answered(s) == \E i : AnsweredAt(s, i)

\* There is one request for s at most, in one place.
OneRequest(s) ==
    /\ \A i, j : SentAt(s, i) /\ SentAt(s, j) => i = j
    /\ \A i, j : AnsweredAt(s, i) /\ AnsweredAt(s, j) => i = j
    /\ Sent(s) => ~Answered(s)
    /\ sending[s] > 0 => sending[s] = 1 /\ ~Sent(s) /\ ~Answered(s)

\* s is pending, cancelled, carried by one channel, or about to be reissued;
\* while a request is on its way it is one of the first two.
OneEntry(s) ==
    /\ pendings[s] <= 1 /\ reissue[s] <= 1
    /\ \A c, d \in Carriers(s) : c = d
    /\ pendings[s] > 0 => Carriers(s) = {} /\ reissue[s] = 0
    /\ s \in cancellations => pendings[s] = 0 /\ Carriers(s) = {} /\ reissue[s] = 0
    /\ reissue[s] > 0 => Carriers(s) = {}
    /\ InFlight(s) => pendings[s] > 0 \/ s \in cancellations

\* While the socket is up a request has an answer to wait for.
Expected(s) ==
    open /\ (pendings[s] > 0 \/ s \in cancellations) => InFlight(s) \/ s \in refused

Orderly(s) == OneRequest(s) /\ OneEntry(s) /\ Expected(s)

EntryInv == \A s \in SubIds \ raced : Orderly(s)

\* The ledger is clean while nothing can be announced.
LedgerInv ==
    /\ \A s \in SubIds : sending[s] > 0 => phase = "recovering" /\ ledger[s] = {}
    /\ phase = "down" /\ ~closing => \A s \in ids : ledger[s] = {}

-----------------------------------------------------------------------------
(* One request: what each kind of step does to the requests on the wire.   *)

\* The frames, or the confirmations, of s are as many as they were.
SameFrames(s) ==
    /\ \A i, j : SentAt(s, i)' /\ SentAt(s, j)' => i = j
    /\ Sent(s)' <=> Sent(s)

SameAnswers(s) ==
    /\ \A i, j : AnsweredAt(s, i)' /\ AnsweredAt(s, j)' => i = j
    /\ Answered(s)' <=> Answered(s)

LEMMA OnItsWay == \A s : InFlight(s) <=> sending[s] > 0 \/ Sent(s) \/ Answered(s)
BY DEF InFlight, Sent, Answered, SentAt, AnsweredAt

LEMMA OnItsWayNext ==
    \A s : InFlight(s)' <=> sending'[s] > 0 \/ Sent(s)' \/ Answered(s)'
BY DEF InFlight, Sent, Answered, SentAt, AnsweredAt

LEMMA SameRequest ==
    ASSUME NEW s, OneRequest(s), SameFrames(s), SameAnswers(s), sending'[s] = sending[s]
    PROVE  OneRequest(s)' /\ (InFlight(s)' <=> InFlight(s))
BY OnItsWay, OnItsWayNext DEF OneRequest, SameFrames, SameAnswers

LEMMA UnchangedFrames ==
    ASSUME NEW s, OneRequest(s), UNCHANGED toServer PROVE SameFrames(s)
BY DEF OneRequest, SameFrames, Sent, SentAt

LEMMA UnchangedAnswers ==
    ASSUME NEW s, OneRequest(s), UNCHANGED toClient PROVE SameAnswers(s)
BY DEF OneRequest, SameAnswers, Answered, AnsweredAt

\* A subscribe frame is one more for its sub_id and none for the others.
LEMMA FrameAppended ==
    ASSUME TypeOK, NEW r \in SubIds, SendSubscribe(r)
    PROVE  \A s, i : SentAt(s, i)' <=> SentAt(s, i) \/ (s = r /\ i = Len(toServer) + 1)
<1> DEFINE frame == [type |-> "subscribe", sub |-> r]
<1>1. frame \in Frames /\ \A s : frame = [type |-> "subscribe", sub |-> s] <=> s = r
  BY DEF Frames
<1>2. toServer \in Seq(Frames) /\ toServer' = Append(toServer, frame)
  BY DEF TypeOK, SendSubscribe
<1> HIDE DEF frame
<1>3. /\ Len(toServer') = Len(toServer) + 1 /\ Len(toServer) \in Nat
      /\ \A i \in 1 .. Len(toServer) : toServer'[i] = toServer[i]
      /\ toServer'[Len(toServer) + 1] = frame
  BY <1>1, <1>2, AppendFacts
<1>4. QED
  BY <1>1, <1>3 DEF SentAt

LEMMA OthersFrames ==
    ASSUME TypeOK, NEW r \in SubIds, SendSubscribe(r), NEW s, s # r, OneRequest(s)
    PROVE  SameFrames(s)
BY FrameAppended DEF OneRequest, SameFrames, Sent

LEMMA OwnFrame ==
    ASSUME TypeOK, NEW r \in SubIds, SendSubscribe(r), ~Sent(r)
    PROVE  Sent(r)' /\ \A i, j : SentAt(r, i)' /\ SentAt(r, j)' => i = j
BY FrameAppended DEF Sent

\* An unsubscribe frame asks for nothing.
LEMMA CloseAppended ==
    ASSUME TypeOK, NEW cs \in SUBSET Chans, SendUnsubscribe(cs), NEW s, OneRequest(s)
    PROVE  SameFrames(s)
<1> DEFINE frame == [type |-> "unsubscribe", chans |-> cs]
<1>1. frame \in Frames /\ frame.type = "unsubscribe"
  BY DEF Frames
<1>2. toServer \in Seq(Frames) /\ toServer' = Append(toServer, frame)
  BY DEF TypeOK, SendUnsubscribe
<1> HIDE DEF frame
<1>3. /\ Len(toServer') = Len(toServer) + 1 /\ Len(toServer) \in Nat
      /\ \A i \in 1 .. Len(toServer) : toServer'[i] = toServer[i]
      /\ toServer'[Len(toServer) + 1] = frame
  BY <1>1, <1>2, AppendFacts
<1>4. frame # [type |-> "subscribe", sub |-> s]
  BY <1>1
<1>5. \A i : SentAt(s, i)' <=> SentAt(s, i)
  BY <1>3, <1>4 DEF SentAt
<1>6. QED
  BY <1>5 DEF OneRequest, SameFrames, Sent

\* The head of the wire to the server is taken.
LEMMA FrameTaken ==
    ASSUME TypeOK, toServer # <<>>, toServer' = Tail(toServer)
    PROVE  /\ \A s, i : SentAt(s, i)' => i \in Nat /\ i # 0 /\ SentAt(s, i + 1)
           /\ \A s, i : SentAt(s, i) => i \in Nat /\ (i # 1 => SentAt(s, i - 1)')
           /\ \A s : SentAt(s, 1) <=> Head(toServer) = [type |-> "subscribe", sub |-> s]
<1>1. /\ Len(toServer) \in Nat \ {0} /\ Len(toServer') = Len(toServer) - 1
      /\ \A i \in 1 .. Len(toServer) - 1 : toServer'[i] = toServer[i + 1]
      /\ Head(toServer) = toServer[1]
  BY TailFacts DEF TypeOK
<1>2. ASSUME NEW s, NEW i, SentAt(s, i)' PROVE i \in Nat /\ i # 0 /\ SentAt(s, i + 1)
  BY <1>1, <1>2 DEF SentAt
<1>3. ASSUME NEW s, NEW i, SentAt(s, i) PROVE i \in Nat /\ (i # 1 => SentAt(s, i - 1)')
  BY <1>1, <1>3 DEF SentAt
<1>4. ASSUME NEW s PROVE SentAt(s, 1) <=> Head(toServer) = [type |-> "subscribe", sub |-> s]
  BY <1>1 DEF SentAt
<1>5. QED
  BY <1>2, <1>3, <1>4

LEMMA OtherFrameTaken ==
    ASSUME TypeOK, toServer # <<>>, toServer' = Tail(toServer),
           NEW s, OneRequest(s), Head(toServer) # [type |-> "subscribe", sub |-> s]
    PROVE  SameFrames(s)
<1>1. ~SentAt(s, 1)
  BY FrameTaken
<1>2. Sent(s)' <=> Sent(s)
  BY <1>1, FrameTaken DEF Sent
<1>3. ASSUME NEW i, NEW j, SentAt(s, i)', SentAt(s, j)' PROVE i = j
  <2>1. /\ i \in Nat /\ j \in Nat
        /\ SentAt(s, i + 1) /\ SentAt(s, j + 1)
    BY <1>3, FrameTaken
  <2>2. i + 1 = j + 1
    BY <2>1 DEF OneRequest
  <2>3. QED
    BY <2>1, <2>2
<1>4. QED
  BY <1>2, <1>3 DEF SameFrames

LEMMA OwnFrameTaken ==
    ASSUME TypeOK, toServer # <<>>, toServer' = Tail(toServer),
           NEW s, OneRequest(s), Head(toServer) = [type |-> "subscribe", sub |-> s]
    PROVE  Sent(s) /\ \A i : ~SentAt(s, i)'
<1>1. SentAt(s, 1)
  BY FrameTaken
<1>2. ASSUME NEW i, SentAt(s, i)' PROVE FALSE
  <2>1. i \in Nat /\ i # 0 /\ SentAt(s, i + 1)
    BY <1>2, FrameTaken
  <2>2. i + 1 = 1
    BY <1>1, <2>1 DEF OneRequest
  <2>3. QED
    BY <2>1, <2>2
<1>3. QED
  BY <1>1, <1>2 DEF Sent

\* The head of the wire to the client is read.
LEMMA MessageRead ==
    ASSUME TypeOK, toClient # <<>>, toClient' = Tail(toClient)
    PROVE  /\ \A s, i : AnsweredAt(s, i)' => i \in Nat /\ i # 0 /\ AnsweredAt(s, i + 1)
           /\ \A s, i : AnsweredAt(s, i) => i \in Nat /\ (i # 1 => AnsweredAt(s, i - 1)')
           /\ \A s : AnsweredAt(s, 1) <=>
                    Head(toClient).type = "subscribed" /\ Head(toClient).sub = s
<1>1. /\ Len(toClient) \in Nat \ {0} /\ Len(toClient') = Len(toClient) - 1
      /\ \A i \in 1 .. Len(toClient) - 1 : toClient'[i] = toClient[i + 1]
      /\ Head(toClient) = toClient[1]
  BY TailFacts DEF TypeOK
<1>2. ASSUME NEW s, NEW i, AnsweredAt(s, i)'
      PROVE  i \in Nat /\ i # 0 /\ AnsweredAt(s, i + 1)
  BY <1>1, <1>2 DEF AnsweredAt
<1>3. ASSUME NEW s, NEW i, AnsweredAt(s, i)
      PROVE  i \in Nat /\ (i # 1 => AnsweredAt(s, i - 1)')
  BY <1>1, <1>3 DEF AnsweredAt
<1>4. ASSUME NEW s PROVE AnsweredAt(s, 1) <=>
                  Head(toClient).type = "subscribed" /\ Head(toClient).sub = s
  BY <1>1 DEF AnsweredAt
<1>5. QED
  BY <1>2, <1>3, <1>4

LEMMA OtherMessageRead ==
    ASSUME TypeOK, toClient # <<>>, toClient' = Tail(toClient), NEW s, OneRequest(s),
           ~(Head(toClient).type = "subscribed" /\ Head(toClient).sub = s)
    PROVE  SameAnswers(s)
<1>1. ~AnsweredAt(s, 1)
  BY MessageRead
<1>2. Answered(s)' <=> Answered(s)
  BY <1>1, MessageRead DEF Answered
<1>3. ASSUME NEW i, NEW j, AnsweredAt(s, i)', AnsweredAt(s, j)' PROVE i = j
  <2>1. /\ i \in Nat /\ j \in Nat
        /\ AnsweredAt(s, i + 1) /\ AnsweredAt(s, j + 1)
    BY <1>3, MessageRead
  <2>2. i + 1 = j + 1
    BY <2>1 DEF OneRequest
  <2>3. QED
    BY <2>1, <2>2
<1>4. QED
  BY <1>2, <1>3 DEF SameAnswers

LEMMA OwnMessageRead ==
    ASSUME TypeOK, toClient # <<>>, toClient' = Tail(toClient), NEW s, OneRequest(s),
           Head(toClient).type = "subscribed", Head(toClient).sub = s
    PROVE  Answered(s) /\ \A i : ~AnsweredAt(s, i)'
<1>1. AnsweredAt(s, 1)
  BY MessageRead
<1>2. ASSUME NEW i, AnsweredAt(s, i)' PROVE FALSE
  <2>1. i \in Nat /\ i # 0 /\ AnsweredAt(s, i + 1)
    BY <1>2, MessageRead
  <2>2. i + 1 = 1
    BY <1>1, <2>1 DEF OneRequest
  <2>3. QED
    BY <2>1, <2>2
<1>3. QED
  BY <1>1, <1>2 DEF Answered

\* The server's answer: a confirmation, a snapshot and nothing else.
LEMMA AnswerAppended ==
    ASSUME TypeOK, NEW c \in Chans, NEW r \in SubIds,
           toClient' = toClient \o <<[type |-> "subscribed", chan |-> c, sub |-> r],
                                     [type |-> "snapshot", chan |-> c]>>
    PROVE  \A s, i : AnsweredAt(s, i)' <=>
                AnsweredAt(s, i) \/ (s = r /\ i = Len(toClient) + 1)
<1> DEFINE confirm == [type |-> "subscribed", chan |-> c, sub |-> r]
           snapshot == [type |-> "snapshot", chan |-> c]
<1>1. /\ confirm \in Messages /\ confirm.type = "subscribed" /\ confirm.sub = r
      /\ snapshot \in Messages /\ snapshot.type = "snapshot"
  BY DEF Messages
<1>2. toClient \in Seq(Messages) /\ toClient' = toClient \o <<confirm, snapshot>>
  BY DEF TypeOK
<1> HIDE DEF confirm, snapshot
<1>3. /\ Len(toClient') = Len(toClient) + 2 /\ Len(toClient) \in Nat
      /\ \A i \in 1 .. Len(toClient) : toClient'[i] = toClient[i]
      /\ toClient'[Len(toClient) + 1] = confirm
      /\ toClient'[Len(toClient) + 2] = snapshot
  <2>1. toClient \in Seq(Messages) /\ confirm \in Messages /\ snapshot \in Messages
    BY <1>1, <1>2
  <2>2. Len(toClient) \in Nat
    BY <2>1, LenProperties
  <2>3. /\ Len(toClient \o <<confirm, snapshot>>) = Len(toClient) + 2
        /\ \A i \in 1 .. Len(toClient) : (toClient \o <<confirm, snapshot>>)[i] = toClient[i]
        /\ (toClient \o <<confirm, snapshot>>)[Len(toClient) + 1] = confirm
        /\ (toClient \o <<confirm, snapshot>>)[Len(toClient) + 2] = snapshot
    BY <2>1, TwoMore
  <2>4. QED
    BY <1>2, <2>2, <2>3
<1>4. ASSUME NEW s, NEW i PROVE AnsweredAt(s, i)' <=>
                AnsweredAt(s, i) \/ (s = r /\ i = Len(toClient) + 1)
  <2>1. CASE i \in 1 .. Len(toClient)
    BY <1>3, <2>1 DEF AnsweredAt
  <2>2. CASE i = Len(toClient) + 1
    <3>1. toClient'[i] = confirm /\ i \in 1 .. Len(toClient') /\ ~AnsweredAt(s, i)
      BY <1>3, <2>2 DEF AnsweredAt
    <3>2. QED
      BY <1>1, <2>2, <3>1 DEF AnsweredAt
  <2>3. CASE i = Len(toClient) + 2
    <3>1. toClient'[i] = snapshot /\ ~AnsweredAt(s, i)
      BY <1>3, <2>3 DEF AnsweredAt
    <3>2. ~AnsweredAt(s, i)'
      BY <1>1, <3>1 DEF AnsweredAt
    <3>3. QED
      BY <1>3, <2>3, <3>1, <3>2
  <2>4. CASE i \notin 1 .. Len(toClient) + 2
    BY <1>3, <2>4 DEF AnsweredAt
  <2>5. QED
    BY <1>3, <2>1, <2>2, <2>3, <2>4
<1>5. QED
  BY <1>4

LEMMA RestartAppended ==
    ASSUME TypeOK, toClient' = Append(toClient, [type |-> "restart"]), NEW s, OneRequest(s)
    PROVE  SameAnswers(s)
<1> DEFINE restart == [type |-> "restart"]
<1>1. restart \in Messages /\ restart.type # "subscribed"
  BY DEF Messages
<1>2. toClient \in Seq(Messages) /\ toClient' = Append(toClient, restart)
  BY DEF TypeOK
<1> HIDE DEF restart
<1>3. /\ Len(toClient') = Len(toClient) + 1 /\ Len(toClient) \in Nat
      /\ \A i \in 1 .. Len(toClient) : toClient'[i] = toClient[i]
      /\ toClient'[Len(toClient) + 1] = restart
  BY <1>1, <1>2, AppendFacts
<1>4. \A i : AnsweredAt(s, i)' <=> AnsweredAt(s, i)
  BY <1>1, <1>3 DEF AnsweredAt
<1>5. QED
  BY <1>4 DEF OneRequest, SameAnswers, Answered

\* The socket's death loses answers and brings none.
LEMMA AnswersLost ==
    ASSUME TypeOK, Drop, NEW s, OneRequest(s)
    PROVE  OneRequest(s)' /\ (InFlight(s)' => InFlight(s))
<1>1. PICK n \in 0 .. Len(toClient) : toClient' = SubSeq(toClient, 1, n)
  BY DEF Drop
<1>2. /\ Len(toClient') = n /\ \A i \in 1 .. n : toClient'[i] = toClient[i]
      /\ Len(toClient) \in Nat
  BY <1>1, SubSeqProperties, LenProperties DEF TypeOK
<1>3. \A i : AnsweredAt(s, i)' => AnsweredAt(s, i)
  BY <1>1, <1>2 DEF AnsweredAt
<1>4. \A i : ~SentAt(s, i)'
  BY EmptySeq DEF Drop, SentAt
<1>5. sending' = sending
  BY DEF Drop
<1>6. OneRequest(s)'
  BY <1>3, <1>4, <1>5 DEF OneRequest, Sent, Answered
<1>7. QED
  BY <1>3, <1>4, <1>5, <1>6, OnItsWay, OnItsWayNext DEF Sent, Answered

\* On a wire that has been cleared there is nothing but what is to be sent.
LEMMA Cleared ==
    ASSUME toServer' = <<>>, toClient' = <<>>, NEW s, sending'[s] \in {0, 1}
    PROVE  OneRequest(s)' /\ (InFlight(s)' <=> sending'[s] = 1)
<1>1. \A i : ~SentAt(s, i)' /\ ~AnsweredAt(s, i)'
  BY EmptySeq DEF SentAt, AnsweredAt
<1>2. QED
  BY <1>1, OnItsWayNext DEF OneRequest, Sent, Answered

-----------------------------------------------------------------------------
(* One entry: what each step does to the entry of a sub_id never raced.    *)

\* The bucket's books about s are as they were.
SameEntry(s) ==
    /\ pendings'[s] = pendings[s] /\ reissue'[s] = reissue[s]
    /\ Carriers(s)' = Carriers(s)
    /\ s \in cancellations' <=> s \in cancellations

LEMMA Stays ==
    ASSUME NEW s, Orderly(s), SameEntry(s), OneRequest(s)', InFlight(s)' => InFlight(s),
           open' => open /\ (InFlight(s) => InFlight(s)'),
           s \in refused => s \in refused'
    PROVE  Orderly(s)'
BY DEF Orderly, OneEntry, Expected, SameEntry

\* Without a socket there is no request, and none is waited for.
LEMMA Unplugged ==
    ASSUME NEW s \in SubIds, Orderly(s), SameEntry(s),
           toServer' = <<>>, toClient' = <<>>, open' = FALSE, sending' = NoCopies
    PROVE  Orderly(s)'
<1>1. sending'[s] = 0
  BY DEF NoCopies
<1>2. OneRequest(s)' /\ ~InFlight(s)'
  BY <1>1, Cleared
<1>3. QED
  BY <1>2 DEF Orderly, OneEntry, Expected, SameEntry

LEMMA StartEndsOrderly ==
    ASSUME StartEnds, NEW s \in SubIds, Orderly(s), SameEntry(s)
    PROVE  Orderly(s)'
BY Unplugged DEF StartEnds

\* A step that leaves the wire alone, whatever becomes of the socket.
LEMMA WireUntouched ==
    ASSUME NEW s, Orderly(s), UNCHANGED <<toServer, toClient, sending, refused>>, open' => open
    PROVE  /\ OneRequest(s)' /\ (InFlight(s)' <=> InFlight(s))
           /\ SameEntry(s) => Orderly(s)'
<1>1. OneRequest(s)' /\ (InFlight(s)' <=> InFlight(s))
  BY SameRequest, UnchangedFrames, UnchangedAnswers DEF Orderly
<1>2. QED
  BY <1>1, Stays

LEMMA OneOrNone ==
    ASSUME TypeOK, NEW s \in SubIds, OneEntry(s)
    PROVE  /\ Cardinality(Carriers(s)) \in {0, 1}
           /\ Cardinality(Carriers(s)) = 0 <=> Carriers(s) = {}
           /\ Copies(s) \in {0, 1}
           /\ Copies(s) = 1 <=> has(s)
<1>1. IsFiniteSet(Carriers(s))
  BY ChansAssumption, FS_Subset DEF Carriers
<1>2. Cardinality(Carriers(s)) = 0 <=> Carriers(s) = {}
  BY <1>1, FS_EmptySet
<1>3. ASSUME NEW c \in Carriers(s) PROVE Cardinality(Carriers(s)) = 1
  <2>1. Carriers(s) = {c}
    BY <1>3 DEF OneEntry
  <2>2. QED
    BY <2>1, FS_Singleton
<1>4. pendings[s] \in Nat /\ pendings[s] <= 1 /\ (pendings[s] > 0 => Carriers(s) = {})
  BY DEF TypeOK, OneEntry
<1>5. QED
  BY <1>2, <1>3, <1>4 DEF Copies, has, ids

LEMMA ConnectOrderly ==
    ASSUME TypeOK, Connect, NEW s \in SubIds, Orderly(s) PROVE Orderly(s)'
<1>1. /\ toServer' = <<>> /\ toClient' = <<>> /\ reissue' = reissue
      /\ pendings'[s] = Copies(s) /\ sending'[s] = Copies(s)
      /\ cancellations' = {}
  BY DEF Connect, recover_state, ownerVars
<1>2. Carriers(s)' = {}
  BY NoneAssumption DEF Connect, recover_state, NoChannels, Carriers
<1>3. Copies(s) \in {0, 1}
  BY OneOrNone DEF Orderly
<1>4. OneRequest(s)' /\ (InFlight(s)' <=> sending'[s] = 1)
  BY <1>1, <1>3, Cleared
<1>5. Copies(s) = 1 => reissue[s] = 0
  <2>1. Copies(s) = 1 => pendings[s] > 0 \/ Carriers(s) # {}
    BY OneOrNone DEF Orderly, has, ids
  <2>2. QED
    BY <2>1 DEF Orderly, OneEntry, TypeOK
<1>6. reissue[s] <= 1
  BY DEF Orderly, OneEntry
<1>7. QED
  BY <1>1, <1>2, <1>3, <1>4, <1>5, <1>6 DEF Orderly, OneEntry, Expected

LEMMA RecoverSendOrderly ==
    ASSUME TypeOK, NEW r \in SubIds, RecoverSend(r), NEW s \in SubIds, Orderly(s)
    PROVE  Orderly(s)'
<1>1. /\ SendSubscribe(r) /\ toClient' = toClient /\ sending[r] > 0
      /\ sending' = [sending EXCEPT ![r] = @ - 1]
      /\ UNCHANGED <<open, refused>> /\ OneRequest(s)
  BY DEF RecoverSend, Orderly
<1>2. SameEntry(s)
  BY DEF RecoverSend, SameEntry, bucketVars, ownerVars, Carriers
<1>3. OneRequest(s)' /\ (InFlight(s)' <=> InFlight(s))
  <2>1. CASE s = r
    <3>1. sending[s] = 1 /\ ~Sent(s) /\ ~Answered(s)
      BY <1>1, <2>1 DEF OneRequest
    <3>2. sending'[s] = 0
      BY <1>1, <2>1, <3>1 DEF TypeOK
    <3>3. SameAnswers(s) /\ Sent(s)' /\ \A i, j : SentAt(s, i)' /\ SentAt(s, j)' => i = j
      BY <1>1, <2>1, <3>1, UnchangedAnswers, OwnFrame
    <3>4. QED
      BY <3>1, <3>2, <3>3, OnItsWay, OnItsWayNext DEF OneRequest, SameAnswers
  <2>2. CASE s # r
    <3>1. sending'[s] = sending[s]
      BY <1>1, <2>2 DEF TypeOK
    <3>2. SameFrames(s) /\ SameAnswers(s)
      BY <1>1, <2>2, OthersFrames, UnchangedAnswers
    <3>3. QED
      BY <1>1, <3>1, <3>2, SameRequest
  <2>3. QED
    BY <2>1, <2>2
<1>4. QED
  BY <1>1, <1>2, <1>3, Stays

LEMMA ConfirmOrderly ==
    ASSUME TypeOK, WireInv, Confirm, NEW s \in SubIds, Orderly(s) PROVE Orderly(s)'
<1> DEFINE c == Head(toClient).chan
           r == Head(toClient).sub
<1>1. /\ toClient # <<>> /\ toClient' = Tail(toClient) /\ Head(toClient).type = "subscribed"
      /\ r \notin cancellations
      /\ pendings' = [pendings EXCEPT ![r] = 0]
      /\ subscriptions' = [subscriptions EXCEPT ![c] = r]
      /\ UNCHANGED <<cancellations, toServer, refused, open, sending, reissue>>
  BY DEF Confirm, Incoming, taskVars, ownerVars
<1>2. c \in Chans /\ r \in SubIds /\ subscriptions[c] = None /\ OneRequest(s)
  <2>1. Head(toClient) \in Messages /\ Len(toClient) \in Nat \ {0} /\ Head(toClient) = toClient[1]
    BY <1>1, TailFacts DEF TypeOK
  <2>2. QED
    BY <1>1, <2>1 DEF Messages, WireInv, ConfirmsTrue, Orderly
<1> HIDE DEF c, r
<1>3. /\ \A d \in Chans : subscriptions'[d] = IF d = c THEN r ELSE subscriptions[d]
      /\ \A t \in SubIds : pendings'[t] = IF t = r THEN 0 ELSE pendings[t]
  BY <1>1, <1>2 DEF TypeOK
<1>4. CASE s = r
  <2>1. Answered(s) /\ \A i : ~AnsweredAt(s, i)'
    BY <1>1, <1>2, <1>4, OwnMessageRead DEF r
  <2>2. ~Sent(s) /\ sending[s] = 0
    BY <2>1, <1>2 DEF OneRequest, TypeOK
  <2>3. SameFrames(s)
    BY <1>1, <1>2, UnchangedFrames
  <2>4. OneRequest(s)' /\ ~InFlight(s)'
    BY <1>1, <2>1, <2>2, <2>3, OnItsWayNext DEF OneRequest, SameFrames, Answered
  <2>5. Carriers(s) = {} /\ reissue[s] = 0 /\ s \notin cancellations
    BY <1>1, <1>4, <2>1, OnItsWay DEF Orderly, OneEntry
  <2>6. Carriers(s)' = {c}
    BY <1>2, <1>3, <1>4, <2>5 DEF Carriers
  <2>7. QED
    BY <1>1, <1>2, <1>3, <1>4, <2>4, <2>5, <2>6 DEF Orderly, OneEntry, Expected
<1>5. CASE s # r
  <2>1. SameFrames(s) /\ SameAnswers(s)
    BY <1>1, <1>2, <1>5, UnchangedFrames, OtherMessageRead DEF r
  <2>2. OneRequest(s)' /\ (InFlight(s)' <=> InFlight(s))
    BY <1>1, <1>2, <2>1, SameRequest
  <2>3. Carriers(s)' = Carriers(s)
    BY <1>2, <1>3, <1>5, NoneAssumption DEF Carriers
  <2>4. SameEntry(s)
    BY <1>1, <1>3, <1>5, <2>3 DEF SameEntry
  <2>5. QED
    BY <1>1, <2>2, <2>4, Stays
<1>6. QED
  BY <1>4, <1>5

LEMMA ConfirmCancelledOrderly ==
    ASSUME TypeOK, ConfirmCancelled, NEW s \in SubIds, Orderly(s) PROVE Orderly(s)'
<1> DEFINE c == Head(toClient).chan
           r == Head(toClient).sub
<1>1. /\ toClient # <<>> /\ Head(toClient).type = "subscribed"
      /\ r \in cancellations
      /\ pendings' = [pendings EXCEPT ![r] = 0]
      /\ cancellations' = cancellations \ {r}
      /\ UNCHANGED <<subscriptions, refused, reissue>>
      /\ \/ /\ open /\ SendUnsubscribe({c}) /\ toClient' = Tail(toClient)
            /\ UNCHANGED <<open, sending>>
         \/ ~open /\ StartEnds
  BY DEF ConfirmCancelled, Incoming, taskVars, ownerVars
<1>2. {c} \in SUBSET Chans /\ r \in SubIds /\ OneRequest(s)
  <2>1. Head(toClient) \in Messages
    BY <1>1, TailFacts DEF TypeOK
  <2>2. QED
    BY <1>1, <2>1 DEF Messages, Orderly
<1> HIDE DEF c, r
<1>3. /\ \A t \in SubIds : pendings'[t] = IF t = r THEN 0 ELSE pendings[t]
      /\ Carriers(s)' = Carriers(s)
  BY <1>1, <1>2 DEF TypeOK, Carriers
<1>4. OneRequest(s)' /\ (s = r => ~InFlight(s)') /\ (s # r /\ open => (InFlight(s)' <=> InFlight(s)))
         /\ (InFlight(s)' => InFlight(s)) /\ (open' => open)
  <2>1. CASE ~open /\ StartEnds
    <3>1. sending'[s] = 0 /\ toServer' = <<>> /\ toClient' = <<>> /\ open' = FALSE
      BY <2>1 DEF StartEnds, NoCopies
    <3>2. QED
      BY <2>1, <3>1, Cleared
  <2>2. CASE open /\ SendUnsubscribe({c}) /\ toClient' = Tail(toClient)
                  /\ UNCHANGED <<open, sending>>
    <3>1. SameFrames(s)
      BY <1>2, <2>2, CloseAppended
    <3>2. CASE s = r
      <4>1. Answered(s) /\ \A i : ~AnsweredAt(s, i)'
        BY <1>1, <1>2, <2>2, <3>2, OwnMessageRead DEF r
      <4>2. ~Sent(s) /\ sending[s] = 0
        BY <1>2, <4>1 DEF OneRequest, TypeOK
      <4>3. QED
        BY <2>2, <3>1, <3>2, <4>1, <4>2, OnItsWayNext DEF OneRequest, SameFrames, Answered
    <3>3. CASE s # r
      <4>1. SameAnswers(s)
        BY <1>1, <1>2, <2>2, <3>3, OtherMessageRead DEF r
      <4>2. QED
        BY <1>2, <2>2, <3>1, <3>3, <4>1, SameRequest
    <3>4. QED
      BY <3>2, <3>3
  <2>3. QED
    BY <1>1, <2>1, <2>2
<1>5. CASE s = r
  <2>1. Carriers(s) = {} /\ reissue[s] = 0
    BY <1>1, <1>5 DEF Orderly, OneEntry
  <2>2. QED
    BY <1>1, <1>2, <1>3, <1>4, <1>5, <2>1 DEF Orderly, OneEntry, Expected
<1>6. CASE s # r
  <2>1. SameEntry(s)
    BY <1>1, <1>3, <1>6 DEF SameEntry
  <2>2. QED
    BY <1>1, <1>4, <1>6, <2>1, Stays
<1>7. QED
  BY <1>5, <1>6

LEMMA TaskOrderly ==
    ASSUME TypeOK, WireInv, TaskStep, NEW s \in SubIds, Orderly(s) PROVE Orderly(s)'
<1>1. CASE StayClosed \/ RecoverDone
  <2>1. SameEntry(s)
    BY <1>1 DEF StayClosed, RecoverDone, SameEntry, bucketVars, ownerVars, Carriers
  <2>2. QED
    BY <1>1, <2>1, WireUntouched DEF StayClosed, RecoverDone, wireVars
<1>2. CASE RecoverFails \/ RestartRequested \/ ReadEnds
  <2>1. SameEntry(s)
    BY <1>2 DEF RecoverFails, RestartRequested, ReadEnds, SameEntry, bucketVars, ownerVars, Carriers
  <2>2. QED
    BY <1>2, <2>1, StartEndsOrderly DEF RecoverFails, RestartRequested, ReadEnds
<1>3. CASE Dispatch
  <2>1. /\ SameEntry(s) /\ OneRequest(s)
        /\ toClient # <<>> /\ toClient' = Tail(toClient) /\ Head(toClient).type = "snapshot"
        /\ UNCHANGED <<toServer, sending, open, refused>>
    BY <1>3 DEF Dispatch, Incoming, SameEntry, bucketVars, taskVars, ownerVars, Carriers, Orderly
  <2>2. SameFrames(s) /\ SameAnswers(s)
    BY <2>1, UnchangedFrames, OtherMessageRead
  <2>3. QED
    BY <2>1, <2>2, SameRequest, Stays
<1>4. QED
  BY <1>1, <1>2, <1>3, ConnectOrderly, RecoverSendOrderly, ConfirmOrderly, ConfirmCancelledOrderly
  DEF TaskStep, ReadMessage

\* A request of s that nothing else is about is the only one.
LEMMA NewRequest ==
    ASSUME TypeOK, NEW r \in SubIds, SendSubscribe(r), UNCHANGED <<toClient, sending>>,
           NEW s, OneRequest(s), s = r => ~InFlight(s)
    PROVE  /\ OneRequest(s)'
           /\ s = r => InFlight(s)'
           /\ s # r => (InFlight(s)' <=> InFlight(s))
<1>1. SameAnswers(s)
  BY UnchangedAnswers
<1>2. CASE s = r
  <2>1. ~Sent(s) /\ ~Answered(s) /\ ~(sending[s] > 0)
    BY <1>2, OnItsWay
  <2>2. Sent(s)' /\ \A i, j : SentAt(s, i)' /\ SentAt(s, j)' => i = j
    BY <1>2, <2>1, OwnFrame
  <2>3. QED
    BY <1>1, <1>2, <2>1, <2>2, OnItsWayNext DEF OneRequest, SameAnswers
<1>3. CASE s # r
  <2>1. SameFrames(s)
    BY <1>3, OthersFrames
  <2>2. QED
    BY <1>1, <1>3, <2>1, SameRequest
<1>4. QED
  BY <1>2, <1>3

\* What is carried, pending or cancelled is not being reissued, and what is none
\* of them has no request on its way.
LEMMA EntryFacts ==
    ASSUME TypeOK, NEW s \in SubIds, Orderly(s)
    PROVE  /\ pendings[s] \in {0, 1} /\ reissue[s] \in {0, 1}
           /\ has(s) \/ s \in cancellations => reissue[s] = 0
           /\ has(s) => s \notin cancellations
           /\ ~has(s) => pendings[s] = 0 /\ Carriers(s) = {}
           /\ ~has(s) /\ s \notin cancellations => ~InFlight(s)
           /\ Carriers(s) # {} => has(s) /\ pendings[s] = 0 /\ ~InFlight(s)
           /\ OneRequest(s)
<1>1. /\ pendings[s] \in Nat /\ reissue[s] \in Nat
      /\ has(s) <=> pendings[s] > 0 \/ Carriers(s) # {}
  BY DEF TypeOK, has, ids
<1>2. /\ OneRequest(s) /\ pendings[s] <= 1 /\ reissue[s] <= 1
      /\ pendings[s] > 0 => Carriers(s) = {} /\ reissue[s] = 0
      /\ s \in cancellations => pendings[s] = 0 /\ Carriers(s) = {} /\ reissue[s] = 0
      /\ reissue[s] > 0 => Carriers(s) = {}
      /\ InFlight(s) => pendings[s] > 0 \/ s \in cancellations
  BY DEF Orderly, OneEntry
<1>3. QED
  BY <1>1, <1>2

LEMMA SubscribeOrderly ==
    ASSUME TypeOK, NEW r \in SubIds, Subscribe(r),
           NEW s \in SubIds, s \notin raced', Orderly(s)
    PROVE  Orderly(s)'
<1>1. /\ SendSubscribe(r) /\ r \notin ids
      /\ pendings' = [pendings EXCEPT ![r] = @ + 1]
      /\ UNCHANGED <<toClient, sending, open, refused, subscriptions, cancellations, reissue>>
  BY DEF Subscribe, taskVars
<1>2. \A t \in SubIds : pendings'[t] = IF t = r THEN pendings[t] + 1 ELSE pendings[t]
  BY <1>1 DEF TypeOK
<1>3. s = r => s \notin cancellations /\ reissue[s] = 0 /\ ~has(s)
  <2>1. s = r => ~Races(s)
    BY DEF Subscribe, Race
  <2>2. QED
    BY <1>1, <2>1 DEF Races, has, TypeOK
<1>4. OneRequest(s)' /\ (s = r => InFlight(s)') /\ (s # r => (InFlight(s)' <=> InFlight(s)))
  BY <1>1, <1>3, EntryFacts, NewRequest
<1>5. Carriers(s)' = Carriers(s)
  BY <1>1 DEF Carriers
<1>6. CASE s = r
  <2>1. pendings'[s] = 1 /\ Carriers(s)' = {} /\ reissue'[s] = 0 /\ s \notin cancellations'
    BY <1>1, <1>2, <1>3, <1>5, <1>6, EntryFacts
  <2>2. QED
    BY <1>4, <1>6, <2>1 DEF Orderly, OneEntry, Expected
<1>7. CASE s # r
  <2>1. SameEntry(s)
    BY <1>1, <1>2, <1>5, <1>7 DEF SameEntry
  <2>2. QED
    BY <1>1, <1>4, <1>7, <2>1, Stays
<1>8. QED
  BY <1>6, <1>7

LEMMA ReissueOrderly ==
    ASSUME TypeOK, NEW r \in SubIds, Reissue(r),
           NEW s \in SubIds, s \notin raced', Orderly(s)
    PROVE  Orderly(s)'
<1>1. /\ SendSubscribe(r) /\ reissue[r] > 0
      /\ reissue' = [reissue EXCEPT ![r] = @ - 1]
      /\ UNCHANGED <<toClient, sending, open, refused, subscriptions>>
      /\ IF reissue[r] = 1
         THEN /\ pendings' = [pendings EXCEPT ![r] = @ + 1]
              /\ UNCHANGED cancellations
         ELSE /\ UNCHANGED pendings
              /\ cancellations' = cancellations \cup {r}
  BY DEF Reissue, taskVars
<1>2. s = r => s \notin cancellations /\ reissue[s] = 1 /\ ~has(s)
  <2>1. s = r => ~(s \in cancellations \/ reissue[s] > 1 \/ has(s))
    BY DEF Reissue, Race
  <2>2. QED
    BY <1>1, <2>1, EntryFacts
<1>3. OneRequest(s)' /\ (s = r => InFlight(s)') /\ (s # r => (InFlight(s)' <=> InFlight(s)))
  BY <1>1, <1>2, EntryFacts, NewRequest
<1>4. Carriers(s)' = Carriers(s)
  BY <1>1 DEF Carriers
<1>5. CASE s = r
  <2>1. pendings'[s] = 1 /\ Carriers(s)' = {} /\ reissue'[s] = 0 /\ s \notin cancellations'
    BY <1>1, <1>2, <1>4, <1>5, EntryFacts DEF TypeOK
  <2>2. QED
    BY <1>3, <1>5, <2>1 DEF Orderly, OneEntry, Expected
<1>6. CASE s # r
  <2>1. /\ pendings'[s] = pendings[s] /\ reissue'[s] = reissue[s]
        /\ s \in cancellations' <=> s \in cancellations
    BY <1>1, <1>6 DEF TypeOK
  <2>2. SameEntry(s)
    BY <1>4, <2>1 DEF SameEntry
  <2>3. QED
    BY <1>1, <1>3, <1>6, <2>2, Stays
<1>7. QED
  BY <1>5, <1>6

\* unsubscribe() ends the entry of its sub_id, for client.unsubscribe and for
\* resubscribe().
LEMMA unsubscribeOrderly ==
    ASSUME TypeOK, NEW r \in SubIds, unsubscribe(r), has(r), UNCHANGED <<toClient, sending>>,
           NEW s \in SubIds, Orderly(s)
    PROVE  /\ OneRequest(s)' /\ (InFlight(s)' <=> InFlight(s))
           /\ s = r => /\ pendings'[s] = 0 /\ Carriers(s)' = {}
                       /\ s \in cancellations' <=> pendings[s] > 0
           /\ s # r => /\ pendings'[s] = pendings[s] /\ Carriers(s)' = Carriers(s)
                       /\ s \in cancellations' <=> s \in cancellations
<1>1. SameAnswers(s) /\ OneRequest(s)
  BY UnchangedAnswers DEF Orderly
<1>2. CASE pendings[r] > 0
  <2>1. /\ pendings' = [pendings EXCEPT ![r] = @ - 1] /\ cancellations' = cancellations \cup {r}
        /\ UNCHANGED <<subscriptions, toServer>>
    BY <1>2 DEF unsubscribe
  <2>2. /\ pendings'[s] = IF s = r THEN pendings[s] - 1 ELSE pendings[s]
        /\ Carriers(s)' = Carriers(s)
        /\ s = r => Carriers(s) = {} /\ pendings[s] = 1
    BY <1>2, <2>1, EntryFacts DEF TypeOK, Carriers
  <2>3. OneRequest(s)' /\ (InFlight(s)' <=> InFlight(s))
    BY <1>1, <2>1, UnchangedFrames, SameRequest
  <2>4. QED
    BY <1>2, <2>1, <2>2, <2>3
<1>3. CASE ~(pendings[r] > 0)
  <2>1. /\ subscriptions' = [c \in Chans |-> IF subscriptions[c] = r
                                             THEN None ELSE subscriptions[c]]
        /\ SendUnsubscribe(Carriers(r)) /\ UNCHANGED <<pendings, cancellations>>
    BY <1>3 DEF unsubscribe
  <2>2. Carriers(s)' = IF s = r THEN {} ELSE Carriers(s)
    BY <2>1, NoneAssumption DEF Carriers
  <2>3. SameFrames(s)
    BY <1>1, <2>1, CloseAppended DEF Carriers
  <2>4. s = r => pendings[s] = 0 /\ s \notin cancellations
    BY <1>3, EntryFacts
  <2>5. QED
    BY <1>1, <1>3, <2>1, <2>2, <2>3, <2>4, SameRequest
<1>4. QED
  BY <1>2, <1>3

LEMMA UnsubscribeOrderly ==
    ASSUME TypeOK, NEW r \in SubIds, Unsubscribe(r), NEW s \in SubIds, Orderly(s)
    PROVE  Orderly(s)'
<1>1. /\ unsubscribe(r) /\ has(r)
      /\ UNCHANGED <<toClient, sending, open, refused, reissue>>
  BY DEF Unsubscribe, taskVars
<1>2. CASE s = r
  <2>1. reissue[s] = 0 /\ (InFlight(s) => pendings[s] > 0)
    BY <1>1, <1>2, EntryFacts DEF Orderly, OneEntry
  <2>2. pendings[s] > 0 => (open => InFlight(s) \/ s \in refused)
    BY DEF Orderly, Expected
  <2>3. QED
    BY <1>1, <1>2, <2>1, <2>2, unsubscribeOrderly DEF Orderly, OneEntry, Expected
<1>3. CASE s # r
  <2>1. SameEntry(s)
    BY <1>1, <1>3, unsubscribeOrderly DEF SameEntry
  <2>2. QED
    BY <1>1, <2>1, unsubscribeOrderly, Stays
<1>4. QED
  BY <1>2, <1>3

LEMMA ResubscribeOrderly ==
    ASSUME TypeOK, NEW r \in SubIds, Resubscribe(r), NEW s \in SubIds, Orderly(s)
    PROVE  Orderly(s)'
<1>1. /\ unsubscribe(r) /\ Carriers(r) # {} /\ has(r)
      /\ reissue' = [reissue EXCEPT ![r] = Cardinality(Carriers(r))]
      /\ UNCHANGED <<toClient, sending, open, refused>>
  BY DEF Resubscribe, taskVars, has, ids
<1>2. CASE s = r
  <2>1. pendings[s] = 0 /\ ~InFlight(s)
    BY <1>1, <1>2, EntryFacts
  <2>2. reissue'[s] = 1
    BY <1>1, <1>2, OneOrNone DEF TypeOK, Orderly
  <2>3. /\ pendings'[s] = 0 /\ Carriers(s)' = {} /\ s \notin cancellations'
        /\ OneRequest(s)' /\ ~InFlight(s)'
    BY <1>1, <1>2, <2>1, unsubscribeOrderly
  <2>4. QED
    BY <2>2, <2>3 DEF Orderly, OneEntry, Expected
<1>3. CASE s # r
  <2>1. reissue'[s] = reissue[s]
    BY <1>1, <1>3 DEF TypeOK
  <2>2. SameEntry(s)
    BY <1>1, <1>3, <2>1, unsubscribeOrderly DEF SameEntry
  <2>3. QED
    BY <1>1, <2>2, unsubscribeOrderly, Stays
<1>4. QED
  BY <1>2, <1>3

LEMMA OwnerOrderly ==
    ASSUME TypeOK, WireInv, OwnerStep, NEW s \in SubIds, s \notin raced', Orderly(s)
    PROVE  Orderly(s)'
<1>1. ASSUME NEW r \in SubIds, UnsubscribeLast(r) PROVE Orderly(s)'
  BY <1>1, WireUntouched DEF UnsubscribeLast, SameEntry, Carriers, wireVars
<1>2. ASSUME NEW r \in SubIds, ReissueFails(r) PROVE Orderly(s)'
  <2>1. /\ OneRequest(s)' /\ (InFlight(s)' <=> InFlight(s))
        /\ UNCHANGED <<pendings, cancellations, open, refused>> /\ Carriers(s)' = Carriers(s)
    BY <1>2, WireUntouched DEF ReissueFails, bucketVars, taskVars, wireVars, Carriers
  <2>2. reissue'[s] = reissue[s] \/ reissue'[s] = 0
    BY <1>2 DEF ReissueFails, TypeOK
  <2>3. QED
    BY <2>1, <2>2 DEF Orderly, OneEntry, Expected
<1>3. CASE Close \/ Supervised
  <2>1. SameEntry(s)
    BY <1>3 DEF Close, Supervised, SameEntry, ownerVars, Carriers
  <2>2. QED
    BY <1>3, <2>1, WireUntouched DEF Close, Supervised, wireVars
<1>4. CASE Stopped
  BY <1>4, Unplugged DEF Stopped, SameEntry, bucketVars, ownerVars, Carriers
<1>5. QED
  BY <1>1, <1>2, <1>3, <1>4, SubscribeOrderly, UnsubscribeOrderly, ResubscribeOrderly,
     ReissueOrderly DEF OwnerStep

LEMMA SubscribeFrame ==
    ASSUME TypeOK, toServer # <<>>, Head(toServer).type = "subscribe"
    PROVE  /\ Head(toServer).sub \in SubIds
           /\ \A s : Head(toServer) = [type |-> "subscribe", sub |-> s] <=> s = Head(toServer).sub
<1>1. Head(toServer) \in Frames
  BY HeadTailProperties DEF TypeOK
<1>2. Head(toServer) \in [type : {"subscribe"}, sub : SubIds]
  BY <1>1 DEF Frames
<1>3. QED
  BY <1>2

LEMMA EnvironmentOrderly ==
    ASSUME TypeOK, EnvironmentStep, NEW s \in SubIds, Orderly(s) PROVE Orderly(s)'
<1>1. SameEntry(s) /\ OneRequest(s) /\ sending' = sending
  BY DEF EnvironmentStep, ServerAnswers, ServerOpens, ServerRefuses, ServerCloses,
     ServerRestarts, Drop, bucketVars, taskVars, ownerVars, SameEntry, Carriers, Orderly
<1>2. CASE ServerOpens
  <2> DEFINE r == Head(toServer).sub
  <2>1. /\ toServer # <<>> /\ toServer' = Tail(toServer) /\ Head(toServer).type = "subscribe"
        /\ UNCHANGED <<open, refused>>
    BY <1>2 DEF ServerOpens, taskVars
  <2>2. r \in SubIds /\ (Head(toServer) = [type |-> "subscribe", sub |-> s] <=> s = r)
    BY <2>1, SubscribeFrame
  <2>3. PICK c \in Chans : toClient' = toClient \o
               <<[type |-> "subscribed", chan |-> c, sub |-> r],
                 [type |-> "snapshot", chan |-> c]>>
    BY <1>2 DEF ServerOpens
  <2> HIDE DEF r
  <2>4. \A i : AnsweredAt(s, i)' <=> AnsweredAt(s, i) \/ (s = r /\ i = Len(toClient) + 1)
    BY <2>2, <2>3, AnswerAppended
  <2>5. OneRequest(s)' /\ (InFlight(s)' <=> InFlight(s))
    <3>1. CASE s = r
      <4>1. Sent(s) /\ \A i : ~SentAt(s, i)'
        BY <1>1, <2>1, <2>2, <3>1, OwnFrameTaken
      <4>2. ~Answered(s) /\ ~(sending[s] > 0)
        BY <1>1, <4>1 DEF OneRequest
      <4>3. Answered(s)' /\ \A i, j : AnsweredAt(s, i)' /\ AnsweredAt(s, j)' => i = j
        BY <2>4, <3>1, <4>2 DEF Answered
      <4>4. QED
        BY <1>1, <4>1, <4>2, <4>3, OnItsWay, OnItsWayNext DEF OneRequest, Sent
    <3>2. CASE s # r
      <4>1. SameFrames(s)
        BY <1>1, <2>1, <2>2, <3>2, OtherFrameTaken
      <4>2. SameAnswers(s)
        BY <1>1, <2>4, <3>2 DEF OneRequest, SameAnswers, Answered
      <4>3. QED
        BY <1>1, <4>1, <4>2, SameRequest
    <3>3. QED
      BY <3>1, <3>2
  <2>6. QED
    BY <1>1, <2>1, <2>5, Stays
<1>3. CASE ServerRefuses
  <2> DEFINE r == Head(toServer).sub
  <2>1. /\ toServer # <<>> /\ toServer' = Tail(toServer) /\ Head(toServer).type = "subscribe"
        /\ refused' = refused \cup {r} /\ UNCHANGED <<open, toClient>>
    BY <1>3 DEF ServerRefuses, taskVars
  <2>2. Head(toServer) = [type |-> "subscribe", sub |-> s] <=> s = r
    BY <2>1, SubscribeFrame
  <2> HIDE DEF r
  <2>3. SameAnswers(s)
    BY <1>1, <2>1, UnchangedAnswers
  <2>4. CASE s = r
    <3>1. Sent(s) /\ \A i : ~SentAt(s, i)'
      BY <1>1, <2>1, <2>2, <2>4, OwnFrameTaken
    <3>2. ~Answered(s) /\ ~(sending[s] > 0)
      BY <1>1, <3>1 DEF OneRequest
    <3>3. OneRequest(s)' /\ ~InFlight(s)'
      BY <1>1, <2>3, <3>1, <3>2, OnItsWayNext DEF OneRequest, SameAnswers, Sent
    <3>4. QED
      BY <1>1, <2>1, <2>4, <3>3 DEF Orderly, OneEntry, Expected, SameEntry
  <2>5. CASE s # r
    <3>1. SameFrames(s)
      BY <1>1, <2>1, <2>2, <2>5, OtherFrameTaken
    <3>2. QED
      BY <1>1, <2>1, <2>3, <3>1, SameRequest, Stays
  <2>6. QED
    BY <2>4, <2>5
<1>4. CASE ServerCloses
  <2>1. /\ toServer # <<>> /\ toServer' = Tail(toServer) /\ Head(toServer).type = "unsubscribe"
        /\ UNCHANGED <<open, toClient, refused>>
    BY <1>4 DEF ServerCloses, taskVars
  <2>2. Head(toServer) # [type |-> "subscribe", sub |-> s]
    BY <2>1
  <2>3. SameFrames(s) /\ SameAnswers(s)
    BY <1>1, <2>1, <2>2, OtherFrameTaken, UnchangedAnswers
  <2>4. QED
    BY <1>1, <2>1, <2>3, SameRequest, Stays
<1>5. CASE ServerRestarts
  <2>1. /\ toClient' = Append(toClient, [type |-> "restart"])
        /\ UNCHANGED <<open, toServer, refused>>
    BY <1>5 DEF ServerRestarts, taskVars
  <2>2. SameFrames(s) /\ SameAnswers(s)
    BY <1>1, <2>1, UnchangedFrames, RestartAppended
  <2>3. QED
    BY <1>1, <2>1, <2>2, SameRequest, Stays
<1>6. CASE Drop
  <2>1. open' = FALSE /\ refused' = refused
    BY <1>6 DEF Drop
  <2>2. QED
    BY <1>1, <1>6, <2>1, AnswersLost, Stays
<1>7. QED
  BY <1>2, <1>3, <1>4, <1>5, <1>6 DEF EnvironmentStep, ServerAnswers

LEMMA EntryInit == Init => EntryInv
<1>1. ASSUME Init, NEW s \in SubIds PROVE Orderly(s)
  <2>1. \A i : ~SentAt(s, i) /\ ~AnsweredAt(s, i)
    BY <1>1, EmptySeq DEF Init, SentAt, AnsweredAt
  <2>2. sending[s] = 0 /\ pendings[s] = 0 /\ reissue[s] = 0 /\ cancellations = {} /\ ~open
    BY <1>1 DEF Init, NoCopies
  <2>3. Carriers(s) = {}
    BY <1>1, NoneAssumption DEF Init, NoChannels, Carriers
  <2>4. OneRequest(s) /\ ~InFlight(s)
    BY <2>1, <2>2, OnItsWay DEF OneRequest, Sent, Answered
  <2>5. QED
    BY <2>2, <2>3, <2>4 DEF Orderly, OneEntry, Expected
<1>2. QED
  BY <1>1 DEF EntryInv

\* What was raced stays raced.
LEMMA RacedGrows == [Next]_vars => raced \subseteq raced'
BY DEF Next, TaskStep, OwnerStep, EnvironmentStep, ServerAnswers, ReadMessage, StayClosed,
   Connect, RecoverSend, RecoverDone, RecoverFails, Confirm, ConfirmCancelled, Dispatch,
   RestartRequested, ReadEnds, Subscribe, Unsubscribe, UnsubscribeLast, Resubscribe, Reissue,
   ReissueFails, Close, Stopped, Supervised, ServerOpens, ServerRefuses, ServerCloses,
   ServerRestarts, Drop, Race, ownerVars, vars

LEMMA EntryNext == TypeOK /\ WireInv /\ EntryInv /\ [Next]_vars => EntryInv'
<1>1. ASSUME TypeOK, WireInv, EntryInv, [Next]_vars, NEW s \in SubIds, s \notin raced'
      PROVE  Orderly(s)'
  <2>1. Orderly(s)
    BY <1>1, RacedGrows DEF EntryInv
  <2>2. CASE UNCHANGED vars
    BY <2>1, <2>2, WireUntouched
    DEF vars, bucketVars, taskVars, wireVars, ownerVars, SameEntry, Carriers
  <2>3. QED
    BY <1>1, <2>1, <2>2, TaskOrderly, OwnerOrderly, EnvironmentOrderly DEF Next
<1>2. QED
  BY <1>1 DEF EntryInv

THEOREM EntriesCorrect == Spec => []EntryInv
BY EntryInit, EntryNext, TypeCorrect, WireCorrect, PTL DEF Spec

\* No sub_id has two entries in __pendings and __subscriptions together, so
\* that no request is answered for another, unless it was asked for again
\* before its cancelled request was answered.
THEOREM OneEntryEach == Spec => []OneEntryPerSub
<1>1. TypeOK /\ EntryInv => OneEntryPerSub
  <2>1. ASSUME TypeOK, EntryInv, NEW s \in SubIds \ raced PROVE Copies(s) <= 1
    BY <2>1, OneOrNone DEF EntryInv, Orderly
  <2>2. QED
    BY <2>1 DEF OneEntryPerSub
<1>2. QED
  BY <1>1, EntriesCorrect, TypeCorrect, PTL

\* While the socket is up, whoever waits for the server to confirm or to be
\* told off has a frame or a confirmation on the way, or was refused.
THEOREM AnswersAreOnTheirWay == Spec => []AnswerOnItsWay
<1>1. EntryInv => AnswerOnItsWay
  BY DEF EntryInv, Orderly, Expected, AnswerOnItsWay
<1>2. QED
  BY <1>1, EntriesCorrect, PTL

-----------------------------------------------------------------------------
(* The ledger.                                                             *)

LEMMA LedgerInit == Init => LedgerInv
<1>1. ASSUME Init PROVE /\ \A s \in SubIds : sending[s] = 0 /\ pendings[s] = 0 /\ Carriers(s) = {}
  BY <1>1, NoneAssumption DEF Init, NoCopies, NoChannels, Carriers
<1>2. QED
  BY <1>1 DEF LedgerInv, ids

\* Whoever brings the bucket back has the events of all it carries re-armed.
LEMMA StartEndsLedger ==
    ASSUME TypeOK, StartEnds, ids' \subseteq ids PROVE LedgerInv'
<1>1. \A s \in SubIds : sending'[s] = 0
  BY DEF StartEnds, NoCopies
<1>2. phase' = "down" => \A s \in ids : ledger'[s] = {}
  BY DEF StartEnds, reset_subscription_scope, ids
<1>3. QED
  BY <1>1, <1>2 DEF LedgerInv

LEMMA SameLedger ==
    ASSUME LedgerInv, UNCHANGED <<phase, ledger>>, closing => closing',
           \A s \in SubIds : sending'[s] > 0 => sending[s] > 0,
           phase = "down" => ids' \subseteq ids
    PROVE  LedgerInv'
BY DEF LedgerInv

LEMMA LedgerTask == ASSUME TypeOK, WireInv, LedgerInv, TaskStep PROVE LedgerInv'
<1>1. CASE StayClosed \/ RecoverDone
  <2>1. \A s \in SubIds : ~(sending'[s] > 0)
    BY <1>1 DEF StayClosed, RecoverDone, LedgerInv, NoCopies
  <2>2. phase' # "down"
    BY <1>1 DEF StayClosed, RecoverDone
  <2>3. QED
    BY <2>1, <2>2 DEF LedgerInv
<1>2. CASE Connect
  <2>1. \A s \in SubIds : Copies(s) > 0 => s \in ids
    <3>1. ASSUME NEW s \in SubIds, s \notin ids PROVE Copies(s) = 0
      <4>1. Carriers(s) = {} /\ pendings[s] = 0
        BY <3>1 DEF ids, TypeOK
      <4>2. QED
        BY <4>1, FS_EmptySet DEF Copies
    <3>2. QED
      BY <3>1
  <2>2. /\ phase = "down" /\ ~closing /\ phase' = "recovering" /\ ledger' = ledger
        /\ \A s \in SubIds : sending'[s] = Copies(s)
    BY <1>2 DEF Connect, recover_state
  <2>3. QED
    BY <2>1, <2>2 DEF LedgerInv
<1>3. ASSUME NEW s \in SubIds, RecoverSend(s) PROVE LedgerInv'
  <2>1. /\ UNCHANGED <<phase, ledger, closing>> /\ phase = "recovering"
        /\ sending' = [sending EXCEPT ![s] = @ - 1] /\ sending[s] > 0
    BY <1>3 DEF RecoverSend, bucketVars
  <2>2. \A t \in SubIds : sending'[t] > 0 => sending[t] > 0
    BY <2>1 DEF TypeOK
  <2>3. QED
    BY <2>1, <2>2, SameLedger
<1>4. CASE RecoverFails \/ RestartRequested \/ ReadEnds
  <2>1. ids' = ids
    BY <1>4 DEF RecoverFails, RestartRequested, ReadEnds, bucketVars, ids, Carriers
  <2>2. QED
    BY <1>4, <2>1, StartEndsLedger DEF RecoverFails, RestartRequested, ReadEnds
<1>5. CASE Confirm \/ Dispatch
  <2>1. phase' = "reading" /\ phase = "reading" /\ sending' = sending
    BY <1>5 DEF Confirm, Dispatch, Incoming, taskVars
  <2>2. QED
    BY <2>1 DEF LedgerInv
<1>6. CASE ConfirmCancelled
  <2>1. phase = "reading" /\ (StartEnds \/ UNCHANGED <<phase, sending>>)
    BY <1>6 DEF ConfirmCancelled, Incoming, taskVars
  <2>2. ids' \subseteq ids
    <3>1. /\ subscriptions' = subscriptions
          /\ pendings' = [pendings EXCEPT ![Head(toClient).sub] = 0]
      BY <1>6 DEF ConfirmCancelled
    <3>2. \A s \in SubIds : pendings'[s] > 0 => pendings[s] > 0
      BY <3>1 DEF TypeOK
    <3>3. QED
      BY <3>1, <3>2 DEF ids, Carriers
  <2>3. QED
    BY <2>1, <2>2, StartEndsLedger DEF LedgerInv
<1>7. QED
  BY <1>1, <1>2, <1>3, <1>4, <1>5, <1>6 DEF TaskStep, ReadMessage

LEMMA LedgerNext == TypeOK /\ WireInv /\ LedgerInv /\ [Next]_vars => LedgerInv'
<1> SUFFICES ASSUME TypeOK, WireInv, LedgerInv, [Next]_vars PROVE LedgerInv'
  OBVIOUS
<1>1. phase = "down" => ~open
  BY DEF WireInv, WireOfConnection, Connected
<1>2. ASSUME NEW s \in SubIds, Subscribe(s) \/ Unsubscribe(s) \/ Resubscribe(s) \/ Reissue(s)
      PROVE  LedgerInv'
  <2>1. UNCHANGED <<phase, ledger, closing, sending>> /\ phase # "down"
    BY <1>1, <1>2 DEF Subscribe, Unsubscribe, Resubscribe, Reissue, taskVars
  <2>2. QED
    BY <2>1, SameLedger
<1>3. ASSUME NEW s \in SubIds, UnsubscribeLast(s) \/ ReissueFails(s) PROVE LedgerInv'
  <2>1. UNCHANGED <<phase, ledger, sending>> /\ (closing => closing') /\ ids' = ids
    BY <1>3 DEF UnsubscribeLast, ReissueFails, taskVars, bucketVars, ids, Carriers
  <2>2. QED
    BY <2>1, SameLedger
<1>4. CASE Close
  <2>1. UNCHANGED <<phase, ledger, sending>> /\ closing' /\ ids' = ids
    BY <1>4 DEF Close, ids, Carriers
  <2>2. QED
    BY <2>1, SameLedger
<1>5. CASE Stopped
  BY <1>5 DEF Stopped, LedgerInv, NoCopies
<1>6. CASE Supervised
  <2>1. \A s \in SubIds : ~(sending'[s] > 0) /\ ledger'[s] = {}
    BY <1>6 DEF Supervised, LedgerInv, NothingHeard
  <2>2. QED
    BY <2>1 DEF LedgerInv, ids
<1>7. CASE EnvironmentStep \/ UNCHANGED vars
  <2>1. UNCHANGED <<phase, ledger, sending, closing>> /\ ids' = ids
    BY <1>7 DEF EnvironmentStep, ServerAnswers, ServerOpens, ServerRefuses, ServerCloses,
       ServerRestarts, Drop, bucketVars, taskVars, vars, ids, Carriers
  <2>2. QED
    BY <2>1, SameLedger
<1>8. QED
  BY <1>2, <1>3, <1>4, <1>5, <1>6, <1>7, LedgerTask DEF Next, OwnerStep

\* What a bucket carries is announced anew on its next connection: when it is
\* about to be restarted, and until each of its subscriptions has been asked
\* for again, none of its once-events is latched.
THEOREM RestartsAnnounceAnew == Spec => []Rearmed
<1>1. TypeOK /\ LedgerInv => Rearmed
  BY DEF LedgerInv, Rearmed, ids
<1>2. QED
  BY <1>1, LedgerInit, LedgerNext, TypeCorrect, WireCorrect, PTL DEF Spec

-----------------------------------------------------------------------------
(* The owner's view: where its subscriptions are, and how many there are.  *)

\* Where the subscription of s is, for a bucket that still has its owner.
Place(s) ==
    IF Carriers(s) # {} THEN "active"
    ELSE IF pendings[s] > 0 \/ reissue[s] > 0 THEN "asked" ELSE "none"

\* A bucket that was dropped stays down; of any other, what is somewhere is
\* what is wanted.
WantedInv ==
    /\ ~owned => closing /\ ~open
    /\ owned => \A s \in SubIds \ raced : s \in wanted <=> Place(s) # "none"

\* No sub_id was ever asked for again too early.
Unraced == raced = {}
-----------------------------------------------------------------------------
(* Where each kind of step takes a subscription.                           *)

Stands(s) == Place(s)' = Place(s)
Moves(s, from, to) == Place(s) = from /\ Place(s)' = to

LEMMA SameEntryStands == ASSUME NEW s, SameEntry(s) PROVE Stands(s)
BY DEF SameEntry, Stands, Place

LEMMA ConnectPlace ==
    ASSUME TypeOK, Connect, NEW s \in SubIds, Orderly(s)
    PROVE  IF Place(s) = "active" THEN Place(s)' = "asked" ELSE Stands(s)
<1>1. pendings'[s] = Copies(s) /\ reissue' = reissue
  BY DEF Connect, recover_state, ownerVars
<1>2. Carriers(s)' = {}
  BY NoneAssumption DEF Connect, recover_state, NoChannels, Carriers
<1>3. /\ Copies(s) \in {0, 1}
      /\ Copies(s) = 1 <=> pendings[s] > 0 \/ Carriers(s) # {}
  BY OneOrNone DEF Orderly, has, ids
<1>4. QED
  BY <1>1, <1>2, <1>3 DEF Place, Stands

LEMMA ConfirmPlace ==
    ASSUME TypeOK, WireInv, Confirm, NEW s \in SubIds, Orderly(s)
    PROVE  /\ Head(toClient).sub \in SubIds
           /\ s = Head(toClient).sub => Moves(s, "asked", "active")
           /\ s # Head(toClient).sub => Stands(s)
<1> DEFINE c == Head(toClient).chan
           r == Head(toClient).sub
<1>1. /\ toClient # <<>> /\ Head(toClient).type = "subscribed"
      /\ r \notin cancellations
      /\ pendings' = [pendings EXCEPT ![r] = 0]
      /\ subscriptions' = [subscriptions EXCEPT ![c] = r]
      /\ reissue' = reissue
  BY DEF Confirm, Incoming, ownerVars
<1>2. Head(toClient) \in Messages /\ Len(toClient) \in Nat \ {0} /\ Head(toClient) = toClient[1]
  BY <1>1, TailFacts DEF TypeOK
<1>3. c \in Chans /\ r \in SubIds /\ subscriptions[c] = None
  BY <1>1, <1>2 DEF Messages, WireInv, ConfirmsTrue
<1>4. s = r => Answered(s)
  BY <1>1, <1>2 DEF Answered, AnsweredAt
<1> HIDE DEF c, r
<1>5. /\ \A d \in Chans : subscriptions'[d] = IF d = c THEN r ELSE subscriptions[d]
      /\ \A t \in SubIds : pendings'[t] = IF t = r THEN 0 ELSE pendings[t]
  BY <1>1, <1>3 DEF TypeOK
<1>6. CASE s = r
  <2>1. InFlight(s) /\ s \notin cancellations
    BY <1>1, <1>4, <1>6, OnItsWay
  <2>2. pendings[s] > 0 /\ Carriers(s) = {}
    BY <2>1 DEF Orderly, OneEntry
  <2>3. c \in Carriers(s)'
    BY <1>3, <1>5, <1>6 DEF Carriers
  <2>4. QED
    BY <1>3, <1>6, <2>2, <2>3 DEF Moves, Place, r
<1>7. CASE s # r
  <2>1. Carriers(s)' = Carriers(s)
    BY <1>3, <1>5, <1>7, NoneAssumption DEF Carriers
  <2>2. pendings'[s] = pendings[s] /\ reissue'[s] = reissue[s]
    BY <1>1, <1>5, <1>7
  <2>3. QED
    BY <1>3, <1>7, <2>1, <2>2 DEF Stands, Place, r
<1>8. QED
  BY <1>6, <1>7

LEMMA ConfirmCancelledPlace ==
    ASSUME TypeOK, ConfirmCancelled, NEW s \in SubIds, Orderly(s) PROVE Stands(s)
<1> DEFINE r == Head(toClient).sub
<1>1. /\ toClient # <<>> /\ Head(toClient).type = "subscribed" /\ r \in cancellations
      /\ pendings' = [pendings EXCEPT ![r] = 0]
      /\ UNCHANGED <<subscriptions, reissue>>
  BY DEF ConfirmCancelled, Incoming, ownerVars
<1>2. r \in SubIds
  BY <1>1 DEF TypeOK
<1> HIDE DEF r
<1>3. pendings'[s] = IF s = r THEN 0 ELSE pendings[s]
  BY <1>1, <1>2 DEF TypeOK
<1>4. s = r => pendings[s] = 0
  BY <1>1 DEF Orderly, OneEntry
<1>5. Carriers(s)' = Carriers(s)
  BY <1>1 DEF Carriers
<1>6. QED
  BY <1>1, <1>3, <1>4, <1>5 DEF Stands, Place

\* Of the bucket's own steps only those two move a subscription.
LEMMA TaskPlace ==
    ASSUME TypeOK, TaskStep, ~Connect, ~Confirm, NEW s \in SubIds, Orderly(s)
    PROVE  Stands(s)
<1>1. CASE ConfirmCancelled
  BY <1>1, ConfirmCancelledPlace
<1>2. CASE ~ConfirmCancelled
  <2>1. SameEntry(s)
    BY <1>2 DEF TaskStep, ReadMessage, StayClosed, RecoverSend, RecoverDone, RecoverFails,
       Dispatch, RestartRequested, ReadEnds, bucketVars, ownerVars, SameEntry, Carriers
  <2>2. QED
    BY <2>1, SameEntryStands
<1>3. QED
  BY <1>1, <1>2

LEMMA SubscribePlace ==
    ASSUME TypeOK, NEW r \in SubIds, Subscribe(r), NEW s \in SubIds, s \notin raced', Orderly(s)
    PROVE  /\ s = r => Moves(s, "none", "asked")
           /\ s # r => Stands(s)
<1>1. /\ r \notin ids /\ pendings' = [pendings EXCEPT ![r] = @ + 1]
      /\ UNCHANGED <<subscriptions, reissue>>
  BY DEF Subscribe
<1>2. /\ pendings'[s] = IF s = r THEN pendings[s] + 1 ELSE pendings[s]
      /\ Carriers(s)' = Carriers(s) /\ pendings[s] \in Nat
  BY <1>1 DEF TypeOK, Carriers
<1>3. CASE s = r
  <2>1. ~Races(s)
    BY <1>3 DEF Subscribe, Race
  <2>2. ~has(s) /\ ~(reissue[s] > 0)
    BY <1>1, <1>3, <2>1 DEF Races, has
  <2>3. pendings[s] = 0 /\ Carriers(s) = {}
    BY <2>2, EntryFacts
  <2>4. QED
    BY <1>1, <1>2, <1>3, <2>2, <2>3 DEF Moves, Place
<1>4. CASE s # r
  BY <1>1, <1>2, <1>4 DEF Stands, Place
<1>5. QED
  BY <1>3, <1>4

LEMMA UnsubscribePlace ==
    ASSUME TypeOK, NEW r \in SubIds, Unsubscribe(r), NEW s \in SubIds, Orderly(s)
    PROVE  /\ s = r => Place(s) # "none" /\ Place(s)' = "none"
           /\ s # r => Stands(s)
<1>1. unsubscribe(r) /\ has(r) /\ UNCHANGED <<toClient, sending, reissue>>
  BY DEF Unsubscribe, taskVars
<1>2. s = r => reissue[s] = 0 /\ (pendings[s] > 0 \/ Carriers(s) # {})
  BY <1>1, EntryFacts DEF has, ids
<1>3. QED
  BY <1>1, <1>2, unsubscribeOrderly DEF Stands, Place

LEMMA ResubscribePlace ==
    ASSUME TypeOK, NEW r \in SubIds, Resubscribe(r), NEW s \in SubIds, Orderly(s)
    PROVE  /\ s = r => Moves(s, "active", "asked")
           /\ s # r => Stands(s)
<1>1. /\ unsubscribe(r) /\ Carriers(r) # {} /\ has(r) /\ UNCHANGED <<toClient, sending>>
      /\ reissue' = [reissue EXCEPT ![r] = Cardinality(Carriers(r))]
  BY DEF Resubscribe, taskVars, has, ids
<1>2. s = r => reissue'[s] = 1
  BY <1>1, OneOrNone DEF TypeOK, Orderly
<1>3. s # r => reissue'[s] = reissue[s]
  BY <1>1 DEF TypeOK
<1>4. QED
  BY <1>1, <1>2, <1>3, unsubscribeOrderly DEF Moves, Stands, Place

LEMMA ReissuePlace ==
    ASSUME TypeOK, NEW r \in SubIds, Reissue(r), NEW s \in SubIds, s \notin raced', Orderly(s)
    PROVE  Stands(s)
<1>1. /\ reissue[r] > 0 /\ reissue' = [reissue EXCEPT ![r] = @ - 1]
      /\ subscriptions' = subscriptions
      /\ reissue[r] = 1 => pendings' = [pendings EXCEPT ![r] = @ + 1]
      /\ reissue[r] # 1 => pendings' = pendings
  BY DEF Reissue
<1>2. Carriers(s)' = Carriers(s)
  BY <1>1 DEF Carriers
<1>3. CASE s = r
  <2>1. reissue[s] = 1 /\ Carriers(s) = {} /\ pendings[s] = 0
    BY <1>1, <1>3, EntryFacts
  <2>2. pendings'[s] = 1 /\ reissue'[s] = 0
    BY <1>1, <1>3, <2>1 DEF TypeOK
  <2>3. QED
    BY <1>2, <2>1, <2>2 DEF Stands, Place
<1>4. CASE s # r
  <2>1. pendings'[s] = pendings[s] /\ reissue'[s] = reissue[s]
    BY <1>1, <1>4 DEF TypeOK
  <2>2. QED
    BY <1>2, <2>1 DEF Stands, Place
<1>5. QED
  BY <1>3, <1>4

LEMMA ReissueFailsPlace ==
    ASSUME TypeOK, NEW r \in SubIds, ReissueFails(r), NEW s \in SubIds, Orderly(s)
    PROVE  /\ s = r => Moves(s, "asked", "none") /\ ~has(s)
           /\ s # r => Stands(s)
<1>1. /\ reissue[r] > 0 /\ reissue' = [reissue EXCEPT ![r] = 0]
      /\ UNCHANGED <<pendings, subscriptions>>
  BY DEF ReissueFails, bucketVars
<1>2. Carriers(s)' = Carriers(s) /\ reissue'[s] = IF s = r THEN 0 ELSE reissue[s]
  BY <1>1 DEF Carriers, TypeOK
<1>3. s = r => ~has(s) /\ pendings[s] = 0 /\ Carriers(s) = {}
  BY <1>1, EntryFacts
<1>4. QED
  BY <1>1, <1>2, <1>3 DEF Moves, Stands, Place

\* The rest of the owner's steps, and the server's, leave every one in place.
Elsewhere ==
    \/ (\E r \in SubIds : UnsubscribeLast(r)) \/ Close \/ Stopped \/ Supervised
    \/ EnvironmentStep \/ UNCHANGED vars

LEMMA ElsewherePlace == ASSUME Elsewhere, NEW s PROVE Stands(s)
<1>1. SameEntry(s)
  BY DEF Elsewhere, UnsubscribeLast, Close, Stopped, Supervised, EnvironmentStep, ServerAnswers,
     ServerOpens, ServerRefuses, ServerCloses, ServerRestarts, Drop, bucketVars, ownerVars,
     vars, SameEntry, Carriers
<1>2. QED
  BY <1>1, SameEntryStands

-----------------------------------------------------------------------------
(* What is wanted is carried.                                              *)

LEMMA WantedInit == Init => WantedInv
<1>1. ASSUME Init, NEW s \in SubIds PROVE Place(s) = "none"
  BY <1>1, NoneAssumption DEF Init, NoCopies, NoChannels, Carriers, Place
<1>2. QED
  BY <1>1 DEF Init, WantedInv

\* A bucket that was dropped is never taken up again, and so stays down.
LEMMA DroppedStaysDown ==
    ASSUME [Next]_vars, ~owned => closing /\ ~open
    PROVE  /\ ~owned' => closing' /\ ~open'
           /\ owned' => owned
<1>1. CASE TaskStep
  BY <1>1 DEF TaskStep, ReadMessage, StayClosed, Connect, RecoverSend, RecoverDone, RecoverFails,
     Confirm, ConfirmCancelled, Dispatch, RestartRequested, ReadEnds, StartEnds, bucketVars,
     taskVars
<1>2. CASE OwnerStep
  BY <1>2 DEF OwnerStep, Subscribe, Unsubscribe, UnsubscribeLast, Resubscribe, Reissue,
     ReissueFails, Close, Stopped, Supervised, bucketVars, taskVars
<1>3. CASE EnvironmentStep \/ UNCHANGED vars
  BY <1>3 DEF EnvironmentStep, ServerAnswers, ServerOpens, ServerRefuses, ServerCloses,
     ServerRestarts, Drop, bucketVars, taskVars, vars
<1>4. QED
  BY <1>1, <1>2, <1>3 DEF Next

\* Elsewhere, and in the bucket's own steps, what is wanted does not change.
LEMMA SameWanted ==
    TaskStep \/ Close \/ Stopped \/ Supervised \/ EnvironmentStep \/ UNCHANGED vars
        => wanted' = wanted
BY DEF TaskStep, ReadMessage, StayClosed, Connect, RecoverSend, RecoverDone, RecoverFails,
   Confirm, ConfirmCancelled, Dispatch, RestartRequested, ReadEnds,
   Close, Stopped, Supervised, EnvironmentStep, ServerAnswers, ServerOpens, ServerRefuses,
   ServerCloses, ServerRestarts, Drop, ownerVars, vars

LEMMA WantedNext == TypeOK /\ WireInv /\ EntryInv /\ WantedInv /\ [Next]_vars => WantedInv'
<1> SUFFICES ASSUME TypeOK, WireInv, EntryInv, WantedInv, [Next]_vars PROVE WantedInv'
  OBVIOUS
<1>1. (~owned' => closing' /\ ~open') /\ (owned' => owned)
  BY DroppedStaysDown DEF WantedInv
<1>2. ASSUME owned', NEW s \in SubIds, s \notin raced'
      PROVE  s \in wanted' <=> Place(s)' # "none"
  <2>1. Orderly(s) /\ (s \in wanted <=> Place(s) # "none")
    BY <1>1, <1>2, RacedGrows DEF EntryInv, WantedInv
  <2>2. ASSUME Stands(s), s \in wanted' <=> s \in wanted PROVE s \in wanted' <=> Place(s)' # "none"
    BY <2>1, <2>2 DEF Stands
  <2>3. CASE TaskStep
    <3>1. wanted' = wanted
      BY <2>3, SameWanted
    <3>2. Place(s) # "none" <=> Place(s)' # "none"
      <4>1. CASE Connect
        BY <2>1, <4>1, ConnectPlace DEF Stands
      <4>2. CASE Confirm
        BY <2>1, <4>2, ConfirmPlace DEF Stands, Moves
      <4>3. CASE ~Connect /\ ~Confirm
        BY <2>1, <2>3, <4>3, TaskPlace DEF Stands
      <4>4. QED
        BY <4>1, <4>2, <4>3
    <3>3. QED
      BY <2>1, <3>1, <3>2
  <2>4. ASSUME NEW r \in SubIds, Subscribe(r) PROVE s \in wanted' <=> Place(s)' # "none"
    <3>1. wanted' = wanted \cup {r}
      BY <2>4 DEF Subscribe
    <3>2. (s = r => Moves(s, "none", "asked")) /\ (s # r => Stands(s))
      BY <1>2, <2>1, <2>4, SubscribePlace
    <3>3. QED
      BY <2>1, <3>1, <3>2 DEF Moves, Stands
  <2>5. ASSUME NEW r \in SubIds, Unsubscribe(r) PROVE s \in wanted' <=> Place(s)' # "none"
    <3>1. wanted' = wanted \ {r}
      BY <2>5 DEF Unsubscribe
    <3>2. (s = r => Place(s)' = "none") /\ (s # r => Stands(s))
      BY <2>1, <2>5, UnsubscribePlace
    <3>3. QED
      BY <2>1, <3>1, <3>2 DEF Stands
  <2>6. ASSUME NEW r \in SubIds, Resubscribe(r) PROVE s \in wanted' <=> Place(s)' # "none"
    <3>1. wanted' = wanted
      BY <2>6 DEF Resubscribe
    <3>2. (s = r => Moves(s, "active", "asked")) /\ (s # r => Stands(s))
      BY <2>1, <2>6, ResubscribePlace
    <3>3. QED
      BY <2>1, <3>1, <3>2 DEF Moves, Stands
  <2>7. ASSUME NEW r \in SubIds, Reissue(r) PROVE s \in wanted' <=> Place(s)' # "none"
    <3>1. wanted' = wanted
      BY <2>7 DEF Reissue
    <3>2. QED
      BY <1>2, <2>1, <2>2, <2>7, <3>1, ReissuePlace
  <2>8. ASSUME NEW r \in SubIds, ReissueFails(r) PROVE s \in wanted' <=> Place(s)' # "none"
    <3>1. wanted' = IF has(r) THEN wanted ELSE wanted \ {r}
      BY <2>8 DEF ReissueFails
    <3>2. (s = r => Moves(s, "asked", "none") /\ ~has(s)) /\ (s # r => Stands(s))
      BY <2>1, <2>8, ReissueFailsPlace
    <3>3. QED
      BY <2>1, <3>1, <3>2 DEF Moves, Stands
  <2>9. ASSUME NEW r \in SubIds, UnsubscribeLast(r) PROVE FALSE
    BY <1>2, <2>9 DEF UnsubscribeLast
  <2>10. CASE Close \/ Stopped \/ Supervised \/ EnvironmentStep \/ UNCHANGED vars
    <3>1. wanted' = wanted
      BY <2>10, SameWanted
    <3>2. Stands(s)
      BY <2>10, ElsewherePlace DEF Elsewhere
    <3>3. QED
      BY <2>2, <3>1, <3>2
  <2>11. QED
    BY <2>3, <2>4, <2>5, <2>6, <2>7, <2>8, <2>9, <2>10 DEF Next, OwnerStep
<1>3. QED
  BY <1>1, <1>2 DEF WantedInv

THEOREM WantedCorrect == Spec => []WantedInv
BY WantedInit, WantedNext, EntriesCorrect, TypeCorrect, WireCorrect, PTL DEF Spec

\* A subscription is carried exactly while its owner was told it is subscribed:
\* no drop, restart or refusal loses it from __pendings and __subscriptions,
\* and nothing brings a cancelled one back.
THEOREM WantedIsCarried == Spec => []CarriedIffWanted
<1>1. TypeOK /\ WantedInv => CarriedIffWanted
  <2>1. ASSUME TypeOK, WantedInv, owned, NEW s \in SubIds \ raced, reissue[s] = 0
        PROVE  s \in wanted <=> has(s)
    <3>1. s \in wanted <=> Place(s) # "none"
      BY <2>1 DEF WantedInv
    <3>2. Place(s) # "none" <=> has(s)
      BY <2>1 DEF Place, has, ids
    <3>3. QED
      BY <3>1, <3>2
  <2>2. QED
    BY <2>1 DEF CarriedIffWanted
<1>2. QED
  BY <1>1, WantedCorrect, TypeCorrect, PTL

-----------------------------------------------------------------------------
(* The limit.                                                              *)

\* Where no sub_id has two entries, the entries are as many as the sub_ids.
LEMMA CountIsIds ==
    ASSUME TypeOK, \A s \in SubIds : Orderly(s)
    PROVE  count = Cardinality(ids) /\ IsFiniteSet(ids)
<1> DEFINE P == {s \in SubIds : pendings[s] > 0}
           A == {s \in SubIds : Carriers(s) # {}}
<1>1. ids = P \cup A /\ P \cap A = {}
  BY DEF ids, Orderly, OneEntry
<1>2. IsFiniteSet(P) /\ IsFiniteSet(A)
  BY FS_Subset, ChansAssumption
<1>3. Cardinality(Slots) = Cardinality(P)
  <2> DEFINE f == [s \in P |-> <<s, 1>>]
  <2>1. Slots = {<<s, 1>> : s \in P}
    <3>1. ASSUME NEW s \in SubIds
          PROVE  {s} \X (1 .. pendings[s]) = IF s \in P THEN {<<s, 1>>} ELSE {}
      <4>1. pendings[s] \in {0, 1}
        BY EntryFacts
      <4>2. CASE pendings[s] = 1
        <5>1. 1 .. pendings[s] = {1}
          BY <4>2
        <5>2. QED
          BY <4>2, <5>1
      <4>3. CASE pendings[s] = 0
        <5>1. 1 .. pendings[s] = {}
          BY <4>3
        <5>2. QED
          BY <4>3, <5>1
      <4>4. QED
        BY <4>1, <4>2, <4>3
    <3>2. QED
      BY <3>1 DEF Slots
  <2>2. f \in Bijection(P, Slots)
    <3>1. f \in [P -> Slots] /\ \A t \in Slots : \E s \in P : f[s] = t
      BY <2>1
    <3>2. \A a, b \in P : f[a] = f[b] => a = b
      OBVIOUS
    <3>3. QED
      BY <3>1, <3>2 DEF Bijection, Injection, IsInjective, Surjection
  <2>3. ExistsBijection(P, Slots)
    BY <2>2 DEF ExistsBijection
  <2>4. QED
    BY <1>2, <2>3, FS_Bijection
<1>4. Cardinality(Confirmed) = Cardinality(A)
  <2> DEFINE f == [c \in Confirmed |-> subscriptions[c]]
  <2>1. ASSUME NEW c \in Confirmed PROVE f[c] \in A /\ c \in Carriers(f[c])
    BY <2>1 DEF Confirmed, Carriers, TypeOK
  <2>2. ASSUME NEW s \in A PROVE \E c \in Confirmed : f[c] = s
    BY <2>2, NoneAssumption DEF Confirmed, Carriers
  <2>3. ASSUME NEW c \in Confirmed, NEW d \in Confirmed, f[c] = f[d] PROVE c = d
    <3>1. c \in Carriers(f[c]) /\ d \in Carriers(f[c]) /\ f[c] \in SubIds
      BY <2>1, <2>3
    <3>2. QED
      BY <3>1 DEF Orderly, OneEntry
  <2>4. f \in Bijection(Confirmed, A)
    BY <2>1, <2>2, <2>3 DEF Bijection, Injection, IsInjective, Surjection
  <2>5. ExistsBijection(Confirmed, A)
    BY <2>4 DEF ExistsBijection
  <2>6. IsFiniteSet(Confirmed)
    BY FS_Subset, ChansAssumption DEF Confirmed
  <2>7. QED
    BY <2>5, <2>6, FS_Bijection
<1>5. /\ IsFiniteSet(P \cup A)
      /\ Cardinality(P \cup A) = Cardinality(P) + Cardinality(A) - Cardinality(P \cap A)
  BY <1>2, FS_Union
<1>6. Cardinality(P) \in Nat /\ Cardinality(A) \in Nat
  BY <1>2, FS_CardinalityType
<1> HIDE DEF P, A
<1>7. Cardinality(P \cap A) = 0
  BY <1>1, FS_EmptySet
<1>8. Cardinality(ids) = Cardinality(P) + Cardinality(A)
  BY <1>1, <1>5, <1>6, <1>7
<1>9. QED
  BY <1>1, <1>3, <1>4, <1>5, <1>8 DEF count

LEMMA LoadFinite == IsFiniteSet(Load) /\ Cardinality(Load) \in Nat
BY FS_Subset, FS_CardinalityType, ChansAssumption DEF Load, ids

\* subscribe() that overtakes no resubscribe() finds room only where there is
\* some: whatever takes room is counted.
LEMMA RoomLeft ==
    ASSUME TypeOK, raced' = {}, \A s \in SubIds : Orderly(s), NEW r \in SubIds, Subscribe(r),
           ~Overtakes, Cardinality(Load) <= MaxSubscriptions
    PROVE  Cardinality(Load) < MaxSubscriptions
<1>1. ~Races(r)
  BY DEF Subscribe, Race
<1>2. \A s \in SubIds : ~(reissue[s] > 0)
  BY <1>1 DEF Races, Overtakes
<1>3. Load = ids
  BY <1>2 DEF Load
<1>4. Cardinality(Load) # MaxSubscriptions
  BY <1>3, CountIsIds DEF Subscribe, is_full
<1>5. QED
  BY <1>4, LoadFinite, LimitAssumption

LEMMA LoadNext ==
    ASSUME TypeOK, TypeOK', WireInv, EntryInv, [Next]_vars, raced' = {}, ~Overtakes,
           Cardinality(Load) <= MaxSubscriptions
    PROVE  Cardinality(Load)' <= MaxSubscriptions
<1>1. raced = {}
  BY RacedGrows
<1>2. \A s \in SubIds : Orderly(s) /\ s \notin raced'
  BY <1>1 DEF EntryInv
<1>3. /\ Load = {s \in SubIds : Place(s) # "none"}
      /\ Load' = {s \in SubIds : Place(s)' # "none"}
  BY DEF Load, ids, Place
<1>4. IsFiniteSet(Load') /\ Cardinality(Load') \in Nat
  BY <1>3, FS_Subset, FS_CardinalityType, ChansAssumption
<1>5. Load' \subseteq Load => Cardinality(Load)' <= MaxSubscriptions
  <2>1. ASSUME Load' \subseteq Load PROVE Cardinality(Load') <= Cardinality(Load)
    BY <2>1, LoadFinite, FS_Subset
  <2>2. QED
    BY <2>1, <1>4, LoadFinite, LimitAssumption
<1>6. ASSUME NEW r \in SubIds, Subscribe(r) PROVE Cardinality(Load)' <= MaxSubscriptions
  <2>1. Load' = Load \cup {r}
    BY <1>3, <1>2, <1>6, SubscribePlace DEF Moves, Stands
  <2>2. Cardinality(Load') <= Cardinality(Load) + 1
    BY <2>1, LoadFinite, FS_AddElement
  <2>3. QED
    BY <1>2, <1>6, <1>4, <2>2, RoomLeft, LoadFinite, LimitAssumption
<1>7. CASE TaskStep
  <2>1. ASSUME NEW s \in SubIds PROVE Place(s)' # "none" => Place(s) # "none"
    <3>1. CASE Connect
      BY <1>2, <3>1, ConnectPlace DEF Stands
    <3>2. CASE Confirm
      BY <1>2, <3>2, ConfirmPlace DEF Stands, Moves
    <3>3. CASE ~Connect /\ ~Confirm
      BY <1>2, <1>7, <3>3, TaskPlace DEF Stands
    <3>4. QED
      BY <3>1, <3>2, <3>3
  <2>2. QED
    BY <1>3, <1>5, <2>1
<1>8. ASSUME NEW r \in SubIds, Unsubscribe(r) \/ Resubscribe(r) \/ Reissue(r) \/ ReissueFails(r)
      PROVE  Cardinality(Load)' <= MaxSubscriptions
  <2>1. ASSUME NEW s \in SubIds PROVE Place(s)' # "none" => Place(s) # "none"
    BY <1>2, <1>8, UnsubscribePlace, ResubscribePlace, ReissuePlace, ReissueFailsPlace
    DEF Stands, Moves
  <2>2. QED
    BY <1>3, <1>5, <2>1
<1>9. CASE Elsewhere
  <2>1. \A s \in SubIds : Stands(s)
    BY <1>9, ElsewherePlace
  <2>2. QED
    BY <1>3, <1>5, <2>1 DEF Stands
<1>10. QED
  BY <1>6, <1>7, <1>8, <1>9 DEF Next, OwnerStep, Elsewhere

\* Where no sub_id was asked for again too early, the count is within the limit
\* whenever what takes room is.
LEMMA CountWithinLoad ==
    ASSUME TypeOK, EntryInv, raced = {}, Cardinality(Load) <= MaxSubscriptions
    PROVE  count <= MaxSubscriptions
<1>1. count = Cardinality(ids) /\ IsFiniteSet(ids)
  BY CountIsIds DEF EntryInv
<1>2. Cardinality(ids) <= Cardinality(Load) /\ Cardinality(ids) \in Nat
  BY <1>1, LoadFinite, FS_Subset, FS_CardinalityType DEF Load
<1>3. QED
  BY <1>1, <1>2, LoadFinite, LimitAssumption

LEMMA LoadInit == Init => Cardinality(Load) <= MaxSubscriptions
<1>1. ASSUME Init, NEW s \in SubIds PROVE s \notin Load
  BY <1>1, NoneAssumption DEF Init, NoCopies, NoChannels, Carriers, Load, ids
<1>2. Init => Load = {}
  BY <1>1 DEF Load, ids
<1>3. QED
  BY <1>2, FS_EmptySet, LimitAssumption

LEMMA LimitNext ==
    TypeOK /\ TypeOK' /\ WireInv /\ EntryInv /\ EntryInv' /\ [Next]_vars
      => [raced' = {} /\ Cardinality(Load) <= MaxSubscriptions /\ ~Overtakes
            => Cardinality(Load)' <= MaxSubscriptions /\ count' <= MaxSubscriptions]_vars
<1> DEFINE Raced == raced # {}
           Within == Cardinality(Load) <= MaxSubscriptions
           Counted == count <= MaxSubscriptions
<1>1. TypeOK /\ EntryInv /\ ~Raced /\ Within => Counted
  BY CountWithinLoad
<1> HIDE DEF Raced, Within, Counted
<1>2. TypeOK' /\ EntryInv' /\ ~Raced' /\ Within' => Counted'
  BY <1>1, PTL
<1>3. QED
  <2>1. TypeOK /\ TypeOK' /\ WireInv /\ EntryInv /\ [Next]_vars /\ ~Raced' /\ ~Overtakes /\ Within
          => Within'
    BY LoadNext DEF Raced, Within
  <2>2. QED
    BY <1>2, <2>1 DEF Raced, Within, Counted

\* A bucket within the limit Bitfinex puts on a connection is only taken beyond
\* it by a subscribe() that overtakes a resubscribe() of another sub_id, or by a
\* sub_id asked for again too early: nothing else, no drop and no recovery, does.
THEOREM LimitPassedOnlyByOvertaking == Spec => LimitOnlyOvertaken
BY LimitNext, EntriesCorrect, TypeCorrect, WireCorrect, PTL DEF Spec, LimitOnlyOvertaken

\* So an owner that lets each resubscribe() end before it subscribes anew never
\* sees the limit passed.
THEOREM CapacityUnlessOvertaken ==
    Spec /\ []Unraced /\ [][~Overtakes]_vars => []CapacityRespected
<1> DEFINE Within == Cardinality(Load) <= MaxSubscriptions
<1>1. TypeOK /\ EntryInv /\ Unraced /\ Within => CapacityRespected
  BY CountWithinLoad DEF Unraced, CapacityRespected
<1>2. /\ TypeOK /\ TypeOK' /\ WireInv /\ EntryInv /\ Unraced' /\ Within
      /\ [Next]_vars /\ [~Overtakes]_vars
      => Within'
  <2>1. CASE UNCHANGED vars
    BY <2>1 DEF vars, bucketVars, ownerVars, Load, ids, Carriers
  <2>2. CASE ~UNCHANGED vars
    BY <2>2, LoadNext DEF Unraced
  <2>3. QED
    BY <2>1, <2>2
<1>3. Init => Within
  BY LoadInit
<1> HIDE DEF Within
<1>4. QED
  BY <1>1, <1>2, <1>3, EntriesCorrect, TypeCorrect, WireCorrect, PTL DEF Spec

-----------------------------------------------------------------------------
(* The contract.                                                           *)

LEMMA ContractInit == Init => Contract!Init
<1>1. ASSUME Init, NEW s \in SubIds PROVE Status(s) = "none"
  BY <1>1, NoneAssumption DEF Init, NoCopies, NoChannels, Carriers, Status
<1>2. QED
  BY <1>1 DEF Contract!Init

status == [s \in SubIds |-> Status(s)]

\* One subscription moves, the rest stand.
LEMMA OneMoves ==
    ASSUME owned, owned', NEW r \in SubIds, \A s \in SubIds : s # r => Stands(s)
    PROVE  status' = [status EXCEPT ![r] = Place(r)'] /\ status[r] = Place(r)
<1>1. \A s \in SubIds : Status(s) = Place(s) /\ Status(s)' = Place(s)'
  BY DEF Status, Place
<1>2. QED
  BY <1>1 DEF status, Stands

LEMMA NoneMoves ==
    ASSUME owned' = owned, owned => \A s \in SubIds : Stands(s)
    PROVE  status' = status
<1>1. \A s \in SubIds : Status(s) = IF owned THEN Place(s) ELSE "none"
  BY DEF Status, Place
<1>2. \A s \in SubIds : Status(s)' = IF owned' THEN Place(s)' ELSE "none"
  BY DEF Status, Place
<1>3. QED
  BY <1>1, <1>2 DEF status, Stands

LEMMA SameOwner ==
    ASSUME [Next]_vars, \A r \in SubIds : ~UnsubscribeLast(r)
    PROVE  owned' = owned
BY DEF Next, TaskStep, OwnerStep, EnvironmentStep, ServerAnswers, ReadMessage, StayClosed,
   Connect, RecoverSend, RecoverDone, RecoverFails, Confirm, ConfirmCancelled, Dispatch,
   RestartRequested, ReadEnds, Subscribe, Unsubscribe, Resubscribe, Reissue, ReissueFails,
   Close, Stopped, Supervised, ServerOpens, ServerRefuses, ServerCloses, ServerRestarts, Drop,
   bucketVars, vars

\* Every step of a bucket none of whose sub_ids was asked for again too early
\* is a step the contract allows, or none at all.
LEMMA ContractNext ==
    TypeOK /\ WireInv /\ EntryInv /\ WantedInv /\ Unraced /\ Unraced'
        /\ [Next]_vars => [Contract!Next]_status
<1> SUFFICES ASSUME TypeOK, WireInv, EntryInv, WantedInv, raced = {}, raced' = {}, [Next]_vars
             PROVE  Contract!Next \/ status' = status
  BY DEF Unraced
<1>1. \A s \in SubIds : Orderly(s) /\ s \notin raced'
  BY DEF EntryInv
<1>2. (open \/ ~closing) => owned
  BY DEF WantedInv
<1>3. ASSUME NEW r \in SubIds, UnsubscribeLast(r) PROVE Contract!Next
  <2>1. \A s \in SubIds : Status(s)' = "none"
    BY <1>3 DEF UnsubscribeLast, Status
  <2>2. status' = [s \in SubIds |-> "none"]
    BY <2>1 DEF status
  <2>3. QED
    BY <2>2 DEF status, Contract!Next, Contract!Retire
<1>4. ASSUME owned' = owned PROVE Contract!Next \/ status' = status
  <2>1. CASE ~owned
    BY <1>4, <2>1, NoneMoves
  <2>2. CASE \A s \in SubIds : Stands(s)
    BY <1>4, <2>2, NoneMoves
  <2>3. ASSUME owned, Connect PROVE Contract!Interrupt
    <3>1. \A s \in SubIds : Status(s) = Place(s) /\ Status(s)' = Place(s)'
      BY <1>4, <2>3 DEF Status, Place
    <3>2. \A s \in SubIds : Status(s)' = IF Status(s) = "active" THEN "asked" ELSE Status(s)
      BY <1>1, <2>3, <3>1, ConnectPlace DEF Stands
    <3>3. QED
      BY <3>2 DEF Contract!Interrupt, Contract!Active
  <2>4. ASSUME owned, Confirm PROVE \E r \in SubIds : Contract!Confirm(r)
    <3> DEFINE r == Head(toClient).sub
    <3>1. PICK t \in SubIds : \A s \in SubIds : (s = t => Moves(s, "asked", "active"))
                                             /\ (s # t => Stands(s))
      <4>1. \A s \in SubIds : /\ r \in SubIds
                              /\ s = r => Moves(s, "asked", "active")
                              /\ s # r => Stands(s)
        BY <1>1, <2>4, ConfirmPlace
      <4>2. r \in SubIds
        BY <2>4, TailFacts DEF Confirm, Incoming, TypeOK, Messages
      <4>3. QED
        BY <4>1, <4>2
    <3>2. status' = [status EXCEPT ![t] = "active"] /\ status[t] = "asked"
      BY <1>4, <2>4, <3>1, OneMoves DEF Moves
    <3>3. QED
      BY <3>2 DEF status, Contract!Confirm, Contract!Set
  <2>5. ASSUME owned, NEW r \in SubIds, Subscribe(r) PROVE Contract!Ask(r)
    <3>1. \A s \in SubIds : (s = r => Moves(s, "none", "asked")) /\ (s # r => Stands(s))
      BY <1>1, <2>5, SubscribePlace
    <3>2. status' = [status EXCEPT ![r] = "asked"] /\ status[r] = "none"
      BY <1>4, <2>5, <3>1, OneMoves DEF Moves
    <3>3. QED
      BY <3>2 DEF status, Contract!Ask, Contract!Set
  <2>6. ASSUME owned, NEW r \in SubIds, Unsubscribe(r) PROVE Contract!Cancel(r)
    <3>1. /\ Place(r) # "none" /\ Place(r)' = "none"
          /\ \A s \in SubIds : s # r => Stands(s)
      BY <1>1, <2>6, UnsubscribePlace
    <3>2. status' = [status EXCEPT ![r] = "none"] /\ status[r] # "none"
      BY <1>4, <2>6, <3>1, OneMoves
    <3>3. QED
      BY <3>2 DEF status, Contract!Cancel, Contract!Set
  <2>7. ASSUME owned, NEW r \in SubIds, Resubscribe(r) PROVE Contract!Reissue(r)
    <3>1. \A s \in SubIds : (s = r => Moves(s, "active", "asked")) /\ (s # r => Stands(s))
      BY <1>1, <2>7, ResubscribePlace
    <3>2. status' = [status EXCEPT ![r] = "asked"] /\ status[r] = "active"
      BY <1>4, <2>7, <3>1, OneMoves DEF Moves
    <3>3. QED
      BY <3>2 DEF status, Contract!Reissue, Contract!Set
  <2>8. ASSUME owned, NEW r \in SubIds, ReissueFails(r) PROVE Contract!Cancel(r)
    <3>1. \A s \in SubIds : (s = r => Moves(s, "asked", "none")) /\ (s # r => Stands(s))
      BY <1>1, <2>8, ReissueFailsPlace
    <3>2. status' = [status EXCEPT ![r] = "none"] /\ status[r] # "none"
      BY <1>4, <2>8, <3>1, OneMoves DEF Moves
    <3>3. QED
      BY <3>2 DEF status, Contract!Cancel, Contract!Set
  <2>9. ASSUME NEW r \in SubIds, Reissue(r) PROVE \A s \in SubIds : Stands(s)
    BY <1>1, <2>9, ReissuePlace
  <2>10. ASSUME TaskStep, ~Connect, ~Confirm PROVE \A s \in SubIds : Stands(s)
    BY <1>1, <2>10, TaskPlace
  <2>11. Elsewhere => \A s \in SubIds : Stands(s)
    BY ElsewherePlace
  <2>12. QED
    BY <2>1, <2>2, <2>3, <2>4, <2>5, <2>6, <2>7, <2>8, <2>9, <2>10, <2>11
    DEF Next, OwnerStep, Elsewhere, Contract!Next
<1>5. QED
  BY <1>3, <1>4, SameOwner

\* The bucket implements the contract of its owner, through drops and restarts
\* at any step of the recovery: no subscription is lost, revived or left half
\* subscribed, as long as no sub_id is asked for again too early.
THEOREM ContractKept == Spec /\ []Unraced => KeepsContract
<1>1. Contract!Spec <=> Contract!Init /\ [][Contract!Next]_status
  BY DEF Contract!Spec, status
<1>2. QED
  BY <1>1, ContractInit, ContractNext, WantedCorrect, EntriesCorrect, TypeCorrect,
     WireCorrect, PTL DEF Spec, KeepsContract

=============================================================================
