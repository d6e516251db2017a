------------------------------ MODULE FeedProofs ------------------------------
(***************************************************************************)
(* What is proved of Feed, for any set of streams, any number of frames on *)
(* the way and of subscriptions: a consumer that does what the events say  *)
(* has what the frames said, and once it has read them all what the server *)
(* has; the example's book is right unless it was merged or cleared at the *)
(* wrong time, and is reported wrong only when it is not what was checked. *)
(***************************************************************************)
EXTENDS Feed, TLAPS

Data == {"snapshot", "update", "close"}

\* A frame of data of the current subscription.
Mine(j) == j \in 1 .. Len(wire) /\ wire[j].sub = sub /\ wire[j].type \in Data

FamilyName(key) ==
    CASE key = "o" -> "order" [] key = "p" -> "position" [] key = "fo" -> "funding_offer"
      [] key = "fc" -> "funding_credit" [] key = "fl" -> "funding_loan" [] key = "w" -> "wallet"

\* The event a stream's snapshot is.
SnapshotEvent ==
    CASE stream.channel = "trades"  -> <<stream.symbol, "trades_snapshot">>
      [] stream.channel = "book"    -> <<stream.symbol, IF stream.key # "R0" THEN "book_snapshot"
                                                        ELSE "raw_book_snapshot">>
      [] stream.channel = "candles" -> <<"", "candles_snapshot">>
      [] stream.channel = "account" -> <<FamilyName(stream.key), "snapshot">>

\* How the server tags the changes of a stream.
UpdateTags ==
    CASE stream.channel = "trades" -> IF stream.symbol = "t" THEN {"te", "tu"} ELSE {"fte", "ftu"}
      [] stream.channel \in Public \ {"trades"} -> {"none"}
      [] stream.channel = "account" ->
            IF stream.key \in {"n", "miu"} THEN {<<stream.key, stream.symbol>>}
            ELSE IF stream.key = "t" THEN {<<"t", "e">>, <<"t", "u">>}
            ELSE IF stream.key \in Families THEN {<<stream.key, "n">>, <<stream.key, "u">>}
            ELSE {<<stream.key, "u">>}

IsSnapshot(msg) ==
    /\ msg.type = "snapshot" /\ HasSnapshot(stream)
    /\ msg.tag = IF stream.channel = "account" THEN <<stream.key, "s">> ELSE "none"
IsUpdate(msg) == msg.type = "update" /\ msg.tag \in UpdateTags
IsClose(msg) ==
    /\ msg.type = "close" /\ stream.channel = "account" /\ stream.key \in Families
    /\ msg.tag = <<stream.key, "c">>
IsOther(msg) ==
    msg.type \in {"subscribed", "hb"} \/ (msg.type = "cs" /\ stream.channel = "book")

Frame(msg) == IsSnapshot(msg) \/ IsUpdate(msg) \/ IsClose(msg) \/ IsOther(msg)

FramesInv == \A j \in 1 .. Len(wire) : Frame(wire[j]) /\ wire[j].sub <= sub

\* What the client and the server know of the subscription goes together.
HeldInv ==
    /\ opened => up
    /\ held = "gone" <=> restart = "unsubscribed"
    /\ held = "gone" => ~opened /\ sub < MaxSubs
    /\ \A s \in sub + 1 .. MaxSubs : ledger[s] = {}
    /\ held = "pending" =>
          /\ ~live /\ ledger[sub] = {}
          /\ up /\ ~opened => \A j \in 1 .. Len(wire) : wire[j].sub # sub

\* A snapshot comes first, and is not latched.
OrderInv == held # "gone" =>
    /\ \A j : Mine(j) /\ wire[j].type = "snapshot" =>
          ~live /\ SnapshotEvent \notin ledger[sub] /\ \A i : Mine(i) => j <= i
    /\ HasSnapshot(stream) /\ ~live =>
          /\ \A j : Mine(j) => wire[j].type = "snapshot" \/ \E i : Mine(i) /\ i < j
          /\ opened => \E j : Mine(j)

SyncInv == live \/ ~HasSnapshot(stream) => mirror = truth

BookInv ==
    /\ IsExampleBook(stream) /\ restart = "no" /\ ~tainted =>
          local = IF live THEN truth ELSE Nothing
    /\ \A i \in 1 .. Len(tasks) : tasks[i].value = Crc(tasks[i].truth)
    /\ tasks # <<>> \/ restart # "no" => IsExampleBook(stream)

\* A content after the message is read.
Applied(b, msg) ==
    IF msg.sub # sub THEN b
    ELSE CASE msg.type = "snapshot" -> Merge(Nothing, msg.rows)
           [] msg.type = "update"   -> Merge(b, msg.rows)
           [] msg.type = "close"    -> Without(b, msg.rows)
           [] OTHER                 -> b

\* h: what the messages of w up to each will have described once read.
Chain(h, w) ==
    /\ h \in [0 .. Len(w) -> Contents]
    /\ \A j \in 1 .. Len(w) :
          /\ h[j] = Applied(h[j - 1], w[j])
          /\ w[j].type = "cs" /\ w[j].sub = sub => w[j].value = Signed(Crc(h[j]))

\* The messages lead from what was read to what the server has.
ChainInv == held # "gone" =>
    \E h : /\ Chain(h, wire) /\ h[0] = truth
           /\ opened /\ HasSnapshot(stream) => h[Len(wire)] = content

\* The inductive invariant.
IInv == TypeOK /\ FramesInv /\ HeldInv /\ OrderInv /\ SyncInv /\ BookInv /\ ChainInv
-----------------------------------------------------------------------------
(* From a frame to events.                                                 *)

\* The events that are delivered once are snapshots and confirmations.
LEMMA OnceNames ==
    ASSUME NEW e \in ONCE
    PROVE  e[2] \in {"open", "authenticated", "snapshot", "subscribed", "candles_snapshot",
                     "trades_snapshot", "book_snapshot", "raw_book_snapshot"}
<1>1. CASE e \in ONCE_PER_CONNECTION
  <2>1. CASE e \in {<<"", "open">>, <<"", "authenticated">>}
    <3>1. <<"", "open">>[2] = "open" /\ <<"", "authenticated">>[2] = "authenticated"
      OBVIOUS
    <3> QED  BY <2>1, <3>1, Zenon
  <2>2. CASE e \in ({"order", "position", "wallet"} \cup Funding) \X {"snapshot"}
    BY <2>2
  <2> QED  BY <1>1, <2>1, <2>2 DEF ONCE_PER_CONNECTION
<1>2. CASE e \in ONCE_PER_SUBSCRIPTION
  <2>1. CASE e \in {<<"", "subscribed">>, <<"", "candles_snapshot">>}
    <3>1. <<"", "subscribed">>[2] = "subscribed" /\ <<"", "candles_snapshot">>[2] = "candles_snapshot"
      OBVIOUS
    <3> QED  BY <2>1, <3>1, Zenon
  <2>2. CASE e \in Currencies \X {"trades_snapshot", "book_snapshot", "raw_book_snapshot"}
    BY <2>2
  <2> QED  BY <1>2, <2>1, <2>2 DEF ONCE_PER_SUBSCRIPTION
<1> QED  BY <1>1, <1>2 DEF ONCE

\* The abbreviations a stream's frames carry, and their events.
LEMMA Abbreviations ==
    ASSUME NEW f \in Families, NEW a \in {"s", "n", "u", "c"}
    PROVE  /\ <<f, a>> \in DOMAIN ABBREVIATIONS
           /\ ABBREVIATIONS[<<f, a>>] =
                 <<FamilyName(f), CASE a = "s" -> "snapshot" [] a = "n" -> "new"
                                    [] a = "u" -> "update"
                                    [] a = "c" -> IF f \in {"o", "fo"} THEN "cancel" ELSE "close">>
<1> DEFINE family == [o |-> "order", p |-> "position", fo |-> "funding_offer",
                      fc |-> "funding_credit", fl |-> "funding_loan"]
           action(g) == [s |-> "snapshot", n |-> "new", u |-> "update",
                         c |-> IF g \in {"o", "fo"} THEN "cancel" ELSE "close"]
           regular == (DOMAIN family) \X {"s", "n", "u", "c"}
<1>1. <<f, a>> \in regular
  BY DEF Families
<1>2. family[f] = FamilyName(f)
  BY DEF Families, FamilyName
<1>3. action(f)[a] = CASE a = "s" -> "snapshot" [] a = "n" -> "new" [] a = "u" -> "update"
                       [] a = "c" -> IF f \in {"o", "fo"} THEN "cancel" ELSE "close"
  OBVIOUS
<1>4. <<f, a>> \in DOMAIN ABBREVIATIONS /\ ABBREVIATIONS[<<f, a>>] = <<family[f], action(f)[a]>>
  <2> HIDE DEF family, action
  <2>1. <<f, a>>[1] = f /\ <<f, a>>[2] = a
    OBVIOUS
  <2> QED  BY <1>1, <2>1 DEF ABBREVIATIONS, family, action
<1> QED  BY <1>2, <1>3, <1>4

LEMMA OtherAbbreviations ==
    /\ {<<"t", "e">>, <<"t", "u">>, <<"w", "s">>, <<"w", "u">>, <<"fi", "u">>, <<"b", "u">>}
          \subseteq DOMAIN ABBREVIATIONS
    /\ ABBREVIATIONS[<<"t", "e">>] = <<"", "trade_execution">>
    /\ ABBREVIATIONS[<<"t", "u">>] = <<"", "trade_execution_update">>
    /\ ABBREVIATIONS[<<"w", "s">>] = <<"wallet", "snapshot">>
    /\ ABBREVIATIONS[<<"w", "u">>] = <<"wallet", "update">>
    /\ ABBREVIATIONS[<<"fi", "u">>] = <<"funding_info", "update">>
    /\ ABBREVIATIONS[<<"b", "u">>] = <<"balance", "update">>
  BY DEF ABBREVIATIONS

\* A snapshot is one event, of those that are delivered once.
LEMMA SnapshotDispatch ==
    ASSUME stream \in KnownStreams, NEW msg, IsSnapshot(msg)
    PROVE  /\ Events(msg) = {<<SnapshotEvent, msg.rows>>}
           /\ on(SnapshotEvent) /\ SnapshotEvent \in ONCE /\ Replaces(SnapshotEvent)
<1>1. CASE stream.channel = "trades"
  <2>1. stream.symbol \in {"t", "f"} /\ msg.tag = "none"
    BY <1>1 DEF KnownStreams, IsSnapshot
  <2>2. SnapshotEvent = <<stream.symbol, "trades_snapshot">>
    BY <1>1 DEF SnapshotEvent
  <2>3. Events(msg) = {<<SnapshotEvent, msg.rows>>}
    BY <1>1, <2>1, <2>2 DEF Events, Public, public_dispatch, trades_channel_handler, Pair, TradeEvents
  <2> QED  BY <2>1, <2>2, <2>3 DEF on, EVENTS, ONCE, ONCE_PER_SUBSCRIPTION, Currencies, Replaces
<1>2. CASE stream.channel = "book"
  <2>1. stream.symbol \in {"t", "f"} /\ msg.type = "snapshot"
    BY <1>2 DEF KnownStreams, IsSnapshot
  <2>2. SnapshotEvent = <<stream.symbol, IF stream.key # "R0" THEN "book_snapshot"
                                                             ELSE "raw_book_snapshot">>
    BY <1>2 DEF SnapshotEvent
  <2>3. Events(msg) = {<<SnapshotEvent, msg.rows>>}
    BY <1>2, <2>1, <2>2 DEF Events, Public, public_dispatch, book_channel_handler,
       raw_book_channel_handler, all_lists, Pair
  <2> QED  BY <2>1, <2>2, <2>3 DEF on, EVENTS, ONCE, ONCE_PER_SUBSCRIPTION, Currencies, Replaces
<1>3. CASE stream.channel = "candles"
  <2>2. SnapshotEvent = <<"", "candles_snapshot">>
    BY <1>3 DEF SnapshotEvent
  <2>3. Events(msg) = {<<SnapshotEvent, msg.rows>>}
    BY <1>3, <2>2 DEF Events, Public, public_dispatch, candles_channel_handler, all_lists, Pair, IsSnapshot
  <2> QED  BY <2>2, <2>3 DEF on, EVENTS, ONCE, ONCE_PER_SUBSCRIPTION, Replaces
<1>4. CASE stream.channel = "account"
  <2>1. stream.key \in Families \cup {"w"} /\ msg.tag = <<stream.key, "s">>
    BY <1>4 DEF HasSnapshot, IsSnapshot
  <2>2. SnapshotEvent = <<FamilyName(stream.key), "snapshot">>
    BY <1>4 DEF SnapshotEvent
  <2>3. msg.tag \in DOMAIN ABBREVIATIONS /\ ABBREVIATIONS[msg.tag] = SnapshotEvent
    <3>1. CASE stream.key \in Families
      BY <2>1, <2>2, <3>1, Abbreviations
    <3>2. CASE stream.key = "w"
      BY <2>1, <2>2, <3>2, OtherAbbreviations DEF FamilyName
    <3> QED  BY <2>1, <3>1, <3>2
  <2>4. msg.tag[1] \notin {"n", "miu"}
    BY <2>1 DEF Families
  <2>5. Events(msg) = {<<SnapshotEvent, msg.rows>>}
    BY <1>4, <2>3, <2>4 DEF Events, Public, auth_dispatch
  <2>6. FamilyName(stream.key) \in {"order", "position", "wallet"} \cup Funding
    BY <2>1 DEF FamilyName, Families, Funding
  <2> QED  BY <2>2, <2>5, <2>6 DEF on, EVENTS, ONCE, ONCE_PER_CONNECTION, Replaces
<1> QED  BY <1>1, <1>2, <1>3, <1>4 DEF IsSnapshot, HasSnapshot

\* The end of an order, a position, ... is one event.
LEMMA CloseDispatch ==
    ASSUME NEW msg, IsClose(msg)
    PROVE  \E event : /\ Events(msg) = {<<event, msg.rows>>}
                      /\ on(event) /\ event \notin ONCE
                      /\ Removes(event) /\ ~Replaces(event)
<1> DEFINE event == <<FamilyName(stream.key), IF stream.key \in {"o", "fo"} THEN "cancel" ELSE "close">>
<1>1. stream.channel = "account" /\ stream.key \in Families /\ msg.tag = <<stream.key, "c">>
  BY DEF IsClose
<1>2. msg.tag \in DOMAIN ABBREVIATIONS /\ ABBREVIATIONS[msg.tag] = event
  BY <1>1, Abbreviations
<1>3. msg.tag[1] \notin {"n", "miu"}
  BY <1>1 DEF Families
<1>4. Events(msg) = {<<event, msg.rows>>}
  BY <1>1, <1>2, <1>3 DEF Events, Public, auth_dispatch
<1>5. on(event)
  BY <1>1 DEF FamilyName, Families, on, EVENTS, COMMON, Funding
<1>6. event[2] \in {"cancel", "close"}
  OBVIOUS
<1>7. event \notin ONCE
  BY <1>6, OnceNames
<1> QED  BY <1>4, <1>5, <1>6, <1>7 DEF Removes, Replaces

\* An event that changes something: never latched, and heard of.
Changes(event) == on(event) /\ event \notin ONCE /\ ~Replaces(event) /\ ~Removes(event)

\* Anything else is one event, or (liquidations) one of each entry.
LEMMA UpdateDispatch ==
    ASSUME stream \in KnownStreams, NEW msg, IsUpdate(msg)
    PROVE  \E event :
              /\ Changes(event)
              /\ \/ Events(msg) = {<<event, msg.rows>>}
                 \/ Events(msg) = {<<event, [j \in {i} |-> msg.rows[i]]>> : i \in DOMAIN msg.rows}
<1> DEFINE Plain(event) == Events(msg) = {<<event, msg.rows>>}
           Common(event) == event \in COMMON /\ event[2] \notin {"open", "authenticated",
                "snapshot", "subscribed", "candles_snapshot", "trades_snapshot", "book_snapshot",
                "raw_book_snapshot", "cancel", "close"}
<1>0. ASSUME NEW event, Common(event)
      PROVE  Changes(event)
  <2>1. event \notin ONCE
    BY <1>0, OnceNames
  <2> QED  BY <1>0, <2>1 DEF Changes, on, EVENTS, Replaces, Removes
<1>1. CASE stream.channel = "ticker"
  <2>1. stream.symbol \in {"t", "f"}
    BY <1>1 DEF KnownStreams
  <2>2. Plain(<<stream.symbol, "ticker_update">>)
    BY <1>1 DEF Events, Public, public_dispatch, ticker_channel_handler, Pair
  <2>3. Common(<<stream.symbol, "ticker_update">>)
    BY <2>1 DEF COMMON, Currencies
  <2> QED  BY <1>0, <2>2, <2>3
<1>2. CASE stream.channel = "trades"
  <2>1. msg.tag \in {"te", "tu", "fte", "ftu"}
    BY <1>2 DEF IsUpdate, UpdateTags
  <2>2. Plain(TradeEvents[msg.tag])
    BY <1>2, <2>1 DEF Events, Public, public_dispatch, trades_channel_handler, TradeEvents
  <2>3. Common(TradeEvents[msg.tag])
    <3> DEFINE event == TradeEvents[msg.tag]
    <3>1. event \in Currencies \X {"trade_execution", "trade_execution_update"}
      BY <2>1 DEF Currencies, TradeEvents
    <3>2. event \in COMMON
      BY <3>1 DEF COMMON
    <3>3. event[2] \in {"trade_execution", "trade_execution_update"}
      BY <3>1
    <3> QED  BY <3>2, <3>3
  <2> QED  BY <1>0, <2>2, <2>3
<1>3. CASE stream.channel = "book"
  <2> DEFINE event == <<stream.symbol, IF stream.key # "R0" THEN "book_update" ELSE "raw_book_update">>
  <2>1. stream.symbol \in {"t", "f"} /\ msg.type = "update"
    BY <1>3 DEF KnownStreams, IsUpdate
  <2>2. Plain(event)
    BY <1>3, <2>1 DEF Events, Public, public_dispatch, book_channel_handler,
       raw_book_channel_handler, all_lists, Pair
  <2>3. Common(event)
    BY <2>1 DEF COMMON, Currencies
  <2> QED  BY <1>0, <2>2, <2>3
<1>4. CASE stream.channel = "candles"
  <2>2. Plain(<<"", "candles_update">>)
    BY <1>4 DEF Events, Public, public_dispatch, candles_channel_handler, all_lists, Pair, IsUpdate
  <2>3. Common(<<"", "candles_update">>)
    BY DEF COMMON
  <2> QED  BY <1>0, <2>2, <2>3
<1>5. CASE stream.channel = "status" /\ stream.key = "deriv:"
  <2>2. Plain(<<"", "derivatives_status_update">>)
    BY <1>5 DEF Events, Public, public_dispatch, status_channel_handler, Pair
  <2>3. Common(<<"", "derivatives_status_update">>)
    BY DEF COMMON
  <2> QED  BY <1>0, <2>2, <2>3
<1>6. CASE stream.channel = "status" /\ stream.key # "deriv:"
  <2> DEFINE event == <<"", "liquidation_feed_update">>
  <2>2. Events(msg) = {<<event, [j \in {i} |-> msg.rows[i]]>> : i \in DOMAIN msg.rows}
    BY <1>6 DEF Events, Public, public_dispatch, status_channel_handler, Pair
  <2>3. Common(event)
    BY DEF COMMON
  <2> QED  BY <1>0, <2>2, <2>3
<1>7. CASE stream.channel = "account"
  <2>1. Events(msg) = auth_dispatch(msg)
    BY <1>7 DEF Events, Public
  <2>2. CASE stream.key = "n"
    <3> DEFINE event == <<IF stream.symbol \in {"on-req", "ou-req", "oc-req", "fon-req", "foc-req"}
                          THEN stream.symbol ELSE "", "notification">>
    <3>1. msg.tag = <<"n", stream.symbol>>
      BY <1>7, <2>2 DEF IsUpdate, UpdateTags, Public
    <3>2. msg.tag[1] = "n" /\ msg.tag[2] = stream.symbol
      BY <3>1
    <3>4. auth_dispatch(msg) = notification(stream.symbol, msg.rows)
      BY <3>2 DEF auth_dispatch
    <3>5. Plain(event)
      BY <2>1, <3>4 DEF notification, Pair
    <3>3. Common(event)
      BY DEF COMMON
    <3> QED  BY <1>0, <3>5, <3>3
  <2>3. CASE stream.key = "miu"
    <3> DEFINE event == <<IF stream.symbol = "base" THEN "base" ELSE "symbol", "margin_info">>
    <3>1. msg.tag = <<"miu", stream.symbol>>
      BY <1>7, <2>3 DEF IsUpdate, UpdateTags, Public
    <3>2. Plain(event)
      BY <2>1, <3>1 DEF auth_dispatch, Pair
    <3>3. Common(event)
      BY DEF COMMON
    <3> QED  BY <1>0, <3>2, <3>3
  <2>4. ASSUME msg.tag \in DOMAIN ABBREVIATIONS, msg.tag[1] \notin {"n", "miu"}
        PROVE  Plain(ABBREVIATIONS[msg.tag])
    BY <2>1, <2>4 DEF auth_dispatch
  <2>5. CASE stream.key \in Families
    <3>1. msg.tag \in {<<stream.key, "n">>, <<stream.key, "u">>}
      BY <1>7, <2>5 DEF IsUpdate, UpdateTags, Public, Families
    <3>2. /\ msg.tag \in DOMAIN ABBREVIATIONS /\ msg.tag[1] \notin {"n", "miu"}
          /\ ABBREVIATIONS[msg.tag] \in {<<FamilyName(stream.key), "new">>, <<FamilyName(stream.key), "update">>}
      <4>1. /\ <<stream.key, "n">> \in DOMAIN ABBREVIATIONS
            /\ ABBREVIATIONS[<<stream.key, "n">>] = <<FamilyName(stream.key), "new">>
            /\ <<stream.key, "u">> \in DOMAIN ABBREVIATIONS
            /\ ABBREVIATIONS[<<stream.key, "u">>] = <<FamilyName(stream.key), "update">>
        BY <2>5, Abbreviations
      <4>2. stream.key \notin {"n", "miu"}
        BY <2>5 DEF Families
      <4>3. CASE msg.tag = <<stream.key, "n">>
        BY <4>1, <4>2, <4>3
      <4>4. CASE msg.tag = <<stream.key, "u">>
        BY <4>1, <4>2, <4>4
      <4> QED  BY <3>1, <4>3, <4>4
    <3>3. FamilyName(stream.key) \in {"order", "position"} \cup Funding
      BY <2>5 DEF FamilyName, Families, Funding
    <3>4. Common(<<FamilyName(stream.key), "new">>) /\ Common(<<FamilyName(stream.key), "update">>)
      BY <3>3 DEF COMMON
    <3>5. Common(ABBREVIATIONS[msg.tag])
      <4> HIDE DEF Common
      <4> QED  BY <3>2, <3>4
    <3> QED  BY <1>0, <2>4, <3>2, <3>5
  <2>6. CASE stream.key \in {"w", "t", "fi", "b"}
    <3>1. msg.tag \in {<<"w", "u">>, <<"t", "e">>, <<"t", "u">>, <<"fi", "u">>, <<"b", "u">>}
      BY <1>7, <2>6 DEF IsUpdate, UpdateTags, Public, Families
    <3>2. msg.tag[1] \notin {"n", "miu"}
      <4>1. msg.tag[1] \in {"w", "t", "fi", "b"}
        <5>1. /\ <<"w", "u">>[1] = "w" /\ <<"t", "e">>[1] = "t" /\ <<"t", "u">>[1] = "t"
              /\ <<"fi", "u">>[1] = "fi" /\ <<"b", "u">>[1] = "b"
          OBVIOUS
        <5> QED  BY <3>1, <5>1, Zenon
      <4> QED  BY <4>1
    <3>3. ABBREVIATIONS[msg.tag] \in {<<"wallet", "update">>, <<"", "trade_execution">>,
             <<"", "trade_execution_update">>, <<"funding_info", "update">>, <<"balance", "update">>}
      BY <3>1, OtherAbbreviations, Zenon
    <3>4. msg.tag \in DOMAIN ABBREVIATIONS
      BY <3>1, OtherAbbreviations, Zenon
    <3>5. /\ Common(<<"wallet", "update">>) /\ Common(<<"", "trade_execution">>)
          /\ Common(<<"", "trade_execution_update">>) /\ Common(<<"funding_info", "update">>)
          /\ Common(<<"balance", "update">>)
      BY DEF COMMON
    <3>6. Common(ABBREVIATIONS[msg.tag])
      <4> HIDE DEF Common
      <4> QED  BY <3>3, <3>5
    <3> QED  BY <1>0, <2>4, <3>2, <3>4, <3>6
  <2> QED  BY <1>7, <2>2, <2>3, <2>5, <2>6 DEF KnownStreams
<1> QED  BY <1>1, <1>2, <1>3, <1>4, <1>5, <1>6, <1>7 DEF KnownStreams
-----------------------------------------------------------------------------
(* From events to what a consumer has.                                     *)

LEMMA MergeType ==
    ASSUME NEW b \in Contents, NEW rows \in Patches
    PROVE  Merge(b, rows) \in Contents /\ Without(b, rows) \in Contents
  BY DEF Contents, Patches, Merge, Without, Values

LEMMA NothingType == Nothing \in Contents
  BY DEF Contents, Nothing, Values

\* A frame that is one event, or one of each of its rows, is all heard.
LEMMA OneEvent ==
    ASSUME NEW event, NEW rows, NEW events, events = {<<event, rows>>}
    PROVE  /\ \A b : update(b, events) = Merge(b, rows)
           /\ Mirrored(events) = IF Replaces(event) THEN Merge(Nothing, rows)
                                 ELSE IF Removes(event) THEN Without(mirror, rows)
                                 ELSE Merge(mirror, rows)
<1> DEFINE e0 == <<event, rows>>
<1>1. e0[1] = event /\ e0[2] = rows
  OBVIOUS
<1>2. \A i \in DOMAIN rows : (CHOOSE e \in {e0} : i \in DOMAIN e[2]) = e0
  BY <1>1
<1>3. events = {e0}
  OBVIOUS
<1> HIDE DEF e0
<1> DEFINE r == [i \in UNION {DOMAIN e[2] : e \in {e0}} |->
                  LET e == CHOOSE e \in {e0} : i \in DOMAIN e[2] IN e[2][i]]
<1>4. DOMAIN r = DOMAIN rows /\ \A i \in DOMAIN rows : r[i] = rows[i]
  BY <1>1, <1>2
<1>5. \A b : Merge(b, r) = Merge(b, rows) /\ Without(b, r) = Without(b, rows)
  <2> HIDE DEF r
  <2> QED  BY <1>4 DEF Merge, Without
<1>6. \A b : update(b, events) = Merge(b, r)
  <2>1. {e \in {e0} : TRUE} = {e0}
    OBVIOUS
  <2> QED  BY <1>3, <2>1 DEF update, Rows
<1>7. /\ (\E e \in events : Replaces(e[1])) <=> Replaces(event)
      /\ (\E e \in events : Removes(e[1])) <=> Removes(event)
  BY <1>1, <1>3
<1>8. CASE Replaces(event)
  <2>1. {e \in {e0} : Replaces(e[1])} = {e0}
    BY <1>1, <1>8
  <2>2. Mirrored(events) = Merge(Nothing, r)
    BY <1>3, <1>7, <1>8, <2>1 DEF Mirrored, Rows
  <2> HIDE DEF r
  <2> QED  BY <1>5, <1>6, <1>8, <2>2
<1>9. CASE ~Replaces(event) /\ Removes(event)
  <2>1. {e \in {e0} : Removes(e[1])} = {e0}
    BY <1>1, <1>9
  <2>2. Mirrored(events) = Without(mirror, r)
    BY <1>3, <1>7, <1>9, <2>1 DEF Mirrored, Rows
  <2> HIDE DEF r
  <2> QED  BY <1>5, <1>6, <1>9, <2>2
<1>10. CASE ~Replaces(event) /\ ~Removes(event)
  <2>1. {e \in {e0} : TRUE} = {e0}
    OBVIOUS
  <2>2. Mirrored(events) = Merge(mirror, r)
    BY <1>3, <1>7, <1>10, <2>1 DEF Mirrored, Rows
  <2> HIDE DEF r
  <2> QED  BY <1>5, <1>6, <1>10, <2>2
<1> QED  BY <1>8, <1>9, <1>10

LEMMA EachEvent ==
    ASSUME NEW event, NEW rows, NEW events, ~Replaces(event), ~Removes(event),
           events = {<<event, [j \in {i} |-> rows[i]]>> : i \in DOMAIN rows}
    PROVE  /\ \A b : update(b, events) = Merge(b, rows)
           /\ Mirrored(events) = Merge(mirror, rows)
<1> DEFINE one(i) == <<event, [j \in {i} |-> rows[i]]>>
<1>1. \A i : one(i)[1] = event /\ DOMAIN one(i)[2] = {i} /\ one(i)[2][i] = rows[i]
  OBVIOUS
<1> DEFINE es == {e \in events : TRUE}
<1>2. es = {one(i) : i \in DOMAIN rows} /\ events = es
  OBVIOUS
<1> HIDE DEF one, es
<1>3. UNION {DOMAIN e[2] : e \in es} = DOMAIN rows
  <2>1. ASSUME NEW i \in DOMAIN rows
        PROVE  i \in UNION {DOMAIN e[2] : e \in es}
    <3>1. one(i) \in es /\ i \in DOMAIN one(i)[2]
      BY <1>1, <1>2
    <3> QED  BY <3>1
  <2>2. ASSUME NEW i \in UNION {DOMAIN e[2] : e \in es}
        PROVE  i \in DOMAIN rows
    <3>1. PICK e \in es : i \in DOMAIN e[2]
      OBVIOUS
    <3>2. PICK j \in DOMAIN rows : e = one(j)
      BY <1>2
    <3> QED  BY <1>1, <3>1, <3>2
  <2> QED  BY <2>1, <2>2
<1>4. ASSUME NEW i \in DOMAIN rows
      PROVE  (CHOOSE e \in es : i \in DOMAIN e[2]) = one(i)
  <2>1. one(i) \in es /\ i \in DOMAIN one(i)[2]
    BY <1>1, <1>2
  <2>2. ASSUME NEW e \in es, i \in DOMAIN e[2]
        PROVE  e = one(i)
    <3>1. PICK j \in DOMAIN rows : e = one(j)
      BY <1>2
    <3> QED  BY <1>1, <2>2, <3>1
  <2> QED  BY <2>1, <2>2
<1> DEFINE r == [i \in UNION {DOMAIN e[2] : e \in es} |->
                  LET e == CHOOSE e \in es : i \in DOMAIN e[2] IN e[2][i]]
<1>5. DOMAIN r = DOMAIN rows /\ \A i \in DOMAIN rows : r[i] = rows[i]
  BY <1>1, <1>3, <1>4
<1>6. \A b : Merge(b, r) = Merge(b, rows)
  <2> HIDE DEF r
  <2> QED  BY <1>5 DEF Merge
<1>7. ASSUME NEW e \in es
      PROVE  ~Replaces(e[1]) /\ ~Removes(e[1])
  <2>1. PICK j \in DOMAIN rows : e = one(j)
    BY <1>2
  <2> QED  BY <1>1, <2>1
<1>8. Rows(events, LAMBDA e : TRUE) = r
  BY DEF Rows, es
<1> HIDE DEF r
<1>9. \A b : update(b, events) = Merge(b, r)
  BY <1>8 DEF update
<1>10. Mirrored(events) = Merge(mirror, r)
  <2>1. ~(\E e \in events : Replaces(e[1])) /\ ~(\E e \in events : Removes(e[1]))
    BY <1>2, <1>7
  <2> QED  BY <1>8, <2>1 DEF Mirrored
<1> QED  BY <1>6, <1>9, <1>10

\* What a consumer makes of a frame of the stream.
LEMMA HearSnapshot ==
    ASSUME stream \in KnownStreams, NEW msg, IsSnapshot(msg), SnapshotEvent \notin ledger[sub]
    PROVE  LET heard == Delivered(Events(msg))
           IN /\ Mirrored(heard) = Merge(Nothing, msg.rows)
              /\ \A b : update(b, heard) = Merge(b, msg.rows)
<1> DEFINE e0 == <<SnapshotEvent, msg.rows>>
<1>1. e0[1] = SnapshotEvent
  OBVIOUS
<1>2. Delivered(Events(msg)) = {e0}
  BY <1>1, SnapshotDispatch DEF Delivered
<1> QED  BY <1>2, SnapshotDispatch, OneEvent

LEMMA HearUpdate ==
    ASSUME stream \in KnownStreams, NEW msg, IsUpdate(msg)
    PROVE  LET heard == Delivered(Events(msg))
           IN /\ Mirrored(heard) = Merge(mirror, msg.rows)
              /\ \A b : update(b, heard) = Merge(b, msg.rows)
<1> PICK event : /\ Changes(event)
                 /\ \/ Events(msg) = {<<event, msg.rows>>}
                    \/ Events(msg) = {<<event, [j \in {i} |-> msg.rows[i]]>> : i \in DOMAIN msg.rows}
  BY UpdateDispatch
<1>1. \A e \in Events(msg) : e[1] = event
  <2>0. \A rows : <<event, rows>>[1] = event
    OBVIOUS
  <2>1. CASE Events(msg) = {<<event, msg.rows>>}
    BY <2>0, <2>1
  <2>2. CASE Events(msg) = {<<event, [j \in {i} |-> msg.rows[i]]>> : i \in DOMAIN msg.rows}
    BY <2>0, <2>2, Zenon
  <2> QED  BY <2>1, <2>2
<1>2. Delivered(Events(msg)) = Events(msg)
  BY <1>1 DEF Delivered, Changes
<1>3. ~Replaces(event) /\ ~Removes(event)
  BY DEF Changes
<1>4. CASE Events(msg) = {<<event, msg.rows>>}
  BY <1>2, <1>3, <1>4, OneEvent
<1>5. CASE Events(msg) = {<<event, [j \in {i} |-> msg.rows[i]]>> : i \in DOMAIN msg.rows}
  <2> DEFINE events == Events(msg)
  <2>1. (\A b : update(b, events) = Merge(b, msg.rows)) /\ Mirrored(events) = Merge(mirror, msg.rows)
    <3>1. events = {<<event, [j \in {i} |-> msg.rows[i]]>> : i \in DOMAIN msg.rows}
      BY <1>5
    <3> HIDE DEF events
    <3> QED  BY <1>3, <3>1, EachEvent
  <2> QED  BY <1>2, <2>1
<1> QED  BY <1>4, <1>5

LEMMA HearClose ==
    ASSUME NEW msg, IsClose(msg)
    PROVE  Mirrored(Delivered(Events(msg))) = Without(mirror, msg.rows)
<1> PICK event : /\ Events(msg) = {<<event, msg.rows>>} /\ on(event) /\ event \notin ONCE
                 /\ Removes(event) /\ ~Replaces(event)
  BY CloseDispatch
<1> DEFINE e0 == <<event, msg.rows>>
<1>1. e0[1] = event
  OBVIOUS
<1>2. Delivered(Events(msg)) = {e0}
  BY <1>1 DEF Delivered
<1> QED  BY <1>2, OneEvent

\* The handler undoes what the server does to a checksum.
LEMMA ChecksumOfSigned ==
    ASSUME NEW b \in Contents
    PROVE  checksum_handler(Signed(Crc(b))) = Crc(b)
<1>1. Crc(b) \in 0 .. 15
  BY DEF Contents, Items, Values, Crc
<1> QED  BY <1>1 DEF checksum_handler, Signed, Width
-----------------------------------------------------------------------------
(* What the server puts on the way.                                        *)

\* The tags of a stream's frames.
Tags == IF stream.channel = "account"
        THEN {stream.key} \X {"s", "n", "u", "c", "e", stream.symbol}
        ELSE {"none"} \cup {"te", "tu", "fte", "ftu"}

LEMMA MessageTypes ==
    ASSUME TypeOK
    PROVE  /\ \A type \in {"subscribed", "hb"} : Message(type, "none", <<>>) \in Messages
           /\ \A type \in Data, tag \in Tags, rows \in Patches : Message(type, tag, rows) \in Messages
           /\ [sub |-> sub, type |-> "cs", value |-> Signed(Crc(content))] \in Messages
<1>1. sub \in 1 .. MaxSubs /\ content \in Contents
  BY DEF TypeOK
<1>2. DOMAIN TradeEvents = {"te", "tu", "fte", "ftu"}
  BY DEF TradeEvents
<1>3. [sub |-> sub, type |-> "cs", value |-> Signed(Crc(content))]
        \in [sub : 1 .. MaxSubs, type : {"cs"}, value : {Signed(Crc(b)) : b \in Contents}]
  BY <1>1
<1>4. ASSUME NEW type \in {"subscribed", "hb"}
      PROVE  Message(type, "none", <<>>)
               \in [sub : 1 .. MaxSubs, type : {"subscribed", "hb"}, tag : {"none"}, rows : {<<>>}]
  BY <1>1 DEF Message
<1>5. ASSUME NEW type \in Data, NEW tag \in Tags, NEW rows \in Patches
      PROVE  Message(type, tag, rows) \in [sub : 1 .. MaxSubs, type : Data, tag : Tags, rows : Patches]
  BY <1>1 DEF Message
<1>6. Messages =
         [sub : 1 .. MaxSubs, type : {"subscribed", "hb"}, tag : {"none"}, rows : {<<>>}]
            \cup [sub : 1 .. MaxSubs, type : Data, tag : Tags, rows : Patches]
            \cup [sub : 1 .. MaxSubs, type : {"cs"}, value : {Signed(Crc(b)) : b \in Contents}]
  BY <1>2 DEF Messages, Tags, Data
<1> QED  BY <1>3, <1>4, <1>5, <1>6

LEMMA PatchType ==
    ASSUME NEW is \in SUBSET Items, NEW rows \in [is -> Values]
    PROVE  rows \in Patches
  BY DEF Patches

LEMMA AccountTags ==
    ASSUME stream.channel = "account", NEW a \in {"s", "n", "u", "c", "e", stream.symbol}
    PROVE  <<stream.key, a>> \in Tags
  BY DEF Tags

\* Keys tell account streams from each other and from public ones.
LEMMA Keys ==
    ASSUME NEW st \in KnownStreams
    PROVE  /\ st.channel \in Public \cup {"account"}
           /\ st.channel \in Public => st.key \notin {"n", "miu", "t"} \cup Families
<1>1. CASE st \in [channel : {"ticker", "trades"}, symbol : {"t", "f"}, key : {"none"}]
  BY <1>1 DEF Public, Families
<1>2. CASE st \in [channel : {"book"}, symbol : {"t", "f"}, key : {"P0", "P1", "P2", "P3", "P4", "R0"}]
  BY <1>2 DEF Public, Families
<1>3. CASE st \in [channel : {"candles"}, symbol : {"none"}, key : {"none"}]
  BY <1>3 DEF Public, Families
<1>4. CASE st \in [channel : {"status"}, symbol : {"none"}, key : {"deriv:", "liq:"}]
  BY <1>4 DEF Public, Families
<1>5. CASE st \in [channel : {"account"}, symbol : {"none"}, key : Families \cup {"w", "t", "fi", "b"}]
  BY <1>5 DEF Public, Families
<1>6. CASE st \in [channel : {"account"}, symbol : {"base", "sym"}, key : {"miu"}]
  BY <1>6 DEF Public
<1>7. CASE st \in [channel : {"account"}, symbol : STRING, key : {"n"}]
  BY <1>7 DEF Public
<1> QED  BY <1>1, <1>2, <1>3, <1>4, <1>5, <1>6, <1>7 DEF KnownStreams

\* The snapshot holds what is present, so that nothing is missing.
LEMMA SnapshotSent ==
    ASSUME TypeOK, HasSnapshot(stream), NEW msg,
           msg = Message("snapshot", IF stream.channel = "account" THEN <<stream.key, "s">> ELSE "none",
                         [i \in Present |-> content[i]])
    PROVE  msg \in Messages /\ IsSnapshot(msg) /\ \A b : Applied(b, msg) = content
<1> DEFINE tag == IF stream.channel = "account" THEN <<stream.key, "s">> ELSE "none"
           rows == [i \in Present |-> content[i]]
<1>1. content \in Contents /\ stream \in KnownStreams
  BY StreamsAssumption DEF TypeOK
<1>2. rows \in Patches
  <2>1. Present \in SUBSET Items
    BY DEF Present
  <2>2. rows \in [Present -> Values]
    BY <1>1, <2>1 DEF Contents
  <2> QED  BY <2>1, <2>2, PatchType
<1>3. tag \in Tags
  <2>1. CASE stream.channel = "account"
    BY <2>1, AccountTags
  <2>2. CASE stream.channel # "account"
    BY <2>2 DEF Tags
  <2> QED  BY <2>1, <2>2
<1>4. Merge(Nothing, rows) = content
  BY <1>1 DEF Merge, Nothing, Present, Contents, Values
<1>5. msg.sub = sub /\ msg.type = "snapshot" /\ msg.tag = tag /\ msg.rows = rows
  BY DEF Message
<1>6. msg \in Messages
  BY <1>2, <1>3, MessageTypes DEF Data
<1>7. IsSnapshot(msg)
  BY <1>5 DEF IsSnapshot
<1>8. \A b : Applied(b, msg) = content
  <2> HIDE DEF rows
  <2> QED  BY <1>4, <1>5 DEF Applied
<1> QED  BY <1>6, <1>7, <1>8

\* A change is told under a tag of the stream, and says what it changed.
LEMMA ChangeSent ==
    ASSUME TypeOK, NEW changed \in (SUBSET Items) \ {{}}, NEW v \in Values,
           \A i \in changed : Legal(i, v), NEW j \in changed, NEW msg, NEW after,
           msg = Message(TypeOf(v), TagOf(j, v),
                         [i \in changed |-> IF TypeOf(v) = "close" THEN content[i] ELSE v]),
           after = [i \in Items |-> IF i \in changed THEN v ELSE content[i]]
    PROVE  /\ msg \in Messages /\ (IsUpdate(msg) \/ IsClose(msg))
           /\ after \in Contents /\ Applied(content, msg) = after
<1> DEFINE rows == [i \in changed |-> IF TypeOf(v) = "close" THEN content[i] ELSE v]
<1>1. content \in Contents /\ stream \in KnownStreams /\ Legal(j, v) /\ j \in Items /\ changed \subseteq Items
  BY StreamsAssumption DEF TypeOK
<1>2. rows \in Patches /\ after \in Contents
  BY <1>1 DEF Patches, Contents
<1>3. msg.sub = sub /\ msg.type = TypeOf(v) /\ msg.tag = TagOf(j, v) /\ msg.rows = rows
  BY DEF Message
<1>4. CASE TypeOf(v) = "close"
  <2>1. v = 0 /\ stream.channel = "account"
    BY <1>4 DEF TypeOf
  <2>2. content[j] + 1 # 0
    BY <1>1 DEF Contents, Values
  <2>3. stream.key \in Families
    BY <1>1, <2>1, <2>2 DEF Legal
  <2>4. TagOf(j, v) = <<stream.key, "c">>
    BY <2>1, <2>3 DEF TagOf, Public, Families
  <2>5. IsClose(msg)
    BY <1>3, <1>4, <2>1, <2>3, <2>4 DEF IsClose
  <2>6. msg \in Messages
    <3>1. TagOf(j, v) \in Tags
      BY <2>1, <2>4, AccountTags
    <3> QED  BY <1>2, <1>4, <3>1, MessageTypes DEF Data
  <2>7. Applied(content, msg) = after
    <3>1. Without(content, rows) = after
      BY <2>1 DEF Without
    <3> HIDE DEF rows
    <3> QED  BY <1>3, <1>4, <3>1 DEF Applied
  <2> QED  BY <1>2, <2>5, <2>6, <2>7
<1>5. CASE TypeOf(v) = "update"
  <2>1. TagOf(j, v) \in UpdateTags /\ TagOf(j, v) \in Tags
    <3>1. CASE stream.channel = "trades"
      <4>1. TagOf(j, v) \in IF stream.symbol = "t" THEN {"te", "tu"} ELSE {"fte", "ftu"}
        BY <1>1, <3>1, Keys DEF TagOf, Public
      <4>2. UpdateTags = IF stream.symbol = "t" THEN {"te", "tu"} ELSE {"fte", "ftu"}
        BY <3>1 DEF UpdateTags, Public
      <4>3. Tags = {"none"} \cup {"te", "tu", "fte", "ftu"}
        BY <3>1 DEF Tags
      <4> QED  BY <4>1, <4>2, <4>3
    <3>2. CASE stream.channel \in Public \ {"trades"}
      <4>1. TagOf(j, v) = "none"
        BY <1>1, <3>2, Keys DEF TagOf
      <4>2. UpdateTags = {"none"}
        BY <3>2 DEF UpdateTags, Public
      <4>3. Tags = {"none"} \cup {"te", "tu", "fte", "ftu"}
        BY <3>2 DEF Tags, Public
      <4> QED  BY <4>1, <4>2, <4>3
    <3>3. CASE stream.channel = "account"
      <4>0. v # 0
        BY <1>5, <3>3 DEF TypeOf
      <4>1. CASE stream.key \in {"n", "miu"}
        <5>1. TagOf(j, v) = <<stream.key, stream.symbol>> /\ UpdateTags = {<<stream.key, stream.symbol>>}
          BY <3>3, <4>1 DEF TagOf, UpdateTags, Public, Families
        <5> QED  BY <3>3, <4>0, <5>1, AccountTags
      <4>2. CASE stream.key = "t"
        <5>1. TagOf(j, v) = <<"t", IF v = 1 THEN "e" ELSE "u">> /\ UpdateTags = {<<"t", "e">>, <<"t", "u">>}
          BY <3>3, <4>2 DEF TagOf, UpdateTags, Public, Families
        <5> QED  BY <3>3, <4>2, <5>1, AccountTags
      <4>3. CASE stream.key \in Families
        <5>1. /\ TagOf(j, v) = <<stream.key, IF content[j] = 0 THEN "n" ELSE "u">>
              /\ UpdateTags = {<<stream.key, "n">>, <<stream.key, "u">>}
          BY <3>3, <4>0, <4>3 DEF TagOf, UpdateTags, Public, Families
        <5> QED  BY <3>3, <4>0, <5>1, AccountTags
      <4>4. CASE stream.key \notin Families \cup {"n", "miu", "t"}
        <5>1. TagOf(j, v) = <<stream.key, "u">> /\ UpdateTags = {<<stream.key, "u">>}
          BY <3>3, <4>4 DEF TagOf, UpdateTags, Public
        <5> QED  BY <3>3, <4>0, <5>1, AccountTags
      <4> QED  BY <4>1, <4>2, <4>3, <4>4
    <3> QED  BY <1>1, <3>1, <3>2, <3>3, Keys
  <2>2. IsUpdate(msg)
    BY <1>3, <1>5, <2>1 DEF IsUpdate
  <2>3. msg \in Messages
    BY <1>2, <1>5, <2>1, MessageTypes DEF Data
  <2>4. Applied(content, msg) = after
    <3>1. Merge(content, rows) = after
      BY <1>1, <1>5 DEF Merge
    <3> HIDE DEF rows
    <3> QED  BY <1>3, <1>5, <3>1 DEF Applied
  <2> QED  BY <1>2, <2>2, <2>3, <2>4
<1> QED  BY <1>4, <1>5 DEF TypeOf

\* What each step of the server adds to what is on the way.
LEMMA Opens ==
    ASSUME IInv, ServerOpens
    PROVE  \E m1 \in Messages :
              /\ m1.type = "subscribed" /\ m1.sub = sub
              /\ \/ ~HasSnapshot(stream) /\ wire' = Append(wire, m1)
                 \/ /\ HasSnapshot(stream)
                    /\ \E m2 \in Messages :
                          /\ IsSnapshot(m2) /\ m2.sub = sub /\ \A b : Applied(b, m2) = content
                          /\ wire' = Append(Append(wire, m1), m2)
<1>0. TypeOK /\ wire \in Seq(Messages)
  BY DEF IInv, TypeOK
<1> DEFINE tag == IF stream.channel = "account" THEN <<stream.key, "s">> ELSE "none"
           m1 == Message("subscribed", "none", <<>>)
           m2 == Message("snapshot", tag, [i \in Present |-> content[i]])
<1>1. m1 \in Messages /\ m1.type = "subscribed" /\ m1.sub = sub
  BY <1>0, MessageTypes DEF Message
<1>2. m2.sub = sub
  BY DEF Message
<1>3. HasSnapshot(stream) => m2 \in Messages /\ IsSnapshot(m2) /\ \A b : Applied(b, m2) = content
  BY <1>0, SnapshotSent
<1>4. wire' = wire \o IF HasSnapshot(stream) THEN Append(<<m1>>, m2) ELSE <<m1>>
  BY DEF ServerOpens
<1> HIDE DEF m1, m2
<1>5. CASE ~HasSnapshot(stream)
  <2>1. wire' = Append(wire, m1)
    BY <1>0, <1>1, <1>4, <1>5
  <2> QED  BY <1>1, <1>5, <2>1
<1>6. CASE HasSnapshot(stream)
  <2>1. wire' = Append(Append(wire, m1), m2)
    BY <1>0, <1>1, <1>3, <1>4, <1>6
  <2> QED  BY <1>1, <1>2, <1>3, <1>6, <2>1
<1> QED  BY <1>5, <1>6

LEMMA Changed ==
    ASSUME IInv, ServerChanges
    PROVE  /\ content' \in Contents
           /\ \/ ~opened /\ UNCHANGED wire
              \/ /\ opened /\ RoomOnWire(1)
                 /\ \E msg \in Messages :
                       /\ IsUpdate(msg) \/ IsClose(msg)
                       /\ msg.sub = sub /\ Applied(content, msg) = content'
                       /\ wire' = Append(wire, msg)
<1>1. PICK changed \in (SUBSET Items) \ {{}}, v \in Values :
        /\ \A i \in changed : Legal(i, v)
        /\ content' = [i \in Items |-> IF i \in changed THEN v ELSE content[i]]
        /\ IF up /\ opened
           THEN /\ RoomOnWire(1)
                /\ wire' = Append(wire, Message(TypeOf(v), TagOf(CHOOSE i \in changed : TRUE, v),
                      [i \in changed |-> IF TypeOf(v) = "close" THEN content[i] ELSE v]))
           ELSE UNCHANGED wire
  BY Zenon DEF ServerChanges
<1>2. TypeOK /\ (opened => up) /\ content \in Contents /\ \A i \in changed : Legal(i, v)
  BY <1>1 DEF IInv, TypeOK, HeldInv
<1>3. content' \in Contents
  BY <1>1, <1>2 DEF Contents
<1>4. CASE opened
  <2> DEFINE j == CHOOSE i \in changed : TRUE
             msg == Message(TypeOf(v), TagOf(j, v),
                            [i \in changed |-> IF TypeOf(v) = "close" THEN content[i] ELSE v])
  <2>1. j \in changed
    OBVIOUS
  <2>2. wire' = Append(wire, msg)
    BY <1>1, <1>2, <1>4
  <2>3. msg.sub = sub
    BY DEF Message
  <2> HIDE DEF j
  <2>5. msg \in Messages /\ (IsUpdate(msg) \/ IsClose(msg)) /\ Applied(content, msg) = content'
    BY <1>1, <1>2, <2>1, ChangeSent
  <2> HIDE DEF msg
  <2>4. RoomOnWire(1)
    BY <1>1, <1>2, <1>4
  <2> QED  BY <1>3, <1>4, <2>2, <2>3, <2>4, <2>5
<1>5. CASE ~opened
  BY <1>1, <1>3, <1>5
<1> QED  BY <1>4, <1>5

LEMMA Added ==
    ASSUME IInv, ServerChecksums \/ ServerBeats
    PROVE  /\ opened /\ RoomOnWire(1)
           /\ \E msg \in Messages :
                 /\ IsOther(msg) /\ msg.sub = sub /\ wire' = Append(wire, msg)
                 /\ msg.type = "cs" => HasSnapshot(stream) /\ msg.value = Signed(Crc(content))
<1>0. TypeOK
  BY DEF IInv
<1>1. CASE ServerChecksums
  <2> DEFINE msg == [sub |-> sub, type |-> "cs", value |-> Signed(Crc(content))]
  <2>1. msg \in Messages
    BY <1>0, MessageTypes
  <2>2. HasSnapshot(stream) /\ IsOther(msg)
    BY <1>1 DEF ServerChecksums, HasSnapshot, IsOther
  <2>3. opened /\ RoomOnWire(1) /\ wire' = Append(wire, msg)
    BY <1>1 DEF ServerChecksums
  <2>4. msg.sub = sub /\ msg.value = Signed(Crc(content))
    OBVIOUS
  <2> HIDE DEF msg
  <2> QED  BY <2>1, <2>2, <2>3, <2>4
<1>2. CASE ServerBeats
  <2> DEFINE msg == Message("hb", "none", <<>>)
  <2>1. msg \in Messages
    BY <1>0, MessageTypes
  <2>2. msg.type = "hb" /\ msg.sub = sub /\ IsOther(msg)
    BY DEF IsOther, Message
  <2>3. opened /\ RoomOnWire(1) /\ wire' = Append(wire, msg)
    BY <1>2 DEF ServerBeats
  <2> HIDE DEF msg
  <2> QED  BY <2>1, <2>2, <2>3
<1> QED  BY <1>1, <1>2
-----------------------------------------------------------------------------
(* What a step leaves.                                                     *)

LEMMA StreamKept == Next => stream' = stream
  BY DEF Next, Server, Client, Example, ServerOpens, ServerChanges, ServerChecksums, ServerBeats,
     Drop, ReadConfirmation, ReadData, ReadChecksum, ReadNothing, Reconnect, BookMatches,
     BookMismatches, RestartRefused, Resubscribe, Clear, serverVars

\* The first message is read, or the ones in the wire go on as they are.
LEMMA Tails ==
    ASSUME wire \in Seq(Messages), wire # <<>>, wire' = Tail(wire)
    PROVE  /\ Head(wire) = wire[1] /\ wire[1] \in Messages
           /\ Tail(wire) \in Seq(Messages) /\ Len(wire') = Len(wire) - 1
           /\ \A j \in 1 .. Len(wire') : j + 1 \in 1 .. Len(wire) /\ wire'[j] = wire[j + 1]
  OBVIOUS

LEMMA RowsTyped ==
    ASSUME NEW msg \in Messages
    PROVE  /\ msg.sub \in 1 .. MaxSubs
           /\ msg.type \in Data => msg.rows \in Patches
  BY DEF Messages, Data

\* A frame of data that is read, and what is made of it.
LEMMA DataRead ==
    ASSUME IInv, ReadData
    PROVE  LET msg == wire[1]
           IN /\ msg.sub = sub /\ msg.rows \in Patches /\ Mine(1)
              /\ \/ /\ IsSnapshot(msg) /\ ~live
                    /\ mirror' = Merge(Nothing, msg.rows) /\ truth' = Merge(Nothing, msg.rows)
                 \/ /\ IsUpdate(msg) /\ (HasSnapshot(stream) => live)
                    /\ mirror' = Merge(mirror, msg.rows) /\ truth' = Merge(truth, msg.rows)
                 \/ /\ IsClose(msg) /\ live
                    /\ mirror' = Without(mirror, msg.rows) /\ truth' = Without(truth, msg.rows)
              /\ local' = IF IsExampleBook(stream) THEN Merge(local, msg.rows) ELSE local
<1> DEFINE msg == wire[1]
           heard == Delivered(Events(msg))
<1>1. /\ wire \in Seq(Messages) /\ wire # <<>> /\ Head(wire) = msg /\ msg \in Messages
      /\ 1 \in 1 .. Len(wire) /\ stream \in KnownStreams
  BY StreamsAssumption DEF IInv, TypeOK, ReadData
<1>2. /\ msg.sub = sub /\ msg.type \in Data /\ held = "confirmed"
      /\ mirror' = Mirrored(heard) /\ truth' = Described(msg)
      /\ local' = IF IsExampleBook(stream) THEN update(local, heard) ELSE local
  BY <1>1 DEF ReadData, Current, Data
<1>3. Mine(1) /\ msg.rows \in Patches
  BY <1>1, <1>2, RowsTyped DEF Mine
<1>4. IsSnapshot(msg) \/ IsUpdate(msg) \/ IsClose(msg)
  <2>1. IsSnapshot(msg) \/ IsUpdate(msg) \/ IsClose(msg) \/ IsOther(msg)
    BY <1>1 DEF IInv, FramesInv, Frame
  <2> QED  BY <1>2, <2>1 DEF IsOther, Data
<1>5. ASSUME HasSnapshot(stream), msg.type # "snapshot"
      PROVE  live
  <2>1. ~(\E i : Mine(i) /\ i < 1)
    BY DEF Mine
  <2> QED  BY <1>2, <1>3, <1>5, <2>1 DEF IInv, OrderInv
<1>6. CASE IsSnapshot(msg)
  <2>1. msg.type = "snapshot"
    BY <1>6 DEF IsSnapshot
  <2>2. ~live /\ SnapshotEvent \notin ledger[sub]
    BY <1>2, <1>3, <2>1 DEF IInv, OrderInv
  <2>3. Mirrored(heard) = Merge(Nothing, msg.rows) /\ update(local, heard) = Merge(local, msg.rows)
    BY <1>1, <1>6, <2>2, HearSnapshot
  <2>4. Described(msg) = Merge(Nothing, msg.rows)
    BY <2>1 DEF Described
  <2> HIDE DEF msg, heard
  <2> QED  BY <1>2, <1>3, <1>6, <2>2, <2>3, <2>4 DEF msg
<1>7. CASE IsUpdate(msg)
  <2>1. msg.type = "update"
    BY <1>7 DEF IsUpdate
  <2>2. Mirrored(heard) = Merge(mirror, msg.rows) /\ update(local, heard) = Merge(local, msg.rows)
    BY <1>1, <1>7, HearUpdate
  <2>3. Described(msg) = Merge(truth, msg.rows)
    BY <2>1 DEF Described
  <2>4. HasSnapshot(stream) => live
    BY <1>5, <2>1
  <2> HIDE DEF msg, heard
  <2> QED  BY <1>2, <1>3, <1>7, <2>2, <2>3, <2>4 DEF msg
<1>8. CASE IsClose(msg)
  <2>1. msg.type = "close" /\ stream.channel = "account" /\ HasSnapshot(stream)
    BY <1>8 DEF IsClose, HasSnapshot
  <2>2. Mirrored(heard) = Without(mirror, msg.rows)
    BY <1>8, HearClose
  <2>3. Described(msg) = Without(truth, msg.rows)
    BY <2>1 DEF Described
  <2>4. live
    BY <1>5, <2>1
  <2>5. ~IsExampleBook(stream)
    BY <2>1 DEF IsExampleBook
  <2> HIDE DEF msg, heard
  <2> QED  BY <1>2, <1>3, <1>8, <2>2, <2>3, <2>4, <2>5 DEF msg
<1> QED  BY <1>4, <1>6, <1>7, <1>8
-----------------------------------------------------------------------------
(* Types.                                                                  *)

LEMMA TypeNext ==
    ASSUME IInv, Next
    PROVE  TypeOK'
<1> USE BoundAssumption
<1>0. TypeOK
  BY DEF IInv
<1>1. stream' = stream
  BY StreamKept
<1>2. Messages' = Messages
  BY <1>1 DEF Messages
<1>3. CASE ServerOpens
  <2>1. wire \in Seq(Messages) /\ Len(wire) + 2 <= MaxWire
    BY <1>0, <1>3 DEF TypeOK, ServerOpens, RoomOnWire
  <2>2. PICK m1 \in Messages :
          wire' = Append(wire, m1) \/ \E m2 \in Messages : wire' = Append(Append(wire, m1), m2)
    BY <1>3, Opens
  <2>3. wire' \in Seq(Messages) /\ Len(wire') <= MaxWire
    BY <2>1, <2>2
  <2> QED  BY <1>0, <1>1, <1>2, <1>3, <2>3 DEF TypeOK, ServerOpens, clientVars, dataVars, exampleVars
<1>4. CASE ServerChanges
  <2>1. content' \in Contents
    BY <1>4, Changed
  <2>2. wire' = wire \/ (RoomOnWire(1) /\ \E msg \in Messages : wire' = Append(wire, msg))
    BY <1>4, Changed
  <2>3. wire' \in Seq(Messages) /\ Len(wire') <= MaxWire
    BY <1>0, <2>2 DEF TypeOK, RoomOnWire
  <2> QED
    BY <1>0, <1>1, <1>2, <1>4, <2>1, <2>3 DEF TypeOK, ServerChanges, clientVars, dataVars, exampleVars
<1>5. CASE ServerChecksums \/ ServerBeats
  <2>1. RoomOnWire(1) /\ \E msg \in Messages : wire' = Append(wire, msg)
    BY <1>5, Added
  <2>2. wire' \in Seq(Messages) /\ Len(wire') <= MaxWire
    BY <1>0, <2>1 DEF TypeOK, RoomOnWire
  <2> QED
    BY <1>0, <1>1, <1>2, <1>5, <2>2
    DEF TypeOK, ServerChecksums, ServerBeats, clientVars, dataVars, exampleVars
<1>6. CASE Drop
  <2>1. wire' \in Seq(Messages) /\ Len(wire') <= MaxWire
    BY <1>0, <1>6 DEF TypeOK, Drop
  <2> QED  BY <1>0, <1>1, <1>2, <1>6, <2>1 DEF TypeOK, Drop, clientVars, dataVars, exampleVars
<1>7. ASSUME wire # <<>>, wire' = Tail(wire)
      PROVE  wire' \in Seq(Messages) /\ Len(wire') <= MaxWire
  BY <1>0, <1>7 DEF TypeOK
<1>8. ASSUME NEW events, emit(events)
      PROVE  ledger' \in [1 .. MaxSubs -> SUBSET ONCE]
  BY <1>0, <1>8 DEF TypeOK, emit
<1>9. CASE ReadConfirmation
  BY <1>0, <1>1, <1>2, <1>7, <1>8, <1>9 DEF TypeOK, ReadConfirmation, exampleVars, HeldStates
<1>10. CASE ReadData
  <2>1. mirror' \in Contents /\ truth' \in Contents /\ local' \in Contents
    BY <1>0, <1>10, DataRead, MergeType, NothingType DEF TypeOK
  <2>2. ledger' \in [1 .. MaxSubs -> SUBSET ONCE]
    BY <1>8, <1>10 DEF ReadData
  <2> QED  BY <1>0, <1>1, <1>2, <1>7, <1>10, <2>1, <2>2 DEF TypeOK, ReadData
<1>11. CASE ReadChecksum
  <2>1. CASE IsExampleBook(stream)
    <3>1. wire[1] \in Messages /\ Head(wire) = wire[1] /\ wire[1].type = "cs"
      BY <1>0, <1>11 DEF TypeOK, ReadChecksum
    <3>2. PICK b \in Contents : wire[1].value = Signed(Crc(b))
      BY <3>1 DEF Messages
    <3>3. [sub |-> sub, value |-> checksum_handler(wire[1].value), truth |-> truth] \in Tasks
      BY <1>0, <3>2, ChecksumOfSigned DEF TypeOK, Tasks
    <3>4. tasks' \in Seq(Tasks) /\ Len(tasks') <= MaxTasks
      BY <1>0, <1>11, <2>1, <3>1, <3>3 DEF TypeOK, ReadChecksum
    <3> QED  BY <1>0, <1>1, <1>2, <1>7, <1>11, <3>4 DEF TypeOK, ReadChecksum, clientVars, dataVars
  <2>2. CASE ~IsExampleBook(stream)
    BY <1>0, <1>1, <1>2, <1>7, <1>11, <2>2 DEF TypeOK, ReadChecksum, clientVars, dataVars
  <2> QED  BY <2>1, <2>2
<1>12. CASE ReadNothing
  BY <1>0, <1>1, <1>2, <1>7, <1>12 DEF TypeOK, ReadNothing, clientVars, dataVars, exampleVars
<1>13. CASE Reconnect
  BY <1>0, <1>1, <1>2, <1>13 DEF TypeOK, Reconnect, HeldStates
<1>14. ASSUME tasks # <<>>, tasks' = Tail(tasks)
       PROVE  tasks' \in Seq(Tasks) /\ Len(tasks') <= MaxTasks
  BY <1>0, <1>14 DEF TypeOK
<1>15. CASE BookMatches \/ RestartRefused
  BY <1>0, <1>1, <1>2, <1>14, <1>15
  DEF TypeOK, BookMatches, RestartRefused, CheckBook, serverVars, clientVars, dataVars
<1>16. CASE BookMismatches
  BY <1>0, <1>1, <1>2, <1>14, <1>16
  DEF TypeOK, BookMismatches, CheckBook, dataVars, HeldStates, RestartStates
<1>17. CASE Resubscribe
  <2>1. sub + 1 \in 1 .. MaxSubs
    BY <1>0, <1>17 DEF IInv, HeldInv, Resubscribe, TypeOK
  <2>2. wire' \in Seq(Messages) /\ Len(wire') <= MaxWire
    <3>1. wire' = wire \/ wire' = <<>>
      BY <1>17 DEF Resubscribe
    <3>2. CASE wire' = wire
      BY <1>0, <3>2 DEF TypeOK
    <3>3. CASE wire' = <<>>
      <4>1. <<>> \in Seq(Messages) /\ Len(<<>>) = 0 /\ MaxWire >= 0
        OBVIOUS
      <4> QED  BY <3>3, <4>1
    <3> QED  BY <3>1, <3>2, <3>3
  <2>3. up' \in BOOLEAN
    <3>1. UNCHANGED <<up, wire>> \/ up' = TRUE
      BY <1>17, Zenon DEF Resubscribe
    <3>2. up \in BOOLEAN
      BY <1>0 DEF TypeOK
    <3> QED  BY <3>1, <3>2
  <2> QED  BY <1>0, <1>1, <1>2, <1>17, <2>1, <2>2, <2>3 DEF TypeOK, Resubscribe, HeldStates, RestartStates
<1>18. CASE Clear
  BY <1>0, <1>1, <1>2, <1>18, NothingType
  DEF TypeOK, Clear, serverVars, clientVars, dataVars, RestartStates
<1> QED
  BY <1>3, <1>4, <1>5, <1>6, <1>9, <1>10, <1>11, <1>12, <1>13, <1>15, <1>16, <1>17, <1>18
  DEF Next, Server, Client, Example
-----------------------------------------------------------------------------
(* The frames on the way are the stream's, and not of a later subscription. *)

LEMMA FramesNext ==
    ASSUME IInv, Next
    PROVE  FramesInv'
<1>0. wire \in Seq(Messages) /\ sub \in Nat /\ FramesInv
  BY DEF IInv, TypeOK
<1>1. \A msg : Frame(msg)' <=> Frame(msg)
  BY StreamKept DEF Frame, IsSnapshot, IsUpdate, IsClose, IsOther, HasSnapshot, UpdateTags
<1>2. ASSUME sub' = sub \/ sub' = sub + 1, wire' = wire \/ wire' = <<>>
      PROVE  FramesInv'
  <2>1. CASE wire' = <<>>
    <3>1. Len(wire') = 0
      BY <2>1
    <3> QED  BY <3>1 DEF FramesInv
  <2>2. CASE wire' = wire
    <3>1. \A j \in 1 .. Len(wire) : wire[j].sub \in Nat
      BY <1>0, RowsTyped
    <3> QED  BY <1>0, <1>1, <1>2, <2>2, <3>1 DEF FramesInv
  <2> QED  BY <1>2, <2>1, <2>2
<1>3. ASSUME sub' = sub, wire # <<>>, wire' = Tail(wire)
      PROVE  FramesInv'
  BY <1>0, <1>1, <1>3, Tails DEF FramesInv
<1>4. ASSUME sub' = sub, NEW msg \in Messages, Frame(msg), msg.sub = sub, wire' = Append(wire, msg)
      PROVE  FramesInv'
  BY <1>0, <1>1, <1>4 DEF FramesInv
<1>5. CASE ServerOpens
  <2>1. sub' = sub
    BY <1>5 DEF ServerOpens, clientVars
  <2>2. PICK m1 \in Messages :
              /\ m1.type = "subscribed" /\ m1.sub = sub
              /\ \/ wire' = Append(wire, m1)
                 \/ \E m2 \in Messages :
                          IsSnapshot(m2) /\ m2.sub = sub /\ wire' = Append(Append(wire, m1), m2)
    BY <1>5, Opens
  <2>3. Frame(m1)
    BY <2>2 DEF Frame, IsOther
  <2>4. CASE wire' = Append(wire, m1)
    BY <1>4, <2>1, <2>2, <2>3, <2>4
  <2>5. ASSUME NEW m2 \in Messages,
               IsSnapshot(m2), m2.sub = sub, wire' = Append(Append(wire, m1), m2)
        PROVE  FramesInv'
    <3>1. Frame(m2)
      BY <2>5 DEF Frame
    <3>2. /\ Len(wire') = Len(wire) + 2 /\ wire'[Len(wire) + 1] = m1 /\ wire'[Len(wire) + 2] = m2
          /\ \A j \in 1 .. Len(wire) : wire'[j] = wire[j]
      BY <1>0, <2>5
    <3> QED  BY <1>0, <1>1, <2>1, <2>2, <2>3, <2>5, <3>1, <3>2 DEF FramesInv
  <2> QED  BY <2>2, <2>4, <2>5
<1>6. CASE ServerChanges
  <2>1. sub' = sub
    BY <1>6 DEF ServerChanges, clientVars
  <2> QED  BY <1>2, <1>4, <1>6, <2>1, Changed DEF Frame
<1>7. CASE ServerChecksums \/ ServerBeats
  <2>1. sub' = sub
    BY <1>7 DEF ServerChecksums, ServerBeats, clientVars
  <2> QED  BY <1>4, <1>7, <2>1, Added DEF Frame
<1>8. CASE Drop
  <2>1. sub' = sub
    BY <1>8 DEF Drop, clientVars
  <2>2. PICK n \in 0 .. Len(wire) : wire' = SubSeq(wire, 1, n)
    BY <1>8 DEF Drop
  <2>3. Len(wire') = n /\ \A j \in 1 .. n : wire'[j] = wire[j]
    BY <1>0, <2>2
  <2> QED  BY <1>0, <1>1, <2>1, <2>3 DEF FramesInv
<1>9. CASE Client
  <2>1. sub' = sub
    BY <1>9 DEF Client, ReadConfirmation, ReadData, ReadChecksum, ReadNothing, Reconnect, clientVars
  <2>2. wire' = wire \/ (wire # <<>> /\ wire' = Tail(wire))
    BY <1>9 DEF Client, ReadConfirmation, ReadData, ReadChecksum, ReadNothing, Reconnect
  <2> QED  BY <1>2, <1>3, <2>1, <2>2
<1>10. CASE Example
  BY <1>2, <1>10
  DEF Example, BookMatches, BookMismatches, RestartRefused, Resubscribe, Clear, serverVars, clientVars
<1> QED  BY <1>5, <1>6, <1>7, <1>8, <1>9, <1>10 DEF Next, Server
-----------------------------------------------------------------------------
(* What the client and the server know of the subscription.                *)

LEMMA HeldNext ==
    ASSUME IInv, Next
    PROVE  HeldInv'
<1>0. /\ wire \in Seq(Messages) /\ sub \in 1 .. MaxSubs /\ MaxSubs \in Nat /\ held \in HeldStates
      /\ ledger \in [1 .. MaxSubs -> SUBSET ONCE] /\ HeldInv
      /\ \A j \in 1 .. Len(wire) : wire[j].sub <= sub /\ wire[j] \in Messages
  BY BoundAssumption DEF IInv, TypeOK, FramesInv
<1>1. ASSUME NEW events, emit(events)
      PROVE  \A s \in sub + 1 .. MaxSubs : ledger'[s] = ledger[s]
  BY <1>0, <1>1 DEF emit
<1>2. CASE ServerOpens
  BY <1>0, <1>2 DEF ServerOpens, HeldInv, clientVars, dataVars, exampleVars
<1>3. CASE ServerChanges \/ ServerChecksums \/ ServerBeats
  <2>1. opened \/ UNCHANGED wire
    BY <1>3, Changed, Added
  <2>2. UNCHANGED <<up, opened, sub, held, ledger, live, restart>>
    BY <1>3 DEF ServerChanges, ServerChecksums, ServerBeats, clientVars, dataVars, exampleVars
  <2> QED  BY <1>0, <2>1, <2>2 DEF HeldInv
<1>4. CASE Drop
  BY <1>0, <1>4 DEF Drop, HeldInv, clientVars, dataVars, exampleVars
<1>5. CASE ReadConfirmation
  BY <1>0, <1>1, <1>5 DEF ReadConfirmation, HeldInv, HeldStates, exampleVars
<1>6. CASE ReadData
  BY <1>0, <1>1, <1>6 DEF ReadData, HeldInv
<1>7. CASE ReadChecksum
  BY <1>0, <1>7 DEF ReadChecksum, HeldInv, clientVars, dataVars
<1>8. CASE ReadNothing
  <2>1. \A j \in 1 .. Len(wire') : \E i \in 1 .. Len(wire) : wire'[j] = wire[i]
    BY <1>0, <1>8, Tails DEF ReadNothing
  <2>2. UNCHANGED <<up, opened, sub, held, ledger, live, restart>>
    BY <1>8 DEF ReadNothing, clientVars, dataVars, exampleVars
  <2> QED  BY <1>0, <2>1, <2>2 DEF HeldInv
<1>9. CASE Reconnect
  BY <1>0, <1>9 DEF Reconnect, HeldInv, HeldStates
<1>10. CASE BookMatches \/ RestartRefused
  <2>1. UNCHANGED <<wire, up, opened, sub, held, ledger, live, restart>>
    BY <1>10 DEF BookMatches, RestartRefused, serverVars, clientVars, dataVars
  <2> QED  BY <1>0, <2>1 DEF HeldInv
<1>11. CASE BookMismatches
  BY <1>0, <1>11 DEF BookMismatches, HeldInv, dataVars
<1>12. CASE Resubscribe
  <2>1. held = "gone" /\ ~opened /\ sub + 1 <= MaxSubs
    BY <1>0, <1>12 DEF Resubscribe, HeldInv
  <2>2. \A j \in 1 .. Len(wire') : wire'[j].sub # sub + 1
    BY <1>0, <1>12 DEF Resubscribe
  <2> QED  BY <1>0, <1>12, <2>1, <2>2 DEF Resubscribe, HeldInv
<1>13. CASE Clear
  BY <1>0, <1>13 DEF Clear, HeldInv, serverVars, clientVars, dataVars
<1> QED
  BY <1>2, <1>3, <1>4, <1>5, <1>6, <1>7, <1>8, <1>9, <1>10, <1>11, <1>12, <1>13
  DEF Next, Server, Client, Example
-----------------------------------------------------------------------------
(* A snapshot comes before any other data, and is heard.                   *)

\* The confirmation does not latch a snapshot.
LEMMA NotTheConfirmation ==
    ASSUME HasSnapshot(stream)
    PROVE  SnapshotEvent \notin {<<"", "subscribed">>, <<"", "authenticated">>}
<1>1. SnapshotEvent[2] \in {"trades_snapshot", "book_snapshot", "raw_book_snapshot",
                            "candles_snapshot", "snapshot"}
  BY DEF HasSnapshot, SnapshotEvent
<1>2. <<"", "subscribed">>[2] = "subscribed" /\ <<"", "authenticated">>[2] = "authenticated"
  OBVIOUS
<1> QED  BY <1>1, <1>2

LEMMA OrderNext ==
    ASSUME IInv, Next
    PROVE  OrderInv'
<1>0. /\ wire \in Seq(Messages) /\ sub \in Nat /\ ledger \in [1 .. MaxSubs -> SUBSET ONCE]
      /\ OrderInv /\ FramesInv /\ HeldInv /\ sub \in 1 .. MaxSubs /\ held \in HeldStates
  BY BoundAssumption DEF IInv, TypeOK
<1>1. SnapshotEvent' = SnapshotEvent /\ HasSnapshot(stream)' = HasSnapshot(stream)
  BY StreamKept DEF SnapshotEvent, HasSnapshot
<1>2. \A j : Mine(j) /\ wire[j].type = "snapshot" => HasSnapshot(stream)
  BY <1>0 DEF Mine, FramesInv, Frame, IsSnapshot, IsUpdate, IsClose, IsOther
\* Something that is no data of the subscription is read.
<1>3. ASSUME wire # <<>>, wire' = Tail(wire), ~Mine(1), sub' = sub, held # "gone",
             UNCHANGED opened, live' <=> live,
             SnapshotEvent \in ledger'[sub] /\ HasSnapshot(stream) => SnapshotEvent \in ledger[sub]
      PROVE  OrderInv'
  <2>1. \A j : Mine(j)' => Mine(j + 1) /\ wire'[j] = wire[j + 1]
    BY <1>0, <1>3, Tails DEF Mine
  <2>2. \A i : Mine(i) => Mine(i - 1)' /\ i \in Nat /\ wire'[i - 1] = wire[i]
    BY <1>0, <1>3, Tails DEF Mine
  <2>3. \A j : Mine(j)' => j \in Nat
    BY <1>0, <1>3, Tails DEF Mine
  <2>4. ASSUME NEW j, Mine(j)', wire'[j].type = "snapshot"
        PROVE  ~live' /\ SnapshotEvent' \notin ledger'[sub'] /\ \A i : Mine(i)' => j <= i
    <3>1. Mine(j + 1) /\ wire[j + 1].type = "snapshot"
      BY <2>1, <2>4
    <3>2. ~live /\ SnapshotEvent \notin ledger[sub] /\ \A i : Mine(i) => j + 1 <= i
      BY <1>0, <1>3, <3>1 DEF OrderInv
    <3>3. HasSnapshot(stream)
      BY <1>2, <3>1
    <3>4. \A i : Mine(i)' => j <= i
      BY <2>1, <2>3, <2>4, <3>2
    <3> QED  BY <1>1, <1>3, <3>2, <3>3, <3>4
  <2>5. ASSUME HasSnapshot(stream), ~live', NEW j, Mine(j)'
        PROVE  wire'[j].type = "snapshot" \/ \E i : Mine(i)' /\ i < j
    <3>1. wire[j + 1].type = "snapshot" \/ \E i : Mine(i) /\ i < j + 1
      BY <1>0, <1>3, <2>1, <2>5 DEF OrderInv
    <3>2. ASSUME NEW i, Mine(i), i < j + 1
          PROVE  Mine(i - 1)' /\ i - 1 < j
      BY <2>2, <2>3, <2>5, <3>2
    <3> QED  BY <2>1, <2>5, <3>1, <3>2
  <2>6. ASSUME HasSnapshot(stream), ~live', opened'
        PROVE  \E j : Mine(j)'
    BY <1>0, <1>3, <2>2, <2>6 DEF OrderInv
  <2> QED  BY <1>1, <2>4, <2>5, <2>6 DEF OrderInv
\* A message that is no snapshot is added.
<1>4. ASSUME NEW msg \in Messages, msg.type # "snapshot", wire' = Append(wire, msg), opened,
             UNCHANGED <<sub, opened, live, ledger, held>>
      PROVE  OrderInv'
  <2>1. /\ Len(wire') = Len(wire) + 1 /\ wire'[Len(wire) + 1] = msg
        /\ \A j \in 1 .. Len(wire) : wire'[j] = wire[j]
    BY <1>0, <1>4
  <2>2. \A j : Mine(j) => Mine(j)' /\ wire'[j] = wire[j] /\ j \in Nat /\ j < Len(wire) + 1
    BY <1>0, <1>4, <2>1 DEF Mine
  <2>3. \A j : Mine(j)' => Mine(j) \/ j = Len(wire) + 1
    BY <1>0, <1>4, <2>1 DEF Mine
  <2>4. ASSUME held # "gone", NEW j, Mine(j)', wire'[j].type = "snapshot"
        PROVE  ~live' /\ SnapshotEvent' \notin ledger'[sub'] /\ \A i : Mine(i)' => j <= i
    <3>1. Mine(j)
      BY <1>4, <2>1, <2>3, <2>4
    <3>2. ~live /\ SnapshotEvent \notin ledger[sub] /\ \A i : Mine(i) => j <= i
      BY <1>0, <2>2, <2>4, <3>1 DEF OrderInv
    <3>3. \A i : Mine(i)' => j <= i
      BY <1>0, <2>2, <2>3, <3>1, <3>2
    <3> QED  BY <1>1, <1>4, <3>2, <3>3
  <2>5. ASSUME held # "gone", HasSnapshot(stream), ~live'
        PROVE  /\ \A j : Mine(j)' => wire'[j].type = "snapshot" \/ \E i : Mine(i)' /\ i < j
               /\ \E j : Mine(j)'
    BY <1>0, <1>4, <2>2, <2>3, <2>5 DEF OrderInv
  <2> QED  BY <1>1, <1>4, <2>4, <2>5 DEF OrderInv
\* Nothing of the subscription is on the way.
<1>5. ASSUME \A j : ~Mine(j)', ~opened'
      PROVE  OrderInv'
  BY <1>5 DEF OrderInv
<1>6. ASSUME UNCHANGED <<wire, sub, opened, live, ledger, held>>
      PROVE  OrderInv'
  <2>1. \A j : Mine(j)' <=> Mine(j)
    BY <1>6 DEF Mine
  <2> QED  BY <1>0, <1>1, <1>6, <2>1 DEF OrderInv
<1>7. ASSUME NEW events, emit(events), HasSnapshot(stream),
             \A e \in events : e[1] # SnapshotEvent, SnapshotEvent \in ledger'[sub]
      PROVE  SnapshotEvent \in ledger[sub]
  BY <1>0, <1>7 DEF emit
<1>8. CASE ServerOpens
  <2>1. UNCHANGED <<sub, live, ledger, held>> /\ opened' /\ held = "pending"
    BY <1>8 DEF ServerOpens, clientVars, dataVars, exampleVars
  <2>2. ~live /\ ledger[sub] = {} /\ \A j : ~Mine(j)
    BY <1>0, <1>8 DEF ServerOpens, HeldInv, Mine
  <2>3. PICK m1 \in Messages :
              /\ m1.type = "subscribed" /\ m1.sub = sub
              /\ \/ ~HasSnapshot(stream) /\ wire' = Append(wire, m1)
                 \/ /\ HasSnapshot(stream)
                    /\ \E m2 \in Messages :
                          IsSnapshot(m2) /\ m2.sub = sub /\ wire' = Append(Append(wire, m1), m2)
    BY <1>8, Opens
  <2>4. CASE ~HasSnapshot(stream) /\ wire' = Append(wire, m1)
    <3>1. /\ Len(wire') = Len(wire) + 1 /\ wire'[Len(wire) + 1] = m1
          /\ \A j \in 1 .. Len(wire) : wire'[j] = wire[j]
      BY <1>0, <2>4
    <3>2. \A j : ~Mine(j)'
      BY <1>0, <2>1, <2>2, <2>3, <3>1 DEF Mine, Data
    <3> QED  BY <1>1, <2>4, <3>2 DEF OrderInv
  <2>5. ASSUME HasSnapshot(stream), NEW m2 \in Messages,
               IsSnapshot(m2), m2.sub = sub, wire' = Append(Append(wire, m1), m2)
        PROVE  OrderInv'
    <3>1. /\ Len(wire') = Len(wire) + 2 /\ wire'[Len(wire) + 1] = m1 /\ wire'[Len(wire) + 2] = m2
          /\ \A j \in 1 .. Len(wire) : wire'[j] = wire[j]
      BY <1>0, <2>5
    <3>2. m2.type = "snapshot"
      BY <2>5 DEF IsSnapshot
    <3>3. \A j : Mine(j)' <=> j = Len(wire) + 2
      <4>1. \A j \in 1 .. Len(wire') : j \in 1 .. Len(wire) \/ j = Len(wire) + 1 \/ j = Len(wire) + 2
        BY <1>0, <3>1
      <4> QED  BY <1>0, <2>1, <2>2, <2>3, <2>5, <3>1, <3>2, <4>1 DEF Mine, Data
    <3> QED  BY <1>0, <1>1, <2>1, <2>2, <3>1, <3>2, <3>3 DEF OrderInv
  <2> QED  BY <2>3, <2>4, <2>5
<1>9. CASE ServerChanges
  <2>1. UNCHANGED <<sub, opened, live, ledger, held>>
    BY <1>9 DEF ServerChanges, clientVars, dataVars, exampleVars
  <2>2. CASE UNCHANGED wire
    BY <1>6, <2>1, <2>2
  <2>3. CASE wire' # wire
    <3>1. PICK msg \in Messages : opened /\ (IsUpdate(msg) \/ IsClose(msg)) /\ wire' = Append(wire, msg)
      BY <1>9, <2>3, Changed
    <3>2. msg.type # "snapshot"
      BY <3>1 DEF IsUpdate, IsClose
    <3> QED  BY <1>4, <2>1, <3>1, <3>2
  <2> QED  BY <2>2, <2>3
<1>10. CASE ServerChecksums \/ ServerBeats
  <2>1. UNCHANGED <<sub, opened, live, ledger, held>>
    BY <1>10 DEF ServerChecksums, ServerBeats, clientVars, dataVars, exampleVars
  <2>2. PICK msg \in Messages : opened /\ IsOther(msg) /\ wire' = Append(wire, msg)
    BY <1>10, Added
  <2>3. msg.type # "snapshot"
    BY <2>2 DEF IsOther
  <2> QED  BY <1>4, <2>1, <2>2, <2>3
<1>11. CASE Drop
  <2>1. UNCHANGED <<sub, live, ledger, held>> /\ ~opened'
    BY <1>11 DEF Drop, clientVars, dataVars, exampleVars
  <2>2. PICK n \in 0 .. Len(wire) : wire' = SubSeq(wire, 1, n)
    BY <1>11 DEF Drop
  <2>3. Len(wire') = n /\ \A j \in 1 .. n : wire'[j] = wire[j]
    BY <1>0, <2>2
  <2>4. \A j : Mine(j)' => Mine(j) /\ wire'[j] = wire[j] /\ j \in 1 .. n
    BY <1>0, <2>1, <2>3 DEF Mine
  <2>5. \A i, j : Mine(i) /\ Mine(j)' /\ i < j => Mine(i)'
    BY <1>0, <2>1, <2>3 DEF Mine
  <2> QED  BY <1>0, <1>1, <2>1, <2>4, <2>5 DEF OrderInv
<1>12. CASE ReadConfirmation
  <2>1. /\ ~Mine(1) /\ held # "gone" /\ held' # "gone"
        /\ wire # <<>> /\ wire' = Tail(wire) /\ UNCHANGED <<sub, opened>>
    <3>0. wire # <<>>
      BY <1>12 DEF ReadConfirmation
    <3>1. Head(wire) = wire[1]
      BY <1>0, <3>0
    <3>2. wire[1].type = "subscribed" /\ held # "gone" /\ held' = "confirmed"
      BY <1>12, <3>1 DEF ReadConfirmation
    <3>3. ~Mine(1)
      BY <3>2 DEF Mine, Data
    <3>4. wire # <<>> /\ wire' = Tail(wire) /\ UNCHANGED <<sub, opened>>
      BY <1>12 DEF ReadConfirmation
    <3> QED  BY <3>2, <3>3, <3>4
  <2>2. ASSUME HasSnapshot(stream)
        PROVE  (live' <=> live) /\ (SnapshotEvent \in ledger'[sub] => SnapshotEvent \in ledger[sub])
    <3> DEFINE name == IF stream.channel \in Public THEN "subscribed" ELSE "authenticated"
               e0 == <<(<<"", name>>), <<>> >>
    <3>1. emit({e0}) /\ live' = (live \/ ~HasSnapshot(stream))
      BY <1>12 DEF ReadConfirmation
    <3>2. e0[1] # SnapshotEvent
      <4>1. e0[1] = <<"", "subscribed">> \/ e0[1] = <<"", "authenticated">>
        OBVIOUS
      <4> QED  BY <2>2, <4>1, NotTheConfirmation
    <3>3. live' <=> live
      BY <2>2, <3>1
    <3> HIDE DEF e0
    <3> QED  BY <1>7, <2>2, <3>1, <3>2, <3>3
  <2>3. CASE HasSnapshot(stream)
    BY <1>3, <2>1, <2>2, <2>3
  <2>4. CASE ~HasSnapshot(stream)
    <3>1. ~(\E j : Mine(j)' /\ wire'[j].type = "snapshot")
      BY <1>0, <1>2, <2>1, <2>4, Tails DEF Mine
    <3> QED  BY <1>1, <2>4, <3>1 DEF OrderInv
  <2> QED  BY <2>3, <2>4
<1>13. CASE ReadData
  <2>1. Mine(1) /\ wire # <<>> /\ wire' = Tail(wire) /\ live' /\ UNCHANGED <<sub, held>> /\ held # "gone"
    BY <1>13, DataRead DEF ReadData
  <2>2. \A j : Mine(j)' => Mine(j + 1) /\ wire'[j] = wire[j + 1] /\ ~(j + 1 <= 1)
    BY <1>0, <2>1, Tails DEF Mine
  <2> QED  BY <1>0, <1>1, <2>1, <2>2 DEF OrderInv
<1>14. CASE ReadChecksum
  <2>1. ~Mine(1)
    BY <1>0, <1>14 DEF ReadChecksum, Mine, Data
  <2> QED  BY <1>3, <1>14, <2>1 DEF ReadChecksum, clientVars, dataVars
<1>15. CASE ReadNothing
  <2>1. CASE held = "gone"
    BY <1>15, <2>1 DEF ReadNothing, clientVars, OrderInv
  <2>2. CASE held # "gone"
    <3>1. ~Mine(1)
      BY <1>0, <1>15, <2>2 DEF ReadNothing, Mine, Data, Current
    <3> QED  BY <1>3, <1>15, <2>2, <3>1 DEF ReadNothing, clientVars, dataVars, exampleVars
  <2> QED  BY <2>1, <2>2
<1>16. CASE Reconnect
  <2>1. wire' = <<>> /\ ~opened'
    BY <1>0, <1>16 DEF Reconnect, HeldInv
  <2>2. \A j : ~Mine(j)'
    BY <2>1 DEF Mine
  <2> QED  BY <1>5, <2>1, <2>2
<1>17. CASE BookMatches \/ RestartRefused \/ Clear
  BY <1>6, <1>17 DEF BookMatches, RestartRefused, Clear, serverVars, clientVars, dataVars
<1>18. CASE BookMismatches
  BY <1>18 DEF BookMismatches, OrderInv
<1>19. CASE Resubscribe
  <2>1. ~opened'
    BY <1>0, <1>19 DEF Resubscribe, HeldInv
  <2>2. \A j \in 1 .. Len(wire') : wire'[j].sub # sub + 1
    <3>1. \A j \in 1 .. Len(wire) : wire[j].sub \in Nat
      BY <1>0, RowsTyped
    <3>2. CASE wire' = wire
      BY <1>0, <3>1, <3>2 DEF FramesInv
    <3>3. CASE wire' = <<>>
      BY <3>3
    <3> QED  BY <1>19, <3>2, <3>3 DEF Resubscribe
  <2>3. \A j : ~Mine(j)'
    BY <1>19, <2>2 DEF Mine, Resubscribe
  <2> QED  BY <1>5, <2>1, <2>3
<1> QED
  BY <1>8, <1>9, <1>10, <1>11, <1>12, <1>13, <1>14, <1>15, <1>16, <1>17, <1>18, <1>19
  DEF Next, Server, Client, Example
-----------------------------------------------------------------------------
(* The two consumers.                                                      *)

LEMMA SyncNext ==
    ASSUME IInv, Next
    PROVE  SyncInv'
<1>0. SyncInv /\ HasSnapshot(stream)' = HasSnapshot(stream)
  BY StreamKept DEF IInv, HasSnapshot
<1>1. CASE ReadData
  <2>1. PICK rows :
          \/ mirror' = Merge(Nothing, rows) /\ truth' = Merge(Nothing, rows)
          \/ /\ live \/ ~HasSnapshot(stream)
             /\ \/ mirror' = Merge(mirror, rows) /\ truth' = Merge(truth, rows)
                \/ mirror' = Without(mirror, rows) /\ truth' = Without(truth, rows)
    BY <1>1, DataRead
  <2> QED  BY <1>0, <2>1 DEF SyncInv
<1>2. CASE ReadConfirmation
  BY <1>0, <1>2 DEF ReadConfirmation, SyncInv
<1>3. CASE Server \/ ReadChecksum \/ ReadNothing \/ BookMatches \/ BookMismatches \/ RestartRefused \/ Clear
  <2>1. UNCHANGED <<live, mirror, truth>>
    BY <1>3 DEF Server, ServerOpens, ServerChanges, ServerChecksums, ServerBeats, Drop, ReadChecksum,
       ReadNothing, BookMatches, BookMismatches, RestartRefused, Clear, dataVars
  <2> QED  BY <1>0, <2>1 DEF SyncInv
<1>4. CASE Reconnect \/ Resubscribe
  BY <1>0, <1>4 DEF Reconnect, Resubscribe, SyncInv
<1> QED  BY <1>1, <1>2, <1>3, <1>4 DEF Next, Client, Example

LEMMA BookNext ==
    ASSUME IInv, Next
    PROVE  BookInv'
<1>0. /\ BookInv /\ IsExampleBook(stream)' = IsExampleBook(stream)
      /\ tasks \in Seq(Tasks)
      /\ IsExampleBook(stream) => HasSnapshot(stream)
  BY StreamKept DEF IInv, TypeOK, IsExampleBook, HasSnapshot
<1> DEFINE Checked(task) == task.value = Crc(task.truth)
<1>1. ASSUME tasks # <<>>, tasks' = Tail(tasks)
      PROVE  \A i \in 1 .. Len(tasks') : Checked(tasks'[i])
  BY <1>0, <1>1 DEF BookInv
<1>2. CASE ReadData
  <2>1. UNCHANGED <<tainted, tasks, restart>> /\ live'
    BY <1>2 DEF ReadData
  <2>2. ASSUME IsExampleBook(stream), restart = "no", ~tainted
        PROVE  local' = truth'
    <3>1. local = IF live THEN truth ELSE Nothing
      BY <1>0, <2>2 DEF BookInv
    <3>2. PICK rows :
            /\ local' = Merge(local, rows)
            /\ \/ ~live /\ truth' = Merge(Nothing, rows)
               \/ live /\ truth' = Merge(truth, rows)
      <4>1. ~IsClose(wire[1])
        BY <2>2 DEF IsClose, IsExampleBook
      <4> QED  BY <1>0, <1>2, <2>2, <4>1, DataRead
    <3> QED  BY <3>1, <3>2
  <2> QED  BY <1>0, <2>1, <2>2 DEF BookInv
<1>3. CASE ReadConfirmation
  <2>1. UNCHANGED <<truth, local, tainted, tasks, restart>> /\ live' = (live \/ ~HasSnapshot(stream))
    BY <1>3 DEF ReadConfirmation, exampleVars
  <2> QED  BY <1>0, <2>1 DEF BookInv
<1>4. CASE ReadChecksum
  <2>1. UNCHANGED <<live, truth, local, tainted, restart>>
    BY <1>4 DEF ReadChecksum, dataVars
  <2>2. CASE ~IsExampleBook(stream)
    BY <1>0, <1>4, <2>1, <2>2 DEF ReadChecksum, BookInv
  <2>3. CASE IsExampleBook(stream)
    <3>1. /\ wire \in Seq(Messages) /\ wire # <<>> /\ held # "gone" /\ truth \in Contents
          /\ Head(wire) = wire[1] /\ wire[1].type = "cs" /\ wire[1].sub = sub
      BY <1>4 DEF IInv, TypeOK, ReadChecksum, Current
    <3>2. PICK h : Chain(h, wire) /\ h[0] = truth
      BY <3>1 DEF IInv, ChainInv
    <3>3. h[1] = truth /\ wire[1].value = Signed(Crc(h[1]))
      <4>1. 1 \in 1 .. Len(wire) /\ 1 - 1 = 0
        BY <3>1
      <4>2. h[1] = Applied(truth, wire[1]) /\ wire[1].value = Signed(Crc(h[1]))
        BY <3>1, <3>2, <4>1 DEF Chain
      <4> QED  BY <3>1, <4>2 DEF Applied
    <3> DEFINE task == [sub |-> sub, value |-> checksum_handler(wire[1].value), truth |-> truth]
    <3>4. Checked(task)
      BY <3>1, <3>3, ChecksumOfSigned
    <3>5. tasks' = Append(tasks, task)
      BY <1>4, <2>3, <3>1 DEF ReadChecksum
    <3> HIDE DEF task
    <3>6. \A i \in 1 .. Len(tasks') : Checked(tasks'[i])
      BY <1>0, <3>4, <3>5 DEF BookInv
    <3> QED  BY <1>0, <2>1, <2>3, <3>6 DEF BookInv
  <2> QED  BY <2>2, <2>3
<1>5. CASE Server \/ ReadNothing
  <2>1. UNCHANGED <<live, truth, local, tainted, tasks, restart>>
    BY <1>5 DEF Server, ServerOpens, ServerChanges, ServerChecksums, ServerBeats, Drop, ReadNothing,
       dataVars, exampleVars
  <2> QED  BY <1>0, <2>1 DEF BookInv
<1>6. CASE BookMatches \/ RestartRefused
  <2>1. UNCHANGED <<live, truth, local, tainted, restart>> /\ tasks # <<>> /\ tasks' = Tail(tasks)
    BY <1>6 DEF BookMatches, RestartRefused, CheckBook, dataVars
  <2> QED  BY <1>0, <1>1, <2>1 DEF BookInv
<1>7. CASE BookMismatches
  <2>1. restart' = "unsubscribed" /\ tasks # <<>> /\ tasks' = Tail(tasks)
    BY <1>7 DEF BookMismatches, CheckBook
  <2> QED  BY <1>0, <1>1, <2>1 DEF BookInv
<1>8. CASE Reconnect
  BY <1>0, <1>8 DEF Reconnect, BookInv
<1>9. CASE Resubscribe
  BY <1>0, <1>9 DEF Resubscribe, BookInv
<1>10. CASE Clear
  <2>1. restart = "subscribed" /\ local' = Nothing /\ tainted' = live /\ UNCHANGED <<live, tasks>>
    BY <1>10 DEF Clear, dataVars
  <2> QED  BY <1>0, <2>1 DEF BookInv
<1> QED
  BY <1>2, <1>3, <1>4, <1>5, <1>6, <1>7, <1>8, <1>9, <1>10 DEF Next, Client, Example
-----------------------------------------------------------------------------
(* From what was read to what the server has.                              *)

LEMMA AppliedType ==
    ASSUME NEW b \in Contents, NEW msg \in Messages
    PROVE  Applied(b, msg) \in Contents
<1>1. msg.type \in Data => msg.rows \in Patches
  BY RowsTyped
<1>2. msg.type \in {"subscribed", "hb", "cs"} \cup Data
  BY DEF Messages, Data
<1> QED  BY <1>1, <1>2, MergeType, NothingType DEF Applied, Data

LEMMA ChainAppend ==
    ASSUME NEW w \in Seq(Messages), NEW h, Chain(h, w), NEW msg \in Messages,
           msg.type = "cs" /\ msg.sub = sub => msg.value = Signed(Crc(h[Len(w)]))
    PROVE  \E g : /\ Chain(g, Append(w, msg)) /\ g[0] = h[0]
                  /\ g[Len(Append(w, msg))] = Applied(h[Len(w)], msg)
<1> DEFINE n == Len(w)
           w2 == Append(w, msg)
           g == [j \in 0 .. n + 1 |-> IF j <= n THEN h[j] ELSE Applied(h[n], msg)]
<1>1. n \in Nat /\ Len(w2) = n + 1 /\ w2[n + 1] = msg /\ \A j \in 1 .. n : w2[j] = w[j]
  OBVIOUS
<1>2. h \in [0 .. n -> Contents]
  BY DEF Chain
<1>3. Applied(h[n], msg) \in Contents
  BY <1>1, <1>2, AppliedType
<1>4. g \in [0 .. n + 1 -> Contents] /\ g[n + 1] = Applied(h[n], msg) /\ \A j \in 0 .. n : g[j] = h[j]
  BY <1>1, <1>2, <1>3
<1>5. \A j \in 1 .. n : h[j] = Applied(h[j - 1], w[j])
  BY DEF Chain
<1>6. \A j \in 1 .. n : w[j].type = "cs" /\ w[j].sub = sub => w[j].value = Signed(Crc(h[j]))
  BY DEF Chain
<1> HIDE DEF n, w2, g
<1>7. ASSUME NEW j \in 1 .. n + 1
      PROVE  /\ g[j] = Applied(g[j - 1], w2[j])
             /\ w2[j].type = "cs" /\ w2[j].sub = sub => w2[j].value = Signed(Crc(g[j]))
  <2>1. CASE j <= n
    <3>1. j \in 1 .. n /\ j - 1 \in 0 .. n /\ j \in 0 .. n
      BY <1>1, <2>1
    <3> QED  BY <1>1, <1>4, <1>5, <1>6, <3>1
  <2>2. CASE j = n + 1
    <3>1. j - 1 = n /\ n \in 0 .. n /\ w2[j] = msg
      BY <1>1, <2>2
    <3>2. g[j] = Applied(g[j - 1], w2[j])
      BY <1>4, <2>2, <3>1
    <3>3. ASSUME msg.type = "cs", msg.sub = sub
          PROVE  msg.value = Signed(Crc(g[j]))
      <4>1. g[j] = h[n]
        BY <1>4, <2>2, <3>3 DEF Applied
      <4> QED  BY <3>3, <4>1 DEF n
    <3> QED  BY <3>1, <3>2, <3>3
  <2> QED  BY <1>1, <2>1, <2>2
<1>8. Chain(g, w2)
  BY <1>1, <1>4, <1>7 DEF Chain
<1>9. g[0] = h[0] /\ g[Len(w2)] = Applied(h[n], msg)
  BY <1>1, <1>4
<1> QED  BY <1>8, <1>9 DEF n, w2

LEMMA ChainNext ==
    ASSUME IInv, Next
    PROVE  ChainInv'
<1>0. /\ wire \in Seq(Messages) /\ sub \in Nat /\ content \in Contents /\ truth \in Contents
      /\ ChainInv /\ FramesInv /\ HeldInv
  BY DEF IInv, TypeOK
<1>1. HasSnapshot(stream)' = HasSnapshot(stream)
  BY StreamKept DEF HasSnapshot
<1>2. ASSUME sub' = sub
      PROVE  \A h, w : Chain(h, w)' <=> Chain(h, w)
  BY <1>2 DEF Chain, Applied
\* A message is read, and nothing else described than what it says.
<1>3. ASSUME wire # <<>>, wire' = Tail(wire), UNCHANGED <<sub, opened, content>>,
             held' # "gone" => held # "gone", truth' = Applied(truth, wire[1])
      PROVE  ChainInv'
  <2> SUFFICES ASSUME held # "gone"
               PROVE  ChainInv'
    BY <1>3 DEF ChainInv
  <2>1. PICK h : /\ Chain(h, wire) /\ h[0] = truth
                 /\ opened /\ HasSnapshot(stream) => h[Len(wire)] = content
    BY <1>0 DEF ChainInv
  <2> DEFINE n == Len(wire)
  <2>0. PICK g : g = [j \in 0 .. n - 1 |-> h[j + 1]]
    OBVIOUS
  <2>2. n \in Nat \ {0} /\ Len(wire') = n - 1 /\ \A j \in 1 .. n - 1 : wire'[j] = wire[j + 1]
    BY <1>0, <1>3
  <2>3. h \in [0 .. n -> Contents]
    BY <2>1 DEF Chain
  <2>4. \A j \in 1 .. n : h[j] = Applied(h[j - 1], wire[j])
    BY <2>1 DEF Chain
  <2>5. \A j \in 1 .. n : wire[j].type = "cs" /\ wire[j].sub = sub => wire[j].value = Signed(Crc(h[j]))
    BY <2>1 DEF Chain
  <2> HIDE DEF n
  <2>6. g \in [0 .. n - 1 -> Contents] /\ g[n - 1] = h[n]
    BY <2>0, <2>2, <2>3
  <2>7. g[0] = truth'
    <3>1. 1 \in 1 .. n /\ 1 - 1 = 0 /\ g[0] = h[1]
      BY <2>0, <2>2
    <3> QED  BY <1>3, <2>1, <2>4, <3>1
  <2>8. ASSUME NEW j \in 1 .. n - 1
        PROVE  /\ g[j] = Applied(g[j - 1], wire'[j])
               /\ wire'[j].type = "cs" /\ wire'[j].sub = sub => wire'[j].value = Signed(Crc(g[j]))
    <3>1. j + 1 \in 1 .. n /\ (j + 1) - 1 = j /\ g[j] = h[j + 1] /\ g[j - 1] = h[j]
      BY <2>0, <2>2
    <3> QED  BY <2>2, <2>4, <2>5, <3>1
  <2>9. Chain(g, wire')
    BY <2>2, <2>6, <2>8 DEF Chain
  <2>10. Chain(g, wire)'
    BY <1>2, <1>3, <2>9
  <2>11. opened /\ HasSnapshot(stream) => g[Len(wire')] = content
    BY <2>1, <2>2, <2>6 DEF n
  <2> QED  BY <1>1, <1>3, <2>7, <2>10, <2>11 DEF ChainInv
\* A message is added, that says how the content changes.
<1>4. ASSUME NEW msg \in Messages, wire' = Append(wire, msg), UNCHANGED <<sub, held, opened, truth>>,
             msg.type = "cs" => HasSnapshot(stream) /\ msg.value = Signed(Crc(content)), opened,
             Applied(content, msg) = content'
      PROVE  ChainInv'
  <2>1. held # "gone"
    BY <1>0, <1>4 DEF HeldInv
  <2>2. PICK h : /\ Chain(h, wire) /\ h[0] = truth
                 /\ HasSnapshot(stream) => h[Len(wire)] = content
    BY <1>0, <1>4, <2>1 DEF ChainInv
  <2>3. PICK g : /\ Chain(g, Append(wire, msg)) /\ g[0] = h[0]
                 /\ g[Len(Append(wire, msg))] = Applied(h[Len(wire)], msg)
    BY <1>0, <1>4, <2>2, ChainAppend
  <2>4. Chain(g, wire')
    BY <1>4, <2>3
  <2>5. Chain(g, wire)'
    BY <1>2, <1>4, <2>4
  <2>6. g[0] = truth' /\ (HasSnapshot(stream) => g[Len(wire')] = content')
    BY <1>4, <2>2, <2>3
  <2> QED  BY <1>1, <2>5, <2>6 DEF ChainInv
<1>5. ASSUME UNCHANGED <<sub, held, wire, truth>>, UNCHANGED <<opened, content>> \/ ~opened'
      PROVE  ChainInv'
  <2> SUFFICES ASSUME held # "gone"
               PROVE  ChainInv'
    BY <1>5 DEF ChainInv
  <2>1. PICK h : /\ Chain(h, wire) /\ h[0] = truth
                 /\ opened /\ HasSnapshot(stream) => h[Len(wire)] = content
    BY <1>0 DEF ChainInv
  <2>2. Chain(h, wire)'
    BY <1>2, <1>5, <2>1 DEF Chain
  <2> QED  BY <1>1, <1>5, <2>1, <2>2 DEF ChainInv
<1>6. CASE ServerOpens
  <2>1. UNCHANGED <<sub, held, truth, content>> /\ held # "gone"
    BY <1>6 DEF ServerOpens, clientVars, dataVars
  <2>2. PICK h : Chain(h, wire) /\ h[0] = truth
    BY <1>0, <2>1 DEF ChainInv
  <2>3. PICK m1 \in Messages :
              /\ m1.type = "subscribed"
              /\ \/ ~HasSnapshot(stream) /\ wire' = Append(wire, m1)
                 \/ /\ HasSnapshot(stream)
                    /\ \E m2 \in Messages :
                          /\ IsSnapshot(m2) /\ \A b : Applied(b, m2) = content
                          /\ wire' = Append(Append(wire, m1), m2)
    BY <1>6, Opens
  <2> DEFINE w1 == Append(wire, m1)
  <2>4. PICK g : Chain(g, w1) /\ g[0] = truth
    BY <1>0, <2>2, <2>3, ChainAppend
  <2>5. CASE ~HasSnapshot(stream) /\ wire' = w1
    <3>1. Chain(g, wire)'
      BY <1>2, <2>1, <2>4, <2>5
    <3> QED  BY <1>1, <2>1, <2>4, <2>5, <3>1 DEF ChainInv
  <2>6. ASSUME NEW m2 \in Messages, IsSnapshot(m2), \A b : Applied(b, m2) = content, wire' = Append(w1, m2)
        PROVE  ChainInv'
    <3>1. m2.type # "cs"
      BY <2>6 DEF IsSnapshot
    <3>2. w1 \in Seq(Messages)
      BY <1>0, <2>3
    <3> HIDE DEF w1
    <3>3. PICK f : /\ Chain(f, Append(w1, m2)) /\ f[0] = truth
                   /\ f[Len(Append(w1, m2))] = content
      BY <2>4, <2>6, <3>1, <3>2, ChainAppend
    <3>4. Chain(f, wire')
      BY <2>6, <3>3
    <3>5. Chain(f, wire)'
      BY <1>2, <2>1, <3>4
    <3> QED  BY <2>1, <2>6, <3>3, <3>5 DEF ChainInv
  <2> QED  BY <2>3, <2>5, <2>6
<1>7. CASE ServerChanges
  <2>1. UNCHANGED <<sub, held, opened, truth>>
    BY <1>7 DEF ServerChanges, clientVars, dataVars
  <2>2. CASE ~opened /\ UNCHANGED wire
    BY <1>5, <2>1, <2>2
  <2>3. ASSUME NEW msg \in Messages, opened, IsUpdate(msg) \/ IsClose(msg),
               Applied(content, msg) = content', wire' = Append(wire, msg)
        PROVE  ChainInv'
    <3>1. msg.type # "cs"
      BY <2>3 DEF IsUpdate, IsClose
    <3> QED  BY <1>4, <2>1, <2>3, <3>1
  <2> QED  BY <1>7, <2>2, <2>3, Changed
<1>8. CASE ServerChecksums \/ ServerBeats
  <2>1. UNCHANGED <<sub, held, opened, truth, content>>
    BY <1>8 DEF ServerChecksums, ServerBeats, clientVars, dataVars
  <2>2. PICK msg \in Messages :
           /\ opened /\ IsOther(msg) /\ msg.sub = sub /\ wire' = Append(wire, msg)
           /\ msg.type = "cs" => HasSnapshot(stream) /\ msg.value = Signed(Crc(content))
    BY <1>8, Added
  <2>3. Applied(content, msg) = content
    BY <2>2 DEF IsOther, Applied
  <2> QED  BY <1>4, <2>1, <2>2, <2>3
<1>9. CASE Drop
  <2>1. UNCHANGED <<sub, held, truth>> /\ ~opened'
    BY <1>9 DEF Drop, clientVars, dataVars
  <2>2. PICK n \in 0 .. Len(wire) : wire' = SubSeq(wire, 1, n)
    BY <1>9 DEF Drop
  <2> SUFFICES ASSUME held # "gone"
               PROVE  ChainInv'
    BY <2>1 DEF ChainInv
  <2>3. PICK h : Chain(h, wire) /\ h[0] = truth
    BY <1>0 DEF ChainInv
  <2> DEFINE g == [j \in 0 .. n |-> h[j]]
  <2>4. Len(wire') = n /\ \A j \in 1 .. n : wire'[j] = wire[j]
    BY <1>0, <2>2
  <2>5. n \in Nat /\ n <= Len(wire) /\ Len(wire) \in Nat
    BY <1>0
  <2>6. g \in [0 .. n -> Contents]
    BY <2>3, <2>5 DEF Chain
  <2>7. ASSUME NEW j \in 1 .. n
        PROVE  /\ g[j] = Applied(g[j - 1], wire'[j])
               /\ wire'[j].type = "cs" /\ wire'[j].sub = sub => wire'[j].value = Signed(Crc(g[j]))
    <3>1. j \in 1 .. Len(wire) /\ g[j] = h[j] /\ g[j - 1] = h[j - 1]
      BY <2>5
    <3> QED  BY <2>3, <2>4, <3>1 DEF Chain
  <2>8. g[0] = truth
    BY <2>3, <2>5
  <2> HIDE DEF g
  <2>9. Chain(g, wire')
    BY <2>4, <2>6, <2>7 DEF Chain
  <2>10. Chain(g, wire)'
    BY <1>2, <2>1, <2>9
  <2> QED  BY <2>1, <2>8, <2>10 DEF ChainInv
<1>10. CASE ReadConfirmation
  <2>1. wire # <<>> /\ Head(wire).type = "subscribed"
    BY <1>10 DEF ReadConfirmation
  <2>2. wire' = Tail(wire) /\ UNCHANGED <<sub, opened, content, truth>> /\ held # "gone" /\ held' # "gone"
    BY <1>10 DEF ReadConfirmation
  <2>3. truth' = Applied(truth, wire[1])
    BY <1>0, <2>1, <2>2 DEF Applied
  <2> QED  BY <1>3, <2>1, <2>2, <2>3
<1>11. CASE ReadData
  <2>1. wire # <<>> /\ wire' = Tail(wire) /\ UNCHANGED <<sub, held, opened, content>>
    BY <1>11 DEF ReadData
  <2>2. truth' = Applied(truth, wire[1])
    BY <1>11, DataRead DEF Applied, IsSnapshot, IsUpdate, IsClose
  <2> QED  BY <1>3, <2>1, <2>2
<1>12. CASE ReadChecksum \/ ReadNothing
  <2>1. wire # <<>> /\ wire' = Tail(wire) /\ UNCHANGED <<sub, held, opened, content, truth>>
    BY <1>12 DEF ReadChecksum, ReadNothing, clientVars, dataVars
  <2>2. CASE held = "gone"
    BY <2>1, <2>2 DEF ChainInv
  <2>3. CASE held # "gone"
    <3>1. wire[1].type \in {"cs", "hb"} \/ wire[1].sub # sub
      BY <1>0, <1>12, <2>1, <2>3 DEF ReadChecksum, ReadNothing, Current
    <3>2. truth' = Applied(truth, wire[1])
      BY <2>1, <3>1 DEF Applied
    <3> QED  BY <1>3, <2>1, <3>2
  <2> QED  BY <2>2, <2>3
\* Nothing of the subscription is on the way.
<1>13. ASSUME \A j \in 1 .. Len(wire') : wire'[j].sub # sub', wire' \in Seq(Messages),
              truth' = truth, ~opened'
       PROVE  ChainInv'
  <2>0. Len(wire') \in Nat
    BY <1>13
  <2>1. PICK g : g = [j \in 0 .. Len(wire') |-> truth]
    OBVIOUS
  <2>2. g \in [0 .. Len(wire') -> Contents] /\ g[0] = truth'
    BY <1>0, <1>13, <2>0, <2>1
  <2>3. \A j \in 1 .. Len(wire') : g[j] = truth /\ g[j - 1] = truth
    BY <2>0, <2>1
  <2>4. Chain(g, wire)'
    BY <1>13, <2>2, <2>3 DEF Chain, Applied
  <2> QED  BY <1>13, <2>2, <2>4 DEF ChainInv
<1>14. CASE Reconnect
  <2>1. wire' = <<>> /\ ~opened' /\ truth' = truth
    BY <1>0, <1>14 DEF Reconnect, HeldInv
  <2>2. wire' \in Seq(Messages) /\ Len(wire') = 0
    BY <2>1
  <2> QED  BY <1>13, <2>1, <2>2
<1>15. CASE Resubscribe
  <2>1. ~opened' /\ truth' = truth /\ sub' = sub + 1 /\ (wire' = wire \/ wire' = <<>>)
    BY <1>0, <1>15 DEF Resubscribe, HeldInv
  <2>2. \A j \in 1 .. Len(wire) : wire[j].sub \in Nat /\ wire[j].sub <= sub
    BY <1>0, RowsTyped DEF FramesInv
  <2>3. CASE wire' = wire
    BY <1>0, <1>13, <2>1, <2>2, <2>3
  <2>4. CASE wire' = <<>>
    <3>1. wire' \in Seq(Messages) /\ Len(wire') = 0
      BY <2>4
    <3> QED  BY <1>13, <2>1, <3>1
  <2> QED  BY <2>1, <2>3, <2>4
<1>16. CASE BookMatches \/ RestartRefused \/ Clear
  BY <1>5, <1>16 DEF BookMatches, RestartRefused, Clear, serverVars, clientVars, dataVars
<1>17. CASE BookMismatches
  BY <1>17 DEF BookMismatches, ChainInv
<1> QED
  BY <1>6, <1>7, <1>8, <1>9, <1>10, <1>11, <1>12, <1>14, <1>15, <1>16, <1>17
  DEF Next, Server, Client, Example
-----------------------------------------------------------------------------
LEMMA InitIInv == Init => IInv
<1> SUFFICES ASSUME Init
             PROVE  IInv
  OBVIOUS
<1> USE BoundAssumption
<1>1. /\ stream \in Streams /\ wire = <<>> /\ sub = 1 /\ held = "pending" /\ restart = "no"
      /\ ledger = [s \in 1 .. MaxSubs |-> {}] /\ tasks = <<>>
      /\ content = Nothing /\ truth = Nothing /\ mirror = Nothing /\ local = Nothing
      /\ up /\ ~opened /\ ~live /\ ~tainted
  BY DEF Init
<1>2. 1 \in 1 .. MaxSubs /\ ledger[1] = {} /\ Len(wire) = 0 /\ Len(tasks) = 0
  BY <1>1
<1>3. TypeOK
  <2>1. wire \in Seq(Messages) /\ tasks \in Seq(Tasks)
    BY <1>1
  <2>2. /\ up \in BOOLEAN /\ opened \in BOOLEAN /\ live \in BOOLEAN /\ tainted \in BOOLEAN
    BY Zenon DEF Init
  <2>3. ledger \in [1 .. MaxSubs -> SUBSET ONCE]
    BY <1>1
  <2>4. Len(wire) <= MaxWire /\ Len(tasks) <= MaxTasks
    BY <1>2
  <2> QED  BY <1>1, <1>2, <2>1, <2>2, <2>3, <2>4, NothingType DEF TypeOK, HeldStates, RestartStates
<1>4. FramesInv
  BY <1>2 DEF FramesInv
<1>5. HeldInv
  BY <1>1, <1>2 DEF HeldInv
<1>6. OrderInv
  <2>1. \A j : ~Mine(j)
    BY <1>2 DEF Mine
  <2> QED  BY <1>1, <2>1 DEF OrderInv
<1>7. SyncInv
  BY <1>1 DEF SyncInv
<1>8. BookInv
  BY <1>1, <1>2 DEF BookInv
<1>9. ChainInv
  <2> DEFINE g == [j \in 0 .. 0 |-> Nothing]
  <2>1. g \in [0 .. Len(wire) -> Contents] /\ g[0] = truth
    BY <1>1, <1>2, NothingType
  <2> HIDE DEF g
  <2>2. Chain(g, wire)
    BY <1>2, <2>1 DEF Chain
  <2> QED  BY <1>1, <2>1, <2>2 DEF ChainInv
<1> QED  BY <1>3, <1>4, <1>5, <1>6, <1>7, <1>8, <1>9 DEF IInv

LEMMA NextIInv == IInv /\ [Next]_vars => IInv'
<1> SUFFICES ASSUME IInv, [Next]_vars
             PROVE  IInv'
  OBVIOUS
<1>1. CASE Next
  BY <1>1, TypeNext, FramesNext, HeldNext, OrderNext, SyncNext, BookNext, ChainNext DEF IInv
<1>2. CASE UNCHANGED vars
  <2>1. /\ UNCHANGED <<stream, content, up, opened, wire, sub, held, ledger>>
        /\ UNCHANGED <<live, truth, mirror, local, tainted, tasks, restart>>
    BY <1>2 DEF vars, serverVars, clientVars, dataVars, exampleVars
  <2>2. TypeOK' /\ FramesInv' /\ HeldInv'
    BY <2>1 DEF IInv, TypeOK, Messages, FramesInv, Frame, IsSnapshot, IsUpdate, IsClose, IsOther,
       HasSnapshot, UpdateTags, HeldInv
  <2>3. OrderInv' /\ SyncInv' /\ BookInv'
    BY <2>1 DEF IInv, OrderInv, Mine, SnapshotEvent, HasSnapshot, SyncInv, BookInv, IsExampleBook
  <2>4. ChainInv'
    <3>1. \A h : Chain(h, wire)' <=> Chain(h, wire)
      BY <2>1 DEF Chain, Applied
    <3> QED  BY <2>1, <3>1 DEF IInv, ChainInv, HasSnapshot
  <2> QED  BY <2>2, <2>3, <2>4 DEF IInv
<1> QED  BY <1>1, <1>2

\* What holds of the frames on the way, of what client and server know of the
\* subscription, and of what is yet to be read, always holds.
THEOREM Invariant == Spec => []IInv
  BY InitIInv, NextIInv, PTL DEF Spec

\* The state is what it is meant to be: the frames on the way are of the kinds
\* the handlers know, and no checksum waits that no content of a book has.
THEOREM TypeCorrect == Spec => []TypeOK
<1>1. IInv => TypeOK
  BY DEF IInv
<1> QED  BY <1>1, Invariant, PTL

\* Whatever the channel and whenever the connection is lost, a consumer that does
\* what the events of the handlers say has what the frames of its connection say.
THEOREM StaysInSync == Spec => []InSync
<1>1. IInv => InSync
  BY DEF IInv, SyncInv, InSync
<1> QED  BY <1>1, Invariant, PTL

\* With no frame on the way, that is also what the server has.
THEOREM StaysUpToDate == Spec => []UpToDate
<1>1. ASSUME IInv
      PROVE  UpToDate
  <2> SUFFICES ASSUME opened, live, wire = <<>>, HasSnapshot(stream)
               PROVE  mirror = content
    BY DEF UpToDate
  <2>1. held # "gone"
    BY <1>1 DEF IInv, HeldInv
  <2>2. PICK h : h[0] = truth /\ h[Len(wire)] = content
    BY <1>1, <2>1 DEF IInv, ChainInv
  <2>3. Len(wire) = 0
    OBVIOUS
  <2> QED  BY <1>1, <2>2, <2>3 DEF IInv, SyncInv
<1> QED  BY <1>1, Invariant, PTL

\* The order book of the example is right unless it was merged with an older
\* snapshot or cleared after its first one.
THEOREM BookStaysInSync == Spec => []BookInSync
<1>1. IInv => BookInSync
  BY DEF IInv, BookInv, BookInSync
<1> QED  BY <1>1, Invariant, PTL

\* A right book is reported wrong only when it has changed since the checksum.
THEOREM NoFalseAlarms == Spec => NoFalseAlarm
<1>1. ASSUME IInv, [Next]_vars, restart = "no", restart' = "unsubscribed", live, ~tainted
      PROVE  Head(tasks).truth # truth
  <2>1. BookMismatches
    BY <1>1 DEF Next, Server, Client, Example, ServerOpens, ServerChanges, ServerChecksums, ServerBeats,
       Drop, ReadConfirmation, ReadData, ReadChecksum, ReadNothing, Reconnect, BookMatches,
       RestartRefused, Resubscribe, Clear, vars, exampleVars
  <2>2. /\ tasks # <<>> /\ tasks \in Seq(Tasks) /\ Crc(local) # Head(tasks).value
    BY <1>1, <2>1 DEF BookMismatches, CheckBook, verify, IInv, TypeOK
  <2>3. local = truth
    BY <1>1, <2>2 DEF IInv, BookInv
  <2>4. Head(tasks).value = Crc(Head(tasks).truth)
    BY <1>1, <2>2 DEF IInv, BookInv
  <2> QED  BY <2>2, <2>3, <2>4
<1> QED  BY <1>1, Invariant, PTL DEF Spec, NoFalseAlarm
=============================================================================
