--------------------------------- MODULE Feed ---------------------------------
(***************************************************************************)
(* One data stream from the server to the program that uses it: the frames *)
(* of a public channel or of one account stream, the handler that turns a  *)
(* frame into events, the emitter that swallows repeated once-events, and  *)
(* two consumers.  The first, `mirror`, does what the events say: replace  *)
(* on a snapshot, change one item on anything else.  The second, `local`,  *)
(* is the order book of examples/websocket/public, which merges snapshots  *)
(* and re-subscribes when a checksum does not match.                       *)
(*                                                                         *)
(* Data is abstracted to a few items (price levels, orders, trades, ...)   *)
(* that have a value, 0 standing for "not there".  An event is named by a  *)
(* pair: <<"t", "book_update">> is t_book_update, <<"order", "new">> is    *)
(* order_new.                                                              *)
(***************************************************************************)
EXTENDS Naturals, Sequences, FiniteSets

CONSTANTS
    Streams,   \* the streams looked at, one of which is followed
    MaxSubs,   \* bound: subscriptions the example makes, the first included
    MaxWire,   \* bound: messages in flight or buffered
    MaxTasks   \* bound: handlers of `checksum` waiting to start

ASSUME BoundAssumption == MaxSubs \in Nat \ {0} /\ MaxWire \in Nat /\ MaxTasks \in Nat

VARIABLES
    stream,    \* the stream followed: a record of Streams
    content,   \* what the server has: Items -> value
    up,        \* the socket is up
    opened,    \* the server streams the current subscription on it
    wire,      \* messages not read yet
    sub,       \* the current sub_id, counted from 1
    held,      \* what the bucket knows of it (HeldStates)
    ledger,    \* sub_id -> once-events the emitter has already delivered
    live,      \* history: data of this connection's channel has been read
    truth,     \* history: the content the messages read so far describe
    mirror,    \* what the delivered events describe
    local,     \* OrderBook.__order_book[symbol] of the example
    tainted,   \* history: local was merged or cleared at the wrong time
    tasks,     \* the checksum handlers not started: [sub, value], and truth when read
    restart    \* where the example's re-subscription is (RestartStates)

serverVars  == <<stream, content, up, opened, wire>>
clientVars  == <<sub, held, ledger>>
dataVars    == <<live, truth, mirror>>
exampleVars == <<local, tainted, tasks, restart>>
vars == <<serverVars, clientVars, dataVars, exampleVars>>

HeldStates == {"pending", "confirmed", "gone"}
RestartStates == {"no", "unsubscribed", "subscribed"}

Items == {1, 2}   \* of a book: one bid and one ask
Values == 0 .. 2
Nothing == [i \in Items |-> 0]
Merge(b, rows) == [i \in Items |-> IF i \in DOMAIN rows THEN rows[i] ELSE b[i]]
Without(b, rows) == [i \in Items |-> IF i \in DOMAIN rows THEN 0 ELSE b[i]]

Public == {"ticker", "trades", "book", "candles", "status"}
Families == {"o", "p", "fo", "fc", "fl"}   \* of account data with a life of its own

\* A channel with what tells its handlers apart: the first letter of its symbol,
\* the precision of a book or the prefix of a status key.  An account stream has
\* a family, or a kind of notification or margin information.
KnownStreams ==
    [channel : {"ticker", "trades"}, symbol : {"t", "f"}, key : {"none"}]
        \cup [channel : {"book"}, symbol : {"t", "f"}, key : {"P0", "P1", "P2", "P3", "P4", "R0"}]
        \cup [channel : {"candles"}, symbol : {"none"}, key : {"none"}]
        \cup [channel : {"status"}, symbol : {"none"}, key : {"deriv:", "liq:"}]
        \cup [channel : {"account"}, symbol : {"none"},
              key : Families \cup {"w", "t", "fi", "b"}]
        \cup [channel : {"account"}, symbol : {"base", "sym"}, key : {"miu"}]
        \cup [channel : {"account"}, symbol : STRING, key : {"n"}]

ASSUME StreamsAssumption == Streams \subseteq KnownStreams

\* Streams the server opens with a snapshot.
HasSnapshot(st) ==
    \/ st.channel \in {"trades", "book", "candles"}
    \/ st.channel = "account" /\ st.key \in Families \cup {"w"}

IsExampleBook(st) == st.channel = "book" /\ st.symbol = "t"
-----------------------------------------------------------------------------
(* The emitter's event lists.                                              *)

Currencies == {"t", "f"}
Funding == {"funding_offer", "funding_credit", "funding_loan"}

ONCE_PER_CONNECTION ==
    {<<"", "open">>, <<"", "authenticated">>}
        \cup ({"order", "position", "wallet"} \cup Funding) \X {"snapshot"}

ONCE_PER_SUBSCRIPTION ==
    {<<"", "subscribed">>, <<"", "candles_snapshot">>}
        \cup Currencies \X {"trades_snapshot", "book_snapshot", "raw_book_snapshot"}

COMMON ==
    {"", "on-req", "ou-req", "oc-req", "fon-req", "foc-req"} \X {"notification"}
        \cup {""} \X {"disconnected", "error", "maintenance_start", "maintenance_end",
                      "candles_update", "derivatives_status_update", "checksum",
                      "liquidation_feed_update", "trade_execution", "trade_execution_update"}
        \cup Currencies \X {"ticker_update", "trade_execution", "trade_execution_update",
                            "book_update", "raw_book_update"}
        \cup ({"order", "position"} \cup Funding) \X {"new", "update"}
        \cup {"order", "funding_offer"} \X {"cancel"}
        \cup {"position", "funding_credit", "funding_loan"} \X {"close"}
        \cup {"wallet", "balance", "funding_info"} \X {"update"}
        \cup {"base", "symbol"} \X {"margin_info"}

EVENTS == ONCE_PER_CONNECTION \cup ONCE_PER_SUBSCRIPTION \cup COMMON

\* on(): a consumer cannot register for any other event.
on(event) == event \in EVENTS
-----------------------------------------------------------------------------
(* From a frame to events: a set of <<event, rows>>.                       *)

\* Mutant: an empty list is not taken for a snapshot.
all_lists_NotEmpty(msg) == msg.type = "snapshot" /\ DOMAIN msg.rows # {}

\* all(isinstance(sub_stream, list) for sub_stream in ...): a snapshot is a
\* list of lists, the empty one included; anything else is one flat list.
all_lists(msg) == msg.type = "snapshot"

Pair(prefix, name, rows) == {<<(<<prefix, name>>), rows>>}

TradeEvents == [te  |-> <<"t", "trade_execution">>, tu  |-> <<"t", "trade_execution_update">>,
                fte |-> <<"f", "trade_execution">>, ftu |-> <<"f", "trade_execution_update">>]

ticker_channel_handler(st, msg) == Pair(st.symbol, "ticker_update", msg.rows)

trades_channel_handler(st, msg) ==
    IF msg.tag \in DOMAIN TradeEvents
    THEN {<<TradeEvents[msg.tag], msg.rows>>}
    ELSE Pair(st.symbol, "trades_snapshot", msg.rows)

book_channel_handler(st, msg) ==
    Pair(st.symbol, IF all_lists(msg) THEN "book_snapshot" ELSE "book_update", msg.rows)

raw_book_channel_handler(st, msg) ==
    Pair(st.symbol, IF all_lists(msg) THEN "raw_book_snapshot" ELSE "raw_book_update", msg.rows)

candles_channel_handler(msg) ==
    Pair("", IF all_lists(msg) THEN "candles_snapshot" ELSE "candles_update", msg.rows)

\* A frame of liquidations makes an event of each of its entries.
status_channel_handler(st, msg) ==
    IF st.key = "deriv:"
    THEN Pair("", "derivatives_status_update", msg.rows)
    ELSE UNION {Pair("", "liquidation_feed_update", [j \in {i} |-> msg.rows[i]])
                : i \in DOMAIN msg.rows}

\* Symbols start with "t" or "f": with anything else the code emits nothing.
public_dispatch(st, msg) ==
    CASE st.channel = "ticker"  -> ticker_channel_handler(st, msg)
      [] st.channel = "trades"  -> trades_channel_handler(st, msg)
      [] st.channel = "book"    -> IF st.key # "R0" THEN book_channel_handler(st, msg)
                                                    ELSE raw_book_channel_handler(st, msg)
      [] st.channel = "candles" -> candles_channel_handler(msg)
      [] st.channel = "status"  -> status_channel_handler(st, msg)

\* The abbreviations are a family and a letter: "fos" is <<"fo", "s">>.
ABBREVIATIONS ==
    LET family == [o |-> "order", p |-> "position", fo |-> "funding_offer",
                   fc |-> "funding_credit", fl |-> "funding_loan"]
        action(f) == [s |-> "snapshot", n |-> "new", u |-> "update",
                      c |-> IF f \in {"o", "fo"} THEN "cancel" ELSE "close"]
        regular == (DOMAIN family) \X {"s", "n", "u", "c"}
        other == {<<"t", "e">>, <<"t", "u">>, <<"w", "s">>, <<"w", "u">>, <<"fi", "u">>, <<"b", "u">>}
    IN [a \in regular \cup other |->
          CASE a \in regular -> <<family[a[1]], action(a[1])[a[2]]>>
            [] a[1] = "t"    -> <<"", IF a[2] = "e" THEN "trade_execution"
                                                    ELSE "trade_execution_update">>
            [] a[1] = "w"    -> <<"wallet", IF a[2] = "s" THEN "snapshot" ELSE "update">>
            [] a[1] = "fi"   -> <<"funding_info", "update">>
            [] a[1] = "b"    -> <<"balance", "update">>]

\* Only five kinds of notification have an event of their own.
notification(kind, rows) ==
    Pair(IF kind \in {"on-req", "ou-req", "oc-req", "fon-req", "foc-req"} THEN kind ELSE "",
         "notification", rows)

\* An abbreviation that is not in the table is dropped without a word.
auth_dispatch(msg) ==
    CASE msg.tag[1] = "n"   -> notification(msg.tag[2], msg.rows)
      [] msg.tag[1] = "miu" -> Pair(IF msg.tag[2] = "base" THEN "base" ELSE "symbol",
                                    "margin_info", msg.rows)
      [] OTHER -> IF msg.tag \in DOMAIN ABBREVIATIONS
                  THEN {<<ABBREVIATIONS[msg.tag], msg.rows>>} ELSE {}

Events(msg) == IF stream.channel \in Public THEN public_dispatch(stream, msg)
                                            ELSE auth_dispatch(msg)

ONCE == ONCE_PER_CONNECTION \cup ONCE_PER_SUBSCRIPTION

\* emit(): what of these events reaches a registered consumer, and the ledger.
Delivered(events) ==
    {e \in events : on(e[1]) /\ ~(e[1] \in ONCE /\ e[1] \in ledger[sub])}

emit(events) ==
    ledger' = [ledger EXCEPT ![sub] = @ \cup ({e[1] : e \in events} \cap ONCE)]
-----------------------------------------------------------------------------
(* The two consumers.                                                      *)

Replaces(event) == event[2] \in {"snapshot", "candles_snapshot", "trades_snapshot",
                                 "book_snapshot", "raw_book_snapshot"}
Removes(event) == event[2] \in {"cancel", "close"}

Rows(events, P(_)) ==
    LET es == {e \in events : P(e[1])}
    IN [i \in UNION {DOMAIN e[2] : e \in es} |->
          LET e == CHOOSE e \in es : i \in DOMAIN e[2] IN e[2][i]]

\* mirror after the events: each frame makes events of one kind only.
Mirrored(events) ==
    IF \E e \in events : Replaces(e[1])
    THEN Merge(Nothing, Rows(events, Replaces))
    ELSE IF \E e \in events : Removes(e[1])
    THEN Without(mirror, Rows(events, Removes))
    ELSE Merge(mirror, Rows(events, LAMBDA e : TRUE))

\* OrderBook.update for each entry of a snapshot or an update: a level is
\* set, or deleted if its count (R0: its price) is 0.
update(book, events) == Merge(book, Rows(events, LAMBDA e : TRUE))

is_verifiable(book) == \A i \in Items : book[i] > 0

\* The CRC of a book, taken for an injection, in four bits.
Width == 16
Crc(book) == 6 + 3 * book[1] + book[2]

\* The server sends it as a signed number: here, the sign and the distance.
Signed(crc) == IF crc < Width \div 2 THEN [neg |-> FALSE, abs |-> crc]
                                     ELSE [neg |-> TRUE, abs |-> Width - crc]

\* Mutant: the sign is dropped, not the value reduced.
checksum_handler_DropsSign(value) == value.abs

\* value & 0xFFFFFFFF
checksum_handler(value) == IF value.neg THEN Width - value.abs ELSE value.abs

verify(book, checksum) == Crc(book) = checksum
-----------------------------------------------------------------------------
Init ==
    /\ stream \in Streams
    /\ content = Nothing
    /\ up = TRUE
    /\ opened = FALSE
    /\ wire = <<>>
    /\ sub = 1
    /\ held = "pending"
    /\ ledger = [s \in 1 .. MaxSubs |-> {}]
    /\ live = FALSE
    /\ truth = Nothing
    /\ mirror = Nothing
    /\ local = Nothing
    /\ tainted = FALSE
    /\ tasks = <<>>
    /\ restart = "no"

\* bound
RoomOnWire(n) == Len(wire) + n <= MaxWire

Message(type, tag, rows) == [sub |-> sub, type |-> type, tag |-> tag, rows |-> rows]

Present == {i \in Items : content[i] > 0}

\* The confirmation (`authenticated` for an account stream) and the snapshot.
ServerOpens ==
    /\ up /\ ~opened /\ held = "pending"
    /\ RoomOnWire(2)
    /\ opened' = TRUE
    /\ LET tag == IF stream.channel = "account" THEN <<stream.key, "s">> ELSE "none"
           first == <<Message("subscribed", "none", <<>>)>>
       IN wire' = wire \o
            IF HasSnapshot(stream)
            THEN Append(first, Message("snapshot", tag, [i \in Present |-> content[i]]))
            ELSE first
    /\ UNCHANGED <<stream, content, up, clientVars, dataVars, exampleVars>>

\* What the server may change to what, and how it says so.
Legal(i, v) ==
    CASE stream.channel = "trades"             -> v = content[i] + 1
      [] stream.channel = "account" /\ stream.key = "t" -> v = content[i] + 1
      [] stream.channel = "book"               -> v # content[i]
      [] stream.channel = "account" /\ stream.key \in Families -> v # content[i]
      [] OTHER                                 -> v # content[i] /\ v > 0

TagOf(i, v) ==
    CASE stream.channel = "trades" -> IF stream.symbol = "t"
                                      THEN IF v = 1 THEN "te" ELSE "tu"
                                      ELSE IF v = 1 THEN "fte" ELSE "ftu"
      [] stream.channel \in Public \ {"trades"} -> "none"
      [] stream.key \in {"n", "miu"} -> <<stream.key, stream.symbol>>
      [] stream.key = "t" -> <<"t", IF v = 1 THEN "e" ELSE "u">>
      [] stream.key \in Families ->
            <<stream.key, IF v = 0 THEN "c" ELSE IF content[i] = 0 THEN "n" ELSE "u">>
      [] OTHER -> <<stream.key, "u">>

\* A closed order, position, ... is reported with the values it had.
TypeOf(v) == IF v = 0 /\ stream.channel = "account" THEN "close" ELSE "update"

ServerChanges ==
    \E changed \in (SUBSET Items) \ {{}}, v \in Values :
        /\ \A i \in changed : Legal(i, v)
        /\ IsExampleBook(stream) => v < 2   \* bound
        /\ Cardinality(changed) > 1 => stream.key = "liq:"
        /\ content' = [i \in Items |-> IF i \in changed THEN v ELSE content[i]]
        /\ IF up /\ opened
           THEN LET j == CHOOSE i \in changed : TRUE
                    type == TypeOf(v)
                IN /\ RoomOnWire(1)
                   /\ wire' = Append(wire, Message(type, TagOf(j, v),
                        [i \in changed |-> IF type = "close" THEN content[i] ELSE v]))
           ELSE UNCHANGED wire
        /\ UNCHANGED <<stream, up, opened, clientVars, dataVars, exampleVars>>

ServerChecksums ==
    /\ up /\ opened /\ stream.channel = "book"
    /\ RoomOnWire(1)
    /\ wire' = Append(wire, [sub |-> sub, type |-> "cs", value |-> Signed(Crc(content))])
    /\ UNCHANGED <<stream, content, up, opened, clientVars, dataVars, exampleVars>>

ServerBeats ==
    /\ up /\ opened
    /\ RoomOnWire(1)
    /\ wire' = Append(wire, Message("hb", "none", <<>>))
    /\ UNCHANGED <<stream, content, up, opened, clientVars, dataVars, exampleVars>>

\* What was buffered is still read.
Drop ==
    /\ up
    /\ up' = FALSE
    /\ opened' = FALSE
    /\ \E n \in 0 .. Len(wire) : wire' = SubSeq(wire, 1, n)
    /\ UNCHANGED <<stream, content, clientVars, dataVars, exampleVars>>
-----------------------------------------------------------------------------
(* The client.                                                             *)

Current(msg) == msg.sub = sub

\* __on_subscribed (the auth event, for an account stream).
ReadConfirmation ==
    /\ wire # <<>> /\ Current(Head(wire)) /\ held # "gone"
    /\ Head(wire).type = "subscribed"
    /\ held' = "confirmed"
    /\ LET event == <<"", IF stream.channel \in Public THEN "subscribed" ELSE "authenticated">>
       IN emit({<<event, <<>> >>})
    /\ live' = (live \/ ~HasSnapshot(stream))
    /\ wire' = Tail(wire)
    /\ UNCHANGED <<stream, content, up, opened, sub, truth, mirror, exampleVars>>

\* What the frame says, whatever becomes of it.
Described(msg) ==
    CASE msg.type = "snapshot" -> Merge(Nothing, msg.rows)
      [] msg.type = "update"   -> Merge(truth, msg.rows)
      [] msg.type = "close"    -> Without(truth, msg.rows)

\* A frame of data on a channel the bucket holds, dispatched and consumed.
ReadData ==
    /\ wire # <<>> /\ Current(Head(wire)) /\ held = "confirmed"
    /\ Head(wire).type \in {"snapshot", "update", "close"}
    /\ LET events == Events(Head(wire))
           heard == Delivered(events)
       IN /\ emit(events)
          /\ mirror' = Mirrored(heard)
          /\ local' = IF IsExampleBook(stream) THEN update(local, heard) ELSE local
    /\ truth' = Described(Head(wire))
    /\ live' = TRUE
    /\ wire' = Tail(wire)
    /\ UNCHANGED <<stream, content, up, opened, sub, held, tainted, tasks, restart>>

\* The checksum event: the example's handler is a coroutine, so the emitter
\* makes a task of it, which starts when the bucket's task next suspends.
ReadChecksum ==
    /\ wire # <<>> /\ Current(Head(wire)) /\ held = "confirmed"
    /\ Head(wire).type = "cs"
    /\ tasks' = IF IsExampleBook(stream)
                THEN Append(tasks, [sub |-> sub, value |-> checksum_handler(Head(wire).value),
                                    truth |-> truth])
                ELSE tasks
    /\ Len(tasks') <= MaxTasks   \* bound
    /\ wire' = Tail(wire)
    /\ UNCHANGED <<stream, content, up, opened, clientVars, dataVars, local, tainted, restart>>

\* A heartbeat, or a frame of a subscription the bucket no longer holds.
ReadNothing ==
    /\ wire # <<>>
    /\ Head(wire).type = "hb" \/ ~Current(Head(wire)) \/ held = "gone"
    /\ wire' = Tail(wire)
    /\ UNCHANGED <<stream, content, up, opened, clientVars, dataVars, exampleVars>>

\* Mutant: what was heard on the connection that is gone stays latched.
Reconnect_LedgerKept ==
    /\ ~up
    /\ wire = <<>>
    /\ up' = TRUE
    /\ held' = IF held = "gone" THEN "gone" ELSE "pending"
    /\ UNCHANGED ledger
    /\ live' = FALSE
    /\ tainted' = TRUE
    /\ UNCHANGED <<stream, content, opened, wire, sub, truth, mirror, local, tasks, restart>>

\* The bucket (for an account stream, the client) is connected again and asks
\* again for what it held; the example's next snapshot is merged into its book.
Reconnect ==
    /\ ~up
    /\ wire = <<>>
    /\ up' = TRUE
    /\ held' = IF held = "gone" THEN "gone" ELSE "pending"
    /\ ledger' = IF held = "gone" THEN ledger ELSE [ledger EXCEPT ![sub] = {}]
    /\ live' = FALSE
    /\ tainted' = TRUE
    /\ UNCHANGED <<stream, content, opened, wire, sub, truth, mirror, local, tasks, restart>>
-----------------------------------------------------------------------------
(* on_checksum of the example, and the client calls it makes.              *)

CheckBook(mismatch) ==
    /\ tasks # <<>>
    /\ mismatch = (is_verifiable(local) /\ ~verify(local, Head(tasks).value))
    /\ tasks' = Tail(tasks)

BookMatches ==
    /\ CheckBook(FALSE)
    /\ UNCHANGED <<serverVars, clientVars, dataVars, local, tainted, restart>>

\* unsubscribe(): up to its send.  The bucket may be one that carried nothing
\* else and is closed.
BookMismatches ==
    /\ CheckBook(TRUE)
    /\ Head(tasks).sub = sub
    /\ held # "gone"
    /\ restart = "no" /\ sub < MaxSubs   \* bound
    /\ held' = "gone"
    /\ opened' = FALSE
    /\ restart' = "unsubscribed"
    /\ UNCHANGED <<stream, content, up, wire, sub, ledger, dataVars, local, tainted>>

\* unsubscribe() raises: the sub_id is gone, or the bucket is down.
RestartRefused ==
    /\ CheckBook(TRUE)
    /\ Head(tasks).sub # sub \/ held = "gone" \/ ~up
    /\ UNCHANGED <<serverVars, clientVars, dataVars, local, tainted, restart>>

\* subscribe(), in the same bucket or on a new one.
Resubscribe ==
    /\ restart = "unsubscribed"
    /\ restart' = "subscribed"
    /\ sub' = sub + 1
    /\ held' = "pending"
    /\ live' = FALSE
    /\ \/ up /\ UNCHANGED <<up, wire>>
       \/ up' = TRUE /\ wire' = <<>>
    /\ UNCHANGED <<stream, content, opened, ledger, truth, mirror, local, tainted, tasks>>

\* Mutant: the example forgets to clear.
Clear_Forgotten ==
    /\ restart = "subscribed"
    /\ restart' = "no"
    /\ UNCHANGED local
    /\ tainted' = live
    /\ UNCHANGED <<serverVars, clientVars, dataVars, tasks>>

\* clear(), after subscribe() has returned: too late if the snapshot is there.
Clear ==
    /\ restart = "subscribed"
    /\ restart' = "no"
    /\ local' = Nothing
    /\ tainted' = live
    /\ UNCHANGED <<serverVars, clientVars, dataVars, tasks>>
-----------------------------------------------------------------------------
Server == ServerOpens \/ ServerChanges \/ ServerChecksums \/ ServerBeats \/ Drop
Client == ReadConfirmation \/ ReadData \/ ReadChecksum \/ ReadNothing \/ Reconnect
Example == BookMatches \/ BookMismatches \/ RestartRefused \/ Resubscribe \/ Clear

Next == Server \/ Client \/ Example

Spec == Init /\ [][Next]_vars
-----------------------------------------------------------------------------
Contents == [Items -> Values]
Patches == UNION {[is -> Values] : is \in SUBSET Items}

Messages ==
    LET frame(types, tags, rows) ==
            [sub : 1 .. MaxSubs, type : types, tag : tags, rows : rows]
        tags == IF stream.channel = "account"
                THEN {stream.key} \X {"s", "n", "u", "c", "e", stream.symbol}
                ELSE {"none"} \cup DOMAIN TradeEvents
    IN frame({"subscribed", "hb"}, {"none"}, {<<>>})
          \cup frame({"snapshot", "update", "close"}, tags, Patches)
          \cup [sub : 1 .. MaxSubs, type : {"cs"}, value : {Signed(Crc(b)) : b \in Contents}]

Tasks == [sub : 1 .. MaxSubs, value : {Crc(b) : b \in Contents}, truth : Contents]

TypeOK ==
    /\ stream \in Streams
    /\ content \in Contents /\ truth \in Contents /\ mirror \in Contents /\ local \in Contents
    /\ up \in BOOLEAN /\ opened \in BOOLEAN /\ live \in BOOLEAN /\ tainted \in BOOLEAN
    /\ wire \in Seq(Messages) /\ Len(wire) <= MaxWire
    /\ tasks \in Seq(Tasks) /\ Len(tasks) <= MaxTasks
    /\ sub \in 1 .. MaxSubs
    /\ held \in HeldStates /\ restart \in RestartStates
    /\ ledger \in [1 .. MaxSubs -> SUBSET ONCE]

\* A consumer that replaces on a snapshot and applies the rest has, after
\* every frame of the connection, what those frames say: no snapshot is
\* swallowed, taken for an update, or announced under a name nobody can listen
\* to, on any channel, before or after a reconnection.
InSync == live => mirror = truth

\* Nor is anything lost between the server and the consumer: with nothing on the
\* way, a consumer of a stream that began with a snapshot has what the server has.
UpToDate == opened /\ live /\ wire = <<>> /\ HasSnapshot(stream) => mirror = content

\* The example's book is right for as long as no bucket restart merged two
\* snapshots into it and no late clear() wiped one.
BookInSync == live /\ restart = "no" /\ ~tainted /\ IsExampleBook(stream) => local = truth

\* A mismatch is reported of a book that is right only if the book has changed
\* since the checksum frame was read: the handler starts late, it does not
\* compare wrongly.
NoFalseAlarm ==
    [][restart = "no" /\ restart' = "unsubscribed" /\ live /\ ~tainted
            => Head(tasks).truth # truth]_vars
=============================================================================
