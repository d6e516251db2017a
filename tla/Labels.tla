-------------------------------- MODULE Labels --------------------------------
(***************************************************************************)
(* From a decoded array to the fields of an object: the serializers of     *)
(* bfxapi.types.  A serializer gives the elements of an array their names  *)
(* by position, skips placeholders, splices nested arrays if it is `flat`, *)
(* lets a tail be missing, and turns money into Decimal in decimal mode.   *)
(*                                                                         *)
(* A value is abstracted to its Python type and to the field the sender    *)
(* meant it for, which is what a wrong position would confuse.             *)
(***************************************************************************)
EXTENDS Naturals, Sequences, SequencesExt

PLACEHOLDER == "_PLACEHOLDER"

\* The labels of money.
MONETARY_FIELDS ==
    {"amount", "amount_orig", "ask", "ask_size", "available_balance", "balance",
     "base_price", "bid", "bid_size", "buy", "collateral", "collateral_min",
     "current_pos", "daily_change", "daily_change_relative", "deriv_price",
     "exec_amount", "exec_price", "fee", "fees", "frr", "frr_amount_available",
     "funding", "funding_amount", "funding_amount_used", "funding_avail",
     "funding_below_threshold", "funding_required", "funding_required_currency",
     "funding_value", "funding_value_currency", "gross_balance", "high",
     "insurance_fund_balance", "last_price", "leverage", "low", "margin_balance",
     "margin_funding", "margin_net", "margin_min", "mark_price", "max_pos",
     "min_collateral", "max_collateral", "next_funding_accrued", "next_funding_step",
     "open_interest", "order_price", "pl", "pl_perc", "price", "price_avg",
     "price_liq", "price_trailing", "price_aux_limit", "rate", "rate_avg", "sell",
     "spot_price", "tradable_balance", "tradable_balance_base_currency",
     "tradable_balance_base_total", "tradable_balance_quote_currency",
     "tradable_balance_quote_total", "unsettled_interest", "user_pl", "user_swaps",
     "value", "volume", "withdrawal_fee", "yield_lend", "yield_loan", "aum",
     "aum_net", "bank_fees", "maker_fee", "deriv_rebate", "taker_fee_to_crypto",
     "taker_fee_to_stable", "taker_fee_to_fiat", "deriv_taker_fee",
     "fees_trading_total_30d", "funding_earnings_total_30d", "leo_amount_avg",
     "current_funding", "base_currency_balance", "clamp_min", "clamp_max"}

Value(kind, label) == [kind |-> kind, of |-> label]
ListOf(items) == [kind |-> "list", items |-> items]
Absent == Value("None", "nothing")

\* Mutant: a placeholder takes no position.
named_Compact(labels) == SelectSeq(labels, LAMBDA l : l # PLACEHOLDER)

\* The labels a serializer counts positions with.
named(labels) == labels

Layout(labels, optional_tail, flat) ==
    [labels |-> labels, optional_tail |-> optional_tail, flat |-> flat]

TradingPairTicker == Layout(<<"bid", "bid_size", "ask", "ask_size", "daily_change",
    "daily_change_relative", "last_price", "volume", "high", "low",
    "first_trade">>, 1, FALSE)

FundingCurrencyTicker == Layout(<<"frr", "bid", "bid_period", "bid_size", "ask",
    "ask_period", "ask_size", "daily_change", "daily_change_relative", "last_price",
    "volume", "high", "low", PLACEHOLDER, PLACEHOLDER, "frr_amount_available",
    "first_trade">>, 1, FALSE)

MovementInfo == Layout(<<"id", "currency", "currency_method", PLACEHOLDER, "remark",
    "mts_start", "mts_update", PLACEHOLDER, PLACEHOLDER, "status", PLACEHOLDER,
    PLACEHOLDER, "amount", "fees", PLACEHOLDER, PLACEHOLDER, "destination_address",
    "memo", PLACEHOLDER, PLACEHOLDER, "transaction_id", "movement_note",
    PLACEHOLDER, PLACEHOLDER, "bank_fees", "bank_router_id", PLACEHOLDER,
    PLACEHOLDER, "external_bank_mov_id", "external_bank_mov_status",
    "external_bank_mov_description", "external_bank_acc_info">>, 10, FALSE)

PairInfo == Layout(<<"pair", "first_trade", PLACEHOLDER, PLACEHOLDER,
    "min_order_size", "max_order_size", PLACEHOLDER, PLACEHOLDER, PLACEHOLDER,
    "initial_margin", "min_margin">>, 0, TRUE)

FundingInfo == Layout(<<PLACEHOLDER, "symbol", "yield_loan", "yield_lend",
    "duration_loan", "duration_lend">>, 0, TRUE)

SymbolMarginInfo == Layout(<<PLACEHOLDER, "symbol", "tradable_balance",
    "gross_balance", "buy", "sell">>, 0, TRUE)

BaseMarginInfo == Layout(<<PLACEHOLDER, "user_pl", "user_swaps", "margin_balance",
    "margin_net", "margin_min">>, 0, TRUE)

PositionIncreaseInfo == Layout(<<"max_pos", "current_pos", "base_currency_balance",
    "tradable_balance_quote_currency", "tradable_balance_quote_total",
    "tradable_balance_base_currency", "tradable_balance_base_total", PLACEHOLDER,
    PLACEHOLDER, PLACEHOLDER, PLACEHOLDER, "funding_avail", PLACEHOLDER,
    PLACEHOLDER, "funding_value", "funding_required", "funding_value_currency",
    "funding_required_currency">>, 0, TRUE)

Transfer == Layout(<<"mts", "wallet_from", "wallet_to", PLACEHOLDER, "currency",
    "currency_to", PLACEHOLDER, "amount">>, 0, FALSE)

Notification == Layout(<<"mts", "type", "message_id", PLACEHOLDER, "data", "code",
    "status", "text">>, 0, FALSE)
-----------------------------------------------------------------------------
\* One level of nesting; no message has more than two.
Splice(array) ==
    FlattenSeq([i \in DOMAIN array |-> IF array[i].kind = "list" THEN array[i].items
                                                                ELSE <<array[i]>>])

flatten(array) == Splice(Splice(array))

\* An int or a float under a monetary label becomes a Decimal.
Serialized(value, label, decimal) ==
    IF decimal /\ label \in MONETARY_FIELDS /\ value.kind \in {"int", "float"}
    THEN [value EXCEPT !.kind = "Decimal"] ELSE value

required(layout) == Len(layout.labels) - layout.optional_tail

Elements(layout, array) == IF layout.flat THEN flatten(array) ELSE array

\* A shorter array raises AssertionError.
Accepts(layout, array) == required(layout) <= Len(Elements(layout, array))

\* The fields of an array that is accepted; what is beyond the labels is ignored.
serialize(layout, array, decimal) ==
    LET args == Elements(layout, array)
        labels == named(layout.labels)
        at(l) == CHOOSE i \in DOMAIN labels : labels[i] = l
    IN [l \in ToSet(labels) \ {PLACEHOLDER} |->
          Serialized(IF at(l) <= Len(args) THEN args[at(l)] ELSE Absent, l, decimal)]

\* _Notification.parse, with a serializer for its data: the fields of the one
\* object in it, bare or in a list of its own, or of each of them.
Rows(data, is_iterable) ==
    IF is_iterable THEN [i \in DOMAIN data |-> data[i].items]
    ELSE IF Len(data) = 1 /\ data[1].kind = "list" THEN <<data[1].items>> ELSE <<data>>
-----------------------------------------------------------------------------
(* What the server sends.                                                  *)

\* A number with a point in it: a lossless client's decoder makes a Decimal of
\* it, and leaves integers alone.
decoded_float(lossless) == IF lossless THEN "Decimal" ELSE "float"

\* Of some monetary fields the server happens to send whole numbers; two are the
\* names of currencies.
Whole == {"bid_size", "volume", "sell"}
Names == {"funding_value_currency", "funding_required_currency"}

Kind(label, lossless) ==
    CASE label \in Whole                             -> "int"
      [] label \in MONETARY_FIELDS \ (Whole \cup Names) -> decoded_float(lossless)
      [] OTHER                                      -> "text"

Sent(labels, lossless) ==
    [i \in DOMAIN labels |-> Value(Kind(labels[i], lossless), labels[i])]

NotificationOf(data) ==
    [i \in DOMAIN Notification.labels |->
        IF Notification.labels[i] = "data" THEN data
        ELSE Value("text", Notification.labels[i])]

\* What an endpoint or a handler knows of the payload it parses.
Payload(layout, array, is_iterable) ==
    [layout |-> layout, array |-> array, is_iterable |-> is_iterable]

\* An array with its elements after the k-th in an array of their own.
Nested(array, k) == Append(SubSeq(array, 1, k), ListOf(SubSeq(array, k + 1, Len(array))))

\* Arrays from peers that know the whole tail, some of it or nothing of it, and
\* cut short; nested arrays, and one longer than the labels; notifications of
\* transfers, of none, of one cut short, and without data.
Payloads == [lossless \in BOOLEAN |->
    LET sent(layout) == Sent(layout.labels, lossless)
        transfer == sent(Transfer)
        short == SubSeq(transfer, 1, 7)
        more == <<Value("text", PLACEHOLDER), Value("text", PLACEHOLDER)>>
        tailed == {TradingPairTicker, FundingCurrencyTicker, MovementInfo}
        nested == {FundingInfo, SymbolMarginInfo, BaseMarginInfo, PositionIncreaseInfo}
    IN (UNION {{Payload(layout, SubSeq(sent(layout), 1, n), FALSE) :
                   n \in required(layout) - 1 .. required(layout) + 1} : layout \in tailed})
          \cup (UNION {{Payload(layout, Nested(sent(layout), k), FALSE) : k \in 1 .. 2} :
                   layout \in nested})
          \cup {Payload(PairInfo, Nested(sent(PairInfo) \o more, 1), FALSE)}
          \cup {Payload(Notification, NotificationOf(ListOf(data)), FALSE) :
                   data \in {transfer, <<ListOf(transfer)>>}}
          \cup {Payload(Notification, NotificationOf(ListOf(data)), TRUE) :
                   data \in {<<>>, <<ListOf(transfer), ListOf(transfer)>>}}
          \cup {Payload(Notification, NotificationOf(ListOf(data)), FALSE) : data \in {<<>>, short}}
          \cup {Payload(Notification, NotificationOf(ListOf(<<ListOf(transfer), ListOf(short)>>)), TRUE)}
          \cup {Payload(Notification, NotificationOf(Absent), b) : b \in BOOLEAN}]

\* Every object in a payload, as a function from labels to values.  There are none
\* if an array is too short for its serializer, that of a row of a notification's
\* data included, nor if the data is null.
Objects(payload, decimal) ==
    LET top == serialize(payload.layout, payload.array, decimal)
        rows == Rows(top["data"].items, payload.is_iterable)
    IN CASE ~Accepts(payload.layout, payload.array) -> {}
         [] Accepts(payload.layout, payload.array) /\ payload.layout # Notification -> {top}
         [] /\ Accepts(payload.layout, payload.array) /\ payload.layout = Notification
            /\ top["data"].kind = "list" /\ \A i \in DOMAIN rows : Accepts(Transfer, rows[i])
            -> {top} \cup {serialize(Transfer, rows[i], decimal) : i \in DOMAIN rows}
         [] OTHER -> {}

\* parse(), of every payload in either mode.
parsed == [payload \in Payloads[FALSE] \cup Payloads[TRUE] |->
    [decimal \in BOOLEAN |-> [objects |-> Objects(payload, decimal), payload |-> payload]]]
=============================================================================
