-------------------------------- MODULE MCFeed --------------------------------
(* The streams of the instance: every channel, symbol kind and account family. *)
EXTENDS Feed

St(channel, symbol, key) == [channel |-> channel, symbol |-> symbol, key |-> key]

AllStreams ==
    {St(c, s, "none") : c \in {"ticker", "trades"}, s \in {"t", "f"}}
        \cup {St("book", s, k) : s \in {"t", "f"}, k \in {"P0", "R0"}}
        \cup {St("candles", "none", "none"), St("status", "none", "deriv:"),
              St("status", "none", "liq:")}
        \cup {St("account", "none", k) : k \in {"o", "p", "fo", "fc", "fl", "w", "t", "fi", "b"}}
        \cup {St("account", s, "miu") : s \in {"base", "sym"}}
        \cup {St("account", s, "n") : s \in {"on-req", "foc-req", "oc_multi-req"}}
=============================================================================
