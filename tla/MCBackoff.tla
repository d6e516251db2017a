------------------------------ MODULE MCBackoff ------------------------------
EXTENDS Backoff, TLC

Reply(kind, retry_after_ms, reset) ==
    [kind |-> kind, retry_after_ms |-> retry_after_ms, reset |-> reset]

(* A Retry-After below the second, ones above max_delay, and no header. *)
SomeReplies ==
    {Reply("rateLimit", 0, None), Reply("rateLimit", None, 2), Reply("noAnswer", 2000, None),
     Reply("nonce", None, None), Reply("namesNonce", None, None), Reply("rejected", None, None), Reply("result", None, None)}

Symmetry == Permutations(AuthThreads)
=============================================================================
