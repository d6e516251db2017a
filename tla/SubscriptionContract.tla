------------------------- MODULE SubscriptionContract -------------------------
(***************************************************************************)
(* What a subscription bucket promises its owner, whatever happens to its  *)
(* sockets: a sub_id is subscribed in two steps, an interruption puts all  *)
(* of them back to the first step and forgets none, and only the owner (or *)
(* a resubscribe that failed under it) ends a subscription.                *)
(***************************************************************************)
CONSTANT SubIds

VARIABLE status   \* sub_id -> where its subscription is

Statuses == {"none", "asked", "active"}

Active == {s \in SubIds : status[s] = "active"}

Init == status = [s \in SubIds |-> "none"]

Set(s, new) == status' = [status EXCEPT ![s] = new]

\* The owner asks for it.
Ask(s) == status[s] = "none" /\ Set(s, "asked")

\* The server has confirmed it: its data flows.
Confirm(s) == status[s] = "asked" /\ Set(s, "active")

\* The owner asks for a new snapshot of it.
Reissue(s) == status[s] = "active" /\ Set(s, "asked")

\* A new connection: everything is asked for again.
Interrupt == status' = [s \in SubIds |-> IF s \in Active THEN "asked" ELSE status[s]]

\* The owner cancels it, or a reissue met a dead connection.
Cancel(s) == status[s] # "none" /\ Set(s, "none")

\* The bucket is dropped with the last of its subscriptions.
Retire == status' = [s \in SubIds |-> "none"]

Next == Interrupt \/ Retire
     \/ \E s \in SubIds : Ask(s) \/ Confirm(s) \/ Reissue(s) \/ Cancel(s)

Spec == Init /\ [][Next]_status
=============================================================================
