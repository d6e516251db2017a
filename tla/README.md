# bfxapi in TLA+

TLA+ models of the Python client library for the Bitfinex REST and WebSocket
APIs (`src/bfxapi`): what its long-lived, concurrent parts do when sockets drop,
replies are lost and the program using them calls `close()` at the wrong moment;
what becomes of the data on the way from a frame to the program; the TLC runs
that check the models on small instances; and theorems, checked by TLAPS, that
hold for instances of every size.

    tlc -workers 2 -config MCBucket.cfg MCBucket      # one run
    tlapm BucketProofs.tla                            # one module of proofs

`PROJECT.json` lists the components, the runs, the mutants (for each property, a
plausible bug that breaks it), the code each definition models, the hazards, the
findings and the theorems.

## 1. The system

### Components

| Component | Source (`src/bfxapi/`) | State | Operations |
|---|---|---|---|
| **Subscription bucket** | `websocket/_client/bfx_websocket_bucket.py`, `websocket/_connection.py` | `__pendings` (frames sent, not answered), `__subscriptions` (chan_id → subscription), `__cancellations`, `_closing`, the socket | `start`, `__recover_state`, `__on_subscribed`, `subscribe`, `unsubscribe`, `resubscribe`, `close`, `is_full`, `has`, `ids` |
| **Event emitter** | `websocket/_event_emitter/bfx_event_emitter.py` | two ledgers of what was already emitted: `_connection` (once per connection), `_subscriptions` (once per sub_id) | `on`, `emit`, `reset_connection_scope`, `reset_subscription_scope` |
| **Client session** | `websocket/_client/bfx_websocket_client.py` (`start` … `__connect`, `close`) | `__closing`, `__close_requested`, `__close_epoch`, `__reconnection` (the outage), `_authentication`, `__connected_at`, the socket, a `_Delay` per run | `start`, `__run`, `__connect`, `__begin_outage`, `__time_left`, `close` |
| **Bucket supervision** | the same file (`__supervise`, `__new_bucket`, `subscribe`, `unsubscribe`, `resubscribe`, `__stop_buckets`, `__wait_any`) | the dictionary bucket → task, restart counts | keep each bucket alive, choose or create one for a subscription, give up one that keeps failing |
| **REST middleware and retry** | `rest/_interface/middleware.py`, `rest/retry.py`, `rest/exceptions.py` | `last_rate_limit` and `last_response_at` of each group; the attempt number of `retry_with_backoff` | `get`, `post`, classification of replies and transport errors, `is_retryable`, `get_backoff_delay` |
| **Nonce generator** | `_utils/nonce.py` | `_LAST`, `_LOCK` (process-wide) | `next_nonce`, `resolve_nonce` |
| **Decimal mode scope** | `types/labeler.py`, `rest/_interface/interface.py`, `_client.py` | a context variable and a process-wide default | `set_decimal_mode`, `decimal_mode_scope` around each endpoint and each frame |
| **Serializers, labelers** | `types/labeler.py`, `types/serializers.py`, `types/notification.py` | none | an array to an object with named fields |
| **Handlers** | `websocket/_handlers/*.py` | none | an array message to the events it is emitted as |
| **WebSocket inputs** | `websocket/_client/bfx_websocket_inputs.py` | none | one frame per operation, behind the authentication guard |
| **REST endpoints and facade** | `rest/_interfaces/*.py`, `rest/_bfx_rest_interface.py`, `_client.py` | none | one `get` or `post` each; the newest rate limit of both groups |
| **Order book examples** | `src/examples/websocket/public/*order_book.py` | a book per symbol | apply snapshots and updates, compare the checksum, re-subscribe |
| **JSON, logging, declarations** | `_utils/*.py`, `types/dataclasses.py`, `exceptions.py`, … | none | conversion, output |

### Who calls whom

* The **owner** (the program) calls `start`, `close`, `subscribe`, `unsubscribe`
  and `resubscribe` on the client, from tasks or from the callbacks the emitter
  runs. All of it shares one asyncio loop: a task runs until an `await` that
  really suspends, so the interesting interleavings are those across awaits.
* The **client's run** owns one socket for account events and, once the handshake
  is done, starts a **supervisor** task for each bucket; it waits (15 s at most)
  until they are up before it emits `open` and authenticates.
* Each **bucket** owns a further socket. A supervisor restarts it when it dies,
  and re-arms its once-events; the client stops the supervisors whenever its own
  socket ends.
* Client and buckets hand their frames to the **handlers**, which parse them with
  the **serializers** under their client's **decimal mode** and emit them. Client,
  buckets and handlers share one **emitter**, whose ledgers outlive sockets. Its
  resets are what lets an event be delivered again.
* **REST** calls are synchronous and made from any thread. Their threads share the
  **nonce** with each other and with the client's authentication, and the
  rate-limit headers of their group, from which the backoff is computed.

### What is hard, and what must hold

* *Bucket.* Subscriptions must survive any number of drops, at any point of the
  recovery itself; the server may hand out the same chan_id after a reconnect;
  the owner may cancel what has not been confirmed; a channel must never stream
  to nobody, or under another subscription's name; Bitfinex closes a socket that
  asks for too many channels; every new connection must announce its
  subscriptions again, since they come with new snapshots.
* *Session.* `close()` must win against a start that has not begun, a backoff, a
  handshake, a wait for the buckets; exactly one end must be told; a deadline
  bounds an outage; a server that accepts and drops must not be redialled at the
  minimum delay; no authenticated operation may go out before `authenticated`.
* *Supervision.* A deterministic failure must be given up, a flapping network
  never; a slot that was free before an await may be taken after it, and
  `resubscribe` counts on its own being free.
* *REST.* A write whose reply is lost may have been applied, may still be, and
  must not be sent again unless declared idempotent; an error that is presented
  as safe to retry must be so; nonces of one key must be unique and a race
  between threads must not fail a call for good. The headers a delay is computed
  from are stored by two statements and may be another thread's by then.
* *Data.* Snapshot and update are told apart by the shape of the frame, or by an
  abbreviation; an event that is swallowed as a repetition, or named what nobody
  can listen to, leaves the program with an old picture and no error. The
  example's book is cleared and compared by coroutines that start late.
* *Decimal mode.* The mode is found in the context of whoever runs: calls nested
  in handlers, tasks created inside a scope and a process-wide default must never
  give a client another client's type. Arrays have placeholders and tails that may
  be missing: a value must not slip under its neighbour's name.

`PROJECT.json` lists these hazards with their lines, the properties that cover
them, and why four have none.

## 2. The modules

| Module | Models | Proofs |
|---|---|---|
| `Bucket` | one bucket, its supervisor, its part of the emitter, the owner's calls, the server and the wire | `BucketProofs`, `ContractProofs` |
| `SubscriptionContract` | abstract: what a bucket promises its owner | implemented by `Bucket`: `ContractProofs` |
| `Session` | the runs of `start()` of one client, `close()`, the once-per-connection ledger | `SessionProofs` |
| `Pool` | all the buckets of one client: supervisors, concurrent `subscribe()` calls, the client's drops, `close()`, new sessions | `PoolProofs` |
| `Rest` | concurrent authenticated calls under `retry_with_backoff`, the nonce, the server | `RestProofs` |
| `Backoff` | the delays of those calls and the rate-limit headers they share | `BackoffProofs` |
| `Feed` | one data stream: server, frames, handlers, emitter, two consumers | `FeedProofs` |
| `Labels` | pure: arrays to objects (serializers, notification) | `DecimalModeProofs` |
| `DecimalMode` | clients, threads and tasks: which mode `Labels` parses under | `DecimalModeProofs` |
| `MCBucket`, `MCSession`, `MCPool`, `MCFeed`, `MCDecimalMode`, `MCBackoff` | symmetry sets and instances for TLC; `Rest` is run directly | |

### Bucket

The bucket's task is `phase`: *down* (its supervisor is about to call `start()`),
*recovering* (`__recover_state` is sending), *reading* (the message loop), *idle*
(no supervisor). `pendings` counts the entries of `__pendings` per sub_id,
`subscriptions` is the dictionary with `None` for "absent", `sending` is what is
left of the snapshot `__recover_state` took.

* An action is what the code does between two awaits that can suspend.
  `Connect` is the handshake and `__recover_state` up to its first send;
  `RecoverSend` one iteration of its loop; `Confirm`, `ConfirmCancelled`,
  `Dispatch` and `RestartRequested` one message each; `StartEnds` is shared by
  all the ways out of `start()`, with the supervisor's reaction (re-arm and
  restart, or stop).
* The owner's calls are `Subscribe`, `Unsubscribe`, `UnsubscribeLast` (the last
  subscription takes the bucket with it), `Resubscribe`, `Reissue`,
  `ReissueFails` (the two halves of `resubscribe`, and what happens if the socket
  dropped in between), `Close`; `Stopped` and `Supervised` are what the client
  does to its buckets when its own socket ends and comes back.
* The server answers in order (`ServerOpens`, `ServerRefuses`, `ServerCloses`),
  may announce a restart, and the network may drop (`Drop`) with any prefix of
  what was on the way still readable. A chan_id is used again as soon as
  nothing refers to it, which stands for an unlimited supply, and all of them are
  free again on a new connection, which is the case that matters.

A sub_id that is subscribed again while the answer to its cancelled request is
still on the way confuses the two requests (section 5, `bucket_pending`). `raced`
remembers the sub_ids this ever happened to, and those that were subscribed in the
middle of their own `resubscribe`; the properties that speak of one request per
sub_id leave them out. The structural ones, `ChannelOwner` and `NoLeakedChannel`,
hold regardless. A *different* sub_id subscribed in the middle of a `resubscribe`
is no race in this sense: it is in every run, and is what passes the limit (section
5, `bucket_limit`). `Overtakes` names that step.

### SubscriptionContract

The owner's view: each sub_id is *none*, *asked* or *active*. The owner asks
(`Ask`), the server confirms (`Confirm`), a new snapshot or
a new connection puts what is active back to asked (`Reissue`, `Interrupt`) and
forgets nothing; only the owner ends a subscription (`Cancel`, `Retire`; `Cancel`
is also the fate of a `resubscribe` that finds its socket gone). `Bucket` maps
to it by `Status`: carried is active; pending, about to be sent or about to be
reissued is asked. `KeepsContract` says every step of a bucket is one of these
or none of the owner's business. The contract says nothing of room: a bucket over
its limit still owes its owner all of this.

### Session

A run is one call of `start()`, with its own task (`pc`), its own `_Delay`, its
own socket and `__close_requested` event; what the code keeps on `self` is shared.
`uncalled → scheduled` is the call; `Begin` the first step of the coroutine
(comparing epochs); `backoff`, `connecting`, `buckets`, `reading` are the awaits
it can be suspended in; `hungUp` is `__connect` returning after it closed the
socket it had just opened. `close()` is two actions, `Close` and `CloseSocket`,
since it awaits its buckets in between. How a socket ended is kept in `sock`: it
decides between an end, an outage and an exception. Whether the client has
`credentials` is chosen once: only with them does `Announce` send the auth frame,
which is what a socket closed under it makes raise.

Time is reduced to what the code compares: has the deadline passed
(`reconnection = "expired"`), did the connection last 30 s (`connectedAt =
"stable"`); the backoff is a step number, `MaxDelay` standing for the 60 s cap.

`Overlap` is FALSE in the runs: the owner waits for a closed run to end before
calling `start()` again. TRUE lets it not wait; which properties survive that is
said in sections 4 and 5.

### Pool

What `Bucket` leaves to its surroundings. A bucket is a socket and the set of
sub_ids it carries; its supervisor is `connecting` or `reading` (inside
`bucket.start()`), `asleep`, or `cancelled` and still closing its socket. `pool`
is the dictionary; a bucket outside it to which nothing refers stands for a new
object.

* `StartEnds` is everything `__supervise` does, without an await, between the end
  of `start()` and its sleep: is it done, was the connection stable, has it failed
  too often (`__give_up`).
* A caller in `subscribe()` goes through passes of its loop (`Pass`): it raises,
  takes a slot, waits for buckets that are coming back, or creates one. Whatever
  it waited for, `Resume` and `Opened` look at everything again. The 15 s deadline
  may be over at any time.
* `resubscribe` has two halves: `Resubscribe` frees the slot and `Retakes` takes
  one again, looking neither at `is_full` nor at who has the sub_id by now;
  `RetakeFails` finds the socket gone. `again` is what lies between, and `raced`
  remembers the sub_ids another caller subscribed in that time.
* `StopBuckets`, `RunFails`: the client's socket ended, and the supervisors are
  cancelled, with and without waiting for them. `Reconnect` and `NewSession`
  start new ones. `close()` takes a step per bucket, one for the supervisors and
  one for the client's socket. `NewSession` waits for the last run to be over,
  which the code does not check: overlapping runs are in `Session`, and their
  buckets are not modelled.
* `Settled` is the one assumption about scheduling: a task that is ready runs
  before a sleep of seconds, or the client's handshake after one, is over.

### Rest

Each call is a thread in `retry_with_backoff`. An attempt takes a nonce in two
steps, under the lock (`EnterNonce` reads the clock and `_LAST`, `LeaveNonce`
writes it), is sent or fails unsent, and waits. Before that its body may be
refused, or a `nonce_provider` may fail (`Unsigned`). The server handles requests
in any order, one nonce counter per key; it refuses, applies, or applies and
answers with an error page. A call may give up waiting at any time, its request
being lost or still to be handled. Errors are the classes `is_retryable` and
`outcome_unknown` tell apart.

`InHandler` are the calls made inside an `except` block that handles a refused
connection, for which the walk of `_never_reached_server` along `__context__`
leads outside the call (section 5, `rest_handler`). It is empty in the run that
must pass.

### Backoff

What `Rest` abstracts from a retry: when. Each thread belongs to the auth or the
public group. A response is processed in three steps: its time is stored
(`Stamp`), its headers are (`Store`), and the error is made from whatever headers
the group has by then (`Raise`); a request without a response fails on its own
(`NoResponse`). `get_backoff_delay` is translated with its five cases: a rate
limit, a nonce error or a message that names a nonce, a network error with and
without a `Retry-After`, and the exponential delay of everything else; `facade_last_rate_limit` chooses between the groups as
`BfxRestInterface` does. `mixed` and `crossed` are histories: the threads whose
headers were overwritten under them, the groups in which two threads stored theirs
in reverse. Time counts in seconds, as headers do, delays in milliseconds.

### Feed

One stream, from the server's `content` (a few items with a value) through the
frames on the `wire` to two consumers. The server opens it with a snapshot where
Bitfinex does, and describes each change by the frame of that stream's kind: flat
list, list of lists, tag (`te`, `fos`, `miu`, …).
`KnownStreams` are the kinds there are; the kind of a notification is any string.
`Events` is the dispatch of both handlers, `on` and `Delivered` the emitter's
lists and ledgers. The consumer `mirror` does what the events say: replace on a
snapshot, remove on a cancel or close, else change one item. The consumer `local`
is the book of `order_book.py`, with its checksum tasks (`tasks`, started late) and
its re-subscription (`restart`: unsubscribe, subscribe, clear, each a step).
`truth` is what the frames read so far describe; `tainted` remembers that the
example merged a snapshot into an old book or cleared a new one. The CRC is an
injection into four bits, sent signed as the server does.

### Labels and DecimalMode

`Labels` holds the layouts of all the serializers with an optional tail or nested
arrays to flatten, of one of the plain ones with placeholders (`Transfer`), and of
`_Notification` around its data, with the refusal of arrays that are too short for
their serializer, the inner ones included. A value is its Python type and the field its sender
meant it for. Nothing in them is recursive.

In `DecimalMode` a context is a thread or an asyncio task, with its own value of
the context variable; `frames` are the calls under way in it, each with the token
its `reset` needs. `Enter` and `Leave` are `decimal_mode_scope`; a REST call may
be made from a handler that is itself inside a frame's scope (`CallEndpoint`), and
tasks copy the context of the code that creates them (`StartHandler`,
`StartBucket`). `Bare` is an endpoint group built without a client, which opens no
scope and so inherits whatever it is called in. Parsing has no effect, so it is a
function of the state: `Parse(x)` is what the innermost call of `x` would yield.

## 3. The runs

| Run | Shows | Instance |
|---|---|---|
| `bucket` | what is wanted is carried, through any recovery (`CarriedIffWanted`, `OneEntryPerSub`, `AnswerOnItsWay`); updates reach their owner (`ChannelOwner`); nothing leaks (`NoLeakedChannel`); restarts announce anew (`Rearmed`); the owner's contract is kept (`KeepsContract`, the refinement); once the socket stays up, what is wanted is confirmed (`EventuallyConfirmed`) | 2 sub_ids, 3 chan_ids, limit 2, 2 frames in flight, no race |
| `bucket_limit` | finding: `CapacityRespected` is violated | 3 sub_ids, limit 2 |
| `bucket_pending` | finding | 2 sub_ids |
| `session` | one end is told (`DisconnectedOnce`), events and authentication belong to a connection (`AnnouncedAnew`, `ReauthenticatedFirst`), backoffs end and start when they should (`BackoffEndsAtOnce`, `FlappingKeepsBackoff`), a 1001 ends a session in one way only (`GoingAwayEndsOnlyAuth`), a closed run never opens (`StaleRunNeverOpens`), `close()` ends a run wherever it is (`CloseWins`), an outage ends (`OutageEnds`) | 2 runs, a call of `close()`, 2 steps of backoff |
| `session_going_away` | finding: `GoingAwayComesBack` is violated | 2 runs, a call of `close()` |
| `session_start` | finding | 2 runs, a call of `close()` |
| `pool` | no sub_id is taken twice (`UniqueSubIds`), no slot either, except by a `subscribe` that takes the one a `resubscribe` has freed (`RoomRespected`), no bucket is supervised twice or forgotten (`OneSupervisor`, `KeptUp`), what was subscribed stays carried (`SubscribedIsCarried`), nothing comes back after `close()` (`ClosedStaysClosed`) | 2 buckets for 2 subscriptions each, 3 sub_ids, 2 callers, 1 failure, 1 `resubscribe` at a time |
| `rest` | a write is applied once (`AppliedOnce`), errors tell the truth (`KnownMeansNotApplied`), nonces are unique and their races retried (`UniqueNonces`, `NonceRaceRetried`), a call ends (`EveryCallEnds`) | 2 writes, one idempotent, 2 attempts, 2 microseconds |
| `rest_handler` | finding | the same, one write in a handler |
| `backoff` | a wait is as long as the server asked, or `max_delay` if that is less (`WaitsAsAsked`), and a second at least after any 429, whoever's headers it is computed from (`RateLimitedPauses`); the facade reports the latest answer (`FacadeFresh`) | 2 threads of one group, 1 of the other, 2 attempts, 3 responses |
| `feed` | a consumer that does what the events say has what the frames said (`InSync`) and, with no frame on the way, what the server has (`UpToDate`); the example's book is right unless merged or cleared at the wrong time (`BookInSync`), and is only reported wrong, being right, when it has moved on (`NoFalseAlarm`) | all 25 kinds of stream, 2 items, 3 frames on the way, 2 subscriptions, 1 checksum task |
| `decimal` | money has its client's type (`MoneyAsAsked`), no scope outlives its call (`ScopesRestored`), values stay in their fields (`FieldsInPlace`) | 2 clients of any mode, 3 contexts, 2 nested calls |

Type invariants are proved (section 4) and not run again.

### Bounds

* `SubIds`, `Chans`: two subscriptions are what an exchange of names needs, and
  a third chan_id one that is still open for a cancelled request. With two sub_ids
  and a limit of two the guard of a full bucket never refuses one; `bucket_limit`
  and `pool` have three. Every error the mutants introduce shows with these.
* `MaxSubscriptions` is 25 in the code and 2 here: nothing depends on its value.
* `MaxFrames` (frames the owner and the bucket have on the way at once): two let
  an unsubscribe and a subscribe of the same or of different sub_ids overtake
  the answers. It holds back the owner, never `RecoverSend`.
* `MaxCopies` and `MaxRaced` bound the entries and the number of sub_ids involved
  in a race. `MaxRaced` is 0 in `bucket`, since `KeepsContract` does not hold with
  a race, and 1 in `bucket_pending`, whose subject it is; the theorems about the
  invariants hold for any number. It is 0 in `pool` to keep the run small, and the
  theorems do not need it: a sub_id that another call subscribes in the middle of its
  own `resubscribe` is in two buckets afterwards, as `UniqueSubIds` says.
* `MaxCloses`, `MaxDelay`: one close falls before, during or after either of two
  runs. The run also passes with two closes, in some minutes instead of one. Two
  steps tell the minimum, a growing and the maximum delay apart. `opened` stops
  at 2, "more than once".
* `Pool`: three sub_ids overflow a bucket of two; two callers race for a slot, a
  sub_id or a new bucket; one `resubscribe` at a time (`MaxReissues`) is enough to
  free a slot under them. `RestartLimit` (5 in the code) of 1 gives a bucket up at
  its first failure, and never for a drop that is expected: the run does not count
  to a limit, and `KeptUp` asks only that what is not given up is kept up. With both buckets in use no third is created, which only keeps
  a caller waiting.
* `max_attempts` 2: a first and a last attempt. `MaxClock` 2: a clock that goes
  on, stands still, and goes back.
* `Backoff`: the replies have a `Retry-After` of 0, one above the cap (`max_delay`,
  1.5 s), a reset time, and no header. Three responses are one more than an
  overwritten answer takes. With two attempts only the first is followed by a sleep, so
  the delays that grow with the attempt number are at their first value; that
  each is what was asked for at any attempt is proved.
* `Feed`: with two items a snapshot, an update and what they leave alone differ;
  three messages hold a confirmation, a snapshot and what follows it. The book of
  the example is bounded to a value less, for it has the largest share of states.
* `DecimalMode`: depth 2 is a REST call within a frame, or a method within a method
  of its group; three contexts are a socket task, a task it starts, and another
  client's.

Buckets, sub_ids and callers of `Pool`, contexts and threads of one group are only
compared with each other, so `pool`, `decimal` and `backoff`, which check safety,
use symmetry; the runs with liveness do not.

Deadlock is checked in `Pool`, where a new session is always possible, and in
`DecimalMode`, where a call can always be made or returned from. Elsewhere the
system may stop: a bucket removed by its last unsubscribe, a client with all its
runs ended, calls that are done; a `Feed` whose example has used up its
`MaxSubs`.

### Fairness

* `Bucket`: weak fairness of the bucket's task (asyncio resumes ready tasks, the
  supervisor redials after a bounded delay) and of the server's answers. None for
  the owner, drops or refusals; `EventuallyConfirmed` assumes only that the socket
  stays up from some point on.
* `Session`: weak fairness of each run (every sleep and handshake is bounded, by
  `wait_for` and by the library's `open_timeout`), of the second half of `close()`
  and of the deadline. The last presumes a `timeout` that is not `None`; with
  `None` an outage may go on for ever, which is what is asked for. Messages,
  server closes and cancellations are not fair.
* `Rest`: weak fairness of each call's steps once it has the lock (a request is
  bounded by its 30 s timeout, so giving up is always possible) and strong
  fairness of taking the lock, which each thread can be denied only as long as
  others keep coming. Nothing else takes a thread out of its wait for the lock.
* `Pool`, `Backoff`, `Feed`, `DecimalMode`: none, their properties are safety.

## 4. The proofs

They hold for every value of the constants that satisfies the named assumptions of
the modules (finiteness of the identifiers, `None` is not one of them, the limits
are naturals). Each module of proofs starts from its `TypeCorrect`.

* **Bucket** (`BucketProofs`). `ChannelOwner` and `NoLeakedChannel` are not
  inductive: whether a confirmation may be believed depends on what is on
  the wire. `WireInv` adds that a confirmation in flight is true
  (`ConfirmsTrue`) and the only one for its channel (`ConfirmsUnique`), that a
  close in flight is for a channel the bucket has given up and whose confirmation
  has been read (`ClosesGivenUp`), and that nothing is on the wire of a bucket
  that is not connected (`WireOfConnection`).
* **Bucket's entries** (`ContractProofs`, its first half). `EntryInv` follows one sub_id that was never
  in a race: one request, in one place (`OneRequest`), one entry, which excludes
  the others (`OneEntry`), and an answer to wait for while the socket is up
  (`Expected`). `OneEntryPerSub` and `AnswerOnItsWay` follow. `LedgerInv` says the
  once-events are clean whenever nothing can be announced, which gives `Rearmed`.
* **Bucket's contract** (its second half). `WantedInv` gives `CarriedIffWanted`;
  `Load`, the sub_ids that have a place in the bucket or will take one again, is
  what `is_full` bounds. `LimitPassedOnlyByOvertaking`: a step takes a bucket past its
  limit only if it subscribes one sub_id next to the `resubscribe` of another
  (`Overtakes`). `CapacityUnlessOvertaken` draws the conclusion: without such a step,
  and without a race, `CapacityRespected`. `ContractKept` is the refinement: the
  initial states map to the initial state, and each action to its abstract
  counterpart or a stutter, with overtaking and over the limit too, in every
  behaviour without a race (`[]Unraced`): with one, a cancelled request's answer can
  confirm what was not asked for.
* **Session** (`SessionProofs`). `DisconnectedOnce`, `BackoffEndsAtOnce` and
  `FlappingKeepsBackoff` hold whether runs overlap or not: what they rest on
  (`TypeInv`, `LifeOK`) is said of each run by itself. So does `StaleRunNeverOpens`,
  of every closed run that no later `start()` has taken the client over from
  (`ClosingUntilSuperseded`). The others assume `~Overlap` and rest on `Alone`:
  at most one run is active, and what is kept on `self` is in step with it.
  `GoingAwayEndsNothingElse`: a 1001 ends a session only by the auth frame, of a
  client that has credentials, and by an exception; so what the comment in `__run`
  says is true of every client without (`GoingAwayIsNotTheEnd`).
  `OutagesAreCleared` (a connection that is up has no outage behind it) is proved
  and not a property of a run.
* **Pool** (`PoolProofs`). `SubsInv` relates what callers hold to what buckets carry
  and reissue, at any number of callers: `UniqueSubIds`, `SubscribedIsCarried`, and
  with it each step that puts a sub_id into a bucket is followed for `RoomRespected`.
  `LifeInv` says who may be alive in which state of the client (`NoneAway`,
  `ShutByClose`, `LeftBehind`, `BeingClosed`): `OneSupervisor`, `KeptUp`,
  `ClosedStaysClosed`.
* **Rest** (`RestProofs`). `TypeCorrect` needs `AttemptLeft` (a waiting call has an
  attempt left). `NonceRaceRetried` is an invariant by itself. `NoncesAreUnique` rests on
  `NonceOrder`: only the holder of the lock is ahead of `_LAST`, everything on
  the wire is behind it. `WritesAppliedOnce` rests
  on `OneRequest`: a write that is not idempotent has at most one request, of its
  one attempt that was sent, and is applied only after leaving the wire.
  `KnownOutcomesAreKnown` then says the error told the truth. The last two assume
  `InHandler = {}`, without which they are false.
* **Backoff** (`BackoffProofs`). Answers lie in the past (`AnswersArePast`) and a
  thread that is not `mixed` reads its own headers (`ReadsItsOwn`); with that a
  sleep is right when it begins, and time only adds to it. That a power of two is
  a natural, which the exponential delay needs, is an assumption (`PowersAssumption`):
  the provers do not know exponents. `RateLimitsPause` is
  proved of the `mixed` ones too: a second at least. `FacadeFresh` rests on
  `FreshInv`: one group's time is that of the latest answer of all, no half-stored
  answer is later than its group's time, and the headers of a group that is not in
  `crossed` are those of its latest answer, or a thread still has them in hand
  (`LatestAtHand`). A third thread may store an answer over two that crossed and
  be older than both itself, so a group stays in `crossed` until its latest answer
  is stored (`Crossed`); with a history that forgot it sooner, `FacadeFresh` is
  false for three threads of one group.
* **Feed** (`FeedProofs`). For any set of `KnownStreams`, any number of frames on the
  way and of re-subscriptions. Lemmas say what the dispatch makes of each frame a
  stream can carry: its snapshot is the one event a consumer replaces on
  (`SnapshotDispatch`), a closed item one that removes (`CloseDispatch`), a change
  one that does neither and is never delivered once only (`UpdateDispatch`). The
  inductive invariant has six parts besides types: which frames are on the way
  (`FramesInv`); what client and server know of the subscription (`HeldInv`: once it
  is pending on a new connection, nothing of it is on the way before the server has
  opened it); that the snapshot comes first, and is not latched (`OrderInv`); with
  these `SyncInv`, which is `InSync` for streams with a snapshot and holds from the
  start for those without. `BookInv` says of the example what `SyncInv` says of
  `mirror`, and that a checksum task's value is the checksum of its truth.
  `ChainInv` is what `UpToDate` and `NoFalseAlarm` need: there is a sequence of
  contents, one for each frame on the way, that leads from what was read to what the
  server has, and at each checksum frame it is the content the checksum is of.
* **DecimalMode** (`DecimalModeProofs`). `ScopesRestored` speaks of the innermost
  call; the invariant `Ruled` says the same at every depth, of the mode each call
  will restore. `BareFollowsItsCaller` states what a group without a client gets, the
  mode of the scope it is called in, or inherited by the task it is called in; that is
  less than its docstring promises (section 5) and no property of a run. `ClientsKeepTheirMode`: whatever is
  nested in it or started from it, a client's call parses under its own mode.
* **Labels** (`DecimalModeProofs`, from "Flattening" on). `FlattenNested`: to flatten
  a nesting of any array without lists gives the array back, however long it is and
  wherever it was cut; `SpliceNested` follows one pass, which leaves no list behind,
  and `SplicePlain` the second, which finds none. `Placed`: for any layout with a
  label and any array whose elements are in order as far as they go, every field of
  the object has its own value, and only fields of the tail may lack theirs. From
  these, that every payload of the model is in its place (`PayloadsInPlace`), one
  lemma for each family: optional tails, nestings, a nesting longer than its labels,
  notifications, notifications without data and with data cut short
  (`CutNotificationInPlace`). `FieldsStayInPlace` is that for every
  call of every context. `MoneyIsAsAsked` adds `ClientsKeepTheirMode`: the mode decides
  the type and is the client's. `FlattenSeq` of the community modules chooses a
  function by its recursive equations; `FlattenIs` shows there is only one, by the
  least position where two of them differ, so that no induction theorem is needed.

Every invariant and action property the passing runs check is thus proved, and so
is the refinement, under the assumptions named above. Out of TLAPS's reach, and left to TLC: the liveness properties
(they need ENABLED and fairness), `EventuallyConfirmed`, `CloseWins`, `OutageEnds`,
`EveryCallEnds`. The findings are counterexamples, which TLC finds. The payloads
of `Labels` are the layouts listed there; what is proved of any layout is `Placed`.

## 5. Findings

Where the code and what the repository says of it part:

* `bucket_pending` (`bfx_websocket_bucket.py:153`): the confirmation of a cancelled
  request takes the new request of the same sub_id out of `__pendings`; if the
  socket drops before the second confirmation, nothing asks for it again.
* `session_start` (`bfx_websocket_client.py:260`): a `start()` after a `close()`
  during an outage inherits that outage, sleeps, and may time out without one
  attempt. `_authentication` is kept likewise after a session that ended without
  an outage (line 694): an operation sent before the next `authenticated` passes
  the guard, though the repository's README, line 152, says it fails.
* `bucket_limit` (`bfx_websocket_bucket.py:253`): `resubscribe` gives its slot back
  (`:251`) and awaits; a task that subscribes another sub_id in between finds the
  bucket not full and takes it; the second half appends without asking. The bucket
  then carries one channel more than Bitfinex allows, and since `is_full` (`:86`)
  compares with `==` it no longer counts as full, and takes more.
* `session_going_away` (`bfx_websocket_client.py:652`): "come back, don't hang up",
  says the comment at `:333` of a 1001. One that arrives while the client waits for
  its buckets makes the send of the auth frame raise `ConnectionClosedOK` out of
  `start()`, and the session is over. A 1000 at that point raises too, where
  otherwise it would have ended the session without an exception.
* `rest_handler` (`middleware.py:160`): a write that timed out inside the handler of
  a refused connection counts as never sent and is sent again.

Seen, and not the subject of a run:

* A sub_id unsubscribed and subscribed again on one connection is confirmed without
  a `subscribed` event: the ledger keeps it (`bfx_event_emitter.py:139`).
* `await close(); start()` during a backoff (`Overlap = TRUE` in `MCSession.cfg`): the
  second `start()` takes back the flags the first run has yet to read, and the
  closed run goes on next to the new one, though `close()` says that `start()`
  "ends cleanly" (`bfx_websocket_client.py:837`). `CloseWins` fails; what is left is
  that a closed run opens nothing while no later one has begun (`StaleRunNeverOpens`).
* A bucket `__new_bucket` created and gives up on goes with whatever another call
  has put in it in the moment it was open (`bfx_websocket_client.py:731`).
* A `subscribe()` that waits for a bucket which `unsubscribe()` removes is only
  woken by its deadline (`:807`).
* A drop between the halves of `resubscribe` loses the subscription, with an
  exception (`bfx_websocket_bucket.py:251`); `unsubscribe` of a pending request
  frees its room while its frame is still on the wire (`:230`). In the client, a
  sub_id subscribed elsewhere in the middle of its own `resubscribe` ends up in two
  buckets (`UniqueSubIds` leaves it out).
* `max_delay` is documented as the "Maximum delay cap in seconds" (`retry.py:132`
  and `:189`), but `get_backoff_delay` does not apply it to a network error without
  `Retry-After`, which is capped at 60 s (`:111`), nor to a nonce error, which waits
  for 1 s (`:102`, `:106`): with a smaller `max_delay` both wait for longer. Between the two statements that store an answer,
  another thread's headers can replace it: a 429 then waits for someone else's
  time, and two threads that store in reverse leave the older headers behind.
* The order book example merges the snapshot of a restarted bucket into its old
  book, may clear a book whose snapshot has arrived, and compares a checksum
  with a book that has moved on; only the next checksum that fails can put it right.
* An endpoint group built without a client inherits the mode of the client scope
  it is called in, or that of the scope in which its task was created. A lifecycle
  event such as `subscribed` is said to be outside of any scope
  (`rest_public_endpoints.py:99`, `interface.py:51`); but a bucket that was started
  from a handler of a data event runs in a copy of that handler's context, and a
  bare group called from its `subscribed` event has the emitting client's mode
  instead of the process-wide default. `docs/financial-decoding.md` and `types/labeler.py` differ on
  whether `decimal_mode` is per process or per client.
* A notification whose data is null raises a `TypeError` in the serializer.

## 6. What is not modelled

* Dataclasses, exception classes and subscription types are declarations; logging
  and printing are output.
* The text of numbers and keys (JSON), the syntax of headers, REST paths and
  parameters, the fields of input frames, credentials and hosts: tables and
  formatting, without a state that could go wrong.
* The other serializers that are a plain list of labels: they go through the same
  code as `Transfer` and differ in their words.
* `_RecursiveSerializer`, which no serializer of the library is.
* The nonces a `nonce_provider` returns, the threads of the HTTP library, and how
  the `websockets` library closes a connection: they are used, and modelled by
  what the code can see of them.
* Listeners of events, beyond the two consumers of `Feed`; the other examples.

The properties have limits of their own, apart from the bounds:

* `CarriedIffWanted`, `OneEntryPerSub`, `AnswerOnItsWay` and `EventuallyConfirmed`
  leave out the sub_ids in `raced`; `bucket_pending` is what happens to those.
* The `session` run has no overlapping runs, and `Pool` none at all. Of the rest of
  `Session`'s properties without `~Overlap` section 4 says which are proved.
* `ReauthenticatedFirst` is about every connection of a run but its first, which is
  the second half of `session_start`.
* `SubscribedIsCarried` does not speak of what goes with a bucket that was given up on
  (section 5). `KeptUp` does not check how failures are counted.
* `WaitsAsAsked` leaves out the threads in `mixed`, of which `RateLimitedPauses`
  says what remains true; `FacadeFresh` the groups in `crossed` and the answers
  that are half stored.
* `BookInSync` leaves out the books in `tainted`, which are wrong (section 5);
  `NoFalseAlarm` says when a book that is right is reported wrong.
* `FieldsInPlace` counts an exception as a refusal: it is about values in wrong
  fields, not about arrays that should have been accepted.

## 7. What is left

* `Session` and `Pool` see each other as a wait and as a state (`client`); one
  module with both would check the handover itself, at a size TLC does not reach
  with these actions.
* Liveness of `Pool`: a `subscribe()` returns by its deadline, which is a matter
  of time, not of fairness, in this model.
