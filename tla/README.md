# actix_send in TLA+

`actix_send` is an actor library for Rust: `Builder::start` spawns one or more actors of a type and returns an `Address`. All the actors of one address read from one channel ("work stealing"), each in a task of its own, on a multi-threaded runtime (tokio, async-std) or a single-threaded one (actix-rt). Two more crates belong to it: `actix-send-macros`, which generates an actor's message enum and dispatch, and `actix_send_websocket`, WebSocket streams for actix-web. This directory models all three in TLA+, checks the models with TLC and proves theorems about them with TLAPS. Paths below are relative to the repository, which is `src/` here: `src/src/address.rs` is the library's own `src/address.rs`.

## The system

| Component | State it keeps | Operations | What makes it correct |
|---|---|---|---|
| **Shared actor state** `actor.rs` | `active`, one atomic word (count of actors << 1, shutdown marker in bit 0); `handlers`, cancel handles behind a lock; the interval map; the configuration | `inc_active`, `dec_active`, `push_handler`, `shutdown`, `current_active` | no lost update, no wrap, no refusal before shutdown; bounded escape from cancellation (the contract of `shutdown`, which no program reaches, see below) |
| **Address, WeakAddress** `address.rs` | `strong_count`, a sender of the main channel, the group of broadcast senders, the subscribers | `clone`, `drop`, `downgrade`, `upgrade`, `send`, `run`, `do_send`, `do_run`, `send_later`, `run_later`, `run_interval`, `close_one`, `broadcast`, `subscribe_with`, `send_subscribe`, `send_stream` | every request gets the answer that fits its message's fate |
| **Message loop** `context.rs` | weak sender, receiver(s), `manual_shutdown`, `generation`, the user's actor | `spawn_loop`, `handle_msg` and its four kinds of message | nothing lost while an actor can read it; leaves only when drained; `close_one` stops exactly one |
| **Interval futures** `interval.rs` | map key -> future behind an asynchronous lock, key counter | `insert`, `remove`, `lock` | distinct keys, one future at a time, no leak |
| **Cancelable tasks** `util/future_handle.rs` | flag and waker shared by a handle and its task | `spawn_cancelable`, `cancel`, the finisher's `poll` | cancel is final |
| **Builder** `builder.rs` | configuration | `start`, `start_with_arbiters` | every actor and one address wired together |
| **Channels** `sender.rs`, `receiver.rs`, `util/channel.rs` | strong and weak references to async-channel or tokio mpsc; oneshots | `send`, `try_send`, `recv`, `upgrade` | closed exactly when no strong sender is left |
| **Broadcast** `address.rs`, `sender.rs` | one bounded channel per actor | `broadcast` | one result per actor, which tells what became of its copy; the wait for room in a full channel is bounded by the timeout, the wait for an answer is not, and a copy left unread in the channel of an actor that is gone hangs its caller in the async-channel builds |
| **Subscribe** `subscribe.rs` | list of weak, type-erased subscribers behind an asynchronous lock | `push`, `send` | every live subscriber of the right type gets the message, all in one order; the lock is never left behind |
| **Streams** `stream.rs` | at most one outstanding oneshot, a strong sender | `poll_next` of two adapters | one answer per item, in order; the stream keeps its actors alive |
| **Type erasure** `object.rs` | a boxed closure or value | `handle`, `pack`, `unpack` | a value is taken once, as its own type |
| **Macros** `actix-send-macros` | none (code generation) | `#[actor]`, `#[handler]`, `#[actor_mod]`, `#[handler_v2]`: message enum, `From`, `MapResult`, dispatch, hooks | `map(handle(from(m)))` is the own handler's result for `m`, whatever the declaration's order |
| **WebSocket** `actix_send_websocket` | read and write buffers, local queue with a waker, channel, heartbeat deadline and timer | handshake, `poll_next` of the decode and encode streams, pushes, sends, clones, drops | frames in order, no wake-up lost, both halves end, the heartbeat ends silent connections, and none whose client sends a Ping or Pong within the timeout |

How they interact: addresses and actors share nothing but the channel, the actor state and the oneshots inside the messages. The actors hold **weak** senders, so the channel's life is decided by addresses and by the tasks that own a strong sender for a while: those of `do_send`, of delayed messages, of interval ticks and of `cancel`. Actors end because the channel closes, because somebody called `close_one`, or because a handler panicked. A broadcast reaches each actor through a channel of its own, that the actor selects on together with the shared one. A subscriber list lives in the Address of one group and holds weak senders of others. A stream adapter is a client with a strong sender; the messages of every client pass through the code the macros generate. The WebSocket crate is independent of the rest: its two streams and the program share a local queue, an `Rc` whose reference count tells the body that the stream is gone, and a channel.

What is hard here: reference counts that decide shutdown, decremented and compared on several threads; an upgrade in two halves; messages queued when the last reader leaves; tasks that outlive the addresses they were started from; a cancel that goes through the very channel whose end it may race; panics that unwind past the bookkeeping. A timeout that covers the send of a broadcast but not its answer; a lock held across sends; wake-ups sent before the drop they announce; a heartbeat that reads its own deadline instead of the clock. `PROJECT.json` lists each of these as a hazard, at its line.

## The modules

**`ActorState`** models `actor.rs` at the grain of its atomic operations. A task calls `IncActive` or `DecActive` (the load), then `CasSucceeds`, `CasRetries` or `SeesMarker` (one round of the loop); `PushCheck`/`PushExtend` are the two halves of `push_handler`, `SetMarker`/`CancelAll` those of `shutdown`. The word is a number, read through `Marked` and `CurrentActive`. A spurious failure of `compare_exchange_weak` reloads the same word and is a stuttering step.

**`ActiveCount`** is what that object promises: a counter with a closing flag. `ActorState` implements it, so the next module uses it in its place.

**`ActorCore`** models addresses, channel and message loops together. Per client `holder` says whether its `Address` is absent, half-way through `upgrade` (`tx` held, group not yet), live, being dropped (counted down, fields not yet released), or lost to a panic in `upgrade`. (`TaskSends` and `Release` each let go of several things in one step, the task's sender after its enqueue and an Address's fields one after another; nobody can act on the difference.) Per message `st` says how far it got, `reply` what its oneshot holds. Per actor `pc` follows `spawn_loop`: `start` (on_start), `recv`, `handle`, `exit` (loop left, `dec_active` due), `stop` (on_stop), `gone`, `panicked`. One action stands for what the code does between two awaits or between two operations visible to other threads: `UpgradeTx`/`UpgradeGroup` and `Drop`/`Release` are split because other threads can come in between. `send` and `run` differ only in the type of the message and are both `Send`; likewise `do_send`/`do_run` (`DoSend`, then the task's `TaskSends`) and `send_later`/`run_later`. `Settle` and `Discarded` carry what the libraries do when references go. async-channel keeps queued messages as long as a sender lives, and frees them, with the oneshots inside, when neither side has anyone left. tokio mpsc (feature `actix-runtime-mpsc`, one actor only: its receiver cannot be cloned) discards them when the receiver goes: `DrainOnClose`. The main channel is unbounded, so a send never waits and `ActixSendError::Timeout` never comes from it.

**`Mailbox`** is the abstract specification of the above: every message is handled at most once, by at most as many handlers as there are actors; it is lost only when no actor is left to read it or no sender to carry it; its answer follows from its fate. `ActorCore` implements it under the mapping of `Promise` (a delayed message counts as pending until an actor takes it the second time).

**`Intervals`** models `handle_interval_msg`, `interval.rs` and `future_handle.rs`. `Recv` takes a message, draws the key and queues for the map's lock, in this order and in one step, `HandleRegister`, `HandleRun`/`RunEnds` and `HandleRemove` are what the actor does once it has it. A tick task is asleep, past the finisher's poll (`armed`), owner of a strong sender (`sending`), or ended. `cancel` is three steps: the flag, the upgrade and spawn, and the spawned task's send. It leaves `shutdown` out: `DropNeverShutsDown`, proved about `ActorCore`, says no drop of an address reaches it, and nothing else calls it. The clients share one Address by reference.

**`Broadcast`** models `Address::broadcast` over one bounded channel per actor. `part[c][a]` is the future of one copy: not polled yet (`sending`), waiting for room (`full`), accepted and awaiting its answer (`waiting`), or its result. `PollSend` and `TimesOut` are one poll of the send under its timeout, which looks at the send first; `Enters` is the channel accepting. The actors' side is the loop's `select` reduced to its own channel plus a `close_one` from the shared one (`TakeClose`). A call borrows its Address, so no channel closes from the sending side; one whose last receiver is gone keeps what it holds in the async-channel builds and discards it in the mpsc build. `Wired` are the actors broadcast can reach: `start_with_arbiters` with one actor creates no channel even when broadcasting is allowed, and such a group answers every broadcast with the empty list.

**`Subscribe`** models `subscribe_with` and `send_subscribe`: `lock` is the first-come-first-served queue of calls for the list's asynchronous lock, `list` the subscribers, `res[p]` the results of the entries a post has already served. `Mismatch`, `Upgrade` and `Send` are the poll of one entry: the type test, the upgrade of the weak sender, the send with it. `DropCall` drops a caller's future wherever it is, guard included. The subscribed groups are only what the sends can tell of them: some Address is alive, the actors read, were closed, or left the closed channel. A call on an Address that was upgraded from a weak one, or of a group that is not configured to subscribe, may be refused (`Refused`): the upgrade gives the Address no list at all.

**`Dispatch`** is the macros as functions from a declaration, a sequence of items, to the generated code (`ActorMod`, `HandlerV2`: enum variants, `From`, `MapResult`, match arms, hooks), and that code as functions of a message (`Into`, `Handle`, `MapResult`). `ModExpands` and `V2Expands` say when the expansion panics, `Compiles` what rustc refuses of the output. It keeps what a reader of the macros may not expect: `blocking` counts only after the last `=` of the attribute; a result type whose name contains "blocking" is cut; the first of two handlers of a type wins in `#[actor_mod]`, which also never fills the hooks; a blocking handler panics on actix before it runs.

**`Streams`** extends `Dispatch` with `stream.rs`: the adapters' `poll_next` one item at a time (`SourceEnds`, `SkipsNone`, `SendsItem`, `PollsLast`), over actors whose declaration is any member of `Programs` and whose answers are computed by the generated code of that declaration.

**`WebSocket`** models the second crate: `Handshake` is the sequence of checks, in order, and the protocol selection; the streams' `poll_next` are one action per way they can go (`Decodes`, `PayloadFails`, `PayloadEnds`, `Parks`, `Ticks`, `TimesOut`; `QueueError`, `ChannelError`, `EncodePoll`). A frame is its kind; the codec is a library. `half` is a frame that arrives in two pieces, `bad` one that cannot be decoded or encoded, `ping` a Ping or a Pong. The streams and the queue live on one thread, so a poll is a step, and the send of a `WebSocketSender`, which may be elsewhere, comes before or after one; wake-ups are explicit (`queueWaker`, `parked`), because losing one is the hazard. `AbandonNext` is the program dropping the future of `next` in a `select`. The program does not call `next` again after it returned `None`. Time is a number of ticks and passes only when no woken task waits to be polled, while the program's own work between two `next`s may take any time; setting the timer to a time that has passed fires it at the next poll, as tokio's `Sleep` does.

**`ActorStateProofs`, `ActorCoreProofs`, `IntervalsProofs`, `BroadcastProofs`, `SubscribeProofs`, `StreamsProofs`, `WebSocketProofs`** hold the theorems, **`Queues`** the lemmas about sequences that they share: what a send, a receive and a waiter that leaves do to a queue, and the least and the greatest of a set of numbers. **`MC*`** are the instances for TLC.

How they compose: `ActorCore` uses `ActiveCount`, which `ActorState` implements, and implements `Mailbox`; `Streams` runs over the code `Dispatch` generates. `Intervals`, `Broadcast` and `Subscribe` stand beside `ActorCore`: each keeps of the addresses, channels and loops the part its own operation can observe (whether a strong sender is left, whether an actor still reads), with the same rules for when a channel closes and what becomes of its messages.

Definitions named for a mistake (`ContextsHoldSenders`, `ElapsedDrops`, `KeysReused`, `DropsQuietly`, ...) are not part of a specification: each is an erroneous variant of the definition that follows it. Substituting one must make a property fail; `PROJECT.json` pairs them under "mutants".

## What is checked

| Run | Shows |
|---|---|
| `state_word` | two tasks on one word against two concurrent `shutdown`s, three handles: `NoEarlyRefusal`, `EscapesBounded`, and `ActorState` implements `ActiveCount` |
| `core` | two clients, two actors, a call that may panic its handler, a `do_send`, a delayed message, a `close_one`, with broadcast on: every message is in one place and is lost only for a reason, actors leave drained, each answered `close_one` stopped one actor, an answer matches the message's fate, nothing revives a group, and `ActorCore` implements `Mailbox`; when the last sender is gone all actors end; an open call is answered, whatever becomes of the addresses and of the other actor, unless every actor was closed or panicked; and so is a delayed message handled while an address is kept |
| `intervals` | two intervals, two actors, one handle cancelled twice, one never and its future panicking: no uncancelled interval is lost, none leaks, cancel is final; an interval keeps running until cancelled; cancelling takes effect, and so does dropping the address once at most one interval is uncancelled |
| `broadcast` | three broadcasts over two channels of capacity two, one actor slow: a result tells what became of its copy (`ResultMatchesFate`: one that failed with Closed or Timeout is never handled, so repeating it is safe), actors that are gone are reported Closed, and a broadcast ends unless an answer is due from an actor that cannot give it |
| `subscribe` | three subscriptions, two posts, a caller that leaves, a group that ends: each result accounts for one copy, a subscription to the post's type made before the post is served, any two groups receive two posts in the same order, every call ends, what was accepted is handled |
| `streams` | a stream and a skip stream over actors declared in every way that compiles: one answer per item and in order, dropping the addresses never fails a stream, every message reaches the handler written for its type (`DispatchesRight`, which also compares the two macros), streams end |
| `websocket` | the handshake, then a connection: frames leave once and in order, no wake-up is lost, a silent peer is noticed in time and one that sends Pings or Pongs never closed, the body ends after a Close and after the stream's drop |

Five runs end in a counterexample: the code does not do what one of its docs, comments or assertions says.

| Run | Statement | What happens |
|---|---|---|
| `restart_livelock` | context.rs:203 "dec_active will return false if the actors are already shutdown." | with `restart_on_err`, dropping the last address sends actors round on_start, a failing recv and `dec_active` for ever; address.rs:55 compares the count *before* the decrement with 0, so the marker is never set |
| `delayed_outlives` | address.rs:153 (and :348) "If `Address` is dropped we lose all pending messages that have not met the delay deadline." | the same comparison: the drop of the last address cancels nothing, the delay task's own sender keeps the actor, and the message is handled (`PendingLostWithAddress`) |
| `upgrade_panics` | address.rs:420 `expect("Failed to upgrade WeakGroupSender")` | an upgrade finds the channel's sender while the last address is being dropped; the dropped address lets go of its senders, the group is gone when the upgrade comes to it, and `strong_count` stays incremented |
| `panic_count` | address.rs:75 "The number of currently active actors for the given address.", builder.rs:110 "Notify the actor(s) to restart if it exits on error." | a panic in a handler unwinds past `dec_active` and past the restart: the actor is gone, and `current_active` counts it for good (`ActiveActorsExist`) |
| `subscribe_mismatch` | address.rs:258 "A typecast error would return if the message type can not be handled by certain subscriber actor." | the subscriber answers None and `filter_map` drops it: nothing is returned for it (`TypeCastReturned`) |

How far the two counters are from what the docs say is proved for every instance: `current_active` exceeds the active actors by those that panicked and by nothing else (`PanickedStayCounted`), and `strong_count` the Addresses by the upgrades that panicked, so that `Drop::drop` never calls `shutdown` (`DropNeverShutsDown`). Nothing else calls it either. What `ActorState` says about `shutdown` (`EscapesBounded`, and the second half of `NoEarlyRefusal`) is therefore the contract of that code, not something a program of today meets; `DelayedHandled` says nothing about delayed messages once no address is left.

`AnsweredUnlessKilled` has an exception that a caller may not expect: a call queued behind the `close_one` of the last actor is never answered and never times out, because the timeout of `send` covers only the send.

One exception in `WebSocket` is deliberate: the drop of a clone of the local queue wakes nobody, so a body that saw a clone outlive the stream may sleep although it has become the queue's only owner (`outlived` in `NoLostWake` and `BodyEnds`). No doc says that a clone may be kept that long.

Each component's module states its types as `TypeOK` (`Types` of `WebSocketProofs` for `WebSocket`). They are proved, for most modules as theorem `TypeCorrect`, and are not in the cfgs, which keep to properties that relate pieces of state.

### Bounds

Two clients are enough for an address to be cloned, dropped and upgraded by one client in the middle of another's operation; two actors for stealing and for one to leave while the other works. There is one message of each kind; whether the call's handler returns or panics is open (`Panicky` are the messages whose handler may panic). Several `close_one`s are left to the theorem `EachCloseStopsOne`, the mpsc build (`DrainOnClose`) to `NobodyWaitsInVain` and to the proofs of the safety properties, restarts to `restart_livelock`, `panic_count` and the proofs, which hold for all configurations. Each message identity is used once, which bounds every run; it does not bound what one message can meet. `generation` is counted up to `MaxGeneration` (1) and then stays: it is reported to callers and never read by the loop.

`Intervals` lets each handle be cancelled `MaxCancels` (2) times, because a repeated `cancel` is what could hit another entry; and a tick waits while `MaxBacklog` of its own Runs are in a channel that somebody reads, which stands for a slow timer. The `Keeper` drops its FutureHandler without cancelling; with it two intervals, one cancelled and one not, fit in one run.

`Broadcast` needs capacity plus one calls for a channel to be full: with two actors the capacity is two, and three calls fill it, the third waiting for room that a slow actor may never make. `MaxCloses` (1) removes one actor; the other may panic.

`Subscribe` has two subscribed groups, because an order is between two, one of them mortal and subscribed twice (once for another type), and two posts that race a push and each other for the lock.

`Streams` has two items per stream, one before and one after an item that panics, is skipped or is refused; the 24 declarations that compile out of those enumerated cover both macros, every position of `blocking`, async and blocking methods, both orders of handlers, a second handler, repeated hooks; those left out by `Expands` and `Compiles` (a missing handler, a method without a message, a repeated method, arguments that do not fit) are enumerated too.

`WebSocket` splits its bounds by configuration, since the two halves share only the queue: with a heartbeat (interval 2, timeout 3, `MaxTime` 7: long enough for three ticks, of which the second or third expires) two pieces arrive and the program pushes nothing; without one, one piece arrives and the program pushes two messages of any kind by either way. The requests are one that passes and, for each check, one that fails it. As the interval does not divide the timeout, a deadline falls between two ticks.

`state_word` uses the symmetry of its tasks and handles, none of which a property names; the other runs check liveness too and use none. Deadlock is not checked: a group whose actors ended, clients that want nothing more, or a connection whose body ended legitimately stop.

### Fairness

`FairSpec` of `ActorCore` assumes weak fairness of each actor's and each spawned task's steps: a runtime polls whatever was woken, and timers fire; handlers, `on_start` and `on_stop` are assumed to return. The second half of `upgrade` and of a drop is synchronous code and completes. Clients owe nothing: they may keep an address for ever, never await, never drop. That is why `AnsweredUnlessKilled` speaks of open requests and `StopsWhenReleased` of the moment the last sender is gone. `Intervals` assumes the same; the lock is handed over in order, as tokio's mutex is. `EndsWithAddress` speaks of at most one uncancelled interval: two that tick on different threads may each find the sender the other has just upgraded, and an untimed model lets that go on for ever.

`Broadcast` and `Streams` assume one weak fairness condition for the steps of pollable futures, actors and timers together (`Progress`): every behaviour of these modules is finite, as no call is made twice, so one condition leaves nothing behind just as one for each would. In `Broadcast` the `Slow` actors owe nothing inside a handler or on_start; that is what `Hostage` excepts. In `Streams` the consumer polls on unless it drops the stream. `Subscribe` assumes that whoever holds the lock is polled (`Holder`), unless its caller drops it, and that the subscribed groups read (`Reader`). `WebSocket` assumes only that the connection polls a body that was woken (`Encode`): nothing of the program, the client or time.

## What is proved

TLAPS checks the following for every number of clients, actors, messages, tasks and handles, and all configurations, from the assumptions named in the modules (finite sets of parties, message kinds disjoint, flags boolean; at least one actor, as `check_num` of `builder.rs` requires, and exactly one in the mpsc build; heartbeat intervals positive; declarations that are sequences of items, messages and handlers in a `mod`, methods in an `impl` block; a stream's items a sequence). Every invariant, action property and refinement that a passing run checks is proved; what remains with TLC is liveness, and the counterexamples.

Three theorems have a hypothesis of their own, which names a configuration. `DrainOnClose` (`NobodyWaitsInVain`) is the mpsc build; in the others the statement is false, as a call behind the last `close_one` shows. `NamedBlocking = {}` (`DispatchIsRight`) says that no message's result type has a name the flag is found in: such a type is cut, and the two macros then differ; the rest of the statement needs no hypothesis (`OwnHandlersRun`). `Runtime # "actix"` (`FailsIfKilled`) leaves out the runtime whose `spawn_blocking` panics by itself, so that a stream fails although no handler did.

About `ActorState` (`ActorStateProofs`): `CountIsExact`, `NothingRefusedEarly`, `ImplementsCounter`, `EscapesAreBounded`. `CountExact` alone is not inductive. The invariant `IInv` adds `Control`, which ties a task inside `modify_active` to its status (in the loop when it decrements, out when it increments), and `NoEarlyRefusal`, which says an unmarked word was never seen marked. A successful swap then changes the word and the set of counted tasks together, and a decrement in flight belongs to a counted task, so the word cannot wrap. `EscapesBounded` needs the further fact that every uncancelled handle, after a shutdown, is owed to a distinct task that was between its check and its append.

About `ActorCore` (`ActorCoreProofs`):

- `TypeCorrect`, `PanickedStayCounted`, `DropNeverShutsDown` together, as `Bookkeeping`: types need both counters positive before a decrement, and that takes the exact value of each (`CountKeepsPanicked`, `NeverShutsDown`), disagreements with the docs included. `DropNeverShutsDown` is the proof that the comparison in `Address::drop` never succeeds.
- `NothingRevives`: an action property; a strong sender or a group appears only from one that exists.
- `ActorsLeaveDrained`: once the channel is closed and empty it stays so, and an actor leaves its loop only then or by hand.
- `NothingLostSilently`: every action that marks a message lost does so with no receiver or, for a delayed message, no sender; both conditions are stable.
- `EachMessageInOnePlace`: the channel holds no duplicates and agrees with `st`, and the actors' messages are distinct; each action moves a message between two of these places at most.
- `RepliesMatchFates`: the invariant `Requests` adds to `ReplyMatchesFate` that a message not sent yet has no oneshot (`Fresh`) and that whoever waits holds a live Address and waits for a request that was accepted (`Waiters`), so that no two clients ever wait for one. Every action is first shown to be one of a dozen kinds of step for each message (`MessageStep`: accepted, refused, taken, served, crashed, unread, ...), and the cases are then those kinds.
- `NobodyWaitsInVain` (`NoDeadWait`, in no run): when nobody receives, nothing is left in the channel (`UnreadGone`), so an open request would have to be with an actor.
- `EachCloseStopsOne`: one step either marks an actor and answers a `close_one` or does neither; both sets grow by one element together.
- `MailboxImplemented`: each kind of `MessageStep` is a step of `Mailbox` under the mapping or stutters; that no more messages are being handled than there are actors follows from `EachMessageInOnePlace`, by an injection.

About `Intervals` (`IntervalsProofs`):

- `TypeCorrect`, `UncancelledKept`, `OneFutureRuns`, by `Bookkeeping`: keys in use are distinct, lie below `next` and are as many (`KeysDistinct`, which also bounds the key), a registration is in one place (`Phases`), a future is stored under its own key and a Remove in the channel or in hand is for a cancelled one (`MapExact`), and only the first in the line for the lock runs a future (`Locked`).
- `NothingLeaks`: `Tidy`, a future nobody will run has its Remove on the way while a sender and a receiver are left.
- `CancellationIsFinal`: an action property, from the count of the Runs of one key in the channel.

About `Broadcast` (`BroadcastProofs`), `ResultsMatchFates` and `GoneAreReported`, in every build. The inductive invariant ties every future to its copy: what was not accepted is nowhere, what is awaited is in the channel or in hand and was not handled, channels hold no call twice. It needs `InHand` (an actor handles exactly while it has a message), `Unmade` (a new call has no copies), and `Refusals`: a copy for an actor that was already gone is never accepted nor found waiting for room, which is what rules out a Timeout in the place of Closed.

About `Subscribe` (`SubscribeProofs`), with an invariant each:

- `SubscribersAreServed`: complete subscriptions are in the list (`Listed`), the list only grows, and a post has polled a prefix of it (`Within`) that is all of it when the post completes (`EntryPolled`); an entry of the post's own type is not among those left out of the result (`Accounts`).
- `PostsInOneOrder`: what is in an inbox came from calls that ended or from the one that holds the lock (`Turns`), and the holder's copies come after all others in every inbox (`LatestLast`). A call that enters the lock finds no copy of its own anywhere, so the order of the calls' turns is that of every inbox. The lock's queue holds each waiting call once (`Locking`); a waiter that is dropped leaves the head where it is.
- `TypeCorrect` and `ResultsAreTrue`: the copies of a post in a group's inbox are as many as its results for that group's entries, because a send adds one to both; `Holding` says what the sender in hand stands for between the upgrade and the send.

About `WebSocket` (`WebSocketProofs`), for every interval, timeout, set of requests and bound of time, frames and messages:

- `NoWakeIsLost`: a parked body has nothing to hand out and somebody can and will wake it. The inductive invariant adds `Clones` (a clone that exists after the stream's drop was there at the drop) to `NoLostWake`: only then is whoever shares the queue with a parked body somebody with a registered waker, or excepted.
- `DeadPeersClose` and `NoFalseCloses`: the part `Heartbeat` of the invariant says that the deadline is the timeout counted from the last Ping or Pong decoded, and that the timer never runs more than one interval past it. Hence a parked stream, whose timer is in the future, has heard from its client within timeout and interval; and a tick at or after the deadline, which fires only when the clock has reached it and everything that arrived is decoded, follows a whole silent timeout.
- `HandshakesAreRight`: each check of the handshake as a condition of its success, and the selection of the protocol, whose first match is found by the least position of one.
- `HandedOutInOrder`: messages carry the number of their acceptance. `OrderInv` says of the three sequences a source goes through (handed out, buffer, queue or channel) that each is in turn, that all of one is before all of the next, and that together they hold what was accepted but for what cannot be encoded (`Flow`); a step drops a prefix of one and appends it to another. `InOrder` is that of the sequences joined.

About `Dispatch` and `Streams` (`StreamsProofs`), for any declarations, actors, streams and items:

- `DispatchIsRight`: the lists the macros generate are functions of the positions of the items and agree on the names (`Lists`), so a message meets its own `From`, arm and `MapResult` (`OneArm`, `ModThrough`, `V2Through`); `MacrosAgree` compares the two expansions field by field, `HooksRun` finds the declared hook.
- `OneAnswer`: `StreamInv` says that a stream has one message in the channel or in the actors' hands at most (`OneOut`), that it is the last item given, with its oneshot open (`OutIsLast`), that the rest of the source is the end of its items (`SuffixOf`), and which answers are there and which one is due (`DueOf`). An answer is placed by the rank of its item among those that were not None.
- `FailsIfKilled`: as long as no close was asked for and no handler panicked, nobody goes while a sender is left, no oneshot is lost, and no failure was yielded; a panic is one of a handler that was recorded as run, by `RoundTrips`.

Two properties are stated by position where a filtered sequence would say the same (`InOrder`, `OneAnswerEach`), and `Dispatch` keeps the items it selects at their positions: `SelectSeq` is recursive and nothing can be proved of it here. Where an argument is by induction over numbers it goes through a least or greatest element (`Least`, `Greatest` of `Queues`).

Only model-checked: liveness (`StopsWhenReleased`, `AnsweredUnlessKilled`, `DelayedHandled`, `CancelTakesEffect`, `KeepsRunning`, `EndsWithAddress`, `BroadcastEnds`, `CallsEnd`, `AcceptedIsHandled`, `StreamEnds`, `BodyEnds`), because fairness and ENABLED are beyond the prover. The five statements that the code violates, above, are refuted by TLC.

## What is left

1. The safety content of the liveness properties, as theorems: while a call of `Broadcast` or `Subscribe` is open, something is enabled that serves it; a stream that is neither ended nor dropped has a step or waits for one message. Together with the finiteness of the behaviours this is what the liveness runs check.
2. `Intervals` beside `ActorCore`: that its message loop is the one of `ActorCore` seen through the interval messages is argued, not checked.

## Not modelled

The libraries themselves (async-channel, tokio, futures, actix, the WebSocket codec), beyond what is stated above. `object.rs` appears as the type test of a subscriber (`Mismatch`); moving a value through `dyn Any` for delayed and `run` closures cannot fail and is left out. Of `util/runtime.rs` the timeout, `spawn_blocking` and the asynchronous lock are modelled, the rest and `util/smart_pointer.rs` rename runtime functions and pointers. `error.rs`: its variants appear as values of `reply`, `part`, `res` and `out`. Of the macros: parsing of tokens, paths, generics and the copying of attributes. Of the handshake: the building of the response's headers. `build()` failing before the address exists, and an arbiter that is gone when an actor is sent to it. What user code does inside a handler or an interval future, except that it returns, panics or (in `Broadcast`) does not return. Memory orderings: the atomics are modelled as sequentially consistent; the word of `ActorState` is the only location its readers act on, and each count is only read through the value its own read-modify-write returns. The examples and tests are users of the library.
