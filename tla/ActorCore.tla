------------------------------ MODULE ActorCore -------------------------------
(***************************************************************************)
(* address.rs, context.rs, sender.rs: the addresses of one group of        *)
(* actors, the work-stealing channel between them, and the message loops.  *)
(*                                                                         *)
(* Clients are threads or tasks that own at most one Address and run at    *)
(* most one awaited request at a time.  The channel stays open as long as  *)
(* somebody holds its sender: an Address, an upgrade in progress, or a     *)
(* task spawned by do_send or for a delayed message.  The actors hold weak *)
(* senders only, so the channel closes, and their loops end, when the last *)
(* of those is gone.                                                       *)
(*                                                                         *)
(* The counter of ActorState is used through its interface ActiveCount     *)
(* (count, closing): every operation on it is one step here.  The main     *)
(* channel is unbounded, so an enqueue never waits and never times out.    *)
(*                                                                         *)
(* Definitions named for a mistake (ContextsHoldSenders, ClosedUnread, ...) *)
(* are not part of the specification: each is an erroneous variant of the  *)
(* one that follows it, kept to see that a property notices.               *)
(***************************************************************************)
EXTENDS Integers, FiniteSets, Sequences, Functions

CONSTANTS
  Client, Actor,
  First,     \* the client that called Builder::start
  Calls,     \* messages sent with send/run: a reply is awaited
  DoSends,   \* messages sent with do_send/do_run: fire and forget
  Delays,    \* messages sent with send_later/run_later
  Closes,    \* close_one requests
  Panicky,   \* messages whose handler may panic
  NoMsg,
  RestartOnErr, HandleDelayOnShutdown, AllowBroadcast,  \* builder.rs, Config
  DrainOnClose,  \* TRUE: tokio mpsc (feature actix-runtime-mpsc), whose last
                 \* receiver discards what is queued; FALSE: async-channel,
                 \* which keeps it as long as a sender lives
  MaxGeneration  \* bound: restarts are counted up to here

Msg == Calls \cup DoSends \cup Delays \cup Closes
Awaited == Calls \cup Closes

ASSUME PartiesAssumption ==
  /\ IsFiniteSet(Client) /\ IsFiniteSet(Actor) /\ First \in Client
  /\ Actor # {}  \* builder.rs, check_num
ASSUME MsgAssumption ==
  /\ Calls \cap (DoSends \cup Delays \cup Closes) = {}
  /\ DoSends \cap (Delays \cup Closes) = {}
  /\ Delays \cap Closes = {}
  /\ Panicky \subseteq Msg
  /\ NoMsg \notin Msg
ASSUME ConfigAssumption ==
  /\ {RestartOnErr, HandleDelayOnShutdown, AllowBroadcast, DrainOnClose}
       \subseteq BOOLEAN
  /\ MaxGeneration \in Nat
  /\ DrainOnClose => Cardinality(Actor) = 1  \* its receiver cannot be cloned

VARIABLES
  holder,   \* per client: its Address, on the way in, alive or on the way out
  strong,   \* Address.strong_count
  weak,     \* some WeakAddress exists
  count,    \* ActorState.active, the count
  closing,  \* ActorState.active, the marker
  handlers, cancelled, \* ActorState.handlers: pushed, and cancelled ones
  queue,    \* the main channel
  st,       \* per message: how far it got
  armed,    \* delayed messages whose delay task was spawned
  reply,    \* per awaited message: its oneshot, and how the request ended
  wait,     \* per client: the request it awaits
  pc, cur,  \* per actor: control state, and the message taken from the channel
  manual,   \* per actor: ActorContext.manual_shutdown
  gen       \* per actor: ActorContext.generation

addrVars  == <<holder, strong, weak>>
stateVars == <<count, closing, handlers, cancelled>>
msgVars   == <<queue, st, armed, reply, wait>>
actorVars == <<pc, cur, manual, gen>>
vars == <<addrVars, stateVars, msgVars, actorVars>>

------------------------------------------------------------------------------
(* Who keeps the channel open, and who reads it.                            *)

\* A context owns its receiver until its task is over, on_stop included.
Ended == {"gone", "panicked"}
Receivers == {a \in Actor : pc[a] \notin Ended}

\* Tasks that own a strong sender: do_send's, and the delay tasks.
Tasks == {m \in Msg : st[m] \in {"sleeping", "sending"}}

\* Clients whose tx is alive, and those whose tx_subs is.
TxHolders == {c \in Client : holder[c] \in {"upgrading", "live", "dropping"}}
GroupHolders == {c \in Client : holder[c] \in {"live", "dropping"}}
Live == {c \in Client : holder[c] = "live"}

ContextsHoldSenders == TxHolders # {} \/ Tasks # {} \/ Receivers # {}
SenderAlive == TxHolders # {} \/ Tasks # {}

\* Messages an actor runs its handler for; a delayed one on its second way.
Runnable(m) == \/ m \in Calls \cup DoSends
               \/ (m \in Delays /\ armed[m])

TypeOK ==
  /\ holder \in [Client -> {"none", "upgrading", "live", "dropping", "panicked"}]
  /\ strong \in Nat
  /\ weak \in BOOLEAN
  /\ count \in Nat
  /\ closing \in BOOLEAN
  /\ handlers \subseteq Delays
  /\ cancelled \subseteq handlers
  /\ queue \in Seq(Msg)
  /\ st \in [Msg -> {"unused", "queued", "handling", "sleeping", "sending",
                     "done", "crashed", "lost"}]
  /\ armed \in [Delays -> BOOLEAN]
  /\ reply \in [Msg -> {"none", "open", "abandoned", "value", "canceled", "closed"}]
  /\ wait \in [Client -> Awaited \cup {NoMsg}]
  /\ pc \in [Actor -> {"start", "recv", "handle", "exit", "stop"} \cup Ended]
  /\ cur \in [Actor -> Msg \cup {NoMsg}]
  /\ manual \in [Actor -> BOOLEAN]
  /\ gen \in [Actor -> 0 .. MaxGeneration]

\* Builder::start: every context spawned, one Address handed out.
Init ==
  /\ holder = [c \in Client |-> IF c = First THEN "live" ELSE "none"]
  /\ strong = 1
  /\ weak = FALSE
  /\ count = 0
  /\ closing = FALSE
  /\ handlers = {}
  /\ cancelled = {}
  /\ queue = <<>>
  /\ st = [m \in Msg |-> "unused"]
  /\ armed = [m \in Delays |-> FALSE]
  /\ reply = [m \in Msg |-> "none"]
  /\ wait = [c \in Client |-> NoMsg]
  /\ pc = [a \in Actor |-> "start"]
  /\ cur = [a \in Actor |-> NoMsg]
  /\ manual = [a \in Actor |-> FALSE]
  /\ gen = [a \in Actor |-> 0]

(* What a step that lets go of a sender or a receiver does to the messages  *)
(* still queued.  With nobody left to read them they are destroyed when the *)
(* last sender goes too (the channel itself is freed), or at once in the    *)
(* mpsc build; a oneshot destroyed with its message wakes its caller with   *)
(* Canceled.                                                                *)

DiscardedUnread(senders, receivers) ==
  IF DrainOnClose \/ ~senders THEN Range(queue) ELSE {}
Discarded(senders, receivers) ==
  IF receivers = {} /\ (DrainOnClose \/ ~senders) THEN Range(queue) ELSE {}

\* st0 and reply0 are what the step itself makes of st and reply.
Settle(gone, st0, reply0) ==
  /\ queue' = IF gone = {} THEN queue ELSE <<>>
  /\ st' = [m \in Msg |-> IF m \in gone THEN "lost" ELSE st0[m]]
  /\ reply' = [m \in Msg |-> IF m \in gone /\ reply0[m] = "open" THEN "canceled"
                             ELSE reply0[m]]

------------------------------------------------------------------------------
(* Address and WeakAddress.                                                 *)

Clone(c, d) ==
  /\ holder[c] = "live" /\ holder[d] = "none"
  /\ holder' = [holder EXCEPT ![d] = "live"]
  /\ strong' = strong + 1
  /\ UNCHANGED <<weak, stateVars, msgVars, actorVars>>

Downgrade(c) ==
  /\ holder[c] = "live" /\ ~weak
  /\ weak' = TRUE
  /\ UNCHANGED <<holder, strong, stateVars, msgVars, actorVars>>

\* WeakAddress::upgrade, first half: self.tx.upgrade() found a sender.
UpgradeTxUnchecked(c) ==
  /\ weak /\ holder[c] = "none"
  /\ holder' = [holder EXCEPT ![c] = "upgrading"]
  /\ UNCHANGED <<strong, weak, stateVars, msgVars, actorVars>>
UpgradeTx(c) ==
  /\ weak /\ holder[c] = "none"
  /\ SenderAlive
  /\ holder' = [holder EXCEPT ![c] = "upgrading"]
  /\ UNCHANGED <<strong, weak, stateVars, msgVars, actorVars>>

\* Second half: fetch_add on strong_count, then upgrade the broadcast group.  With every Address
\* gone in between the `expect` fails: the unwinding drops the sender, but
\* strong_count has been incremented and no Address exists to decrement it.
UpgradeGroup(c) ==
  LET fails == AllowBroadcast /\ GroupHolders = {}
      senders == (TxHolders \ {c}) # {} \/ Tasks # {}
  IN
  /\ holder[c] = "upgrading"
  /\ strong' = strong + 1
  /\ holder' = [holder EXCEPT ![c] = IF fails THEN "panicked" ELSE "live"]
  /\ Settle(IF fails THEN Discarded(senders, Receivers) ELSE {}, st, reply)
  /\ UNCHANGED <<weak, stateVars, armed, wait, actorVars>>

\* Drop::drop compares what fetch_sub returns, the value before the decrement.
NoneLeft == strong = 0

Drop(c) ==
  /\ holder[c] = "live" /\ wait[c] = NoMsg
  /\ holder' = [holder EXCEPT ![c] = "dropping"]
  /\ strong' = strong - 1
  /\ closing' = (closing \/ NoneLeft)
  /\ cancelled' = IF NoneLeft THEN handlers ELSE cancelled
  /\ UNCHANGED <<weak, count, handlers, msgVars, actorVars>>

\* The fields of the dropped Address go: tx and tx_subs.
Release(c) ==
  LET senders == (TxHolders \ {c}) # {} \/ Tasks # {} IN
  /\ holder[c] = "dropping"
  /\ holder' = [holder EXCEPT ![c] = "none"]
  /\ Settle(Discarded(senders, Receivers), st, reply)
  /\ UNCHANGED <<strong, weak, stateVars, armed, wait, actorVars>>

------------------------------------------------------------------------------
(* Requests.  A send fails with Closed when every receiver is gone.         *)

EnqueueTwice(m) == /\ queue' = queue \o <<m, m>>
                   /\ st' = [st EXCEPT ![m] = "queued"]
Enqueue(m) == /\ queue' = Append(queue, m)
              /\ st' = [st EXCEPT ![m] = "queued"]

AcceptingWhenStarted == \E a \in Actor : pc[a] \in {"recv", "handle"}
Accepting == Receivers # {}

\* Address::send, run and close_one: enqueue the message with the sending half
\* of a oneshot and await the other half.
Request(c, m) ==
  /\ holder[c] = "live" /\ wait[c] = NoMsg /\ st[m] = "unused"
  /\ \/ /\ Accepting
        /\ Enqueue(m)
        /\ reply' = [reply EXCEPT ![m] = "open"]
        /\ wait' = [wait EXCEPT ![c] = m]
     \/ /\ ~Accepting
        /\ st' = [st EXCEPT ![m] = "lost"]
        /\ reply' = [reply EXCEPT ![m] = "closed"]
        /\ UNCHANGED <<queue, wait>>
  /\ UNCHANGED <<addrVars, stateVars, armed, actorVars>>

Send(c) == \E m \in Calls : Request(c, m)
CloseOne(c) == \E m \in Closes : Request(c, m)

\* Address::send_later, run_later: only the enqueue is awaited.
SendLater(c, m) ==
  /\ holder[c] = "live" /\ wait[c] = NoMsg /\ st[m] = "unused"
  /\ \/ Accepting /\ Enqueue(m) /\ UNCHANGED reply
     \/ /\ ~Accepting
        /\ st' = [st EXCEPT ![m] = "lost"]
        /\ reply' = [reply EXCEPT ![m] = "closed"]
        /\ UNCHANGED queue
  /\ UNCHANGED <<addrVars, stateVars, armed, wait, actorVars>>

\* Address::do_send, do_run: a task takes a clone of tx and sends from there.
DoSend(c, m) ==
  /\ holder[c] = "live" /\ st[m] = "unused"
  /\ st' = [st EXCEPT ![m] = "sending"]
  /\ UNCHANGED <<addrVars, stateVars, queue, armed, reply, wait, actorVars>>

\* The spawned task sends its message and drops its sender.  Nobody learns of
\* a failure.
TaskSends(m) ==
  LET senders == TxHolders # {} \/ Tasks \ {m} # {} IN
  /\ st[m] = "sending"
  /\ \/ Accepting /\ Enqueue(m) /\ UNCHANGED reply
     \/ /\ ~Accepting
        /\ Settle(Discarded(senders, {}), [st EXCEPT ![m] = "lost"], reply)
  /\ UNCHANGED <<addrVars, stateVars, armed, wait, actorVars>>

\* rx.await is over.
GetReply(c) ==
  /\ wait[c] # NoMsg /\ reply[wait[c]] \in {"value", "canceled"}
  /\ wait' = [wait EXCEPT ![c] = NoMsg]
  /\ UNCHANGED <<addrVars, stateVars, queue, st, armed, reply, actorVars>>

\* The future of the request is dropped, and the receiving half with it.
Abandon(c) ==
  /\ wait[c] # NoMsg /\ reply[wait[c]] = "open"
  /\ reply' = [reply EXCEPT ![wait[c]] = "abandoned"]
  /\ wait' = [wait EXCEPT ![c] = NoMsg]
  /\ UNCHANGED <<addrVars, stateVars, queue, st, armed, actorVars>>

------------------------------------------------------------------------------
(* ActorContext::spawn_loop.                                                *)

\* on_start returns, the actor is counted and enters its loop.
OnStart(a) ==
  /\ pc[a] = "start"
  /\ count' = IF closing THEN count ELSE count + 1
  /\ pc' = [pc EXCEPT ![a] = "recv"]
  /\ UNCHANGED <<addrVars, closing, handlers, cancelled, msgVars, cur, manual, gen>>

Recv(a) ==
  /\ pc[a] = "recv" /\ queue # <<>>
  /\ cur' = [cur EXCEPT ![a] = Head(queue)]
  /\ queue' = Tail(queue)
  /\ st' = [st EXCEPT ![Head(queue)] = "handling"]
  /\ pc' = [pc EXCEPT ![a] = "handle"]
  /\ UNCHANGED <<addrVars, stateVars, armed, reply, wait, manual, gen>>

\* recv fails: the channel is closed and empty.
ClosedUnread == ~SenderAlive
EmptyNow == queue = <<>>
Drained == queue = <<>> /\ ~SenderAlive

RecvFails(a) ==
  /\ pc[a] = "recv" /\ Drained
  /\ pc' = [pc EXCEPT ![a] = "exit"]
  /\ UNCHANGED <<addrVars, stateVars, msgVars, cur, manual, gen>>

Back(a, to) == /\ pc' = [pc EXCEPT ![a] = to]
               /\ cur' = [cur EXCEPT ![a] = NoMsg]

\* handle_instant_msg: the handler returns and its result goes to the oneshot,
\* if there is one and its other half is still there.
Handled(a) ==
  LET m == cur[a] IN
  /\ pc[a] = "handle" /\ Runnable(m)
  /\ st' = [st EXCEPT ![m] = "done"]
  /\ reply' = IF reply[m] = "open" THEN [reply EXCEPT ![m] = "value"] ELSE reply
  /\ Back(a, "recv")
  /\ UNCHANGED <<addrVars, stateVars, queue, armed, wait, manual, gen>>

\* The handler panics: the runtime drops the task, its context, the receiver
\* in it and the oneshot.  dec_active and on_stop do not run.
HandlerPanics(a) ==
  LET m == cur[a] IN
  /\ pc[a] = "handle" /\ Runnable(m) /\ m \in Panicky
  /\ Settle(Discarded(SenderAlive, Receivers \ {a}),
            [st EXCEPT ![m] = "crashed"],
            [reply EXCEPT ![m] = IF @ = "open" THEN "canceled" ELSE @])
  /\ Back(a, "panicked")
  /\ UNCHANGED <<addrVars, stateVars, armed, wait, manual, gen>>

\* handle_msg, ManualShutDown: leave the loop only if somebody still waits.
AnyClose(m) == m \in Closes
CloseHeard(m) == reply[m] = "open"

HandleClose(a) ==
  LET m == cur[a] IN
  /\ pc[a] = "handle" /\ m \in Closes
  /\ st' = [st EXCEPT ![m] = "done"]
  /\ reply' = IF reply[m] = "open" THEN [reply EXCEPT ![m] = "value"] ELSE reply
  /\ \/ CloseHeard(m) /\ Back(a, "exit") /\ manual' = [manual EXCEPT ![a] = TRUE]
     \/ ~CloseHeard(m) /\ Back(a, "recv") /\ UNCHANGED manual
  /\ UNCHANGED <<addrVars, stateVars, queue, armed, wait, gen>>

\* handle_delayed_msg: upgrade the weak sender, spawn the delay task with the
\* strong one, push its cancel handle.  Without a sender the message is lost.
HandleDelayed(a) ==
  LET m == cur[a] IN
  /\ pc[a] = "handle" /\ m \in Delays /\ ~armed[m]
  /\ \/ /\ SenderAlive
        /\ st' = [st EXCEPT ![m] = "sleeping"]
        /\ armed' = [armed EXCEPT ![m] = TRUE]
        /\ handlers' = IF closing THEN handlers ELSE handlers \cup {m}
     \/ /\ ~SenderAlive
        /\ st' = [st EXCEPT ![m] = "lost"]
        /\ UNCHANGED <<armed, handlers>>
  /\ Back(a, "recv")
  /\ UNCHANGED <<addrVars, count, closing, cancelled, queue, reply, wait, manual, gen>>

\* The delay is over, or its handle was cancelled: the finisher is polled first.
ElapsedDrops(m) == m \notin cancelled /\ ~HandleDelayOnShutdown
CancelDrops(m) == m \in cancelled /\ ~HandleDelayOnShutdown

DelayEnds(m) ==
  LET dropped == CancelDrops(m)
      senders == TxHolders # {} \/ Tasks \ {m} # {}
  IN
  /\ st[m] = "sleeping"
  /\ Settle(IF dropped THEN Discarded(senders, Receivers) ELSE {},
            [st EXCEPT ![m] = IF dropped THEN "lost" ELSE "sending"], reply)
  /\ UNCHANGED <<addrVars, stateVars, armed, wait, actorVars>>

\* The end of spawn_loop: dec_active, then restart or on_stop.
DecActive(a) == IF closing THEN count ELSE count - 1

Restarts(a) == ~closing /\ RestartOnErr /\ ~manual[a]

LoopEnds(a) ==
  /\ pc[a] = "exit"
  /\ count' = DecActive(a)
  /\ pc' = [pc EXCEPT ![a] = IF Restarts(a) THEN "start" ELSE "stop"]
  /\ gen' = [gen EXCEPT ![a] = IF Restarts(a) /\ @ < MaxGeneration THEN @ + 1 ELSE @]
  /\ UNCHANGED <<addrVars, closing, handlers, cancelled, msgVars, cur, manual>>

\* on_stop returns; the context and its receiver are dropped.
OnStop(a) ==
  /\ pc[a] = "stop"
  /\ pc' = [pc EXCEPT ![a] = "gone"]
  /\ Settle(Discarded(SenderAlive, Receivers \ {a}), st, reply)
  /\ UNCHANGED <<addrVars, stateVars, armed, wait, cur, manual, gen>>

------------------------------------------------------------------------------
ClientStep(c) ==
  \/ \E d \in Client : Clone(c, d)
  \/ Downgrade(c) \/ UpgradeTx(c) \/ UpgradeGroup(c) \/ Drop(c) \/ Release(c)
  \/ Send(c) \/ CloseOne(c)
  \/ \E m \in Delays : SendLater(c, m)
  \/ \E m \in DoSends : DoSend(c, m)
  \/ GetReply(c) \/ Abandon(c)

ActorStep(a) ==
  \/ OnStart(a) \/ Recv(a) \/ RecvFails(a)
  \/ Handled(a) \/ HandlerPanics(a) \/ HandleClose(a) \/ HandleDelayed(a)
  \/ LoopEnds(a) \/ OnStop(a)

TaskStep(m) == TaskSends(m) \/ DelayEnds(m)

Next ==
  \/ \E c \in Client : ClientStep(c)
  \/ \E a \in Actor : ActorStep(a)
  \/ \E m \in Msg : TaskStep(m)

Spec == Init /\ [][Next]_vars

\* The runtime polls every spawned task that can go on and fires every timer;
\* handlers, on_start and on_stop return.  What is synchronous code on a
\* client's thread completes.  Clients are free never to send, await or drop.
Fairness ==
  /\ \A a \in Actor : WF_vars(ActorStep(a))
  /\ \A m \in Msg : WF_vars(TaskStep(m))
  /\ \A c \in Client : WF_vars(UpgradeGroup(c) \/ Release(c))

FairSpec == Spec /\ Fairness

------------------------------------------------------------------------------
(* Safety.                                                                  *)

\* The actors steal work from one channel: a message is in the channel once, or
\* with exactly one actor, or with its own task, never in two places.
OnePlace ==
  /\ IsInjective(queue)
  /\ \A m \in Msg : st[m] = "queued" <=> m \in Range(queue)
  /\ \A a \in Actor :
       /\ pc[a] = "handle" <=> cur[a] # NoMsg
       /\ cur[a] # NoMsg => st[cur[a]] = "handling"
  /\ \A m \in Msg : st[m] = "handling" => \E a \in Actor : cur[a] = m
  /\ \A a, b \in Actor : (cur[a] = cur[b] /\ cur[a] # NoMsg) => a = b

\* No accepted message disappears while an actor could still read it: what is
\* lost was refused or discarded because no receiver was left, or is a delayed
\* message that an actor took when no sender was left to arm it with.
NoSilentLoss ==
  \A m \in Msg :
    st[m] = "lost" => \/ Receivers = {}
                      \/ (m \in Delays /\ ~SenderAlive)

\* An actor that nobody closed leaves its loop only when nothing is left to
\* handle and nothing can ever arrive; so a restarted actor never has work.
LeavesWhenDrained ==
  \A a \in Actor :
    (pc[a] \in {"exit", "stop", "gone"} /\ ~manual[a]) \/ gen[a] > 0
    => ~SenderAlive /\ queue = <<>>

\* Every close_one that was answered stopped exactly one actor, every actor
\* stopped by hand answered one, and it never goes back to its loop.
CloseStopsOne ==
  /\ Cardinality({a \in Actor : manual[a]})
       = Cardinality({m \in Closes : reply[m] = "value"})
  /\ \A a \in Actor : manual[a] => pc[a] \in {"exit", "stop", "gone"}

\* How a request ends agrees with what happened to its message: a value means
\* handled, Canceled a crashed handler (or, in the mpsc build, a receiver
\* dropped over the queue), Closed no receiver; and as long as none of these is
\* known, the message is alive, in the channel or with an actor, and exactly
\* one client awaits it.
ReplyMatchesFate ==
  /\ \A m \in Awaited :
       /\ reply[m] = "value" => st[m] = "done"
       /\ reply[m] = "canceled" => \/ st[m] = "crashed"
                                   \/ (DrainOnClose /\ Receivers = {})
       /\ reply[m] = "closed" => Receivers = {}
       /\ reply[m] = "open" => /\ st[m] \in {"queued", "handling"}
                               /\ \E c \in Client : wait[c] = m
  /\ \A c, d \in Client : (wait[c] = wait[d] /\ wait[c] # NoMsg) => c = d

\* With the tokio mpsc channel nobody awaits a reply that cannot come.
NoDeadWait == \A m \in Awaited : reply[m] = "open" => Receivers # {}

\* tests/actor.rs:68: no WeakAddress, delayed message or interval brings a
\* closed channel back; and once no Address is left, with broadcasting allowed,
\* no upgrade yields one again, even while a task keeps the channel open.
NoRevival ==
  [][/\ ~SenderAlive => ~SenderAlive'
     /\ (AllowBroadcast /\ GroupHolders = {}) => GroupHolders' = {}]_vars

\* The group implements the abstract mailbox.  A delayed message is pending
\* until its delay is over and an actor takes it the second time.
Fate(m) ==
  CASE st[m] = "unused" -> "new"
    [] st[m] \in {"queued", "sleeping", "sending"} -> "pending"
    [] st[m] = "handling" -> IF m \in Delays /\ ~armed[m] THEN "pending" ELSE "taken"
    [] OTHER -> st[m]

Promise == INSTANCE Mailbox WITH Workers <- Cardinality(Actor),
                                 fate <- [m \in Msg |-> Fate(m)],
                                 answer <- reply,
                                 deserted <- Receivers = {},
                                 sealed <- ~SenderAlive
ImplementsMailbox == Promise!Spec

------------------------------------------------------------------------------
(* Liveness, under FairSpec.                                                *)

AllEnded == \A a \in Actor : pc[a] \in Ended

\* When the last sender is gone every actor finishes the queue, runs on_stop
\* and ends.
StopsWhenReleased == (TxHolders = {} /\ Tasks = {}) ~> AllEnded

\* Every actor answered a close_one or had a handler that panicked.
AllKilled == \A a \in Actor : manual[a] \/ pc[a] = "panicked"

\* A caller that keeps waiting gets its answer unless the last actor is killed:
\* no close_one or panic of another actor, and no drop of addresses, strands it.
AnsweredUnlessKilled ==
  \A m \in Awaited : reply[m] = "open" ~> (reply[m] # "open" \/ AllKilled)

\* As long as an Address is kept, a delayed message is handled when its delay
\* is over, unless the last actor is killed first: the end of the actor that
\* armed it, by a close or a panic, does not take it along.  Nothing is said of
\* the time without an Address (PendingLostWithAddress, below).
DelayedHandled ==
  \A m \in Delays :
    armed[m] ~> (st[m] \in {"done", "crashed"} \/ AllKilled \/ TxHolders = {})

------------------------------------------------------------------------------
(* What comments and docs say of the program; see the findings.             *)

\* address.rs:420: `expect("Failed to upgrade WeakGroupSender")`: an upgrade
\* that found the channel's sender finds the group as well.
GroupUpgrades == \A c \in Client : holder[c] # "panicked"

\* address.rs:75: current_active is "the number of currently active actors":
\* never more than there are actors.
ActiveActorsExist == count <= Cardinality(Receivers)

\* address.rs:153 and :348: "If `Address` is dropped we lose all pending
\* messages that have not met the delay deadline": a message whose delay began
\* while an Address was alive, and is not over when none is left, is never
\* handled.
PendingLostWithAddress ==
  \A m \in Delays :
    [](st[m] = "sleeping" /\ Live # {}
       => [](st[m] = "sleeping" /\ TxHolders = {} => [](st[m] # "done")))
=============================================================================
