------------------------------ MODULE Intervals -------------------------------
(***************************************************************************)
(* interval.rs, context.rs (handle_interval_msg), util/future_handle.rs:   *)
(* interval futures shared by the actors of one address.                   *)
(*                                                                         *)
(* run_interval sends Register.  The actor that takes it stores the future *)
(* in the shared map under a fresh key and spawns a tick task, which sends *)
(* Run(key) on every tick, through a weak sender upgraded for the moment.  *)
(* Whichever actor takes a Run executes the future while it holds the      *)
(* map's asynchronous lock.  cancel() raises the flag the tick task looks  *)
(* at before each poll and spawns a task that sends Remove(key).           *)
(* Definitions named for a mistake (TickPolledFirst, KeysReused, ...) are  *)
(* not part of the specification: each is an erroneous variant of the one  *)
(* that follows it, kept to see that a property notices.                   *)
(*                                                                         *)
(* All clients share one Address by reference.  shutdown is left out: no   *)
(* drop of an Address reaches it (DropNeverShutsDown, ActorCoreProofs.tla),*)
(* so only the owner of a FutureHandler cancels.                           *)
(***************************************************************************)
EXTENDS Integers, FiniteSets, Sequences

CONSTANTS
  Caller,     \* clients that call run_interval, once each
  Actor,
  Panicky,    \* callers whose interval future panics when it is run
  Keeper,     \* callers that drop their FutureHandler and never cancel
  NoOne,      \* no future stored under a key
  MaxCancels, \* bound: cancel() calls per handle (and its clones)
  MaxBacklog  \* bound: Run messages of one interval in the channel

ASSUME CallerAssumption ==
  /\ IsFiniteSet(Caller) /\ NoOne \notin Caller
  /\ Panicky \cup Keeper \subseteq Caller
ASSUME BoundAssumption == MaxCancels \in Nat /\ MaxBacklog \in Nat \ {0}

Keys == 0 .. Cardinality(Caller) - 1
NoKey == -1

\* The three IntervalMessages, and a place for an actor that handles none.
Register(c) == [kind |-> "register", by |-> c]
Run(k) == [kind |-> "run", key |-> k]
Remove(k) == [kind |-> "remove", key |-> k]
NoMsg == [kind |-> "none"]
Message == {Register(c) : c \in Caller} \cup {Run(k) : k \in Keys}
           \cup {Remove(k) : k \in Keys}

VARIABLES
  alive,    \* the Address is not dropped yet
  call,     \* per caller: its run_interval, and its FutureHandler
  cancels,  \* per caller: cancel() calls so far
  flag,     \* per caller: the flag shared by FutureHandler and FinisherFuture
  removing, \* per caller: spawned tasks about to send Remove
  task,     \* per caller: its tick task
  key,      \* per caller: its index in the map
  next,     \* IntervalFutureSet.next_key
  stored,   \* IntervalFutureSet.futures
  lockq,    \* its lock: the actor that holds it, then those that wait, in order
  queue,    \* the main channel
  pc, cur   \* per actor: control state, and the message it handles

callVars == <<call, cancels, flag, removing>>
mapVars == <<key, next, stored>>
vars == <<alive, callVars, task, mapVars, lockq, queue, pc, cur>>

TypeOK ==
  /\ alive \in BOOLEAN
  /\ call \in [Caller -> {"idle", "waiting", "abandoned", "refused", "handle",
                          "cancelling"}]
  /\ cancels \in [Caller -> 0 .. MaxCancels]
  /\ flag \in [Caller -> BOOLEAN]
  /\ removing \in [Caller -> 0 .. MaxCancels]
  /\ task \in [Caller -> {"none", "sleeping", "armed", "sending", "ended"}]
  /\ key \in [Caller -> Keys \cup {NoKey}]
  /\ next \in 0 .. Cardinality(Caller)
  /\ stored \in [Keys -> Caller \cup {NoOne}]
  /\ lockq \in Seq(Actor)
  /\ queue \in Seq(Message)
  /\ pc \in [Actor -> {"recv", "lock", "running", "gone", "panicked"}]
  /\ cur \in [Actor -> Message \cup {NoMsg}]

Init ==
  /\ alive = TRUE
  /\ call = [c \in Caller |-> "idle"]
  /\ cancels = [c \in Caller |-> 0]
  /\ flag = [c \in Caller |-> FALSE]
  /\ removing = [c \in Caller |-> 0]
  /\ task = [c \in Caller |-> "none"]
  /\ key = [c \in Caller |-> NoKey]
  /\ next = 0
  /\ stored = [k \in Keys |-> NoOne]
  /\ lockq = <<>>
  /\ queue = <<>>
  /\ pc = [a \in Actor |-> "recv"]
  /\ cur = [a \in Actor |-> NoMsg]

TickTasksHold == {c \in Caller : task[c] \in {"sleeping", "armed", "sending"}}
TicksHolding == {c \in Caller : task[c] = "sending"}
SenderAlive ==
  alive \/ TicksHolding # {} \/ \E c \in Caller : removing[c] > 0
Receivers == {a \in Actor : pc[a] \notin {"gone", "panicked"}}

Stored(c) == \E k \in Keys : stored[k] = c
Backlog(k) == Cardinality({i \in DOMAIN queue : queue[i] = Run(k)})

\* A send with every receiver gone fails, and the tasks ignore that.
Post(m) == queue' = IF Receivers = {} THEN queue ELSE Append(queue, m)

------------------------------------------------------------------------------
(* The clients: run_interval, the FutureHandler, the Address.               *)

RunInterval(c) ==
  /\ alive /\ call[c] = "idle"
  /\ Post(Register(c))
  /\ call' = [call EXCEPT ![c] = IF Receivers = {} THEN "refused" ELSE "waiting"]
  /\ UNCHANGED <<alive, cancels, flag, removing, task, mapVars, lockq, pc, cur>>

\* The future of run_interval is dropped: its handle will be, too.
Abandon(c) ==
  /\ call[c] = "waiting"
  /\ call' = [call EXCEPT ![c] = "abandoned"]
  /\ UNCHANGED <<alive, cancels, flag, removing, task, mapVars, lockq, queue, pc, cur>>

\* A pending run_interval borrows the Address.
DropAddress ==
  /\ alive /\ \A c \in Caller : call[c] # "waiting"
  /\ alive' = FALSE
  /\ UNCHANGED <<callVars, task, mapVars, lockq, queue, pc, cur>>

\* FutureHandler::cancel: raise the flag, then spawn the task for Remove.
Cancel(c) ==
  /\ call[c] = "handle" /\ c \notin Keeper /\ cancels[c] < MaxCancels
  /\ flag' = [flag EXCEPT ![c] = TRUE]
  /\ call' = [call EXCEPT ![c] = "cancelling"]
  /\ cancels' = [cancels EXCEPT ![c] = @ + 1]
  /\ UNCHANGED <<alive, removing, task, mapVars, lockq, queue, pc, cur>>

SpawnRemoveNothing(c) ==
  /\ call[c] = "cancelling"
  /\ call' = [call EXCEPT ![c] = "handle"]
  /\ UNCHANGED <<alive, cancels, flag, removing, task, mapVars, lockq, queue, pc, cur>>
SpawnRemove(c) ==
  /\ call[c] = "cancelling"
  /\ call' = [call EXCEPT ![c] = "handle"]
  /\ removing' = [removing EXCEPT ![c] = IF SenderAlive THEN @ + 1 ELSE @]
  /\ UNCHANGED <<alive, cancels, flag, task, mapVars, lockq, queue, pc, cur>>

SendRemove(c) ==
  /\ removing[c] > 0
  /\ removing' = [removing EXCEPT ![c] = @ - 1]
  /\ Post(Remove(key[c]))
  /\ UNCHANGED <<alive, call, cancels, flag, task, mapVars, lockq, pc, cur>>

------------------------------------------------------------------------------
(* The tick task: select polls the FinisherFuture, then the loop.           *)

\* The bound: a tick is due only when the channel has room for its Run, or no
\* longer takes any.
Room(c) == Receivers = {} \/ Backlog(key[c]) < MaxBacklog

TickPolledFirst(c) ==
  /\ task[c] = "sleeping"
  /\ \/ flag[c] /\ task' = [task EXCEPT ![c] = "ended"]
     \/ /\ Room(c)
        /\ task' = [task EXCEPT ![c] = "armed"]
  /\ UNCHANGED <<alive, callVars, mapVars, lockq, queue, pc, cur>>
PollFinisher(c) ==
  /\ task[c] = "sleeping"
  /\ \/ flag[c] /\ task' = [task EXCEPT ![c] = "ended"]
     \/ /\ ~flag[c] /\ Room(c)
        /\ task' = [task EXCEPT ![c] = "armed"]
  /\ UNCHANGED <<alive, callVars, mapVars, lockq, queue, pc, cur>>

\* The tick is due: upgrade the weak sender or leave the loop.
TickUpgrade(c) ==
  /\ task[c] = "armed"
  /\ task' = [task EXCEPT ![c] = IF SenderAlive THEN "sending" ELSE "ended"]
  /\ UNCHANGED <<alive, callVars, mapVars, lockq, queue, pc, cur>>

TickOnce(c) ==
  /\ task[c] = "sending"
  /\ Post(Run(key[c]))
  /\ task' = [task EXCEPT ![c] = "ended"]
  /\ UNCHANGED <<alive, callVars, mapVars, lockq, pc, cur>>
TickSend(c) ==
  /\ task[c] = "sending"
  /\ Post(Run(key[c]))
  /\ task' = [task EXCEPT ![c] = "sleeping"]
  /\ UNCHANGED <<alive, callVars, mapVars, lockq, pc, cur>>

------------------------------------------------------------------------------
(* The actors: handle_interval_msg, whose every case takes the map's lock.  *)

KeysReused == Cardinality({k \in Keys : stored[k] # NoOne})
NextKey == next

\* insert draws the key before it waits for the lock.
Recv(a) ==
  LET m == Head(queue) IN
  /\ pc[a] = "recv" /\ queue # <<>>
  /\ queue' = Tail(queue)
  /\ cur' = [cur EXCEPT ![a] = m]
  /\ pc' = [pc EXCEPT ![a] = "lock"]
  /\ lockq' = Append(lockq, a)
  /\ IF m.kind = "register"
       THEN key' = [key EXCEPT ![m.by] = NextKey] /\ next' = next + 1
       ELSE UNCHANGED <<key, next>>
  /\ UNCHANGED <<alive, callVars, task, stored>>

HasLock(a) == pc[a] = "lock" /\ Head(lockq) = a

\* The holder drops its guard: the lock goes to the next in line.
Unlock == lockq' = Tail(lockq)
Back(a, to) == /\ pc' = [pc EXCEPT ![a] = to]
               /\ cur' = [cur EXCEPT ![a] = NoMsg]

\* Register: store the future, spawn the tick task, hand the handle out.
HandleRegister(a) ==
  /\ HasLock(a) /\ cur[a].kind = "register"
  /\ LET c == cur[a].by IN
       /\ stored' = [stored EXCEPT ![key[c]] = c]
       /\ task' = [task EXCEPT ![c] = "sleeping"]
       /\ call' = [call EXCEPT ![c] = IF @ = "waiting" THEN "handle" ELSE @]
  /\ Unlock /\ Back(a, "recv")
  /\ UNCHANGED <<alive, cancels, flag, removing, key, next, queue>>

\* Run: the future runs under the lock, if it is still stored.
HandleRun(a) ==
  /\ HasLock(a) /\ cur[a].kind = "run"
  /\ IF stored[cur[a].key] # NoOne
       THEN pc' = [pc EXCEPT ![a] = "running"] /\ UNCHANGED <<lockq, cur>>
       ELSE Unlock /\ Back(a, "recv")
  /\ UNCHANGED <<alive, callVars, task, mapVars, queue>>

\* The future is over; if it panics the guard is released by the unwinding.
RunEnds(a) ==
  /\ pc[a] = "running"
  /\ Unlock
  /\ Back(a, IF stored[cur[a].key] \in Panicky THEN "panicked" ELSE "recv")
  /\ UNCHANGED <<alive, callVars, task, mapVars, queue>>

HandleRemove(a) ==
  /\ HasLock(a) /\ cur[a].kind = "remove"
  /\ stored' = [stored EXCEPT ![cur[a].key] = NoOne]
  /\ Unlock /\ Back(a, "recv")
  /\ UNCHANGED <<alive, callVars, task, key, next, queue>>

\* The channel is closed and empty.
Leave(a) ==
  /\ pc[a] = "recv" /\ queue = <<>> /\ ~SenderAlive
  /\ pc' = [pc EXCEPT ![a] = "gone"]
  /\ UNCHANGED <<alive, callVars, task, mapVars, lockq, queue, cur>>

------------------------------------------------------------------------------
CallerStep(c) == RunInterval(c) \/ Abandon(c) \/ Cancel(c) \/ SpawnRemove(c)
TickStep(c) == PollFinisher(c) \/ TickUpgrade(c) \/ TickSend(c)
ActorStep(a) ==
  \/ Recv(a) \/ HandleRegister(a) \/ HandleRun(a) \/ RunEnds(a)
  \/ HandleRemove(a) \/ Leave(a)

Next ==
  \/ DropAddress
  \/ \E c \in Caller : CallerStep(c) \/ TickStep(c) \/ SendRemove(c)
  \/ \E a \in Actor : ActorStep(a)

Spec == Init /\ [][Next]_vars

\* The runtime polls what can go on, timers fire, interval futures return, the
\* lock is handed over in order.  A client that called cancel() gets through
\* it; nobody has to call anything or to drop the Address.
FairSpec ==
  /\ Spec
  /\ \A c \in Caller : /\ WF_vars(TickStep(c)) /\ WF_vars(SendRemove(c))
                       /\ WF_vars(SpawnRemove(c))
  /\ \A a \in Actor : WF_vars(ActorStep(a))

------------------------------------------------------------------------------
(* Properties.                                                              *)

\* What an actor runs at the moment.
Runs(a, c) == pc[a] = "running" /\ stored[cur[a].key] = c

\* The futures are FnMut and shared by all actors: the asynchronous lock keeps
\* two of them from running at once, and the map from changing under the one
\* that runs.
OneRunner ==
  /\ \A a, b \in Actor : (pc[a] = "running" /\ pc[b] = "running") => a = b
  /\ \A a \in Actor : pc[a] = "running" => stored[cur[a].key] # NoOne

\* address.rs:367: an interval nobody cancelled stays registered; no other
\* registration overwrites it and no other cancel, even a repeated one, takes
\* its entry out.
UncancelledStays ==
  \A c \in Caller : (task[c] # "none" /\ ~flag[c]) => Stored(c)

\* cancel() is final: once the flag is up and the tick it may have overtaken is
\* through, no further Run is sent; and once the Remove was handled the future
\* never comes back, whatever is still in the channel.
Silenced(c) == flag[c] /\ task[c] \in {"sleeping", "ended"}
Removed(c) == task[c] # "none" /\ ~Stored(c)
CancelIsFinal ==
  [][\A c \in Caller :
       /\ Silenced(c) => Silenced(c)' /\ Backlog(key[c])' <= Backlog(key[c])
       /\ Removed(c) => Removed(c)']_vars

\* A tick task ends, and leaves its future in the map, only while the Remove
\* is under way or when nothing can be sent or read any more.
RemoveUnderWay(c) ==
  \/ call[c] = "cancelling" \/ removing[c] > 0
  \/ \E i \in DOMAIN queue : queue[i] = Remove(key[c])
  \/ \E a \in Actor : cur[a] = Remove(key[c])
NoLeak ==
  \A c \in Caller :
    (flag[c] \/ task[c] = "ended") /\ Stored(c)
    => RemoveUnderWay(c) \/ ~SenderAlive \/ Receivers = {}

\* A cancelled interval is removed while there is an actor to do it, and its
\* tick task ends in any case.
CancelTakesEffect ==
  \A c \in Caller :
    /\ flag[c] ~> (~Stored(c) \/ ~SenderAlive \/ Receivers = {})
    /\ flag[c] ~> task[c] = "ended"

\* A registered interval is run again and again until it is cancelled, the
\* Address is dropped or no actor is left.
KeepsRunning ==
  \A c \in Caller :
    (task[c] # "none") ~> \/ \E a \in Actor : Runs(a, c)
                          \/ flag[c] \/ ~alive \/ Receivers = {}

\* Registrations under way or in force that nobody has cancelled.
Uncancelled ==
  {c \in Caller : /\ call[c] \notin {"idle", "refused"}
                  /\ ~flag[c] /\ task[c] # "ended"}

\* address.rs:371: "the interval futures will be active until the address is
\* dropped": then the tick tasks and the actors end.  With more than one
\* uncancelled interval fairness does not give it: each tick task upgrades
\* its sender for a moment, and while another one holds it the channel is open.
EndsWithAddress ==
  (~alive /\ Cardinality(Uncancelled) <= 1)
    ~> /\ \A c \in Caller : task[c] \in {"none", "ended"}
       /\ Receivers = {}
=============================================================================
