------------------------------ MODULE Broadcast -------------------------------
(***************************************************************************)
(* Address::broadcast: every actor of the group has, besides the channel   *)
(* they share, a bounded channel of its own, which its loop reads through  *)
(* a `select` of the two.  A broadcast sends one copy to each of these,    *)
(* each with a oneshot for its answer, all concurrently within the         *)
(* caller's task, and collects one result per copy.  The timeout covers    *)
(* the send, that waits while the channel is full, but not the answer.     *)
(*                                                                         *)
(* A caller borrows its Address, so the group outlives every call: the     *)
(* channels never close from the sending side.  Of the shared channel only *)
(* the close_one requests matter here.                                     *)
(*                                                                         *)
(* Definitions named for a mistake (HasRoomOneMore, NeverExpires, ...) are   *)
(* not part of the specification.                                          *)
(***************************************************************************)
EXTENDS Integers, Sequences, Functions

CONSTANTS
  N,               \* Config.num, the number of actors
  Call,            \* broadcast calls, of any number of clients
  NoCall,
  Panicky,         \* calls whose message may make a handler panic
  Impatient,       \* calls whose future may be dropped by the caller
  Slow,            \* actors whose on_start and handler need not return
  AllowBroadcast,  \* Config.allow_broadcast
  OnArbiters,      \* started by start_with_arbiters, not by start
  Mpsc,            \* feature actix-runtime-mpsc: "bounded" channels are not,
                   \* and a receiver that goes discards what is queued
  MaxCloses        \* bound: close_one requests sent to the group

\* In the order of the group's vector.
Actor == 1 .. N

ASSUME GroupAssumption ==
  /\ N \in Nat \ {0} /\ Slow \subseteq Actor
  /\ NoCall \notin Call /\ Panicky \subseteq Call /\ Impatient \subseteq Call
  /\ {AllowBroadcast, OnArbiters, Mpsc} \subseteq BOOLEAN
  /\ Mpsc => N = 1
  /\ MaxCloses \in Nat

VARIABLES
  call,    \* per call: how far it got
  part,    \* per call and actor: the copy's future, or its result
  dead,    \* per call: actors already gone when it was made (history)
  runs,    \* per call and actor: times the handler has returned (history)
  queue,   \* per actor: its own channel
  pc, cur, \* per actor: control state and message being handled
  closes   \* close_one requests made so far

callVars  == <<call, part, dead>>
actorVars == <<pc, cur>>
vars == <<callVars, runs, queue, actorVars, closes>>

\* The actors broadcast knows a sender of.  With one actor,
\* start_with_arbiters creates no channel although it is allowed to.
Wired ==
  IF AllowBroadcast /\ ~(OnArbiters /\ N = 1) THEN Actor ELSE {}

\* bounded(num)
Capacity == N
HasRoomOneMore(a) == Mpsc \/ Len(queue[a]) <= Capacity
HasRoom(a) == Mpsc \/ Len(queue[a]) < Capacity

Results == {"value", "Closed", "Timeout", "Canceled"}
Pending == {"sending", "full", "waiting"}

TypeOK ==
  /\ call \in [Call -> {"new", "running", "refused", "dropped"}]
  /\ part \in [Call -> [Actor -> {"none", "dropped"} \cup Pending \cup Results]]
  /\ dead \in [Call -> SUBSET Actor]
  /\ runs \in [Call -> [Actor -> Nat]]
  /\ queue \in [Actor -> Seq(Call)]
  /\ \A a \in Actor : Mpsc \/ Len(queue[a]) <= Capacity
  /\ pc \in [Actor -> {"start", "recv", "handle", "stop", "gone"}]
  /\ cur \in [Actor -> Call \cup {NoCall}]
  /\ closes \in 0 .. MaxCloses

\* The Address is handed out while the actors may still be building.
Init ==
  /\ call = [c \in Call |-> "new"]
  /\ part = [c \in Call |-> [a \in Actor |-> "none"]]
  /\ dead = [c \in Call |-> {}]
  /\ runs = [c \in Call |-> [a \in Actor |-> 0]]
  /\ queue = [a \in Actor |-> <<>>]
  /\ pc = [a \in Actor |-> "start"]
  /\ cur = [a \in Actor |-> NoCall]
  /\ closes = 0

------------------------------------------------------------------------------
(* The caller.                                                              *)

\* Err(Broadcast) if not allowed; else a future for every sender of the group,
\* also of actors that are gone.
Start(c) ==
  /\ call[c] = "new"
  /\ call' = [call EXCEPT ![c] = IF AllowBroadcast THEN "running" ELSE "refused"]
  /\ part' = [part EXCEPT ![c] = [a \in Actor |->
                IF a \in Wired THEN "sending" ELSE "none"]]
  /\ dead' = [dead EXCEPT ![c] = {a \in Actor : pc[a] = "gone"}]
  /\ UNCHANGED <<runs, queue, actorVars, closes>>

Becomes(c, a, v) == part' = [part EXCEPT ![c][a] = v]

\* A poll of the send: accepted, refused because no receiver is left, or to be
\* polled again when there is room.  FuturesUnordered polls new futures in the
\* order they were pushed.
Enters(c, a) == pc[a] # "gone" /\ HasRoom(a) /\ queue' = [queue EXCEPT ![a] = Append(@, c)]

PollSend(c, a) ==
  /\ part[c][a] \in {"sending", "full"}
  /\ \A b \in 1 .. a - 1 : part[c][b] # "sending"
  /\ \/ Enters(c, a) /\ Becomes(c, a, "waiting")
     \/ pc[a] = "gone" /\ Becomes(c, a, "Closed") /\ UNCHANGED queue
     \/ /\ pc[a] # "gone" /\ ~HasRoom(a) /\ part[c][a] = "sending"
        /\ Becomes(c, a, "full")
        /\ UNCHANGED queue
  /\ UNCHANGED <<call, dead, runs, actorVars, closes>>

\* The timeout polls the send before its timer, so it never fires on a send
\* that has not found the channel full.
NeverExpires(c, a) == FALSE
ExpiresFirst(c, a) == part[c][a] \in {"sending", "full"}
ExpiresLate(c, a) == part[c][a] \in {"full", "waiting"}
Expires(c, a) == part[c][a] = "full"

TimesOut(c, a) ==
  /\ Expires(c, a)
  /\ Becomes(c, a, "Timeout")
  /\ UNCHANGED <<call, dead, runs, queue, actorVars, closes>>

\* collect() ends with the last future.
Done(c) == call[c] = "running" /\ \A a \in Wired : part[c][a] \in Results

\* The caller drops the future: copies that were accepted stay in the channels.
DropCall(c) ==
  /\ call[c] = "running" /\ c \in Impatient /\ ~Done(c)
  /\ call' = [call EXCEPT ![c] = "dropped"]
  /\ part' = [part EXCEPT ![c] = [a \in Actor |->
                IF @[a] \in Pending THEN "dropped" ELSE @[a]]]
  /\ UNCHANGED <<dead, runs, queue, actorVars, closes>>

------------------------------------------------------------------------------
(* The actors.                                                              *)

\* A oneshot resolves if its receiver is still there.
Resolve(cs, a, v) ==
  part' = [c \in Call |-> IF c \in cs /\ part[c][a] = "waiting"
                          THEN [part[c] EXCEPT ![a] = v] ELSE part[c]]

OnStart(a) ==
  /\ pc[a] = "start"
  /\ pc' = [pc EXCEPT ![a] = "recv"]
  /\ UNCHANGED <<callVars, runs, queue, cur, closes>>

Recv(a) ==
  /\ pc[a] = "recv" /\ queue[a] # <<>>
  /\ pc' = [pc EXCEPT ![a] = "handle"]
  /\ cur' = [cur EXCEPT ![a] = Head(queue[a])]
  /\ queue' = [queue EXCEPT ![a] = Tail(@)]
  /\ UNCHANGED <<callVars, runs, closes>>

AnsweredNever(a) == UNCHANGED part
Answered(a) == Resolve({cur[a]}, a, "value")

Handled(a) ==
  /\ pc[a] = "handle"
  /\ Answered(a)
  /\ runs' = [runs EXCEPT ![cur[a]][a] = @ + 1]
  /\ pc' = [pc EXCEPT ![a] = "recv"]
  /\ cur' = [cur EXCEPT ![a] = NoCall]
  /\ UNCHANGED <<call, dead, queue, closes>>

\* The context and its receiver are dropped, with the message in hand.  What is
\* queued goes with the receiver (mpsc) or stays for as long as the group's
\* sender does: for ever, as far as a caller that borrows it can tell.
Discarded(a) == IF Mpsc THEN Range(queue[a]) ELSE {}

ReceiverDrops(a) ==
  /\ pc' = [pc EXCEPT ![a] = "gone"]
  /\ cur' = [cur EXCEPT ![a] = NoCall]
  /\ Resolve(Discarded(a) \cup {cur[a]}, a, "Canceled")
  /\ queue' = [queue EXCEPT ![a] = IF Mpsc THEN <<>> ELSE @]
  /\ UNCHANGED <<call, dead, runs, closes>>

\* build() or on_start panics, or the handler does.
Panics(a) ==
  /\ pc[a] = "start" \/ (pc[a] = "handle" /\ cur[a] \in Panicky)
  /\ ReceiverDrops(a)

\* The actor takes a close_one from the shared channel.
TakeClose(a) ==
  /\ pc[a] = "recv" /\ closes < MaxCloses
  /\ closes' = closes + 1
  /\ pc' = [pc EXCEPT ![a] = "stop"]
  /\ UNCHANGED <<callVars, runs, queue, cur>>

\* on_stop returns; until then the channel still accepts.
OnStop(a) == pc[a] = "stop" /\ ReceiverDrops(a)

CallerStep(c) ==
  \/ Start(c) \/ DropCall(c)
  \/ \E a \in Actor : PollSend(c, a) \/ TimesOut(c, a)
ActorStep(a) ==
  OnStart(a) \/ Recv(a) \/ Handled(a) \/ Panics(a) \/ TakeClose(a) \/ OnStop(a)
Next == (\E c \in Call : CallerStep(c)) \/ (\E a \in Actor : ActorStep(a))

Spec == Init /\ [][Next]_vars

\* The runtime polls callers and actors that have something to do, timers fire,
\* and what an actor runs returns, except in slow actors.  A behaviour has
\* finitely many steps (no call is made twice), so one condition for all of them
\* says as much as one for each.
Progress ==
  \/ \E c \in Call, a \in Actor : PollSend(c, a) \/ TimesOut(c, a)
  \/ \E a \in Actor : Recv(a) \/ OnStop(a)
  \/ \E a \in Actor \ Slow : OnStart(a) \/ Handled(a)
FairSpec == Spec /\ WF_vars(Progress)

------------------------------------------------------------------------------

Queued(c, a) == c \in Range(queue[a])
Held(c, a) == Queued(c, a) \/ cur[a] = c

\* No call is twice in a channel.
OneCopy == \A a \in Actor : IsInjective(queue[a])

\* Each future against its copy.
Fate == \A c \in Call, a \in Actor :
  /\ part[c][a] \in {"none", "sending", "full", "Closed", "Timeout"} =>
       ~Held(c, a) /\ runs[c][a] = 0
  /\ part[c][a] = "value" => runs[c][a] = 1
  /\ part[c][a] = "waiting" => Held(c, a)
  /\ part[c][a] = "Canceled" => ~Held(c, a) /\ runs[c][a] = 0 /\ pc[a] = "gone"
  /\ Held(c, a) => runs[c][a] = 0
  /\ ~(Queued(c, a) /\ cur[a] = c)
  /\ runs[c][a] <= 1

\* A result tells what became of the copy, so a caller may repeat exactly the
\* copies that failed with Closed or Timeout: those never reach a handler; a
\* value means one complete run; a copy whose answer is awaited is really there.
\* Dropped by its caller or not, a copy is in one place and handled at most once.
ResultMatchesFate == OneCopy /\ Fate

\* The group keeps the senders of actors that are gone (sender.rs: "for now
\* there is no way to remove closed actor instance"): a later broadcast has one
\* result per actor ever wired, reports Closed, never Timeout or Canceled, for
\* those that were gone before it was made, and Closed only for actors gone.
GoneReportedClosed == \A c \in Call : Done(c) => \A a \in Wired :
  /\ part[c][a] \in Results
  /\ a \in dead[c] => part[c][a] = "Closed"
  /\ part[c][a] = "Closed" => pc[a] = "gone"

\* Every copy's future ends, unless its answer is due from an actor that does
\* not return or, in the builds where messages outlive the receiver, the copy is
\* left with an actor that is gone: the timeout does not cover that wait.  A send
\* never hangs, whatever its actor and the others do.
Hostage(c, a) ==
  part[c][a] = "waiting" /\ (a \in Slow \/ (pc[a] = "gone" /\ ~Mpsc))
BroadcastEnds == \A c \in Call : call[c] = "running" ~>
  (call[c] = "dropped" \/ \A a \in Wired : part[c][a] \in Results \/ Hostage(c, a))
=============================================================================
