------------------------------ MODULE Subscribe -------------------------------
(***************************************************************************)
(* Address::subscribe_with and send_subscribe, subscribe.rs: one group of  *)
(* actors keeps, shared by the clones of its Address, a list of            *)
(* subscribers behind an asynchronous first-come-first-served lock.  A     *)
(* subscriber is a weak sender of another group's channel and the one      *)
(* message type it takes.  send_subscribe holds the lock from before its   *)
(* first send to after its last; the channels are unbounded, so a send is  *)
(* complete at its first poll and its timeout never fires.                 *)
(*                                                                         *)
(* Definitions named for a mistake (AnyWaiter, PushReplaces, ...) are not  *)
(* part of the specification.                                              *)
(***************************************************************************)
EXTENDS Naturals, FiniteSets, Sequences, Functions

CONSTANTS
  Group,      \* groups whose Addresses are subscribed
  Mortal,     \* those that may lose their Addresses or their actors
  Sub, To,    \* calls of subscribe_with, and the group each subscribes
  Post,       \* calls of send_subscribe
  Type, TypeOf,  \* message types; of a subscriber and of a message
  Impatient,  \* calls whose future may be dropped by the caller
  Detached    \* calls that may be made on an Address without a list

Op == Sub \cup Post

ASSUME OpAssumption ==
  /\ Sub \cap Post = {} /\ Impatient \cup Detached \subseteq Op
  /\ Mortal \subseteq Group
  /\ To \in [Sub -> Group] /\ TypeOf \in [Op -> Type]

VARIABLES
  op,      \* per call: how far it got
  lock,    \* the calls that hold (the first) and await the lock
  list,    \* the subscribers
  res,     \* per post: what became of the first so many list entries
  holds,   \* per post: a sender was upgraded for the next entry
  before,  \* per post: subscriptions complete when it was made (history)
  addr,    \* per group: some Address of it is alive
  actors,  \* per group: its actors read, were closed, or left a closed channel
  inbox,   \* per group: posts its channel accepted, in order (history)
  handled  \* per group: how many of these were handled

callVars  == <<op, lock, list, res, holds, before>>
groupVars == <<addr, actors, inbox, handled>>
vars == <<callVars, groupVars>>

TypeOK ==
  /\ op \in [Op -> {"new", "locking", "done", "refused", "dropped"}]
  /\ lock \in Seq(Op)
  /\ list \in Seq(Sub)
  /\ res \in [Post -> Seq({"sent", "Closed", "mismatch"})]
  /\ holds \in [Post -> BOOLEAN]
  /\ before \in [Post -> SUBSET Sub]
  /\ addr \in [Group -> BOOLEAN]
  /\ actors \in [Group -> {"up", "closed", "left"}]
  /\ inbox \in [Group -> Seq(Post)]
  /\ handled \in [Group -> Nat] /\ \A g \in Group : handled[g] <= Len(inbox[g])

Init ==
  /\ op = [o \in Op |-> "new"]
  /\ lock = <<>>
  /\ list = <<>>
  /\ res = [p \in Post |-> <<>>]
  /\ holds = [p \in Post |-> FALSE]
  /\ before = [p \in Post |-> {}]
  /\ addr = [g \in Group |-> TRUE]
  /\ actors = [g \in Group |-> "up"]
  /\ inbox = [g \in Group |-> <<>>]
  /\ handled = [g \in Group |-> 0]

------------------------------------------------------------------------------
(* The callers.                                                             *)

\* The call queues for the lock.
Call(o) ==
  /\ op[o] = "new"
  /\ o \in Sub => addr[To[o]]
  /\ op' = [op EXCEPT ![o] = "locking"]
  /\ lock' = Append(lock, o)
  /\ before' = IF o \in Post
               THEN [before EXCEPT ![o] = {u \in Sub : op[u] = "done"}] ELSE before
  /\ UNCHANGED <<list, res, holds, groupVars>>

\* Err(Subscribe): not configured, or the Address came from a weak one, whose
\* upgrade does not restore the list.
Refused(o) ==
  /\ o \in Detached /\ op[o] = "new"
  /\ op' = [op EXCEPT ![o] = "refused"]
  /\ UNCHANGED <<lock, list, res, holds, before, groupVars>>

AnyWaiter(o) == op[o] = "locking"
HasLock(o) == op[o] = "locking" /\ Head(lock) = o

Place(o) == CHOOSE i \in DOMAIN lock : lock[i] = o
Without(o) == [i \in 1 .. Len(lock) - 1 |-> lock[IF i < Place(o) THEN i ELSE i + 1]]
Ends(o, how) == op' = [op EXCEPT ![o] = how] /\ lock' = Without(o)

PushReplaces(u) == list' = <<u>>
Push(u) == list' = Append(list, u)

Subscribes(u) ==
  /\ HasLock(u)
  /\ Push(u)
  /\ Ends(u, "done")
  /\ UNCHANGED <<res, holds, before, groupVars>>

\* The entry whose future is polled next, in the order of the list.
Entry(p) == list[Len(res[p]) + 1]
HasEntry(p) == HasLock(p) /\ Len(res[p]) < Len(list)
Result(p, r) == res' = [res EXCEPT ![p] = Append(@, r)]

\* unpack finds another type than the subscriber's: None.
Mismatch(p) ==
  /\ HasEntry(p) /\ TypeOf[Entry(p)] # TypeOf[p]
  /\ Result(p, "mismatch")
  /\ UNCHANGED <<op, lock, list, holds, before, groupVars>>

\* A strong sender exists: an Address, or one that another post has upgraded.
SenderAlive(g) == addr[g] \/ \E p \in Post : holds[p] /\ To[Entry(p)] = g

Upgrade(p) ==
  /\ HasEntry(p) /\ TypeOf[Entry(p)] = TypeOf[p] /\ ~holds[p]
  /\ IF SenderAlive(To[Entry(p)])
     THEN holds' = [holds EXCEPT ![p] = TRUE] /\ UNCHANGED res
     ELSE Result(p, "Closed") /\ UNCHANGED holds
  /\ UNCHANGED <<op, lock, list, before, groupVars>>

DeliverBlindly(p, g) ==
  /\ Result(p, "sent")
  /\ inbox' = IF actors[g] = "up" THEN [inbox EXCEPT ![g] = Append(@, p)] ELSE inbox
Deliver(p, g) ==
  \/ actors[g] = "up" /\ Result(p, "sent") /\ inbox' = [inbox EXCEPT ![g] = Append(@, p)]
  \/ actors[g] # "up" /\ Result(p, "Closed") /\ UNCHANGED inbox

Send(p) ==
  /\ HasEntry(p) /\ holds[p]
  /\ Deliver(p, To[Entry(p)])
  /\ holds' = [holds EXCEPT ![p] = FALSE]
  /\ UNCHANGED <<op, lock, list, before, addr, actors, handled>>

\* What the caller gets: filter_map leaves a None out, in whichever order the
\* futures are ready.
Returned(p) == Range(res[p]) \ {"mismatch"}

Collected(p) ==
  /\ HasLock(p) /\ Len(res[p]) = Len(list)
  /\ Ends(p, "done")
  /\ UNCHANGED <<list, res, holds, before, groupVars>>

\* Dropping the future leaves the lock, or the queue for it, behind; what was
\* sent stays sent.
KeepsGuard(o) == op' = [op EXCEPT ![o] = "dropped"] /\ UNCHANGED lock
Lets(o) == Ends(o, "dropped")

DropCall(o) ==
  /\ o \in Impatient /\ op[o] = "locking"
  /\ Lets(o)
  /\ holds' = IF o \in Post THEN [holds EXCEPT ![o] = FALSE] ELSE holds
  /\ UNCHANGED <<list, res, before, groupVars>>

------------------------------------------------------------------------------
(* The subscribed groups.                                                   *)

DropAddress(g) ==
  /\ g \in Mortal /\ addr[g]
  /\ addr' = [addr EXCEPT ![g] = FALSE]
  /\ UNCHANGED <<callVars, actors, inbox, handled>>

Handle(g) ==
  /\ actors[g] = "up" /\ handled[g] < Len(inbox[g])
  /\ handled' = [handled EXCEPT ![g] = @ + 1]
  /\ UNCHANGED <<callVars, addr, actors, inbox>>

\* The last actor is closed, or panics.
LastCloses(g) ==
  /\ g \in Mortal /\ actors[g] = "up"
  /\ actors' = [actors EXCEPT ![g] = "closed"]
  /\ UNCHANGED <<callVars, addr, inbox, handled>>

\* The channel is closed and drained.
ClosedUnread(g) == ~SenderAlive(g)
Drained(g) == ~SenderAlive(g) /\ handled[g] = Len(inbox[g])

Leave(g) ==
  /\ actors[g] = "up" /\ Drained(g)
  /\ actors' = [actors EXCEPT ![g] = "left"]
  /\ UNCHANGED <<callVars, addr, inbox, handled>>

PostStep(p) == Mismatch(p) \/ Upgrade(p) \/ Send(p) \/ Collected(p)
Holder == (\E u \in Sub : Subscribes(u)) \/ (\E p \in Post : PostStep(p))
Reader == \E g \in Group : Handle(g) \/ Leave(g)
Next ==
  \/ Holder \/ Reader
  \/ \E o \in Op : Call(o) \/ Refused(o) \/ DropCall(o)
  \/ \E g \in Group : DropAddress(g) \/ LastCloses(g)

Spec == Init /\ [][Next]_vars

\* The runtime polls whoever holds the lock, and the readers; a behaviour has
\* finitely many steps, so this leaves nothing behind.
FairSpec == Spec /\ WF_vars(Holder) /\ WF_vars(Reader)

------------------------------------------------------------------------------

Times(p, g) == Cardinality({i \in DOMAIN inbox[g] : inbox[g][i] = p})
Entries(p, g, r) == {i \in DOMAIN res[p] : res[p][i] = r /\ To[list[i]] = g}

\* Each Ok stands for one copy in the channel of the entry's group, and nothing
\* else put one there; a Closed entry's group was really without Addresses or
\* actors; and an entry of the post's own type is never left out of the result.
\* Twice subscribed is twice served.
ResultsAccount == \A p \in Post, g \in Group :
  /\ Times(p, g) = Cardinality(Entries(p, g, "sent"))
  /\ Entries(p, g, "Closed") # {} => ~addr[g] \/ actors[g] # "up"
  /\ \A i \in DOMAIN res[p] : TypeOf[list[i]] = TypeOf[p] => res[p][i] # "mismatch"

\* A subscription to the post's type that was complete before send_subscribe was
\* called is served: the finished call returns Ok or an error for it.
SubscribedIsServed == \A p \in Post : op[p] = "done" =>
  \A u \in before[p] : TypeOf[u] = TypeOf[p] =>
    \E i \in DOMAIN res[p] : list[i] = u /\ res[p][i] \in Returned(p)

\* The lock is held during all sends of a call, so any two groups receive the
\* messages of two calls in the same order.
SameOrder == \A g, h \in Group : \A i, j \in DOMAIN inbox[g], k, l \in DOMAIN inbox[h] :
  inbox[g][i] = inbox[h][k] /\ inbox[g][j] = inbox[h][l] /\ inbox[g][i] # inbox[g][j]
    => (i < j <=> k < l)

\* Every call ends, also behind a call that was dropped while it held the lock;
\* and what was accepted is handled unless the group's last actor is closed or
\* panics, although the post itself may have held the channel's last sender.
CallsEnd == \A o \in Op : op[o] = "locking" ~> op[o] # "locking"
AcceptedIsHandled == \A g \in Group :
  []<>(handled[g] = Len(inbox[g]) \/ actors[g] = "closed")

------------------------------------------------------------------------------
(* What a doc says of the program; see the findings.                        *)

\* address.rs:258: "A typecast error would return if the message type can not be
\* handled by certain subscriber actor."
TypeCastReturned == \A p \in Post : op[p] = "done" =>
  \A i \in DOMAIN res[p] : TypeOf[list[i]] # TypeOf[p] => "TypeCast" \in Returned(p)
=============================================================================
