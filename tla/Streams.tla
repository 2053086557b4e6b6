-------------------------------- MODULE Streams -------------------------------
(***************************************************************************)
(* stream.rs: ActorStream and ActorSkipStream turn a stream of messages    *)
(* into the stream of their answers.  An adapter has at most one message   *)
(* out: it polls its source only when the previous answer has come.  The   *)
(* actors that answer are declared with the macros of Dispatch and share   *)
(* one unbounded channel; every adapter owns a strong sender of it.        *)
(*                                                                         *)
(* Definitions named for a mistake (AsksTwice, DropsRefused, ...) are not  *)
(* part of the specification.                                              *)
(***************************************************************************)
EXTENDS Dispatch, FiniteSets

CONSTANTS
  Programs,    \* declarations of the actor
  Actor,
  Stream,
  MsgType,     \* per stream: the message type M of its items
  Skips,       \* streams made by send_skip_stream
  Items, None, \* per stream: what its source yields, None among it if it skips
  Panicky,     \* items whose handler panics
  NoMsg,
  MaxCloses    \* bound: close_one requests

\* A module holds messages and handlers, an impl block methods; builder.rs
\* starts at least one actor.
ASSUME StreamAssumption ==
  /\ \A p \in Programs :
       /\ Len(p.items) \in Nat /\ DOMAIN p.items = 1 .. Len(p.items)
       /\ \/ /\ p.macro = "actor_mod"
             /\ \A i \in DOMAIN p.items : p.items[i].kind # "method"
          \/ /\ p.macro = "handler_v2"
             /\ \A i \in DOMAIN p.items :
                  /\ p.items[i].kind \notin {"message", "handler"}
                  /\ p.items[i].kind = "method" => p.items[i].async \in BOOLEAN
  /\ Actor # {} /\ Skips \subseteq Stream /\ MaxCloses \in Nat
  /\ Mpsc => Cardinality(Actor) = 1
  /\ Items \in [Stream -> Seq(UNION {{Items[s][i] : i \in DOMAIN Items[s]} : s \in Stream})]
  /\ \A s \in Stream \ Skips : \A i \in DOMAIN Items[s] : Items[s][i] # None

VARIABLES
  prog,    \* the actor's declaration
  code,    \* what its macros made of it
  src,     \* per stream: what the source has not yielded yet
  st,      \* per stream: next, last (an answer is due), ended, dropped
  slot,    \* per stream: the oneshot of the message that is out
  out,     \* per stream: what the adapter yielded
  ran,     \* per stream: items whose handler was started (history)
  addr,    \* some Address is alive
  queue, pc, cur, closes

streamVars == <<src, st, slot, out>>
actorVars == <<pc, cur>>
vars == <<prog, code, streamVars, ran, addr, queue, actorVars, closes>>

Open == [oneshot |-> "open"]
Lost == [oneshot |-> "lost"]

TypeOK ==
  /\ prog \in Programs
  /\ st \in [Stream -> {"next", "last", "ended", "dropped"}]
  /\ \A s \in Stream : st[s] = "next" => slot[s] = NoMsg
  /\ pc \in [Actor -> {"start", "recv", "handle", "gone"}]
  /\ closes \in 0 .. MaxCloses
  /\ addr \in BOOLEAN

\* Any program that compiles and handles the types of the streams.
Usable(p) == /\ Expands(p) /\ Compiles(p)
             /\ \A s \in Stream : MsgType[s] \in Messages(p)

Init ==
  /\ prog \in {p \in Programs : Usable(p)}
  /\ code = Expansion(prog)
  /\ src = Items
  /\ st = [s \in Stream |-> "next"]
  /\ slot = [s \in Stream |-> NoMsg]
  /\ out = [s \in Stream |-> <<>>]
  /\ ran = [s \in Stream |-> <<>>]
  /\ addr = TRUE
  /\ queue = <<>>
  /\ pc = [a \in Actor |-> "start"]
  /\ cur = [a \in Actor |-> NoMsg]
  /\ closes = 0

Receivers == {a \in Actor : pc[a] # "gone"}
SenderAlive == addr \/ \E s \in Stream : st[s] # "dropped"

------------------------------------------------------------------------------
(* The adapters: one poll_next each, or the part of one between two items.  *)

AsksTwice(s) == st[s] \in {"next", "last"}
Asks(s) == st[s] = "next"

Yields(s, v) == out' = [out EXCEPT ![s] = Append(@, v)]

SourceEnds(s) ==
  /\ Asks(s) /\ src[s] = <<>>
  /\ st' = [st EXCEPT ![s] = "ended"]
  /\ UNCHANGED <<prog, code, src, slot, out, ran, addr, queue, actorVars, closes>>

SkipsNone(s) ==
  /\ Asks(s) /\ src[s] # <<>> /\ Head(src[s]) = None
  /\ src' = [src EXCEPT ![s] = Tail(@)]
  /\ UNCHANGED <<prog, code, st, slot, out, ran, addr, queue, actorVars, closes>>

\* try_send: with nobody to receive it the item is gone, and the error is its
\* answer.
DropsRefused(s) == UNCHANGED out
Refused(s) == Yields(s, Err("Closed"))

SendsItem(s) ==
  /\ Asks(s) /\ src[s] # <<>> /\ Head(src[s]) # None
  /\ src' = [src EXCEPT ![s] = Tail(@)]
  /\ \/ /\ Receivers # {}
        /\ queue' = Append(queue, [stream |-> s, msg |-> Into(code, MsgType[s], Head(src[s]))])
        /\ st' = [st EXCEPT ![s] = "last"]
        /\ slot' = [slot EXCEPT ![s] = Open]
        /\ UNCHANGED out
     \/ Receivers = {} /\ Refused(s) /\ UNCHANGED <<queue, st, slot>>
  /\ UNCHANGED <<prog, code, ran, addr, actorVars, closes>>

\* The answer, mapped back to the item's own result type, or Canceled.
Answer(s) == IF slot[s] = Lost THEN Err("Canceled") ELSE MapResult(code, MsgType[s], slot[s])

PollsLast(s) ==
  /\ st[s] = "last" /\ slot[s] # Open
  /\ Yields(s, Answer(s))
  /\ st' = [st EXCEPT ![s] = "next"]
  /\ slot' = [slot EXCEPT ![s] = NoMsg]
  /\ UNCHANGED <<prog, code, src, ran, addr, queue, actorVars, closes>>

\* Messages left in a channel without receivers go with its last sender.
QueueIf(alive) == IF Receivers = {} /\ ~alive THEN <<>> ELSE queue

DropStream(s) ==
  /\ st[s] # "dropped"
  /\ st' = [st EXCEPT ![s] = "dropped"]
  /\ slot' = [slot EXCEPT ![s] = NoMsg]
  /\ queue' = QueueIf(addr \/ \E o \in Stream \ {s} : st[o] # "dropped")
  /\ UNCHANGED <<prog, code, src, out, ran, addr, actorVars, closes>>

DropAddress ==
  /\ addr
  /\ addr' = FALSE
  /\ queue' = QueueIf(\E s \in Stream : st[s] # "dropped")
  /\ UNCHANGED <<prog, code, streamVars, ran, actorVars, closes>>

------------------------------------------------------------------------------
(* The actors.                                                              *)

OnStart(a) ==
  /\ pc[a] = "start"
  /\ pc' = [pc EXCEPT ![a] = "recv"]
  /\ UNCHANGED <<prog, code, streamVars, ran, addr, queue, cur, closes>>

Recv(a) ==
  /\ pc[a] = "recv" /\ queue # <<>>
  /\ pc' = [pc EXCEPT ![a] = "handle"]
  /\ cur' = [cur EXCEPT ![a] = Head(queue)]
  /\ queue' = Tail(queue)
  /\ ran' = [ran EXCEPT ![Head(queue).stream] = Append(@, Head(queue).msg.msg)]
  /\ UNCHANGED <<prog, code, streamVars, addr, closes>>

NeverReplies(streams, v) == UNCHANGED slot
Reply(streams, v) ==
  slot' = [s \in Stream |-> IF s \in streams /\ slot[s] = Open THEN v ELSE slot[s]]

\* The generated handle method on the message in hand.
Result(a) == Handle(code, cur[a].msg, cur[a].msg.msg \in Panicky)

Handled(a) ==
  /\ pc[a] = "handle" /\ Result(a).val # Panic
  /\ Reply({cur[a].stream}, Result(a))
  /\ pc' = [pc EXCEPT ![a] = "recv"]
  /\ cur' = [cur EXCEPT ![a] = NoMsg]
  /\ UNCHANGED <<prog, code, src, st, out, ran, addr, queue, closes>>

\* The context goes: with it the oneshot in hand, and with the last of them the
\* queue in the mpsc build, or if no sender is left.
Ends(a) ==
  LET last == Receivers = {a}
      dies == last /\ (Mpsc \/ ~SenderAlive)
      inHand == IF pc[a] = "handle" THEN {cur[a].stream} ELSE {}
      queued == IF dies THEN {queue[i].stream : i \in DOMAIN queue} ELSE {}
  IN /\ Reply(inHand \cup queued, Lost)
     /\ queue' = IF dies THEN <<>> ELSE queue
     /\ pc' = [pc EXCEPT ![a] = "gone"]
     /\ cur' = [cur EXCEPT ![a] = NoMsg]
     /\ UNCHANGED <<prog, code, src, st, out, ran, addr>>

HandlerPanics(a) ==
  pc[a] = "handle" /\ Result(a).val = Panic /\ Ends(a) /\ UNCHANGED closes
Closed(a) == /\ pc[a] = "recv" /\ closes < MaxCloses
             /\ Ends(a) /\ closes' = closes + 1

AddressGone == ~addr
ChannelClosed == ~SenderAlive
Leaves(a) == /\ pc[a] = "recv" /\ queue = <<>> /\ ChannelClosed
             /\ Ends(a) /\ UNCHANGED closes

AdapterStep(s) == SourceEnds(s) \/ SkipsNone(s) \/ SendsItem(s) \/ PollsLast(s)
ActorStep(a) == OnStart(a) \/ Recv(a) \/ Handled(a) \/ HandlerPanics(a) \/ Leaves(a)
Next ==
  \/ \E s \in Stream : AdapterStep(s) \/ DropStream(s)
  \/ \E a \in Actor : ActorStep(a) \/ Closed(a)
  \/ DropAddress

Spec == Init /\ [][Next]_vars

\* The consumer polls to the end unless it drops the stream, and the runtime
\* polls the actors; every behaviour is finite, so one condition says both.
Progress == (\E s \in Stream : AdapterStep(s)) \/ \E a \in Actor : ActorStep(a)
FairSpec == Spec /\ WF_vars(Progress)

------------------------------------------------------------------------------

\* The places of the items that the source gave, up to now.
Given(s) == {i \in 1 .. Len(Items[s]) - Len(src[s]) : Items[s][i] # None}

\* What an item may be answered with: the result of a handler written for its
\* type, or the error that says what happened.
Answers(p, s, item) ==
  {Ok(Own(b, item)) : b \in Written(p, MsgType[s])} \cup {Err("Closed"), Err("Canceled")}
    \cup IF item \in Panicky THEN {Err("Blocking")} ELSE {}

\* The answers are those of the items, in their order, one each.  One more item
\* may be out.
OneAnswerEach == \A s \in Stream :
  /\ Len(out[s]) \in {Cardinality(Given(s)), Cardinality(Given(s)) - 1}
  /\ Len(out[s]) # Cardinality(Given(s)) => st[s] \in {"last", "dropped"}
  /\ \A i \in Given(s) :
       LET nth == Cardinality({j \in Given(s) : j <= i}) IN
       nth \in DOMAIN out[s] => out[s][nth] \in Answers(prog, s, Items[s][i])

\* The adapter's own sender keeps the group going: dropping every Address never
\* makes a stream fail.
FailsOnlyIfKilled ==
  (\E s \in Stream : \E i \in DOMAIN out[s] : out[s][i] \in {Err("Closed"), Err("Canceled")})
    => closes > 0 \/ \E s \in Stream : \E i \in DOMAIN ran[s] : ran[s][i] \in Panicky

\* Whatever the declaration: both macros give every message to its own handler
\* and agree on declarations that say the same, and an actor of #[handler_v2]
\* runs a hook of each kind it declares.
DispatchesRight ==
  /\ \A n \in Messages(prog) : OwnHandler(prog, n, "m")
  /\ prog.macro = "actor_mod" => HandlerV2(AsMethods(prog.items)) = code
  /\ prog.macro = "handler_v2" =>
       /\ IsOneOf(ActorImpl(prog.actor, code).on_start, Hooks(prog, "on_start"))
       /\ IsOneOf(ActorImpl(prog.actor, code).on_stop, Hooks(prog, "on_stop"))

\* A stream ends, is dropped, or waits for the answer to a message that is left
\* in the channel of actors that are all gone.
StreamEnds == \A s \in Stream :
  <>(st[s] \in {"ended", "dropped"} \/ (slot[s] = Open /\ Receivers = {}))
=============================================================================
