------------------------------- MODULE WebSocket ------------------------------
(***************************************************************************)
(* actix_send_websocket: after the handshake, split_stream makes of a      *)
(* request's payload a WebSocketStream, which decodes the client's frames  *)
(* and runs the heartbeat, and an EncodeStream, the body of the response.  *)
(* The program reaches the body through the local queue (an Rc, shared     *)
(* with the stream) and through WebSocketSenders (an unbounded channel).   *)
(*                                                                         *)
(* Everything runs on one thread: a poll is one step.  A frame is its      *)
(* kind; "half" stands for the first part of one that arrives in pieces,   *)
(* "bad" for one that cannot be decoded or encoded, "ping" for a Ping or   *)
(* a Pong.  A program does not call next again after None.  Time is counted in    *)
(* ticks and passes only when no task that was woken waits to be polled;   *)
(* the program's own work between two calls of next may take any time.     *)
(*                                                                         *)
(* Definitions named for a mistake (TimerFirst, DropsQuietly, ...) are not    *)
(* part of the specification.                                              *)
(***************************************************************************)
EXTENDS Naturals, Sequences

CONSTANTS
  Requests,     \* handshake requests: [method, header, upgrade, version, key, offers]
  Known,        \* protocols of the configuration
  Heartbeats,   \* intervals the configuration may have, NoTimer if disabled
  NoTimer,
  Timeout,
  ServerPings,  \* server_send_heartbeat
  MaxTime,      \* bound: ticks
  MaxFrames,    \* bound: pieces that arrive from the client, per heartbeat
  MaxPushes     \* bound: messages of the program, per heartbeat

ASSUME WebSocketAssumption ==
  /\ NoTimer \notin Nat /\ Heartbeats \ {NoTimer} \subseteq Nat \ {0}
  /\ Timeout \in Nat /\ ServerPings \in BOOLEAN
  /\ Known \in Seq(STRING) /\ \A r \in Requests : r.offers \in Seq(STRING)
  /\ MaxTime \in Nat
  /\ MaxFrames \in [Heartbeats \cup {NoTimer} -> Nat]
  /\ MaxPushes \in [Heartbeats \cup {NoTimer} -> Nat]

VARIABLES
  req, resp,     \* the handshake and its outcome
  interval,      \* HeartBeat.interval, NoTimer without a heartbeat
  clock,
  input,         \* pieces that arrived and are not decoded (read_buf and payload)
  end,           \* the payload after them: open, eof or fail
  arrived,       \* pieces that arrived so far
  dec,           \* busy (outside of next), parked in next, ended or gone (dropped)
  timer,         \* deadline of the Sleep
  deadline,      \* HeartBeat.deadline
  heard,         \* when the last Ping or Pong was decoded (history)
  queue,         \* local queue
  queueWaker,    \* a waker is registered in it
  clone,         \* the program holds a clone of the local queue
  outlived,      \* a clone was left when the stream was dropped (history)
  sender,        \* a WebSocketSender is held outside of the stream
  rx, rxOpen,    \* the channel's buffer; whether sends are accepted
  enc,           \* ready (about to be polled), parked, ended or dropped
  writeBuf,
  out,           \* frames given to the connection
  pushed, sent,  \* messages pushed, and sent with success (history)
  left           \* messages the program may still push

decodeVars == <<input, end, arrived, dec, timer, deadline, heard>>
heldVars == <<clone, outlived, sender>>
encodeVars == <<rx, rxOpen, enc, writeBuf, out>>
fixed == <<req, resp, interval>>
vars == <<fixed, clock, decodeVars, queue, queueWaker, heldVars, encodeVars, pushed, sent, left>>

Kinds == {"data", "close", "bad"}
Pieces == {"half", "text", "ping", "close", "bad"}

------------------------------------------------------------------------------
(* The handshake.                                                           *)

\* The client's first offer that the server knows, whatever the server's order.
FirstKnown(offers, known) ==
  LET both == {i \in DOMAIN offers : \E j \in DOMAIN known : known[j] = offers[i]} IN
  IF both = {} THEN <<>> ELSE <<offers[CHOOSE i \in both : \A j \in both : i <= j]>>
ServersOrder(r) == FirstKnown(Known, r.offers)
Selected(r) == FirstKnown(r.offers, Known)

\* handshake_with_protocols: the first check that fails is the error.
Checks(r) == <<
  <<r.method = "GET", "GetMethodRequired">>,
  <<r.header, "NoWebsocketUpgrade">>,
  <<r.upgrade, "NoConnectionUpgrade">>,
  <<r.version # "", "NoVersionHeader">>,
  <<r.version \in {"13", "8", "7"}, "UnsupportedVersion">>,
  <<r.key, "BadWebsocketKey">> >>
Handshake(r) ==
  LET fails == {i \in DOMAIN Checks(r) : ~Checks(r)[i][1]} IN
  IF fails = {} THEN [ok |-> TRUE, protocol |-> Selected(r)]
  ELSE [ok |-> FALSE, error |-> Checks(r)[CHOOSE i \in fails : \A j \in fails : i <= j][2]]

\* FromRequest and split_stream; there are no streams after a failed handshake.
Init ==
  /\ req \in Requests
  /\ resp = Handshake(req)
  /\ interval \in IF resp.ok THEN Heartbeats ELSE {NoTimer}
  /\ clock = 0
  /\ timer = interval
  /\ deadline = Timeout
  /\ heard = 0
  /\ input = <<>> /\ end = "open" /\ arrived = 0
  /\ dec = IF resp.ok THEN "busy" ELSE "gone"
  /\ queue = <<>> /\ queueWaker = FALSE
  /\ clone = FALSE /\ outlived = FALSE /\ sender = FALSE
  /\ rx = <<>> /\ rxOpen = resp.ok
  /\ enc = IF resp.ok THEN "ready" ELSE "dropped"
  /\ writeBuf = <<>> /\ out = <<>>
  /\ pushed = <<>> /\ sent = <<>>
  /\ left = MaxPushes[interval]

QueueShared == dec # "gone" \/ clone   \* strong_count > 1
TxAlive == dec # "gone" \/ sender
Runs == enc \in {"ready", "parked"}

\* QueueInner::wake, which takes the waker.
WakeQueue == /\ enc' = IF queueWaker /\ enc = "parked" THEN "ready" ELSE enc
             /\ queueWaker' = FALSE

\* A method of WebSocketLocalQueue; nobody learns that the body has ended.
PushLocal(kind) ==
  /\ queue' = Append(queue, [via |-> "queue", kind |-> kind, at |-> Len(pushed)])
  /\ pushed' = Append(pushed, [via |-> "queue", kind |-> kind, at |-> Len(pushed)])
  /\ WakeQueue

------------------------------------------------------------------------------
(* WebSocketStream::poll_next, called by next.                              *)

Complete == input # <<>> /\ (input[1] # "half" \/ Len(input) >= 2)
FrameLen == IF input[1] = "half" THEN 2 ELSE 1
Frame == input[FrameLen]

UpdatesOnAny(f) == deadline' = clock + Timeout
UpdateOn(f) == deadline' = IF f = "ping" THEN clock + Timeout ELSE deadline

Pollable == dec = "busy" \/ dec = "parked"

\* A frame is returned, or an error in its place.
Decodes ==
  /\ Pollable /\ Complete
  /\ input' = SubSeq(input, FrameLen + 1, Len(input))
  /\ dec' = "busy"
  /\ UpdateOn(Frame)
  /\ heard' = IF Frame = "ping" THEN clock ELSE heard
  /\ UNCHANGED <<fixed, clock, end, arrived, timer, queue, queueWaker, heldVars, encodeVars,
                 pushed, sent, left>>

PayloadFails ==
  /\ Pollable /\ ~Complete /\ end = "fail"
  /\ dec' = "busy"
  /\ end' = "eof"
  /\ UNCHANGED <<fixed, clock, input, arrived, timer, deadline, heard, queue, queueWaker,
                 heldVars, encodeVars, pushed, sent, left>>

PayloadEnds ==
  /\ Pollable /\ ~Complete /\ end = "eof"
  /\ dec' = "ended"
  /\ UNCHANGED <<fixed, clock, input, end, arrived, timer, deadline, heard, queue, queueWaker,
                 heldVars, encodeVars, pushed, sent, left>>

\* The timer is looked at only when the payload has nothing more.
TimerFirst == end = "open"
PayloadPending == ~Complete /\ end = "open"
TimerFires == timer # NoTimer /\ timer <= clock

\* HeartBeat::set compares with the tick's own time, not with the clock.
Expired == timer >= deadline

Parks ==
  /\ Pollable /\ PayloadPending /\ ~TimerFires
  /\ dec # "parked"
  /\ dec' = "parked"
  /\ UNCHANGED <<fixed, clock, input, end, arrived, timer, deadline, heard, queue, queueWaker,
                 heldVars, encodeVars, pushed, sent, left>>

\* The timer is set again, which wakes the task if that time has passed too.
Ticks ==
  /\ Pollable /\ PayloadPending /\ TimerFires /\ ~Expired
  /\ timer' = timer + interval
  /\ dec' = "parked"
  /\ IF ServerPings THEN PushLocal("ping") ELSE UNCHANGED <<queue, queueWaker, enc, pushed>>
  /\ UNCHANGED <<fixed, clock, input, end, arrived, deadline, heard, heldVars, rx, rxOpen,
                 writeBuf, out, sent, left>>

TimesOut ==
  /\ Pollable /\ PayloadPending /\ TimerFires /\ Expired
  /\ dec' = "ended"
  /\ PushLocal("close")
  /\ UNCHANGED <<fixed, clock, input, end, arrived, timer, deadline, heard, heldVars, rx,
                 rxOpen, writeBuf, out, sent, left>>

\* The program drops the future of next, for instance in a select.
AbandonNext ==
  /\ dec = "parked"
  /\ dec' = "busy"
  /\ UNCHANGED <<fixed, clock, input, end, arrived, timer, deadline, heard, queue, queueWaker,
                 heldVars, encodeVars, pushed, sent, left>>

\* next is polled when it is called and whenever the payload or the timer wakes it.
Woken == dec = "parked" /\ (Complete \/ end # "open" \/ TimerFires)
DecodePoll == Decodes \/ PayloadFails \/ PayloadEnds \/ Parks \/ Ticks \/ TimesOut

------------------------------------------------------------------------------
(* EncodeStream::poll_next, polled by the connection.                       *)

HasKind(s, kind) == \E i \in DOMAIN s : s[i].kind = kind
FirstBad(s) == CHOOSE i \in DOMAIN s : s[i].kind = "bad" /\ \A j \in 1 .. i - 1 : s[j].kind # "bad"
Before(s) == IF HasKind(s, "bad") THEN SubSeq(s, 1, FirstBad(s) - 1) ELSE s
After(s) == IF HasKind(s, "bad") THEN SubSeq(s, FirstBad(s) + 1, Len(s)) ELSE <<>>

\* The loops over the queue and over the channel: up to a message that cannot
\* be encoded, which is lost.
DrainQueue == queue' = After(queue)

\* An encoding error in the queue returns at once: no waker is registered.
QueueError ==
  /\ enc = "ready" /\ HasKind(queue, "bad")
  /\ DrainQueue
  /\ writeBuf' = writeBuf \o Before(queue)
  /\ rxOpen' = (rxOpen /\ ~HasKind(Before(queue), "close"))
  /\ UNCHANGED <<fixed, clock, decodeVars, queueWaker, heldVars, rx, enc, out, pushed, sent, left>>

\* The channel is closed by a Close, or when only this stream holds the queue.
IgnoresClose == rxOpen /\ QueueShared
OpenAfterQueue == rxOpen /\ ~HasKind(queue, "close") /\ QueueShared
ClearsBuffer == queue \o Before(rx)
FlushesAll == writeBuf \o queue \o Before(rx)

ChannelError ==
  /\ enc = "ready" /\ ~HasKind(queue, "bad") /\ HasKind(rx, "bad")
  /\ DrainQueue
  /\ queueWaker' = (QueueShared \/ queueWaker)
  /\ rx' = After(rx)
  /\ writeBuf' = FlushesAll
  /\ rxOpen' = (OpenAfterQueue /\ ~HasKind(Before(rx), "close"))
  /\ UNCHANGED <<fixed, clock, decodeVars, heldVars, enc, out, pushed, sent, left>>

\* Data is handed out first; the end is told by the poll after it, which the
\* stream makes sure of by waking itself.
AfterFlush(open) == IF FlushesAll # <<>> THEN "ready" ELSE IF open THEN "parked" ELSE "ended"

EncodePoll ==
  LET open == OpenAfterQueue /\ ~HasKind(rx, "close") IN
  /\ enc = "ready" /\ ~HasKind(queue, "bad") /\ ~HasKind(rx, "bad")
  /\ DrainQueue
  /\ queueWaker' = (QueueShared \/ queueWaker)
  /\ rx' = <<>>
  /\ rxOpen' = open
  /\ out' = out \o FlushesAll
  /\ writeBuf' = <<>>
  /\ enc' = AfterFlush(open /\ TxAlive)
  /\ UNCHANGED <<fixed, clock, decodeVars, heldVars, pushed, sent, left>>

\* The connection goes.
DropEncode ==
  /\ Runs
  /\ enc' = "dropped"
  /\ rx' = <<>> /\ rxOpen' = FALSE
  /\ UNCHANGED <<fixed, clock, decodeVars, queue, queueWaker, heldVars, writeBuf, out, pushed,
                 sent, left>>

------------------------------------------------------------------------------
(* The program, the client and time.                                        *)

\* The stream is not borrowed by next.
Free == dec \in {"busy", "ended"}

Push(kind) ==
  /\ Free \/ clone
  /\ left > 0 /\ left' = left - 1
  /\ PushLocal(kind)
  /\ UNCHANGED <<fixed, clock, decodeVars, heldVars, rx, rxOpen, writeBuf, out, sent>>

\* A send that is accepted wakes the body; one that is not returns an error.
Send(kind) ==
  LET m == [via |-> "sender", kind |-> kind, at |-> Len(sent)] IN
  /\ sender
  /\ left > 0 /\ left' = left - 1
  /\ \/ /\ rxOpen
        /\ rx' = Append(rx, m) /\ sent' = Append(sent, m)
        /\ enc' = IF enc = "parked" THEN "ready" ELSE enc
     \/ ~rxOpen /\ UNCHANGED <<rx, sent, enc>>
  /\ UNCHANGED <<fixed, clock, decodeVars, queue, queueWaker, heldVars, rxOpen, writeBuf, out,
                 pushed>>

GetSender ==
  /\ Free /\ ~sender
  /\ sender' = TRUE
  /\ UNCHANGED <<fixed, clock, decodeVars, queue, queueWaker, clone, outlived, encodeVars, pushed,
                 sent, left>>

\* The last sender's drop wakes the receiver.
DropSender ==
  /\ sender
  /\ sender' = FALSE
  /\ enc' = IF dec = "gone" /\ enc = "parked" THEN "ready" ELSE enc
  /\ UNCHANGED <<fixed, clock, decodeVars, queue, queueWaker, clone, outlived, rx, rxOpen,
                 writeBuf, out, pushed, sent, left>>

CloneQueue ==
  /\ Free /\ ~clone
  /\ clone' = TRUE
  /\ UNCHANGED <<fixed, clock, decodeVars, queue, queueWaker, outlived, sender, encodeVars, pushed,
                 sent, left>>

\* Unlike the stream's own drop, that of a clone wakes nobody.
DropClone ==
  /\ clone
  /\ clone' = FALSE
  /\ UNCHANGED <<fixed, clock, decodeVars, queue, queueWaker, outlived, sender, encodeVars, pushed,
                 sent, left>>

\* PinnedDrop wakes the body through the queue; so does the channel if the
\* stream's was the last sender.
DropsQuietly ==
  /\ enc' = IF enc = "parked" /\ ~sender THEN "ready" ELSE enc
  /\ UNCHANGED queueWaker
WakesOnDrop ==
  /\ enc' = IF enc = "parked" /\ (queueWaker \/ ~sender) THEN "ready" ELSE enc
  /\ queueWaker' = FALSE
DropStream ==
  /\ dec # "gone"
  /\ dec' = "gone"
  /\ outlived' = clone
  /\ WakesOnDrop
  /\ UNCHANGED <<fixed, clock, input, end, arrived, timer, deadline, heard, queue, clone, sender,
                 rx, rxOpen, writeBuf, out, pushed, sent, left>>

Arrives(piece) ==
  /\ dec # "gone" /\ end = "open" /\ arrived < MaxFrames[interval]
  /\ input' = Append(input, piece)
  /\ arrived' = arrived + 1
  /\ UNCHANGED <<fixed, clock, end, dec, timer, deadline, heard, queue, queueWaker, heldVars,
                 encodeVars, pushed, sent, left>>

ClientGoes ==
  /\ dec # "gone" /\ end = "open"
  /\ end' \in {"eof", "fail"}
  /\ UNCHANGED <<fixed, clock, input, arrived, dec, timer, deadline, heard, queue, queueWaker,
                 heldVars, encodeVars, pushed, sent, left>>

\* Without a heartbeat time does not matter.
Tick ==
  /\ dec # "gone" /\ timer # NoTimer /\ ~Woken /\ clock < MaxTime
  /\ clock' = clock + 1
  /\ UNCHANGED <<fixed, decodeVars, queue, queueWaker, heldVars, encodeVars, pushed, sent, left>>

Encode == QueueError \/ ChannelError \/ EncodePoll
Next ==
  \/ DecodePoll \/ AbandonNext \/ Encode \/ DropEncode
  \/ \E kind \in Kinds : Push(kind) \/ Send(kind)
  \/ GetSender \/ DropSender \/ CloneQueue \/ DropClone \/ DropStream
  \/ (\E piece \in Pieces : Arrives(piece)) \/ ClientGoes \/ Tick

Spec == Init /\ [][Next]_vars

\* The connection polls the body when it is woken.
FairSpec == Spec /\ WF_vars(Encode)

------------------------------------------------------------------------------

\* Messages are numbered as they are accepted.
InTurn(s, via) == \A i, j \in DOMAIN s :
  s[i].via = via /\ s[j].via = via /\ i < j => s[i].at < s[j].at
Carries(s, via, accepted) ==
  /\ InTurn(s, via)
  /\ \A i \in DOMAIN s : s[i].via = via => \E j \in DOMAIN accepted : accepted[j] = s[i]
  /\ \A j \in DOMAIN accepted :
       accepted[j].kind # "bad" => \E i \in DOMAIN s : s[i] = accepted[j]

\* What was pushed or sent with success is handed to the connection once and
\* in the order of its source, or is still on its way; only what cannot be
\* encoded gets lost.
InOrder ==
  /\ Carries(out \o writeBuf \o queue, "queue", pushed)
  /\ enc # "dropped" => Carries(out \o writeBuf \o rx, "sender", sent)

\* A body that waits to be woken has nothing to hand out, and somebody is left
\* who could push or send; one that has ended kept nothing that was accepted.
NoLostWake ==
  /\ enc = "parked" =>
       /\ queue = <<>> /\ rx = <<>> /\ writeBuf = <<>> /\ rxOpen
       /\ dec = "gone" => outlived /\ sender
       /\ QueueShared => queueWaker
  /\ enc = "ended" => rx = <<>> /\ writeBuf = <<>> /\ ~(rxOpen /\ TxAlive)

\* The heartbeat ends no connection whose client sent a Ping or a Pong within
\* the timeout, however late the program reads it.
NoFalseClose ==
  [][TimesOut => clock >= heard + Timeout /\ \A i \in DOMAIN input : input[i] # "ping"]_vars

\* While the program waits for a frame, a client that is silent is noticed at
\* the latest one interval after its timeout.
DeadPeerCloses ==
  dec = "parked" /\ ~Woken /\ interval # NoTimer => clock < heard + Timeout + interval

\* The outcome of the handshake: what it takes, and the protocol the client
\* prefers among those both know.
HandshakeRight ==
  resp.ok =>
    /\ req.method = "GET" /\ req.header /\ req.upgrade /\ req.key
    /\ req.version \in {"7", "8", "13"}
    /\ \A i \in DOMAIN req.offers : \A j \in DOMAIN Known :
         req.offers[i] = Known[j] =>
           \E k \in 1 .. i : resp.protocol = <<req.offers[k]>>
    /\ \A i \in DOMAIN resp.protocol : \E j \in DOMAIN Known : Known[j] = resp.protocol[i]

\* The body ends after a Close from the queue, the heartbeat's for instance,
\* and when the stream is dropped, whoever still holds a sender.
BodyEnds ==
  Runs /\ (HasKind(queue, "close") \/ (dec = "gone" /\ ~outlived)) ~> ~Runs
=============================================================================
