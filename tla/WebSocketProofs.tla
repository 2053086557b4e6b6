--------------------------- MODULE WebSocketProofs ----------------------------
(***************************************************************************)
(* Theorems about WebSocket.tla, for any interval and timeout and whatever *)
(* arrives and is sent.  Three inductive invariants that do not touch: how *)
(* the heartbeat's timer and deadline follow the clock and the last Ping   *)
(* with who will wake a body that waits (IInv); that the handshake stays   *)
(* as it was decided; and how what was accepted is spread over the buffers *)
(* between the program and the connection (OrderInv).                      *)
(***************************************************************************)
EXTENDS WebSocket, Queues

Types ==
  /\ interval \in Heartbeats \cup {NoTimer}
  /\ clock \in Nat /\ deadline \in Nat /\ heard \in Nat
  /\ timer \in Nat \cup {NoTimer}
  /\ input \in Seq(Pieces)
  /\ dec \in {"busy", "parked", "ended", "gone"}
  /\ enc \in {"ready", "parked", "ended", "dropped"}
  /\ queueWaker \in BOOLEAN /\ clone \in BOOLEAN /\ outlived \in BOOLEAN
  /\ sender \in BOOLEAN /\ rxOpen \in BOOLEAN

\* The deadline is the last Ping's, and the timer stays within one interval of
\* it: a tick that comes before the deadline sets the next one less than one
\* interval after it.
Heartbeat ==
  /\ timer = NoTimer <=> interval = NoTimer
  /\ deadline = heard + Timeout /\ heard <= clock
  /\ timer # NoTimer => timer <= deadline + interval

\* A clone that the stream left behind is one it had when it was dropped.
Clones == dec = "gone" /\ clone => outlived

IInv == Types /\ Heartbeat /\ Clones /\ NoLostWake

\* The constants, one by one.
LEMMA Constants ==
  /\ NoTimer \notin Nat /\ Timeout \in Nat
  /\ \A h \in Heartbeats \cup {NoTimer} : h # NoTimer => h \in Nat \ {0}
  BY WebSocketAssumption

\* The local queue is pushed to only by those who share it with the body, so
\* the body's waker is in it if the body waits.
LEMMA PushWakes ==
  ASSUME IInv, NEW kind, PushLocal(kind), QueueShared
  PROVE  /\ enc' = IF enc = "parked" THEN "ready" ELSE enc
         /\ queueWaker' \in BOOLEAN /\ enc' # "parked"
  BY DEF IInv, Types, NoLostWake, PushLocal, WakeQueue

LEMMA InitInv == Init => IInv
<1> SUFFICES ASSUME Init PROVE IInv
  OBVIOUS
<1>1. resp.ok \in BOOLEAN
  BY DEF Init, Handshake
<1>2. interval \in Heartbeats \cup {NoTimer}
  BY DEF Init
<1>3. Types
  <2>1. interval \in Nat \cup {NoTimer} /\ input \in Seq(Pieces)
    BY <1>2, Constants DEF Init
  <2>2. /\ dec \in {"busy", "gone"} /\ enc \in {"ready", "dropped"} /\ rxOpen \in BOOLEAN
        /\ queueWaker \in BOOLEAN /\ clone \in BOOLEAN /\ outlived \in BOOLEAN
        /\ sender \in BOOLEAN
    BY <1>1 DEF Init
  <2>3. clock \in Nat /\ deadline \in Nat /\ heard \in Nat /\ timer \in Nat \cup {NoTimer}
    BY <2>1, Constants DEF Init
  <2> QED BY <1>2, <2>1, <2>2, <2>3 DEF Types
<1>4. Heartbeat
  BY <1>2, Constants DEF Init, Heartbeat
<1> QED BY <1>3, <1>4 DEF IInv, Init, Clones, NoLostWake

LEMMA NextInv == IInv /\ [Next]_vars => IInv'
<1> SUFFICES ASSUME IInv, [Next]_vars PROVE IInv'
  OBVIOUS
<1> USE DEF IInv
<1> USE Constants
<1>1. CASE Decodes
  <2>1. FrameLen \in 1 .. 2 /\ Len(input) >= FrameLen
    BY <1>1, EmptySeq DEF Types, Decodes, Complete, FrameLen
  <2>2. input' \in Seq(Pieces)
    <3>1. input' = SubSeq(input, FrameLen + 1, Len(input))
      BY <1>1 DEF Decodes
    <3> QED BY <2>1, <3>1, SubSeqProperties, LenProperties DEF Types
  <2>3. /\ deadline' \in Nat /\ heard' \in Nat /\ heard' <= clock
        /\ deadline' = heard' + Timeout /\ deadline' >= deadline
    BY <1>1 DEF Decodes, UpdateOn, Types, Heartbeat
  <2>4. Types'
    BY <1>1, <2>2, <2>3
    DEF Decodes, Types, fixed, heldVars, encodeVars
  <2>5. Heartbeat'
    BY <1>1, <2>3 DEF Decodes, Types, Heartbeat, fixed
  <2>6. Clones' /\ NoLostWake'
    BY <1>1 DEF Decodes, Pollable, Clones, NoLostWake, QueueShared, TxAlive, heldVars, encodeVars
  <2> QED BY <2>4, <2>5, <2>6
<1>2. CASE PayloadFails
  <2>1. Types' /\ Heartbeat'
    BY <1>2 DEF PayloadFails, Types, Heartbeat, fixed, heldVars, encodeVars
  <2>2. Clones' /\ NoLostWake'
    BY <1>2 DEF PayloadFails, Pollable, Clones, NoLostWake, QueueShared, TxAlive, heldVars, encodeVars
  <2> QED BY <2>1, <2>2
<1>3. CASE PayloadEnds
  <2>1. Types' /\ Heartbeat'
    BY <1>3 DEF PayloadEnds, Types, Heartbeat, fixed, heldVars, encodeVars
  <2>2. Clones' /\ NoLostWake'
    BY <1>3 DEF PayloadEnds, Pollable, Clones, NoLostWake, QueueShared, TxAlive, heldVars, encodeVars
  <2> QED BY <2>1, <2>2
<1>4. CASE Parks
  <2>1. Types' /\ Heartbeat'
    BY <1>4 DEF Parks, Types, Heartbeat, fixed, heldVars, encodeVars
  <2>2. Clones' /\ NoLostWake'
    BY <1>4 DEF Parks, Pollable, Clones, NoLostWake, QueueShared, TxAlive, heldVars, encodeVars
  <2> QED BY <2>1, <2>2
<1>5. CASE Ticks
  <2>1. interval \in Nat \ {0} /\ timer \in Nat /\ timer < deadline
    BY <1>5 DEF Ticks, TimerFires, Expired, Types, Heartbeat
  <2>2. timer' \in Nat /\ timer' = timer + interval /\ timer' <= deadline + interval
    BY <1>5, <2>1 DEF Ticks, Types
  <2>3. QueueShared
    BY <1>5 DEF Ticks, Pollable, QueueShared
  <2>4. \/ enc' # "parked" /\ (enc' = "ended" => enc = "ended")
        \/ UNCHANGED <<queue, queueWaker, enc>>
    <3>1. CASE ServerPings
      BY <1>5, <2>3, <3>1, PushWakes DEF Ticks
    <3>2. CASE ~ServerPings
      BY <1>5, <3>2 DEF Ticks
    <3> QED BY <3>1, <3>2
  <2>5. enc' \in {"ready", "parked", "ended", "dropped"} /\ queueWaker' \in BOOLEAN
    <3>1. CASE ServerPings
      BY <1>5, <3>1 DEF Ticks, PushLocal, WakeQueue, Types
    <3>2. CASE ~ServerPings
      BY <1>5, <3>2 DEF Ticks, Types
    <3> QED BY <3>1, <3>2
  <2>6. Types'
    BY <1>5, <2>2, <2>5 DEF Ticks, Types, fixed, heldVars
  <2>7. Heartbeat'
    BY <1>5, <2>1, <2>2 DEF Ticks, Types, Heartbeat, fixed
  <2>8. Clones' /\ NoLostWake'
    BY <1>5, <2>4 DEF Ticks, Pollable, Clones, NoLostWake, QueueShared, TxAlive, heldVars
  <2> QED BY <2>6, <2>7, <2>8
<1>6. CASE TimesOut
  <2>1. QueueShared /\ PushLocal("close")
    BY <1>6 DEF TimesOut, Pollable, QueueShared
  <2>2. enc' # "parked" /\ (enc' = "ended" => enc = "ended")
    BY <2>1, PushWakes
  <2>3. Types'
    BY <1>6, <2>1 DEF TimesOut, PushLocal, WakeQueue, Types, fixed, heldVars
  <2>4. Heartbeat'
    BY <1>6 DEF TimesOut, Heartbeat, fixed
  <2>5. Clones' /\ NoLostWake'
    BY <1>6, <2>2 DEF TimesOut, Pollable, Clones, NoLostWake, QueueShared, TxAlive, heldVars
  <2> QED BY <2>3, <2>4, <2>5
<1>7. CASE AbandonNext
  <2>1. Types' /\ Heartbeat'
    BY <1>7 DEF AbandonNext, Types, Heartbeat, fixed, heldVars, encodeVars
  <2>2. Clones' /\ NoLostWake'
    BY <1>7 DEF AbandonNext, Clones, NoLostWake, QueueShared, TxAlive, heldVars, encodeVars
  <2> QED BY <2>1, <2>2
<1>8. CASE QueueError
  <2>1. Types' /\ Heartbeat'
    BY <1>8 DEF QueueError, Types, Heartbeat, fixed, decodeVars, heldVars
  <2>2. Clones' /\ NoLostWake'
    BY <1>8 DEF QueueError, Clones, NoLostWake, decodeVars, heldVars
  <2> QED BY <2>1, <2>2
<1>9. CASE ChannelError
  <2>1. queueWaker' \in BOOLEAN /\ rxOpen' \in BOOLEAN
    BY <1>9 DEF ChannelError, OpenAfterQueue
  <2>2. Types' /\ Heartbeat'
    BY <1>9, <2>1 DEF ChannelError, Types, Heartbeat, fixed, decodeVars, heldVars
  <2>3. Clones' /\ NoLostWake'
    BY <1>9 DEF ChannelError, Clones, NoLostWake, decodeVars, heldVars
  <2> QED BY <2>2, <2>3
<1>10. CASE EncodePoll
  <2> DEFINE open == OpenAfterQueue /\ ~HasKind(rx, "close")
  <2>1. /\ rxOpen' = open /\ enc' = AfterFlush(open /\ TxAlive)
        /\ queueWaker' = (QueueShared \/ queueWaker)
        /\ rx' = <<>> /\ writeBuf' = <<>> /\ queue' = <<>>
        /\ UNCHANGED <<fixed, clock, decodeVars, heldVars>>
    BY <1>10 DEF EncodePoll, DrainQueue, After
  <2>2. open \in BOOLEAN /\ (open => QueueShared)
    BY DEF OpenAfterQueue
  <2>3. enc' \in {"ready", "parked", "ended"}
    BY <2>1 DEF AfterFlush
  <2>4. enc' = "parked" => open /\ TxAlive
    BY <2>1 DEF AfterFlush
  <2>5. enc' = "ended" => ~(open /\ TxAlive)
    BY <2>1 DEF AfterFlush
  <2>6. Types' /\ Heartbeat'
    BY <2>1, <2>2, <2>3 DEF Types, Heartbeat, fixed, decodeVars, heldVars
  <2>7. QueueShared' = QueueShared /\ TxAlive' = TxAlive /\ Clones'
    BY <2>1 DEF QueueShared, TxAlive, Clones, decodeVars, heldVars
  <2>8. NoLostWake'
    <3>1. ASSUME enc' = "parked" PROVE rxOpen' /\ (dec' = "gone" => outlived' /\ sender')
      <4>1. open /\ TxAlive /\ QueueShared
        BY <2>2, <2>4, <3>1
      <4> QED BY <2>1, <4>1 DEF TxAlive, QueueShared, Clones, decodeVars, heldVars
    <3>2. QueueShared' => queueWaker'
      BY <2>1, <2>7
    <3>3. enc' = "ended" => ~(rxOpen' /\ TxAlive')
      BY <2>1, <2>5, <2>7
    <3> QED BY <2>1, <3>1, <3>2, <3>3 DEF NoLostWake
  <2> QED BY <2>6, <2>7, <2>8
<1>11. CASE DropEncode
  <2>1. Types' /\ Heartbeat'
    BY <1>11 DEF DropEncode, Types, Heartbeat, fixed, decodeVars, heldVars
  <2>2. Clones' /\ NoLostWake'
    BY <1>11 DEF DropEncode, Clones, NoLostWake, decodeVars, heldVars
  <2> QED BY <2>1, <2>2
<1>12. ASSUME NEW kind \in Kinds, Push(kind) PROVE IInv'
  <2>1. QueueShared /\ PushLocal(kind)
    BY <1>12 DEF Push, Free, QueueShared
  <2>2. enc' # "parked" /\ (enc' = "ended" => enc = "ended")
    BY <2>1, PushWakes
  <2>3. Types' /\ Heartbeat'
    BY <1>12, <2>1 DEF Push, PushLocal, WakeQueue, Types, Heartbeat, fixed, decodeVars, heldVars
  <2>4. Clones' /\ NoLostWake'
    BY <1>12, <2>2 DEF Push, Clones, NoLostWake, TxAlive, decodeVars, heldVars
  <2> QED BY <2>3, <2>4
<1>13. ASSUME NEW kind \in Kinds, Send(kind) PROVE IInv'
  <2>1. \/ rxOpen /\ enc' = IF enc = "parked" THEN "ready" ELSE enc
        \/ UNCHANGED <<rx, enc>>
    BY <1>13 DEF Send
  <2>2. /\ sender
        /\ UNCHANGED <<fixed, clock, decodeVars, queue, queueWaker, heldVars, rxOpen, writeBuf>>
    BY <1>13 DEF Send
  <2>3. Types' /\ Heartbeat'
    BY <2>1, <2>2 DEF Types, Heartbeat, fixed, decodeVars, heldVars
  <2>4. Clones' /\ NoLostWake'
    BY <2>1, <2>2 DEF Types, Clones, NoLostWake, TxAlive, QueueShared, decodeVars, heldVars
  <2> QED BY <2>3, <2>4
<1>14. CASE GetSender
  <2>1. Types' /\ Heartbeat'
    BY <1>14 DEF GetSender, Types, Heartbeat, fixed, decodeVars, encodeVars
  <2>2. Clones' /\ NoLostWake'
    BY <1>14 DEF GetSender, Free, Clones, NoLostWake, QueueShared, TxAlive, decodeVars, encodeVars
  <2> QED BY <2>1, <2>2
<1>15. CASE DropSender
  <2>1. Types' /\ Heartbeat'
    BY <1>15 DEF DropSender, Types, Heartbeat, fixed, decodeVars
  <2>2. Clones' /\ NoLostWake'
    BY <1>15 DEF DropSender, Clones, NoLostWake, QueueShared, TxAlive, decodeVars
  <2> QED BY <2>1, <2>2
<1>16. CASE CloneQueue
  <2>1. Types' /\ Heartbeat'
    BY <1>16 DEF CloneQueue, Types, Heartbeat, fixed, decodeVars, encodeVars
  <2>2. Clones' /\ NoLostWake'
    BY <1>16 DEF CloneQueue, Free, Clones, NoLostWake, QueueShared, TxAlive, decodeVars, encodeVars
  <2> QED BY <2>1, <2>2
<1>17. CASE DropClone
  <2>1. Types' /\ Heartbeat'
    BY <1>17 DEF DropClone, Types, Heartbeat, fixed, decodeVars, encodeVars
  <2>2. Clones' /\ NoLostWake'
    BY <1>17 DEF DropClone, Clones, NoLostWake, QueueShared, TxAlive, decodeVars, encodeVars
  <2> QED BY <2>1, <2>2
<1>18. CASE DropStream
  <2>1. enc' # "parked"
    BY <1>18 DEF DropStream, WakesOnDrop, NoLostWake, QueueShared
  <2>2. Types' /\ Heartbeat'
    BY <1>18 DEF DropStream, WakesOnDrop, Types, Heartbeat, fixed
  <2>3. Clones' /\ NoLostWake'
    BY <1>18, <2>1 DEF DropStream, WakesOnDrop, Clones, NoLostWake, TxAlive
  <2> QED BY <2>2, <2>3
<1>19. ASSUME NEW piece \in Pieces, Arrives(piece) PROVE IInv'
  <2>1. input' \in Seq(Pieces)
    BY <1>19 DEF Arrives, Types
  <2>2. Types' /\ Heartbeat'
    BY <1>19, <2>1 DEF Arrives, Types, Heartbeat, fixed, heldVars, encodeVars
  <2>3. Clones' /\ NoLostWake'
    BY <1>19 DEF Arrives, Clones, NoLostWake, QueueShared, TxAlive, heldVars, encodeVars
  <2> QED BY <2>2, <2>3
<1>20. CASE ClientGoes
  <2>1. Types' /\ Heartbeat'
    BY <1>20 DEF ClientGoes, Types, Heartbeat, fixed, heldVars, encodeVars
  <2>2. Clones' /\ NoLostWake'
    BY <1>20 DEF ClientGoes, Clones, NoLostWake, QueueShared, TxAlive, heldVars, encodeVars
  <2> QED BY <2>1, <2>2
<1>21. CASE Tick
  <2>1. Types' /\ Heartbeat'
    BY <1>21 DEF Tick, Types, Heartbeat, fixed, decodeVars, heldVars, encodeVars
  <2>2. Clones' /\ NoLostWake'
    BY <1>21 DEF Tick, Clones, NoLostWake, QueueShared, TxAlive, decodeVars, heldVars, encodeVars
  <2> QED BY <2>1, <2>2
<1>22. CASE UNCHANGED vars
  BY <1>22 DEF vars, fixed, decodeVars, heldVars, encodeVars, Types, Heartbeat, Clones, NoLostWake,
               QueueShared, TxAlive
<1> QED
  BY <1>1, <1>2, <1>3, <1>4, <1>5, <1>6, <1>7, <1>8, <1>9, <1>10, <1>11, <1>12, <1>13, <1>14,
     <1>15, <1>16, <1>17, <1>18, <1>19, <1>20, <1>21, <1>22
  DEF Next, DecodePoll, Encode

THEOREM Invariance == Spec => []IInv
  BY InitInv, NextInv, PTL DEF Spec

\* A body that waits to be woken has nothing to hand out, and somebody who
\* could give it something will wake it (EncodeStream::poll_next, QueueInner).
THEOREM NoWakeIsLost == Spec => []NoLostWake
<1>1. IInv => NoLostWake
  BY DEF IInv
<1> QED BY <1>1, Invariance, PTL

\* While the program waits for a frame, a silent client is noticed at the
\* latest one interval after its timeout (HeartBeat::set, update).
THEOREM DeadPeersClose == Spec => []DeadPeerCloses
<1>1. IInv => DeadPeerCloses
  <2> SUFFICES ASSUME IInv, dec = "parked", ~Woken, interval # NoTimer
               PROVE  clock < heard + Timeout + interval
    BY DEF DeadPeerCloses
  <2>1. timer \in Nat /\ interval \in Nat /\ clock < timer
    BY Constants DEF IInv, Types, Heartbeat, Woken, TimerFires
  <2>2. timer <= heard + Timeout + interval
    BY <2>1, Constants DEF IInv, Types, Heartbeat
  <2> QED BY <2>1, <2>2, Constants DEF IInv, Types
<1> QED BY <1>1, Invariance, PTL

\* The heartbeat ends no connection whose client sent a Ping or a Pong within
\* the timeout, read or not (DecodeStream::poll_next).
THEOREM NoFalseCloses == Spec => NoFalseClose
<1>1. IInv /\ [Next]_vars =>
        [TimesOut => clock >= heard + Timeout /\ \A i \in DOMAIN input : input[i] # "ping"]_vars
  <2> SUFFICES ASSUME IInv, TimesOut
               PROVE  clock >= heard + Timeout /\ \A i \in DOMAIN input : input[i] # "ping"
    OBVIOUS
  <2>1. timer \in Nat /\ timer >= deadline /\ timer <= clock
    BY DEF IInv, Types, TimesOut, TimerFires, Expired
  <2>2. clock >= heard + Timeout
    BY <2>1, Constants DEF IInv, Types, Heartbeat
  <2>3. input = <<>> \/ (input[1] = "half" /\ Len(input) < 2)
    BY DEF TimesOut, PayloadPending, Complete, IInv, Types
  <2>4. \A i \in DOMAIN input : input[i] # "ping"
    BY <2>3 DEF IInv, Types
  <2> QED BY <2>2, <2>4
<1> QED BY <1>1, Invariance, PTL DEF Spec, NoFalseClose

------------------------------------------------------------------------------
(* The handshake.                                                           *)

\* The offer that is chosen is one both know, and none before it is.
LEMMA FirstKnownIsFirst ==
  ASSUME NEW offers \in Seq(STRING), NEW known \in Seq(STRING)
  PROVE  LET protocol == FirstKnown(offers, known) IN
         /\ \A i \in DOMAIN offers : \A j \in DOMAIN known :
              offers[i] = known[j] => \E k \in 1 .. i : protocol = <<offers[k]>>
         /\ \A i \in DOMAIN protocol : \E j \in DOMAIN known : known[j] = protocol[i]
<1> DEFINE both == {i \in DOMAIN offers : \E j \in DOMAIN known : known[j] = offers[i]}
<1>1. DOMAIN offers = 1 .. Len(offers) /\ Len(offers) \in Nat
  BY LenProperties
<1>2. FirstKnown(offers, known) =
        IF both = {} THEN <<>> ELSE <<offers[CHOOSE i \in both : \A j \in both : i <= j]>>
  BY DEF FirstKnown
<1>3. CASE both = {}
  BY <1>2, <1>3
<1>4. CASE both # {}
  <2>1. \E i \in both : \A j \in both : i <= j
    <3>1. both \subseteq Nat
      BY <1>1
    <3> HIDE DEF both
    <3> QED BY <3>1, <1>4, Least
  <2>2. PICK k \in both : (\A j \in both : k <= j) /\ FirstKnown(offers, known) = <<offers[k]>>
    BY <1>2, <1>4, <2>1
  <2>3. \A i \in both : k \in 1 .. i
    BY <1>1, <2>2
  <2> QED BY <2>2, <2>3
<1> QED BY <1>3, <1>4

\* A handshake that succeeds passed every check.
LEMMA HandshakeChecks ==
  ASSUME NEW r, Handshake(r).ok
  PROVE  /\ r.method = "GET" /\ r.header /\ r.upgrade /\ r.key
         /\ r.version \in {"7", "8", "13"}
         /\ Handshake(r).protocol = Selected(r)
<1> DEFINE fails == {i \in DOMAIN Checks(r) : ~Checks(r)[i][1]}
<1>1. Handshake(r) = IF fails = {} THEN [ok |-> TRUE, protocol |-> Selected(r)]
        ELSE [ok |-> FALSE, error |-> Checks(r)[CHOOSE i \in fails : \A j \in fails : i <= j][2]]
  BY DEF Handshake
<1>2. fails = {} /\ Handshake(r).protocol = Selected(r)
  BY <1>1
<1>3. DOMAIN Checks(r) = 1 .. 6
  BY DEF Checks
<1>4. \A i \in 1 .. 6 : Checks(r)[i][1]
  BY <1>2, <1>3
<1>5. /\ Checks(r)[1][1] /\ Checks(r)[2][1] /\ Checks(r)[3][1]
      /\ Checks(r)[5][1] /\ Checks(r)[6][1]
  BY <1>4
<1> QED BY <1>2, <1>5 DEF Checks

\* A WebSocket is opened only for a request that passed every check, and with
\* the client's first offer among the protocols the configuration has
\* (handshake_with_protocols).
THEOREM HandshakesAreRight == Spec => []HandshakeRight
<1> DEFINE Kept == req \in Requests /\ resp = Handshake(req)
<1>1. Init => Kept
  BY DEF Init
<1>2. Kept /\ [Next]_vars => Kept'
  <2> SUFFICES ASSUME Kept, [Next]_vars PROVE UNCHANGED fixed
    BY DEF fixed
  <2> QED BY DEF Next, DecodePoll, Decodes, PayloadFails, PayloadEnds, Parks, Ticks, TimesOut,
       AbandonNext, Encode, QueueError, ChannelError, EncodePoll, DropEncode, Push, Send,
       GetSender, DropSender, CloneQueue, DropClone, DropStream, Arrives, ClientGoes, Tick, vars
<1>3. Kept => HandshakeRight
  <2> SUFFICES ASSUME Kept, resp.ok PROVE HandshakeRight
    BY DEF HandshakeRight
  <2>1. req.offers \in Seq(STRING) /\ Known \in Seq(STRING)
    BY WebSocketAssumption
  <2>2. resp.protocol = FirstKnown(req.offers, Known)
    BY HandshakeChecks DEF Selected
  <2> QED BY <2>1, <2>2, HandshakeChecks, FirstKnownIsFirst DEF HandshakeRight
<1> QED BY <1>1, <1>2, <1>3, PTL DEF Spec

------------------------------------------------------------------------------
(* The order of what is handed out.                                         *)

Messages == [via : {"queue", "sender"}, kind : Kinds \cup {"ping"}, at : Nat]

\* Of one source, what is in S was accepted before what is in T.
Ahead(S, T, via) == \A x \in S, y \in T : x.via = via /\ y.via = via => x.at < y.at

\* s, t and u, in this order, carry what was accepted: InOrder without the
\* sequence they make up.
Flow(s, t, u, via, accepted) ==
  /\ InTurn(s, via) /\ InTurn(t, via) /\ InTurn(u, via)
  /\ Ahead(Range(s), Range(t), via) /\ Ahead(Range(s), Range(u), via)
  /\ Ahead(Range(t), Range(u), via)
  /\ \A x \in Range(s) \cup Range(t) \cup Range(u) : x.via = via => x \in Range(accepted)
  /\ \A x \in Range(accepted) : x.kind # "bad" => x \in Range(s) \cup Range(t) \cup Range(u)

\* What is accepted is numbered by its place.
Numbered(s, via) == \A i \in DOMAIN s : s[i].via = via /\ s[i].at = i - 1

OrderTypes ==
  /\ out \in Seq(Messages) /\ writeBuf \in Seq(Messages)
  /\ queue \in Seq(Messages) /\ rx \in Seq(Messages)
  /\ pushed \in Seq(Messages) /\ sent \in Seq(Messages)
  /\ Numbered(pushed, "queue") /\ Numbered(sent, "sender")
  /\ \A x \in Range(queue) : x.via = "queue"
  /\ \A x \in Range(rx) : x.via = "sender"

OrderInv ==
  /\ OrderTypes
  /\ enc = "dropped" => ~rxOpen
  /\ Flow(out, writeBuf, queue, "queue", pushed)
  /\ enc # "dropped" => Flow(out, writeBuf, rx, "sender", sent)

LEMMA Joined ==
  ASSUME NEW s \in Seq(Messages), NEW t \in Seq(Messages), NEW via
  PROVE  /\ s \o t \in Seq(Messages)
         /\ Range(s \o t) = Range(s) \cup Range(t)
         /\ InTurn(s \o t, via) <=>
              InTurn(s, via) /\ InTurn(t, via) /\ Ahead(Range(s), Range(t), via)
<1> DEFINE p == s \o t
<1>1. /\ p \in Seq(Messages) /\ Len(s) \in Nat /\ Len(t) \in Nat
      /\ DOMAIN p = 1 .. Len(s) + Len(t)
      /\ \A i \in 1 .. Len(s) + Len(t) : p[i] = IF i <= Len(s) THEN s[i] ELSE t[i - Len(s)]
      /\ DOMAIN s = 1 .. Len(s) /\ DOMAIN t = 1 .. Len(t)
  BY ConcatProperties, LenProperties
<1>2. Range(p) = Range(s) \cup Range(t)
  BY RangeConcatenation
<1>3. \A i \in DOMAIN s : i \in DOMAIN p /\ p[i] = s[i] /\ i \in Nat
  BY <1>1
<1>4. \A i \in DOMAIN t : i + Len(s) \in DOMAIN p /\ p[i + Len(s)] = t[i] /\ i \in Nat
  BY <1>1
<1>5. \A i \in DOMAIN s, j \in DOMAIN t : i < j + Len(s)
  BY <1>1
<1>6. \A i \in DOMAIN p : i \in DOMAIN s \/ (i - Len(s) \in DOMAIN t /\ p[i] = t[i - Len(s)])
  BY <1>1
<1> HIDE DEF p
<1>7. ASSUME InTurn(p, via)
      PROVE  InTurn(s, via) /\ InTurn(t, via) /\ Ahead(Range(s), Range(t), via)
  <2>1. InTurn(s, via)
    BY <1>3, <1>7 DEF InTurn
  <2>2. InTurn(t, via)
    <3> SUFFICES ASSUME NEW i \in DOMAIN t, NEW j \in DOMAIN t, t[i].via = via, t[j].via = via, i < j
                 PROVE  t[i].at < t[j].at
      BY DEF InTurn
    <3>1. i + Len(s) < j + Len(s)
      BY <1>1
    <3> QED BY <1>4, <1>7, <3>1 DEF InTurn
  <2>3. Ahead(Range(s), Range(t), via)
    BY <1>3, <1>4, <1>5, <1>7 DEF InTurn, Ahead, Range
  <2> QED BY <2>1, <2>2, <2>3
<1>8. ASSUME InTurn(s, via), InTurn(t, via), Ahead(Range(s), Range(t), via)
      PROVE  InTurn(p, via)
  <2> SUFFICES ASSUME NEW i \in DOMAIN p, NEW j \in DOMAIN p, p[i].via = via, p[j].via = via, i < j
               PROVE  p[i].at < p[j].at
    BY DEF InTurn
  <2>1. i \in Nat /\ j \in Nat
    BY <1>1
  <2>2. CASE j \in DOMAIN s
    <3>1. i \in DOMAIN s
      BY <1>1, <2>1, <2>2
    <3> QED BY <1>3, <1>8, <2>2, <3>1 DEF InTurn
  <2>3. CASE i \in DOMAIN s /\ j \notin DOMAIN s
    <3>1. p[i] \in Range(s) /\ p[j] \in Range(t)
      BY <1>3, <1>6, <2>3 DEF Range
    <3> QED BY <1>8, <3>1 DEF Ahead
  <2>4. CASE i \notin DOMAIN s
    <3>1. j \notin DOMAIN s
      BY <1>1, <2>1, <2>4
    <3>2. i - Len(s) < j - Len(s)
      BY <1>1, <2>1
    <3> QED BY <1>6, <1>8, <2>4, <3>1, <3>2 DEF InTurn
  <2> QED BY <2>2, <2>3, <2>4
<1> QED BY <1>1, <1>2, <1>7, <1>8 DEF p

\* What Flow says of the parts is what InOrder says of the whole.
LEMMA FlowCarries ==
  ASSUME NEW s \in Seq(Messages), NEW t \in Seq(Messages), NEW u \in Seq(Messages),
         NEW via, NEW accepted, Flow(s, t, u, via, accepted)
  PROVE  Carries(s \o t \o u, via, accepted)
<1>1. s \o t \in Seq(Messages) /\ Range(s \o t) = Range(s) \cup Range(t) /\ InTurn(s \o t, via)
  BY Joined DEF Flow
<1> DEFINE p == (s \o t) \o u
<1>2. Ahead(Range(s \o t), Range(u), via)
  BY <1>1 DEF Flow, Ahead
<1>3. Range(p) = Range(s) \cup Range(t) \cup Range(u) /\ InTurn(p, via)
  BY <1>1, <1>2, Joined DEF Flow
<1> HIDE DEF p
<1>4. \A i \in DOMAIN p : p[i].via = via => \E j \in DOMAIN accepted : accepted[j] = p[i]
  BY <1>3 DEF Flow, Range
<1>5. \A j \in DOMAIN accepted : accepted[j].kind # "bad" => \E i \in DOMAIN p : p[i] = accepted[j]
  BY <1>3 DEF Flow, Range
<1> QED BY <1>3, <1>4, <1>5 DEF Carries, p

\* A buffer up to and after a message that cannot be encoded.
LEMMA Split ==
  ASSUME NEW s \in Seq(Messages)
  PROVE  /\ Before(s) \in Seq(Messages) /\ After(s) \in Seq(Messages)
         /\ Range(Before(s)) \subseteq Range(s) /\ Range(After(s)) \subseteq Range(s)
         /\ \A x \in Range(s) : x.kind # "bad" => x \in Range(Before(s)) \cup Range(After(s))
         /\ \A via : InTurn(s, via) =>
              /\ InTurn(Before(s), via) /\ InTurn(After(s), via)
              /\ Ahead(Range(Before(s)), Range(After(s)), via)
<1>1. DOMAIN s = 1 .. Len(s) /\ Len(s) \in Nat /\ \A i \in DOMAIN s : s[i] \in Messages
  BY LenProperties, ElementOfSeq
<1>2. CASE ~HasKind(s, "bad")
  <2>1. Before(s) = s /\ After(s) = <<>> /\ Range(<<>>) = {}
    BY <1>2 DEF Before, After, Range
  <2> QED BY <2>1, <1>1 DEF InTurn, Ahead
<1>3. CASE HasKind(s, "bad")
  <2> DEFINE bads == {i \in DOMAIN s : s[i].kind = "bad"}
  <2>1. PICK l \in bads : \A i \in bads : l <= i
    <3>1. bads # {} /\ bads \subseteq Nat
      BY <1>1, <1>3 DEF HasKind
    <3> HIDE DEF bads
    <3> QED BY <3>1, Least
  <2>2. \E i \in DOMAIN s : s[i].kind = "bad" /\ \A j \in 1 .. i - 1 : s[j].kind # "bad"
    BY <1>1, <2>1
  <2>3. PICK k \in DOMAIN s : k = FirstBad(s) /\ s[k].kind = "bad"
    BY <2>2 DEF FirstBad
  <2>4. k \in Nat /\ k >= 1 /\ k <= Len(s)
    BY <1>1, <2>3
  <2>5. PICK b : b = SubSeq(s, 1, k - 1)
    OBVIOUS
  <2>6. PICK a : a = SubSeq(s, k + 1, Len(s))
    OBVIOUS
  <2>7. Before(s) = b /\ After(s) = a
    BY <1>3, <2>3, <2>5, <2>6 DEF Before, After
  <2>8. /\ b \in Seq(Messages) /\ Len(b) = k - 1 /\ DOMAIN b = 1 .. k - 1
        /\ \A i \in 1 .. k - 1 : b[i] = s[i]
    <3>1. \A i \in 1 .. k - 1 : s[i] \in Messages
      BY <1>1, <2>4
    <3>2. /\ b \in Seq(Messages) /\ Len(b) = IF 1 <= k - 1 THEN (k - 1) - 1 + 1 ELSE 0
          /\ \A i \in 1 .. (k - 1) - 1 + 1 : b[i] = s[1 + i - 1]
      BY <2>4, <2>5, <3>1, SubSeqProperties
    <3>3. Len(b) = k - 1
      BY <2>4, <3>2
    <3>4. \A i \in 1 .. k - 1 : b[i] = s[i]
      BY <2>4, <3>2
    <3> QED BY <3>2, <3>3, <3>4, LenProperties
  <2>9. /\ a \in Seq(Messages) /\ DOMAIN a = 1 .. Len(s) - k
        /\ \A i \in 1 .. Len(s) - k : a[i] = s[i + k]
    <3>1. \A i \in k + 1 .. Len(s) : s[i] \in Messages
      BY <1>1, <2>4
    <3>2. /\ a \in Seq(Messages)
          /\ Len(a) = IF k + 1 <= Len(s) THEN Len(s) - (k + 1) + 1 ELSE 0
          /\ \A i \in 1 .. Len(s) - (k + 1) + 1 : a[i] = s[k + 1 + i - 1]
      BY <1>1, <2>4, <2>6, <3>1, SubSeqProperties
    <3>3. PICK n \in Nat : n = Len(s) /\ k <= n
      BY <1>1, <2>4
    <3>4. n - (k + 1) + 1 = n - k /\ (~(k + 1 <= n) => n - k = 0)
      BY <2>4, <3>3
    <3>5. Len(a) = n - k
      BY <3>2, <3>3, <3>4
    <3>6. \A i \in 1 .. n - k : a[i] = s[k + 1 + i - 1] /\ k + 1 + i - 1 = i + k
      BY <2>4, <3>2, <3>3, <3>4
    <3> QED BY <3>2, <3>3, <3>5, <3>6, LenProperties
  <2>10. \A i \in DOMAIN b : i \in DOMAIN s /\ b[i] = s[i] /\ i < k /\ i \in Nat
    BY <1>1, <2>4, <2>8
  <2>11. \A i \in DOMAIN a : i + k \in DOMAIN s /\ a[i] = s[i + k] /\ k < i + k /\ i \in Nat
    <3>1. PICK n \in Nat : n = Len(s) /\ DOMAIN s = 1 .. n /\ k <= n
      BY <1>1, <2>4
    <3>2. \A i \in 1 .. n - k : i + k \in 1 .. n /\ k < i + k /\ i \in Nat
      BY <2>4, <3>1
    <3>3. DOMAIN a = 1 .. n - k /\ \A i \in 1 .. n - k : a[i] = s[i + k]
      BY <2>9, <3>1
    <3> QED BY <3>1, <3>2, <3>3
  <2>12. \A i \in DOMAIN s : \/ i = k \/ (i \in DOMAIN b /\ b[i] = s[i])
                             \/ (i - k \in DOMAIN a /\ a[i - k] = s[i])
    <3> SUFFICES ASSUME NEW i \in DOMAIN s, i # k, ~(i < k)
                 PROVE  i - k \in 1 .. Len(s) - k /\ i - k + k = i
      BY <1>1, <2>4, <2>8, <2>9
    <3> QED BY <1>1, <2>4
  <2>13. Range(b) \subseteq Range(s) /\ Range(a) \subseteq Range(s)
    BY <2>10, <2>11 DEF Range
  <2>14. \A x \in Range(s) : x.kind # "bad" => x \in Range(b) \cup Range(a)
    BY <2>3, <2>12 DEF Range
  <2>15. ASSUME NEW via, InTurn(s, via)
         PROVE  InTurn(b, via) /\ InTurn(a, via) /\ Ahead(Range(b), Range(a), via)
    <3>1. InTurn(b, via)
      BY <2>10, <2>15 DEF InTurn
    <3>2. InTurn(a, via)
      <4> SUFFICES ASSUME NEW i \in DOMAIN a, NEW j \in DOMAIN a, a[i].via = via, a[j].via = via, i < j
                   PROVE  a[i].at < a[j].at
        BY DEF InTurn
      <4>1. i + k < j + k
        BY <2>4, <2>11
      <4> QED BY <2>11, <2>15, <4>1 DEF InTurn
    <3>3. \A i \in DOMAIN b, j \in DOMAIN a : i < j + k
      BY <2>4, <2>10, <2>11
    <3>4. Ahead(Range(b), Range(a), via)
      BY <2>10, <2>11, <2>15, <3>3 DEF InTurn, Ahead, Range
    <3> QED BY <3>1, <3>2, <3>4
  <2> QED BY <2>7, <2>8, <2>9, <2>13, <2>14, <2>15
<1> QED BY <1>2, <1>3

\* Accepting a message.
LEMMA FlowGrows ==
  ASSUME NEW s \in Seq(Messages), NEW t \in Seq(Messages), NEW u \in Seq(Messages),
         NEW via \in {"queue", "sender"}, NEW accepted \in Seq(Messages), Numbered(accepted, via),
         Flow(s, t, u, via, accepted), NEW kind \in Kinds \cup {"ping"},
         NEW x, x = [via |-> via, kind |-> kind, at |-> Len(accepted)]
  PROVE  /\ Append(u, x) \in Seq(Messages) /\ Range(Append(u, x)) = Range(u) \cup {x}
         /\ Append(accepted, x) \in Seq(Messages) /\ Numbered(Append(accepted, x), via)
         /\ Flow(s, t, Append(u, x), via, Append(accepted, x))
<1>1. PICK o \in Seq(Messages) :
        x \in Messages /\ o = <<x>> /\ Range(o) = {x} /\ InTurn(o, via)
  <2>1. Len(accepted) \in Nat
    BY LenProperties
  <2>2. x \in Messages
    BY <2>1 DEF Messages
  <2>3. PICK o \in Seq(Messages) : o = <<x>> /\ DOMAIN o = {1} /\ o[1] = x
    <3>1. <<x>> \in Seq(Messages)
      BY <2>2
    <3>2. Len(<<x>>) = 1 /\ <<x>>[1] = x
      OBVIOUS
    <3>3. DOMAIN <<x>> = {1}
      BY <3>1, <3>2, LenProperties
    <3> QED BY <3>1, <3>2, <3>3
  <2>4. Range(o) = {x}
    BY <2>3 DEF Range
  <2>5. InTurn(o, via)
    BY <2>3 DEF InTurn
  <2> QED BY <2>2, <2>3, <2>4, <2>5
<1>2. /\ Append(u, x) \in Seq(Messages) /\ Range(Append(u, x)) = Range(u) \cup {x}
      /\ InTurn(Append(u, x), via) <=> InTurn(u, via) /\ Ahead(Range(u), {x}, via)
  <2>1. Append(u, x) = u \o o
    BY <1>1, AppendIsConcat
  <2>2. /\ u \o o \in Seq(Messages) /\ Range(u \o o) = Range(u) \cup Range(o)
        /\ InTurn(u \o o, via) <=> InTurn(u, via) /\ InTurn(o, via) /\ Ahead(Range(u), Range(o), via)
    BY Joined
  <2> QED BY <1>1, <2>1, <2>2
<1>3. /\ Append(accepted, x) \in Seq(Messages)
      /\ Range(Append(accepted, x)) = Range(accepted) \cup {x}
  <2>1. Append(accepted, x) = accepted \o o
    BY <1>1, AppendIsConcat
  <2>2. accepted \o o \in Seq(Messages) /\ Range(accepted \o o) = Range(accepted) \cup Range(o)
    BY Joined
  <2> QED BY <1>1, <2>1, <2>2
<1>4. Numbered(Append(accepted, x), via)
  <2>1. /\ DOMAIN Append(accepted, x) = 1 .. Len(accepted) + 1 /\ Len(accepted) \in Nat
        /\ \A i \in 1 .. Len(accepted) : Append(accepted, x)[i] = accepted[i]
        /\ Append(accepted, x)[Len(accepted) + 1] = x /\ DOMAIN accepted = 1 .. Len(accepted)
    BY <1>1, AppendProperties, LenProperties
  <2> SUFFICES ASSUME NEW i \in DOMAIN Append(accepted, x)
               PROVE  Append(accepted, x)[i].via = via /\ Append(accepted, x)[i].at = i - 1
    BY DEF Numbered
  <2>2. CASE i \in DOMAIN accepted
    BY <2>1, <2>2 DEF Numbered
  <2>3. CASE i = Len(accepted) + 1
    BY <2>1, <2>3
  <2> QED BY <2>1, <2>2, <2>3
<1>5. \A y \in Range(accepted) : y.at < x.at
  <2> SUFFICES ASSUME NEW i \in DOMAIN accepted PROVE accepted[i].at < Len(accepted)
    BY DEF Range
  <2>1. i \in 1 .. Len(accepted) /\ Len(accepted) \in Nat /\ accepted[i].at = i - 1
    BY LenProperties DEF Numbered
  <2> QED BY <2>1
<1>6. /\ Ahead(Range(s), {x}, via) /\ Ahead(Range(t), {x}, via) /\ Ahead(Range(u), {x}, via)
  BY <1>5 DEF Ahead, Flow
<1>7. Ahead(Range(s), Range(u) \cup {x}, via) /\ Ahead(Range(t), Range(u) \cup {x}, via)
  BY <1>6 DEF Ahead, Flow
<1>8. InTurn(Append(u, x), via)
  BY <1>2, <1>6 DEF Flow
<1>9. Flow(s, t, Append(u, x), via, Append(accepted, x))
  BY <1>2, <1>3, <1>7, <1>8 DEF Flow
<1> QED BY <1>2, <1>3, <1>4, <1>9

\* Messages of the other source change nothing.
LEMMA FlowSkips ==
  ASSUME NEW s \in Seq(Messages), NEW t \in Seq(Messages), NEW u \in Seq(Messages),
         NEW z \in Seq(Messages), NEW via, NEW accepted, Flow(s, t, u, via, accepted),
         \A x \in Range(z) : x.via # via
  PROVE  Flow(s, t \o z, u, via, accepted)
<1>1. InTurn(z, via) /\ \A S : Ahead(S, Range(z), via) /\ Ahead(Range(z), S, via)
  BY DEF InTurn, Ahead, Range
<1>2. Range(t \o z) = Range(t) \cup Range(z) /\ InTurn(t \o z, via)
  BY <1>1, Joined DEF Flow
<1> QED BY <1>1, <1>2 DEF Flow, Ahead

\* The last part is drained, up to a message that cannot be encoded.
LEMMA FlowDrains ==
  ASSUME NEW s \in Seq(Messages), NEW t \in Seq(Messages), NEW u \in Seq(Messages),
         NEW via, NEW accepted, Flow(s, t, u, via, accepted)
  PROVE  Flow(s, t \o Before(u), After(u), via, accepted)
<1>1. PICK b \in Seq(Messages), a \in Seq(Messages) :
        /\ b = Before(u) /\ a = After(u)
        /\ Range(b) \subseteq Range(u) /\ Range(a) \subseteq Range(u)
        /\ \A x \in Range(u) : x.kind # "bad" => x \in Range(b) \cup Range(a)
        /\ InTurn(b, via) /\ InTurn(a, via) /\ Ahead(Range(b), Range(a), via)
  BY Split DEF Flow
<1>2. Ahead(Range(t), Range(b), via) /\ Ahead(Range(s), Range(b), via)
  BY <1>1 DEF Flow, Ahead
<1>3. Range(t \o b) = Range(t) \cup Range(b) /\ InTurn(t \o b, via)
  BY <1>1, <1>2, Joined DEF Flow
<1>4. /\ Ahead(Range(s), Range(t) \cup Range(b), via) /\ Ahead(Range(s), Range(a), via)
      /\ Ahead(Range(t) \cup Range(b), Range(a), via)
  BY <1>1, <1>2 DEF Flow, Ahead
<1>5. Flow(s, t \o b, a, via, accepted)
  BY <1>1, <1>3, <1>4 DEF Flow
<1> QED BY <1>1, <1>5

\* The buffer is handed to the connection.
LEMMA FlowFlushes ==
  ASSUME NEW s \in Seq(Messages), NEW t \in Seq(Messages), NEW via, NEW accepted,
         Flow(s, t, <<>>, via, accepted)
  PROVE  Flow(s \o t, <<>>, <<>>, via, accepted)
<1>1. Range(s \o t) = Range(s) \cup Range(t) /\ InTurn(s \o t, via)
  BY Joined DEF Flow
<1>2. Range(<<>>) = {} /\ InTurn(<<>>, via)
  BY DEF Range, InTurn
<1> QED BY <1>1, <1>2 DEF Flow, Ahead

LEMMA PushesInOrder ==
  ASSUME OrderInv, NEW kind \in Kinds \cup {"ping"}, PushLocal(kind),
         UNCHANGED <<rx, rxOpen, writeBuf, out, sent>>
  PROVE  OrderInv'
<1>1. PICK x : /\ x = [via |-> "queue", kind |-> kind, at |-> Len(pushed)]
               /\ queue' = Append(queue, x) /\ pushed' = Append(pushed, x)
  BY DEF PushLocal
<1>2. enc = "dropped" <=> enc' = "dropped"
  BY DEF PushLocal, WakeQueue
<1>3. /\ queue' \in Seq(Messages) /\ Range(queue') = Range(queue) \cup {x}
      /\ pushed' \in Seq(Messages) /\ Numbered(pushed', "queue")
      /\ Flow(out, writeBuf, queue', "queue", pushed')
  BY <1>1, FlowGrows DEF OrderInv, OrderTypes
<1>4. \A y \in Range(queue') : y.via = "queue"
  BY <1>1, <1>3 DEF OrderInv, OrderTypes
<1>5. OrderTypes'
  BY <1>3, <1>4 DEF OrderInv, OrderTypes, Numbered
<1>6. enc' # "dropped" => Flow(out', writeBuf', rx', "sender", sent')
  <2>1. rx' = rx /\ writeBuf' = writeBuf /\ out' = out /\ sent' = sent
    OBVIOUS
  <2> QED BY <1>2, <2>1 DEF OrderInv
<1>7. Flow(out', writeBuf', queue', "queue", pushed')
  BY <1>3
<1>8. enc' = "dropped" => ~rxOpen'
  BY <1>2 DEF OrderInv
<1> QED BY <1>5, <1>6, <1>7, <1>8 DEF OrderInv

\* What a poll that finds no error in the queue flushes.
LEMMA AllInOrder ==
  ASSUME OrderInv, ~HasKind(queue, "bad"), enc = "ready"
  PROVE  /\ FlushesAll \in Seq(Messages)
         /\ Flow(out, FlushesAll, <<>>, "queue", pushed)
         /\ Flow(out, FlushesAll, After(rx), "sender", sent)
         /\ After(rx) \in Seq(Messages) /\ Range(After(rx)) \subseteq Range(rx)
<1>1. Before(queue) = queue /\ After(queue) = <<>>
  BY DEF Before, After
<1>2. PICK t \in Seq(Messages) : t = writeBuf \o queue
  BY Joined DEF OrderInv, OrderTypes
<1>3. PICK b \in Seq(Messages), a \in Seq(Messages) :
        b = Before(rx) /\ a = After(rx) /\ Range(b) \subseteq Range(rx) /\ Range(a) \subseteq Range(rx)
  BY Split DEF OrderInv, OrderTypes
<1>4. FlushesAll = t \o b /\ t \o b \in Seq(Messages) /\ <<>> \in Seq(Messages)
  BY <1>2, <1>3, Joined DEF FlushesAll
<1>5. Flow(out, t, <<>>, "queue", pushed)
  BY <1>1, <1>2, FlowDrains DEF OrderInv, OrderTypes
<1>6. Flow(out, t \o b, <<>>, "queue", pushed)
  BY <1>3, <1>4, <1>5, FlowSkips DEF OrderInv, OrderTypes
<1>7. Flow(out, t, rx, "sender", sent)
  BY <1>2, FlowSkips DEF OrderInv, OrderTypes
<1>8. Flow(out, t \o b, a, "sender", sent)
  BY <1>3, <1>7, FlowDrains DEF OrderInv, OrderTypes
<1> QED BY <1>3, <1>4, <1>6, <1>8

LEMMA InitOrder == Init => OrderInv
<1> SUFFICES ASSUME Init PROVE OrderInv
  OBVIOUS
<1>1. /\ out = <<>> /\ writeBuf = <<>> /\ queue = <<>> /\ rx = <<>> /\ pushed = <<>> /\ sent = <<>>
  BY DEF Init
<1>2. Range(<<>>) = {} /\ DOMAIN <<>> = {} /\ <<>> \in Seq(Messages)
  BY DEF Range
<1>3. \A via : Flow(<<>>, <<>>, <<>>, via, <<>>)
  BY <1>2 DEF Flow, InTurn, Ahead
<1>4. OrderTypes
  BY <1>1, <1>2 DEF OrderTypes, Numbered
<1>5. enc = "dropped" => ~rxOpen
  BY DEF Init
<1>6. Flow(out, writeBuf, queue, "queue", pushed) /\ Flow(out, writeBuf, rx, "sender", sent)
  BY <1>1, <1>3
<1> QED BY <1>4, <1>5, <1>6 DEF OrderInv

\* The steps that move no message.
LEMMA OrderKept ==
  OrderInv /\ UNCHANGED <<queue, rx, rxOpen, writeBuf, out, pushed, sent>>
           /\ (enc = "dropped" <=> enc' = "dropped") => OrderInv'
<1> SUFFICES ASSUME OrderInv, enc = "dropped" <=> enc' = "dropped",
                    UNCHANGED <<queue, rx, rxOpen, writeBuf, out, pushed, sent>>
             PROVE  OrderInv'
  OBVIOUS
<1>1. /\ queue' = queue /\ rx' = rx /\ writeBuf' = writeBuf /\ out' = out
      /\ pushed' = pushed /\ sent' = sent
  OBVIOUS
<1>2. OrderTypes'
  BY <1>1 DEF OrderInv, OrderTypes, Numbered
<1> QED BY <1>1, <1>2 DEF OrderInv

LEMMA NextOrder == OrderInv /\ [Next]_vars => OrderInv'
<1> SUFFICES ASSUME OrderInv, [Next]_vars PROVE OrderInv'
  OBVIOUS
<1>1. CASE Ticks
  <2>1. CASE ServerPings
    BY <1>1, <2>1, PushesInOrder DEF Ticks
  <2>2. CASE ~ServerPings
    BY <1>1, <2>2, OrderKept DEF Ticks
  <2> QED BY <2>1, <2>2
<1>2. CASE TimesOut
  BY <1>2, PushesInOrder DEF TimesOut, Kinds
<1>3. ASSUME NEW kind \in Kinds, Push(kind) PROVE OrderInv'
  BY <1>3, PushesInOrder DEF Push
<1>4. ASSUME NEW kind \in Kinds, Send(kind) PROVE OrderInv'
  <2>1. UNCHANGED <<queue, rxOpen, writeBuf, out, pushed>> /\ (enc = "dropped" <=> enc' = "dropped")
    BY <1>4 DEF Send
  <2>2. CASE UNCHANGED <<rx, sent>>
    BY <2>1, <2>2, OrderKept
  <2>3. CASE rxOpen /\ ~UNCHANGED <<rx, sent>>
    <3>1. PICK x : /\ x = [via |-> "sender", kind |-> kind, at |-> Len(sent)]
                   /\ rx' = Append(rx, x) /\ sent' = Append(sent, x)
      BY <1>4, <2>3 DEF Send
    <3>2. CASE enc # "dropped"
      <4>1. /\ rx' \in Seq(Messages) /\ Range(rx') = Range(rx) \cup {x}
            /\ sent' \in Seq(Messages) /\ Numbered(sent', "sender")
            /\ Flow(out, writeBuf, rx', "sender", sent')
        BY <3>1, <3>2, FlowGrows DEF OrderInv, OrderTypes
      <4>2. \A y \in Range(rx') : y.via = "sender"
        BY <3>1, <4>1 DEF OrderInv, OrderTypes
      <4>3. queue' = queue /\ writeBuf' = writeBuf /\ out' = out /\ pushed' = pushed
        BY <2>1
      <4>4. OrderTypes'
        BY <4>1, <4>2, <4>3 DEF OrderInv, OrderTypes, Numbered
      <4>5. enc' = "dropped" => ~rxOpen'
        BY <2>1 DEF OrderInv
      <4> QED BY <4>1, <4>3, <4>4, <4>5 DEF OrderInv
    <3>3. CASE enc = "dropped"
      BY <2>3, <3>3 DEF OrderInv
    <3> QED BY <3>2, <3>3
  <2> QED BY <1>4, <2>2, <2>3 DEF Send
<1>5. CASE QueueError
  <2>1. PICK b \in Seq(Messages), a \in Seq(Messages) :
          /\ b = Before(queue) /\ a = After(queue)
          /\ Range(b) \subseteq Range(queue) /\ Range(a) \subseteq Range(queue)
    BY Split DEF OrderInv, OrderTypes
  <2>2. PICK t \in Seq(Messages) : t = writeBuf \o b
    BY <2>1, Joined DEF OrderInv, OrderTypes
  <2>3. /\ enc = "ready" /\ queue' = a /\ writeBuf' = t /\ rx' = rx /\ out' = out
        /\ pushed' = pushed /\ sent' = sent /\ enc' = "ready"
    BY <1>5, <2>1, <2>2 DEF QueueError, DrainQueue
  <2>4. Flow(out, t, a, "queue", pushed)
    BY <2>1, <2>2, FlowDrains DEF OrderInv, OrderTypes
  <2>5. Flow(out, t, rx, "sender", sent)
    BY <2>1, <2>2, <2>3, FlowSkips DEF OrderInv, OrderTypes
  <2>6. OrderTypes'
    BY <2>1, <2>2, <2>3 DEF OrderInv, OrderTypes, Numbered
  <2> QED BY <2>3, <2>4, <2>5, <2>6 DEF OrderInv
<1>6. CASE ChannelError
  <2>1. PICK t \in Seq(Messages), a \in Seq(Messages) :
          /\ t = FlushesAll /\ a = After(rx) /\ Range(a) \subseteq Range(rx)
          /\ Flow(out, t, <<>>, "queue", pushed) /\ Flow(out, t, a, "sender", sent)
    BY <1>6, AllInOrder DEF ChannelError
  <2>2. /\ queue' = <<>> /\ writeBuf' = t /\ rx' = a /\ out' = out
        /\ pushed' = pushed /\ sent' = sent /\ enc' = "ready"
    BY <1>6, <2>1 DEF ChannelError, DrainQueue, After
  <2>3. Range(<<>>) = {} /\ <<>> \in Seq(Messages)
    BY DEF Range
  <2>4. OrderTypes'
    BY <2>1, <2>2, <2>3 DEF OrderInv, OrderTypes, Numbered
  <2> QED BY <2>1, <2>2, <2>4 DEF OrderInv
<1>7. CASE EncodePoll
  <2>1. PICK t \in Seq(Messages) :
          /\ t = FlushesAll
          /\ Flow(out, t, <<>>, "queue", pushed) /\ Flow(out, t, <<>>, "sender", sent)
    BY <1>7, AllInOrder DEF EncodePoll, After
  <2>2. PICK o \in Seq(Messages) : o = out \o t
    BY Joined DEF OrderInv, OrderTypes
  <2>3. /\ queue' = <<>> /\ writeBuf' = <<>> /\ rx' = <<>> /\ out' = o
        /\ pushed' = pushed /\ sent' = sent /\ enc' # "dropped"
    BY <1>7, <2>1, <2>2 DEF EncodePoll, DrainQueue, After, AfterFlush
  <2>4. Range(<<>>) = {} /\ <<>> \in Seq(Messages)
    BY DEF Range
  <2>5. OrderTypes'
    BY <2>2, <2>3, <2>4 DEF OrderInv, OrderTypes, Numbered
  <2>6. Flow(o, <<>>, <<>>, "queue", pushed) /\ Flow(o, <<>>, <<>>, "sender", sent)
    BY <2>1, <2>2, FlowFlushes DEF OrderInv, OrderTypes
  <2> QED BY <2>3, <2>5, <2>6 DEF OrderInv
<1>8. CASE DropEncode
  <2>1. /\ queue' = queue /\ rx' = <<>> /\ writeBuf' = writeBuf /\ out' = out
        /\ pushed' = pushed /\ sent' = sent /\ enc' = "dropped" /\ ~rxOpen'
    BY <1>8 DEF DropEncode
  <2>2. Range(<<>>) = {} /\ <<>> \in Seq(Messages)
    BY DEF Range
  <2>3. OrderTypes'
    BY <2>1, <2>2 DEF OrderInv, OrderTypes, Numbered
  <2> QED BY <2>1, <2>3 DEF OrderInv
<1>9. CASE Decodes \/ PayloadFails \/ PayloadEnds \/ Parks \/ AbandonNext
  BY <1>9, OrderKept DEF Decodes, PayloadFails, PayloadEnds, Parks, AbandonNext, encodeVars
<1>10. CASE GetSender \/ DropSender \/ CloneQueue \/ DropClone \/ DropStream
  BY <1>10, OrderKept
  DEF GetSender, DropSender, CloneQueue, DropClone, DropStream, WakesOnDrop, encodeVars
<1>11. ASSUME NEW piece \in Pieces, Arrives(piece) PROVE OrderInv'
  BY <1>11, OrderKept DEF Arrives, encodeVars
<1>12. CASE ClientGoes \/ Tick \/ UNCHANGED vars
  BY <1>12, OrderKept DEF ClientGoes, Tick, vars, encodeVars
<1> QED
  BY <1>1, <1>2, <1>3, <1>4, <1>5, <1>6, <1>7, <1>8, <1>9, <1>10, <1>11, <1>12
  DEF Next, DecodePoll, Encode

\* What the program pushes, and what a send accepts, is handed to the
\* connection once and in the order of its source, through errors and
\* Closes; only what cannot be encoded is lost (EncodeStream::poll_next).
THEOREM HandedOutInOrder == Spec => []InOrder
<1>1. OrderInv => InOrder
  BY FlowCarries DEF OrderInv, OrderTypes, InOrder
<1> QED BY <1>1, InitOrder, NextOrder, PTL DEF Spec
=============================================================================
