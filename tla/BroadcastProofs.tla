--------------------------- MODULE BroadcastProofs ---------------------------
(***************************************************************************)
(* Theorems about Broadcast.tla, for any number of actors and calls and    *)
(* every build.  IInv is the inductive invariant.                          *)
(***************************************************************************)
EXTENDS Broadcast, Queues

\* An actor has a message in hand exactly while it handles.
InHand == \A a \in Actor : pc[a] = "handle" <=> cur[a] # NoCall

\* A call that was not made has no copies.
Unmade == \A c \in Call, a \in Actor : call[c] = "new" => part[c][a] = "none"

\* A copy for an actor that was gone is never accepted, nor found waiting for
\* room, which is why its send cannot time out.
Refusals == \A c \in Call, a \in Actor :
  /\ part[c][a] = "Closed" => pc[a] = "gone"
  /\ a \in dead[c] => /\ pc[a] = "gone"
                      /\ part[c][a] \in {"none", "sending", "Closed", "dropped"}

IInv == TypeOK /\ InHand /\ Unmade /\ Refusals /\ ResultMatchesFate

LEMMA InitInv == Init => IInv
<1> SUFFICES ASSUME Init PROVE IInv
  OBVIOUS
<1>1. \A a \in Actor : queue[a] = <<>> /\ queue[a] \in Seq(Call) /\ Len(queue[a]) = 0
  BY DEF Init
<1>2. TypeOK
  BY <1>1, GroupAssumption DEF Init, TypeOK, Capacity, Pending, Results
<1>3. InHand /\ Unmade /\ Refusals
  BY DEF Init, InHand, Unmade, Refusals
<1>4. \A c \in Call, a \in Actor : ~Held(c, a) /\ ~Queued(c, a)
  BY <1>1, GroupAssumption DEF Init, Held, Queued, Range
<1>5. \A a \in Actor : IsInjective(queue[a])
  BY <1>1 DEF IsInjective
<1>6. ResultMatchesFate
  BY <1>4, <1>5 DEF Init, ResultMatchesFate, OneCopy, Fate
<1> QED BY <1>2, <1>3, <1>6 DEF IInv

------------------------------------------------------------------------------
(* The callers' steps.                                                      *)

LEMMA StartInv == ASSUME IInv, NEW c \in Call, Start(c) PROVE IInv'
<1>1. /\ \A d \in Call \ {c} : part'[d] = part[d] /\ dead'[d] = dead[d] /\ call'[d] = call[d]
      /\ \A a \in Actor : part'[c][a] \in {"none", "sending"} /\ part[c][a] = "none"
      /\ \A a \in dead'[c] : pc[a] = "gone"
      /\ call'[c] # "new"
  BY DEF IInv, TypeOK, Start, Unmade
<1>2. TypeOK'
  BY DEF IInv, TypeOK, Start, Pending, actorVars
<1>3. InHand' /\ Unmade'
  BY <1>1 DEF IInv, InHand, Unmade, Start, actorVars
<1>4. Refusals'
  BY <1>1 DEF IInv, Refusals, Start, actorVars
<1>5. ResultMatchesFate'
  BY <1>1 DEF IInv, ResultMatchesFate, OneCopy, Fate, Start, actorVars, Held, Queued
<1> QED BY <1>2, <1>3, <1>4, <1>5 DEF IInv

\* What becomes of one copy's future changes only that.
LEMMA BecomesOne ==
  ASSUME TypeOK, NEW c \in Call, NEW a \in Actor, NEW v \in Pending \cup Results,
         Becomes(c, a, v)
  PROVE  /\ part' \in [Call -> [Actor -> {"none", "dropped"} \cup Pending \cup Results]]
         /\ part'[c][a] = v
         /\ \A d \in Call, b \in Actor : d # c \/ b # a => part'[d][b] = part[d][b]
  BY DEF TypeOK, Becomes

LEMMA PollSendInv ==
  ASSUME IInv, NEW c \in Call, NEW a \in Actor, PollSend(c, a) PROVE IInv'
<1>1. CASE Enters(c, a) /\ Becomes(c, a, "waiting")
  <2>1. /\ queue[a] \in Seq(Call) /\ IsInjective(queue[a]) /\ c \notin Range(queue[a])
        /\ cur[a] # c /\ runs[c][a] = 0 /\ part[c][a] \in {"sending", "full"}
    BY DEF IInv, TypeOK, ResultMatchesFate, OneCopy, Fate, PollSend, Held, Queued
  <2>2. /\ queue'[a] = Append(queue[a], c)
        /\ \A b \in Actor \ {a} : queue'[b] = queue[b]
        /\ DOMAIN queue' = Actor /\ queue' = [queue EXCEPT ![a] = Append(@, c)]
    BY <1>1 DEF IInv, TypeOK, Enters
  <2>3. /\ IsInjective(queue'[a]) /\ Range(queue'[a]) = Range(queue[a]) \cup {c}
        /\ queue'[a] \in Seq(Call) /\ Len(queue'[a]) = Len(queue[a]) + 1
    BY <2>1, <2>2, AppendOne, AppendProperties
  <2>4. /\ part' \in [Call -> [Actor -> {"none", "dropped"} \cup Pending \cup Results]]
        /\ part'[c][a] = "waiting"
        /\ \A d \in Call, b \in Actor : d # c \/ b # a => part'[d][b] = part[d][b]
    BY <1>1, BecomesOne DEF IInv, Pending
  <2>5. UNCHANGED <<call, dead, runs, actorVars, closes>> /\ pc[a] # "gone"
    BY <1>1 DEF PollSend, Enters
  <2>6. TypeOK'
    <3>1. queue' \in [Actor -> Seq(Call)]
      BY <2>2, <2>3 DEF IInv, TypeOK
    <3>2. \A b \in Actor : Mpsc \/ Len(queue'[b]) <= Capacity
      <4>1. Mpsc \/ Len(queue[a]) < Capacity
        BY <1>1 DEF Enters, HasRoom
      <4>2. Len(queue[a]) \in Nat /\ Capacity \in Nat
        BY <2>1, LenProperties, GroupAssumption DEF Capacity
      <4> QED BY <2>2, <2>3, <4>1, <4>2 DEF IInv, TypeOK
    <3> QED BY <2>4, <2>5, <3>1, <3>2 DEF IInv, TypeOK, actorVars
  <2>7. InHand' /\ Unmade' /\ Refusals'
    <3>1. call[c] # "new"
      BY <2>1 DEF IInv, Unmade
    <3>2. a \notin dead[c]
      BY <2>5 DEF IInv, Refusals
    <3> QED BY <2>4, <2>5, <3>1, <3>2 DEF IInv, InHand, Unmade, Refusals, actorVars
  <2>8. ResultMatchesFate'
    <3>1. \A d \in Call, b \in Actor : d # c \/ b # a =>
            (Queued(d, b)' <=> Queued(d, b)) /\ (Held(d, b)' <=> Held(d, b))
      BY <2>2, <2>3, <2>5 DEF Queued, Held, actorVars
    <3>2. Queued(c, a)' /\ Held(c, a)' /\ cur'[a] # c
      BY <2>1, <2>3, <2>5 DEF Queued, Held, actorVars
    <3>3. \A b \in Actor : IsInjective(queue'[b])
      BY <2>2, <2>3 DEF IInv, ResultMatchesFate, OneCopy, Fate
    <3> QED BY <2>1, <2>4, <2>5, <3>1, <3>2, <3>3 DEF IInv, ResultMatchesFate, OneCopy, Fate, actorVars
  <2> QED BY <2>6, <2>7, <2>8 DEF IInv
<1>2. CASE /\ UNCHANGED queue
           /\ \/ pc[a] = "gone" /\ Becomes(c, a, "Closed")
              \/ pc[a] # "gone" /\ Becomes(c, a, "full")
  <2>1. PICK v \in {"Closed", "full"} :
          Becomes(c, a, v) /\ (v = "Closed" <=> pc[a] = "gone")
    BY <1>2
  <2>2. /\ part' \in [Call -> [Actor -> {"none", "dropped"} \cup Pending \cup Results]]
        /\ part'[c][a] = v
        /\ \A d \in Call, b \in Actor : d # c \/ b # a => part'[d][b] = part[d][b]
    BY <2>1, BecomesOne DEF IInv, Pending, Results
  <2>3. UNCHANGED <<call, dead, runs, queue, actorVars, closes>>
        /\ part[c][a] \in {"sending", "full"}
    BY <1>2 DEF PollSend
  <2>4. TypeOK'
    BY <2>2, <2>3 DEF IInv, TypeOK, actorVars
  <2>5. InHand' /\ Unmade' /\ Refusals'
    <3>1. call[c] # "new"
      BY <2>3 DEF IInv, Unmade
    <3> QED BY <2>1, <2>2, <2>3, <3>1 DEF IInv, InHand, Unmade, Refusals, actorVars
  <2>6. ResultMatchesFate'
    BY <2>1, <2>2, <2>3 DEF IInv, ResultMatchesFate, OneCopy, Fate, Held, Queued, actorVars
  <2> QED BY <2>4, <2>5, <2>6 DEF IInv
<1> QED BY <1>1, <1>2 DEF PollSend

LEMMA TimesOutInv ==
  ASSUME IInv, NEW c \in Call, NEW a \in Actor, TimesOut(c, a) PROVE IInv'
<1>1. /\ part' \in [Call -> [Actor -> {"none", "dropped"} \cup Pending \cup Results]]
      /\ part'[c][a] = "Timeout"
      /\ \A d \in Call, b \in Actor : d # c \/ b # a => part'[d][b] = part[d][b]
  BY BecomesOne DEF IInv, TimesOut, Pending, Results
<1>2. UNCHANGED <<call, dead, runs, queue, actorVars, closes>> /\ part[c][a] = "full"
  BY DEF TimesOut, Expires
<1>3. TypeOK'
  BY <1>1, <1>2 DEF IInv, TypeOK, actorVars
<1>4. InHand' /\ Unmade' /\ Refusals'
  <2>1. call[c] # "new" /\ a \notin dead[c]
    BY <1>2 DEF IInv, Unmade, Refusals
  <2> QED BY <1>1, <1>2, <2>1 DEF IInv, InHand, Unmade, Refusals, actorVars
<1>5. ResultMatchesFate'
  BY <1>1, <1>2 DEF IInv, ResultMatchesFate, OneCopy, Fate, Held, Queued, actorVars
<1> QED BY <1>3, <1>4, <1>5 DEF IInv

LEMMA DropCallInv == ASSUME IInv, NEW c \in Call, DropCall(c) PROVE IInv'
<1>1. /\ \A d \in Call \ {c} : part'[d] = part[d] /\ call'[d] = call[d]
      /\ \A a \in Actor : part'[c][a] = "dropped" \/ part'[c][a] = part[c][a]
      /\ call[c] # "new" /\ call'[c] # "new"
  BY DEF IInv, TypeOK, DropCall
<1>2. UNCHANGED <<dead, runs, queue, actorVars, closes>>
  BY DEF DropCall
<1>3. TypeOK'
  BY <1>2 DEF IInv, TypeOK, DropCall, actorVars
<1>4. InHand' /\ Unmade' /\ Refusals'
  BY <1>1, <1>2 DEF IInv, InHand, Unmade, Refusals, actorVars
<1>5. ResultMatchesFate'
  BY <1>1, <1>2 DEF IInv, ResultMatchesFate, OneCopy, Fate, Held, Queued, actorVars
<1> QED BY <1>3, <1>4, <1>5 DEF IInv

------------------------------------------------------------------------------
(* The actors' steps.                                                       *)

LEMMA OnStartInv == ASSUME IInv, NEW a \in Actor, OnStart(a) PROVE IInv'
<1>1. /\ UNCHANGED <<callVars, runs, queue, cur, closes>>
      /\ \A b \in Actor : /\ pc'[b] = "gone" <=> pc[b] = "gone"
                          /\ pc'[b] = "handle" <=> pc[b] = "handle"
  BY DEF IInv, TypeOK, OnStart
<1>2. TypeOK'
  BY DEF IInv, TypeOK, OnStart, callVars
<1>3. InHand' /\ Unmade' /\ Refusals' /\ ResultMatchesFate'
  BY <1>1 DEF IInv, InHand, Unmade, Refusals, ResultMatchesFate, OneCopy, Fate, Held, Queued, callVars
<1> QED BY <1>2, <1>3 DEF IInv

LEMMA TakeCloseInv == ASSUME IInv, NEW a \in Actor, TakeClose(a) PROVE IInv'
<1>1. /\ UNCHANGED <<callVars, runs, queue, cur>>
      /\ \A b \in Actor : /\ pc'[b] = "gone" <=> pc[b] = "gone"
                          /\ pc'[b] = "handle" <=> pc[b] = "handle"
  BY DEF IInv, TypeOK, TakeClose
<1>2. TypeOK'
  BY GroupAssumption DEF IInv, TypeOK, TakeClose, callVars
<1>3. InHand' /\ Unmade' /\ Refusals' /\ ResultMatchesFate'
  BY <1>1 DEF IInv, InHand, Unmade, Refusals, ResultMatchesFate, OneCopy, Fate, Held, Queued, callVars
<1> QED BY <1>2, <1>3 DEF IInv

LEMMA RecvInv == ASSUME IInv, NEW a \in Actor, Recv(a) PROVE IInv'
<1>1. /\ queue[a] \in Seq(Call) /\ IsInjective(queue[a]) /\ queue[a] # <<>>
      /\ pc[a] = "recv" /\ cur[a] = NoCall
  BY DEF IInv, TypeOK, ResultMatchesFate, OneCopy, Fate, InHand, Recv
<1>2. PICK c \in Call : c = Head(queue[a])
  BY <1>1, HeadTailProperties
<1>3. /\ IsInjective(Tail(queue[a])) /\ Range(Tail(queue[a])) = Range(queue[a]) \ {c}
      /\ c \in Range(queue[a])
  BY <1>1, <1>2, TakeOne
<1>4. /\ queue' \in [Actor -> Seq(Call)]
      /\ queue'[a] = Tail(queue[a]) /\ Len(queue'[a]) = Len(queue[a]) - 1
      /\ \A b \in Actor \ {a} : queue'[b] = queue[b]
  <2>1. Tail(queue[a]) \in Seq(Call) /\ Len(Tail(queue[a])) = Len(queue[a]) - 1
    BY <1>1, HeadTailProperties
  <2> QED BY <2>1 DEF IInv, TypeOK, Recv
<1>5. /\ pc'[a] = "handle" /\ cur'[a] = c
      /\ \A b \in Actor \ {a} : pc'[b] = pc[b] /\ cur'[b] = cur[b]
      /\ UNCHANGED <<callVars, runs, closes>>
  BY <1>2 DEF IInv, TypeOK, Recv
<1>6. TypeOK'
  <2>1. \A b \in Actor : Mpsc \/ Len(queue'[b]) <= Capacity
    <3>1. Len(queue[a]) \in Nat /\ Capacity \in Nat
      BY <1>1, LenProperties, GroupAssumption DEF Capacity
    <3>2. \A b \in Actor : Mpsc \/ Len(queue[b]) <= Capacity
      BY DEF IInv, TypeOK
    <3>3. Mpsc \/ Len(queue'[a]) <= Capacity
      BY <1>4, <3>1, <3>2
    <3> QED BY <1>4, <3>2, <3>3
  <2>2. pc' \in [Actor -> {"start", "recv", "handle", "stop", "gone"}]
    BY DEF IInv, TypeOK, Recv
  <2>3. cur' \in [Actor -> Call \cup {NoCall}]
    BY <1>2 DEF IInv, TypeOK, Recv
  <2> QED BY <1>4, <1>5, <2>1, <2>2, <2>3 DEF IInv, TypeOK, callVars
<1>7. InHand' /\ Unmade' /\ Refusals'
  BY <1>1, <1>5, GroupAssumption DEF IInv, InHand, Unmade, Refusals, callVars
<1>8. ResultMatchesFate'
  <2>1. \A d \in Call, b \in Actor : Held(d, b)' <=> Held(d, b)
    BY <1>1, <1>3, <1>4, <1>5, GroupAssumption DEF Held, Queued
  <2>2. \A d \in Call, b \in Actor : ~(Queued(d, b) /\ cur[b] = d)'
    <3>1. \A d \in Call : ~(d \in Range(queue'[a]) /\ cur'[a] = d)
      BY <1>3, <1>4, <1>5
    <3>2. \A d \in Call, b \in Actor \ {a} : ~(d \in Range(queue'[b]) /\ cur'[b] = d)
      BY <1>4, <1>5 DEF IInv, ResultMatchesFate, OneCopy, Fate, Queued
    <3> QED BY <3>1, <3>2 DEF Queued
  <2>3. \A b \in Actor : IsInjective(queue'[b])
    BY <1>2, <1>3, <1>4 DEF IInv, ResultMatchesFate, OneCopy, Fate
  <2>4. \A b \in Actor : pc[b] = "gone" => pc'[b] = "gone"
    BY <1>1, <1>5
  <2> QED BY <1>5, <2>1, <2>2, <2>3, <2>4 DEF IInv, ResultMatchesFate, OneCopy, Fate, callVars
<1> QED BY <1>6, <1>7, <1>8 DEF IInv

\* Which futures a set of oneshots resolves.
LEMMA ResolveThem ==
  ASSUME TypeOK, NEW cs, NEW a \in Actor, NEW v \in Results, Resolve(cs, a, v)
  PROVE  /\ part' \in [Call -> [Actor -> {"none", "dropped"} \cup Pending \cup Results]]
         /\ \A d \in Call, b \in Actor : part'[d][b] =
              IF b = a /\ d \in cs /\ part[d][b] = "waiting" THEN v ELSE part[d][b]
  BY DEF TypeOK, Resolve

LEMMA HandledInv == ASSUME IInv, NEW a \in Actor, Handled(a) PROVE IInv'
<1>1. PICK c \in Call : cur[a] = c /\ pc[a] = "handle"
  BY DEF IInv, TypeOK, InHand, Handled
<1>2. /\ Held(c, a) /\ ~Queued(c, a) /\ runs[c][a] = 0
      /\ part[c][a] \in {"waiting", "dropped"}
  <2>1. Held(c, a) /\ ~Queued(c, a) /\ runs[c][a] = 0
    BY <1>1 DEF Held, IInv, ResultMatchesFate, OneCopy, Fate
  <2>2. part[c][a] \in {"none", "dropped"} \cup Pending \cup Results
    BY DEF IInv, TypeOK
  <2>3. part[c][a] \notin {"none", "sending", "full", "Closed", "Timeout", "value", "Canceled"}
    BY <2>1 DEF IInv, ResultMatchesFate, OneCopy, Fate
  <2> QED BY <2>1, <2>2, <2>3 DEF Pending, Results
<1>3. /\ part' \in [Call -> [Actor -> {"none", "dropped"} \cup Pending \cup Results]]
      /\ \A d \in Call, b \in Actor : part'[d][b] =
           IF b = a /\ d = c /\ part[d][b] = "waiting" THEN "value" ELSE part[d][b]
  BY <1>1, ResolveThem DEF IInv, Handled, Answered, Results
<1>4. /\ runs' \in [Call -> [Actor -> Nat]]
      /\ \A d \in Call, b \in Actor : runs'[d][b] =
           IF b = a /\ d = c THEN 1 ELSE runs[d][b]
  BY <1>1, <1>2 DEF IInv, TypeOK, Handled
<1>5. /\ pc'[a] = "recv" /\ cur'[a] = NoCall
      /\ \A b \in Actor \ {a} : pc'[b] = pc[b] /\ cur'[b] = cur[b]
      /\ UNCHANGED <<call, dead, queue, closes>>
  BY DEF IInv, TypeOK, Handled
<1>6. TypeOK'
  <2>1. pc' \in [Actor -> {"start", "recv", "handle", "stop", "gone"}]
    BY DEF IInv, TypeOK, Handled
  <2>2. cur' \in [Actor -> Call \cup {NoCall}]
    BY DEF IInv, TypeOK, Handled
  <2> QED BY <1>3, <1>4, <1>5, <2>1, <2>2 DEF IInv, TypeOK
<1>7. InHand' /\ Unmade' /\ Refusals'
  BY <1>1, <1>2, <1>3, <1>5 DEF IInv, InHand, Unmade, Refusals
<1>8. ResultMatchesFate'
  <2>1. \A d \in Call, b \in Actor : d # c \/ b # a =>
          (Queued(d, b)' <=> Queued(d, b)) /\ (Held(d, b)' <=> Held(d, b))
    BY <1>1, <1>5, GroupAssumption DEF Queued, Held
  <2>2. ~Held(c, a)' /\ ~Queued(c, a)'
    BY <1>2, <1>5, GroupAssumption DEF Queued, Held
  <2>3. \A d \in Call, b \in Actor : ~(Queued(d, b) /\ cur[b] = d)'
    BY <1>5, GroupAssumption DEF IInv, ResultMatchesFate, OneCopy, Fate, Queued
  <2>4. \A b \in Actor : pc[b] = "gone" => pc'[b] = "gone"
    BY <1>1, <1>5
  <2> QED BY <1>2, <1>3, <1>4, <1>5, <2>1, <2>2, <2>3, <2>4 DEF IInv, ResultMatchesFate, OneCopy, Fate
<1> QED BY <1>6, <1>7, <1>8 DEF IInv

LEMMA ReceiverDropsInv == ASSUME IInv, NEW a \in Actor, ReceiverDrops(a) PROVE IInv'
<1> DEFINE cs == Discarded(a) \cup {cur[a]}
<1>1. /\ part' \in [Call -> [Actor -> {"none", "dropped"} \cup Pending \cup Results]]
      /\ \A d \in Call, b \in Actor : part'[d][b] =
           IF b = a /\ d \in cs /\ part[d][b] = "waiting" THEN "Canceled" ELSE part[d][b]
  BY ResolveThem DEF IInv, ReceiverDrops, Results
<1>2. /\ pc'[a] = "gone" /\ cur'[a] = NoCall
      /\ \A b \in Actor \ {a} : pc'[b] = pc[b] /\ cur'[b] = cur[b] /\ queue'[b] = queue[b]
      /\ queue'[a] = IF Mpsc THEN <<>> ELSE queue[a]
      /\ UNCHANGED <<call, dead, runs, closes>>
  BY DEF IInv, TypeOK, ReceiverDrops
<1>3. TypeOK'
  <2>1. pc' \in [Actor -> {"start", "recv", "handle", "stop", "gone"}]
    BY DEF IInv, TypeOK, ReceiverDrops
  <2>2. cur' \in [Actor -> Call \cup {NoCall}]
    BY DEF IInv, TypeOK, ReceiverDrops
  <2>3. queue' \in [Actor -> Seq(Call)] /\ \A b \in Actor : Mpsc \/ Len(queue'[b]) <= Capacity
    <3>1. <<>> \in Seq(Call)
      OBVIOUS
    <3>2. queue' \in [Actor -> Seq(Call)]
      BY <3>1 DEF IInv, TypeOK, ReceiverDrops
    <3> QED BY <1>2, <3>2 DEF IInv, TypeOK
  <2> QED BY <1>1, <1>2, <2>1, <2>2, <2>3 DEF IInv, TypeOK
<1>4. InHand' /\ Unmade' /\ Refusals'
  BY <1>1, <1>2 DEF IInv, InHand, Unmade, Refusals
<1>5. ResultMatchesFate'
  <2>1. \A d \in Call, b \in Actor : b # a =>
          (Queued(d, b)' <=> Queued(d, b)) /\ (Held(d, b)' <=> Held(d, b))
    BY <1>2 DEF Queued, Held
  <2>2. \A d \in Call : Held(d, a)' <=> (Queued(d, a) /\ ~Mpsc)
    BY <1>2, GroupAssumption DEF Queued, Held, Range
  <2>3. \A d \in Call, b \in Actor : ~(Queued(d, b) /\ cur[b] = d)'
    BY <1>2, GroupAssumption DEF IInv, ResultMatchesFate, OneCopy, Fate, Queued
  <2>4. \A d \in Call : d \in cs <=> (Mpsc /\ Queued(d, a)) \/ cur[a] = d
    BY DEF Discarded, Queued
  <2>5. \A b \in Actor : IsInjective(queue'[b])
    <3>1. IsInjective(<<>>)
      BY DEF IsInjective
    <3>2. \A b \in Actor : IsInjective(queue[b])
      BY DEF IInv, ResultMatchesFate, OneCopy
    <3> QED BY <1>2, <3>1, <3>2
  <2>6. ASSUME NEW d \in Call PROVE
          /\ part'[d][a] = "waiting" => Held(d, a)'
          /\ part'[d][a] = "Canceled" => ~Held(d, a)'
          /\ Held(d, a)' => Held(d, a)
    BY <1>1, <2>2, <2>4, <2>6 DEF IInv, ResultMatchesFate, OneCopy, Fate, Held
  <2>7. \A d \in Call : part[d][a] = "waiting" => runs[d][a] = 0
    BY DEF IInv, ResultMatchesFate, OneCopy, Fate
  <2> QED BY <1>1, <1>2, <2>1, <2>3, <2>5, <2>6, <2>7 DEF IInv, ResultMatchesFate, OneCopy, Fate
<1> QED BY <1>3, <1>4, <1>5 DEF IInv

------------------------------------------------------------------------------

LEMMA NextInv == IInv /\ [Next]_vars => IInv'
<1> SUFFICES ASSUME IInv, [Next]_vars PROVE IInv'
  OBVIOUS
<1>1. ASSUME NEW c \in Call, CallerStep(c) PROVE IInv'
  BY <1>1, StartInv, DropCallInv, PollSendInv, TimesOutInv DEF CallerStep
<1>2. ASSUME NEW a \in Actor, ActorStep(a) PROVE IInv'
  <2>1. CASE Panics(a) \/ OnStop(a)
    BY <2>1, ReceiverDropsInv DEF Panics, OnStop
  <2> QED BY <1>2, <2>1, OnStartInv, RecvInv, HandledInv, TakeCloseInv DEF ActorStep
<1>3. CASE UNCHANGED vars
  <2>1. TypeOK' /\ InHand' /\ Unmade' /\ Refusals'
    BY <1>3 DEF vars, callVars, actorVars, IInv, TypeOK, InHand, Unmade, Refusals
  <2>2. ResultMatchesFate'
    BY <1>3 DEF vars, callVars, actorVars, IInv, ResultMatchesFate, OneCopy, Fate, Held, Queued
  <2> QED BY <2>1, <2>2 DEF IInv
<1> QED BY <1>1, <1>2, <1>3 DEF Next

THEOREM Invariance == Spec => []IInv
  BY InitInv, NextInv, PTL DEF Spec

\* A copy that failed with Closed or Timeout is never handled, one that returned
\* a value was handled once, and no copy is handled twice (Address::broadcast).
THEOREM ResultsMatchFates == Spec => []ResultMatchesFate
<1>1. IInv => ResultMatchesFate
  BY DEF IInv
<1> QED BY <1>1, Invariance, PTL

\* A finished broadcast reports Closed for every actor that was gone before it,
\* and for none that is still there (GroupSender, timeout).
THEOREM GoneAreReported == Spec => []GoneReportedClosed
<1>1. IInv => GoneReportedClosed
  <2> SUFFICES ASSUME IInv, NEW c \in Call, Done(c), NEW a \in Wired
               PROVE  /\ part[c][a] \in Results
                      /\ a \in dead[c] => part[c][a] = "Closed"
                      /\ part[c][a] = "Closed" => pc[a] = "gone"
    BY DEF GoneReportedClosed
  <2>1. a \in Actor /\ part[c][a] \in Results
    BY DEF Wired, Done
  <2> QED BY <2>1 DEF IInv, Refusals, Results
<1> QED BY <1>1, Invariance, PTL
=============================================================================
