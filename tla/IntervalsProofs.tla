--------------------------- MODULE IntervalsProofs ----------------------------
(***************************************************************************)
(* Theorems about Intervals.tla, for any number of callers and actors.     *)
(***************************************************************************)
EXTENDS Intervals, Queues, FiniteSetTheorems, TLAPS

\* A message is with an actor.
Held(m) == \E a \in Actor : cur[a] = m

Drawn == {c \in Caller : key[c] # NoKey}

\* Where a run_interval is on its way: its Register is queued once and has no
\* key, or is with one actor and has one, and then its tick task begins.
Phases ==
  /\ \A c \in Caller :
       /\ Occurs(queue, Register(c)) =>
            call[c] \in {"waiting", "abandoned"} /\ key[c] = NoKey
       /\ Once(queue, Register(c))
       /\ Held(Register(c)) => /\ call[c] \in {"waiting", "abandoned"}
                               /\ key[c] # NoKey /\ task[c] = "none"
       /\ key[c] = NoKey => task[c] = "none"
       /\ call[c] \in {"idle", "refused"} => key[c] = NoKey
       /\ call[c] \in {"handle", "cancelling"} => task[c] # "none"
       /\ flag[c] => call[c] \in {"handle", "cancelling"}
       /\ removing[c] > 0 \/ call[c] = "cancelling" => flag[c]
       /\ removing[c] <= cancels[c]
       /\ call[c] = "cancelling" => removing[c] < cancels[c]
  /\ \A a, b \in Actor : (cur[a] = cur[b] /\ cur[a].kind = "register") => a = b

\* Keys are drawn in order, one for each registration.
KeysDistinct ==
  /\ \A c \in Caller : key[c] # NoKey => key[c] < next
  /\ \A c, d \in Caller : (key[c] = key[d] /\ key[c] # NoKey) => c = d
  /\ next = Cardinality(Drawn)

\* The map holds a future under its own key only, and takes it out only when
\* its owner has cancelled it.
MapExact ==
  /\ \A k \in Keys : stored[k] # NoOne =>
       key[stored[k]] = k /\ task[stored[k]] # "none"
  /\ \A c \in Caller : (task[c] # "none" /\ ~flag[c]) => stored[key[c]] = c
  /\ \A k \in Keys : Occurs(queue, Remove(k)) \/ Held(Remove(k)) =>
       \E c \in Caller : key[c] = k /\ flag[c]

Busy == \A a \in Actor : pc[a] \in {"lock", "running"} <=> cur[a] # NoMsg

\* The map's lock: its line is the actors that want it, and only the first of
\* them runs a future, which stays stored meanwhile.
Locked ==
  /\ IsInjective(lockq)
  /\ \A a \in Actor : a \in Range(lockq) <=> pc[a] \in {"lock", "running"}
  /\ \A a \in Actor : pc[a] = "running" => /\ a = Head(lockq)
                                          /\ cur[a].kind = "run"
                                          /\ stored[cur[a].key] # NoOne

Bookkeeping == TypeOK /\ Phases /\ KeysDistinct /\ MapExact /\ Busy /\ Locked

------------------------------------------------------------------------------
(* The messages, and how they move.                                         *)

LEMMA MessageForms ==
  /\ \A c \in Caller : /\ Register(c) \in Message /\ Register(c).kind = "register"
                       /\ Register(c).by = c
  /\ \A k \in Keys : /\ Run(k) \in Message /\ Run(k).kind = "run" /\ Run(k).key = k
                     /\ Remove(k) \in Message /\ Remove(k).kind = "remove"
                     /\ Remove(k).key = k
  /\ NoMsg.kind = "none"
  /\ \A m \in Message : \/ m.kind = "register" /\ m.by \in Caller /\ m = Register(m.by)
                        \/ m.kind = "run" /\ m.key \in Keys /\ m = Run(m.key)
                        \/ m.kind = "remove" /\ m.key \in Keys /\ m = Remove(m.key)
<1>1. ASSUME NEW c \in Caller
      PROVE  /\ Register(c) \in Message /\ Register(c).kind = "register"
             /\ Register(c).by = c
  BY DEF Register, Message
<1>2. ASSUME NEW k \in Keys
      PROVE  /\ Run(k) \in Message /\ Run(k).kind = "run" /\ Run(k).key = k
             /\ Remove(k) \in Message /\ Remove(k).kind = "remove"
             /\ Remove(k).key = k
  BY DEF Run, Remove, Message
<1>3. NoMsg.kind = "none"
  BY DEF NoMsg
<1>4. ASSUME NEW m \in Message
      PROVE  \/ m.kind = "register" /\ m.by \in Caller /\ m = Register(m.by)
             \/ m.kind = "run" /\ m.key \in Keys /\ m = Run(m.key)
             \/ m.kind = "remove" /\ m.key \in Keys /\ m = Remove(m.key)
  <2>1. \/ \E c \in Caller : m = Register(c)
        \/ \E k \in Keys : m = Run(k) \/ m = Remove(k)
    BY DEF Message
  <2> QED BY <1>1, <1>2, <2>1
<1> QED BY <1>1, <1>2, <1>3, <1>4

LEMMA CallerCount == IsFiniteSet(Caller) /\ Cardinality(Caller) \in Nat
  BY CallerAssumption, FS_CardinalityType

LEMMA KeyType == /\ \A k \in Keys : k \in Nat /\ k # NoKey
                 /\ \A n \in Nat : n < Cardinality(Caller) <=> n \in Keys
  BY CallerCount DEF Keys, NoKey

\* A send that may find no receiver.
LEMMA Posts ==
  ASSUME TypeOK, NEW m \in Message, Post(m)
  PROVE  /\ queue' \in Seq(Message)
         /\ \A x : Occurs(queue', x) => Occurs(queue, x) \/ x = m
         /\ \A x : Occurs(queue, x) => Occurs(queue', x)
         /\ Receivers # {} => Occurs(queue', m)
         /\ \A x : Once(queue, x) /\ (x = m => ~Occurs(queue, x)) => Once(queue', x)
         /\ \A x : x # m => PositionsOf(queue', x) = PositionsOf(queue, x)
<1>1. queue \in Seq(Message)
  BY DEF TypeOK
<1>2. CASE Receivers = {}
  BY <1>1, <1>2 DEF Post
<1>3. CASE Receivers # {}
  <2>1. queue' = Append(queue, m)
    BY <1>3 DEF Post
  <2>2. queue' \in Seq(Message)
    BY <1>1, <2>1, AppendProperties
  <2> QED BY <1>1, <2>1, <2>2, AppendPlaces
<1> QED BY <1>2, <1>3

\* An actor takes the oldest message.
LEMMA Receives ==
  ASSUME TypeOK, Busy, NEW a \in Actor, Recv(a)
  PROVE  /\ Head(queue) \in Message /\ queue' \in Seq(Message)
         /\ Occurs(queue, Head(queue))
         /\ \A x : Occurs(queue, x) <=> x = Head(queue) \/ Occurs(queue', x)
         /\ \A x : Once(queue, x) => Once(queue', x)
         /\ Once(queue, Head(queue)) => ~Occurs(queue', Head(queue))
         /\ \A b \in Actor : cur'[b] = IF b = a THEN Head(queue) ELSE cur[b]
         /\ \A b \in Actor : pc'[b] = IF b = a THEN "lock" ELSE pc[b]
         /\ \A x : Held(x)' <=> x = Head(queue) \/ (Held(x) /\ x # NoMsg)
                                \/ (x = NoMsg /\ \E b \in Actor \ {a} : cur[b] = NoMsg)
<1>1. queue \in Seq(Message) /\ queue # <<>> /\ queue' = Tail(queue)
  BY DEF Recv, TypeOK
<1>2. /\ \A b \in Actor : cur'[b] = IF b = a THEN Head(queue) ELSE cur[b]
      /\ \A b \in Actor : pc'[b] = IF b = a THEN "lock" ELSE pc[b]
  BY DEF Recv, TypeOK
<1>3. cur[a] = NoMsg
  BY DEF Recv, Busy
<1>4. /\ Head(queue) \in Message /\ queue' \in Seq(Message)
      /\ Occurs(queue, Head(queue))
      /\ \A x : Occurs(queue, x) <=> x = Head(queue) \/ Occurs(queue', x)
      /\ \A x : Once(queue, x) => Once(queue', x)
      /\ Once(queue, Head(queue)) => ~Occurs(queue', Head(queue))
  BY <1>1, TailPlaces
<1>5. \A x : Held(x)' <=> x = Head(queue) \/ (Held(x) /\ x # NoMsg)
                         \/ (x = NoMsg /\ \E b \in Actor \ {a} : cur[b] = NoMsg)
  BY <1>2, <1>3 DEF Held
<1> QED BY <1>2, <1>4, <1>5

\* An actor is through with its message.
LEMMA Finishes ==
  ASSUME TypeOK, NEW a \in Actor, NEW to, Back(a, to)
  PROVE  /\ \A b \in Actor : cur'[b] = IF b = a THEN NoMsg ELSE cur[b]
         /\ \A b \in Actor : pc'[b] = IF b = a THEN to ELSE pc[b]
         /\ \A x : Held(x)' => Held(x) \/ x = NoMsg
         /\ \A x : Held(x) => Held(x)' \/ x = cur[a]
<1>1. /\ \A b \in Actor : cur'[b] = IF b = a THEN NoMsg ELSE cur[b]
      /\ \A b \in Actor : pc'[b] = IF b = a THEN to ELSE pc[b]
  BY DEF Back, TypeOK
<1> QED BY <1>1 DEF Held

\* The lock is released by its holder, and nobody runs a future any more.
LEMMA Unlocks ==
  ASSUME TypeOK, Locked, NEW a \in Actor, HasLock(a) \/ pc[a] = "running", Unlock
  PROVE  /\ lockq' \in Seq(Actor) /\ IsInjective(lockq')
         /\ Range(lockq') = Range(lockq) \ {a}
         /\ \A b \in Actor : pc[b] = "running" => b = a
<1>1. a \in Range(lockq) /\ a = Head(lockq)
  BY DEF Locked, HasLock
<1>2. lockq \in Seq(Actor) /\ IsInjective(lockq) /\ lockq # <<>>
  BY <1>1 DEF TypeOK, Locked, Range
<1>3. lockq' \in Seq(Actor) /\ lockq' = Tail(lockq)
  BY <1>2 DEF Unlock
<1> QED BY <1>1, <1>2, <1>3, TakeOne DEF Locked

\* An actor that wants the lock goes to the end of the line.
LEMMA WaitsInLine ==
  ASSUME TypeOK, Locked, NEW a \in Actor, pc[a] = "recv", lockq' = Append(lockq, a)
  PROVE  /\ lockq' \in Seq(Actor) /\ IsInjective(lockq')
         /\ Range(lockq') = Range(lockq) \cup {a}
         /\ \A b \in Actor : pc[b] = "running" => Head(lockq') = b
<1>1. lockq \in Seq(Actor) /\ IsInjective(lockq) /\ a \notin Range(lockq)
  BY DEF TypeOK, Locked
<1>2. /\ lockq' \in Seq(Actor) /\ IsInjective(lockq')
      /\ Range(lockq') = Range(lockq) \cup {a}
  BY <1>1, AppendOne, AppendProperties
<1>3. ASSUME NEW b \in Actor, pc[b] = "running" PROVE Head(lockq') = b
  <2>1. b \in Range(lockq) /\ b = Head(lockq)
    BY <1>3 DEF Locked
  <2>2. lockq # <<>>
    BY <2>1 DEF Range
  <2> QED BY <1>1, <2>1, <2>2
<1> QED BY <1>2, <1>3

LEMMA TypeStep ==
  ASSUME Bookkeeping, Next
  PROVE  TypeOK'
<1> USE DEF Bookkeeping
<1>0. /\ \A a \in Actor : cur[a] \in Message \cup {NoMsg}
      /\ \A c \in Caller : key[c] # NoKey => key[c] \in Keys
  BY DEF TypeOK
<1>1. CASE DropAddress
  BY <1>1 DEF DropAddress, TypeOK, callVars, mapVars
<1>2. ASSUME NEW c \in Caller, RunInterval(c) PROVE TypeOK'
  <2>1. queue' \in Seq(Message)
    BY <1>2, MessageForms, Posts DEF RunInterval
  <2> QED BY <1>2, <2>1 DEF RunInterval, TypeOK, mapVars
<1>3. ASSUME NEW c \in Caller, Abandon(c) PROVE TypeOK'
  BY <1>3 DEF Abandon, TypeOK, mapVars
<1>4. ASSUME NEW c \in Caller, Cancel(c) PROVE TypeOK'
  BY <1>4, BoundAssumption DEF Cancel, TypeOK, mapVars
<1>5. ASSUME NEW c \in Caller, SpawnRemove(c) PROVE TypeOK'
  BY <1>5, BoundAssumption DEF SpawnRemove, TypeOK, mapVars, Phases
<1>6. ASSUME NEW c \in Caller, SendRemove(c) PROVE TypeOK'
  <2>1. key[c] \in Keys
    BY <1>0, <1>6 DEF SendRemove, Phases
  <2>2. queue' \in Seq(Message)
    BY <1>6, <2>1, MessageForms, Posts DEF SendRemove
  <2> QED BY <1>6, <2>2, BoundAssumption DEF SendRemove, TypeOK, mapVars
<1>7. ASSUME NEW c \in Caller, PollFinisher(c) \/ TickUpgrade(c) PROVE TypeOK'
  BY <1>7 DEF PollFinisher, TickUpgrade, TypeOK, callVars, mapVars
<1>8. ASSUME NEW c \in Caller, TickSend(c) PROVE TypeOK'
  <2>1. key[c] \in Keys
    BY <1>0, <1>8 DEF TickSend, Phases
  <2>2. queue' \in Seq(Message)
    BY <1>8, <2>1, MessageForms, Posts DEF TickSend
  <2> QED BY <1>8, <2>2 DEF TickSend, TypeOK, callVars, mapVars
<1>9. ASSUME NEW a \in Actor, Recv(a) PROVE TypeOK'
  <2> DEFINE m == Head(queue)
  <2>1. m \in Message /\ queue' \in Seq(Message) /\ Occurs(queue, m)
    BY <1>9, Receives
  <2>2. lockq' \in Seq(Actor)
    BY <1>9, WaitsInLine DEF Recv
  <2>3. ASSUME m.kind = "register" PROVE m.by \in Caller /\ next \in Keys
    <3>1. m.by \in Caller /\ m = Register(m.by)
      BY <2>1, <2>3, MessageForms
    <3>2. key[m.by] = NoKey
      BY <2>1, <3>1 DEF Phases
    <3>3. Drawn \subseteq Caller /\ Drawn # Caller
      BY <3>1, <3>2 DEF Drawn
    <3>4. Cardinality(Drawn) < Cardinality(Caller)
      BY <3>3, CallerCount, FS_Subset, FS_CardinalityType
    <3>5. next \in Nat
      BY CallerCount DEF TypeOK
    <3> QED BY <3>1, <3>4, <3>5, KeyType DEF KeysDistinct
  <2>4. key' \in [Caller -> Keys \cup {NoKey}] /\ next' \in 0 .. Cardinality(Caller)
    <3>1. CASE m.kind = "register"
      <4>1. next' = next + 1 /\ next + 1 \in 0 .. Cardinality(Caller)
        BY <1>9, <2>3, <3>1, CallerCount DEF Recv, Keys
      <4>2. key' = [key EXCEPT ![m.by] = next]
        BY <1>9, <3>1 DEF Recv, NextKey
      <4> QED BY <2>3, <3>1, <4>1, <4>2 DEF TypeOK
    <3>2. CASE m.kind # "register"
      BY <1>9, <3>2 DEF Recv, TypeOK
    <3> QED BY <3>1, <3>2
  <2> QED BY <1>9, <2>1, <2>2, <2>4 DEF Recv, TypeOK, callVars
<1>10. ASSUME NEW a \in Actor, HandleRegister(a) PROVE TypeOK'
  <2> DEFINE c == cur[a].by
  <2>1. c \in Caller /\ cur[a] = Register(c)
    BY <1>0, <1>10, MessageForms DEF HandleRegister
  <2>2. key[c] \in Keys
    BY <1>0, <2>1 DEF Phases, Held
  <2>3. lockq' \in Seq(Actor)
    BY <1>10, Unlocks DEF HandleRegister
  <2> QED BY <1>10, <2>1, <2>2, <2>3 DEF HandleRegister, Back, TypeOK
<1>11. ASSUME NEW a \in Actor, HandleRun(a) PROVE TypeOK'
  <2>1. lockq' \in Seq(Actor)
    BY <1>11, Unlocks DEF HandleRun, TypeOK
  <2> QED BY <1>11, <2>1 DEF HandleRun, Back, TypeOK, callVars, mapVars
<1>12. ASSUME NEW a \in Actor, RunEnds(a) PROVE TypeOK'
  <2>1. lockq' \in Seq(Actor)
    BY <1>12, Unlocks DEF RunEnds
  <2> QED BY <1>12, <2>1 DEF RunEnds, Back, TypeOK, callVars, mapVars
<1>13. ASSUME NEW a \in Actor, HandleRemove(a) PROVE TypeOK'
  <2>1. lockq' \in Seq(Actor)
    BY <1>13, Unlocks DEF HandleRemove
  <2> QED BY <1>13, <2>1 DEF HandleRemove, Back, TypeOK, callVars
<1>14. ASSUME NEW a \in Actor, Leave(a) PROVE TypeOK'
  BY <1>14 DEF Leave, TypeOK, callVars, mapVars
<1> QED BY <1>1, <1>2, <1>3, <1>4, <1>5, <1>6, <1>7, <1>8, <1>9, <1>10, <1>11,
           <1>12, <1>13, <1>14 DEF Next, CallerStep, TickStep, ActorStep

LEMMA PhasesStep ==
  ASSUME Bookkeeping, Next
  PROVE  Phases'
<1> USE DEF Bookkeeping
<1>0. /\ \A a \in Actor : cur[a] \in Message \cup {NoMsg}
      /\ \A c \in Caller : key[c] # NoKey => key[c] \in Keys
  BY DEF TypeOK
<1>1. CASE DropAddress
  BY <1>1 DEF DropAddress, Phases, Held, callVars, mapVars
<1>2. ASSUME NEW c \in Caller, RunInterval(c) PROVE Phases'
  <2>1. /\ ~Occurs(queue, Register(c)) /\ ~Held(Register(c))
        /\ key[c] = NoKey /\ call[c] = "idle"
    BY <1>2 DEF RunInterval, Phases
  <2>2. /\ \A x : Occurs(queue', x) => Occurs(queue, x) \/ x = Register(c)
        /\ \A d \in Caller : Once(queue', Register(d))
        /\ Receivers = {} => queue' = queue
    <3>1. Post(Register(c)) /\ Register(c) \in Message
      BY <1>2, MessageForms DEF RunInterval
    <3>2. \A d \in Caller : Once(queue, Register(d))
      BY DEF Phases
    <3> QED BY <2>1, <3>1, <3>2, Posts DEF Post
  <2>3. \A d \in Caller : d # c => Register(d) # Register(c) /\ call'[d] = call[d]
    <3>1. \A d \in Caller : d # c => Register(d) # Register(c)
      BY MessageForms
    <3> QED BY <1>2, <3>1 DEF RunInterval, TypeOK
  <2>4. call'[c] = IF Receivers = {} THEN "refused" ELSE "waiting"
    BY <1>2 DEF RunInterval, TypeOK
  <2>5. UNCHANGED <<cancels, flag, removing, task, key, cur>>
    BY <1>2 DEF RunInterval, mapVars
  <2> QED BY <2>1, <2>2, <2>3, <2>4, <2>5 DEF Phases, Held
<1>3. ASSUME NEW c \in Caller, Abandon(c) PROVE Phases'
  BY <1>3 DEF Abandon, Phases, Held, TypeOK, mapVars
<1>4. ASSUME NEW c \in Caller, Cancel(c) PROVE Phases'
  BY <1>4, BoundAssumption DEF Cancel, Phases, Held, TypeOK, mapVars
<1>5. ASSUME NEW c \in Caller, SpawnRemove(c) PROVE Phases'
  BY <1>5, BoundAssumption DEF SpawnRemove, Phases, Held, TypeOK, mapVars
<1>6. ASSUME NEW c \in Caller, SendRemove(c) PROVE Phases'
  <2>1. key[c] \in Keys
    BY <1>0, <1>6 DEF SendRemove, Phases
  <2>2. /\ Remove(key[c]) \in Message
        /\ \A d \in Caller : Register(d) # Remove(key[c])
    BY <2>1, MessageForms
  <2>3. \A d \in Caller :
          /\ Occurs(queue', Register(d)) => Occurs(queue, Register(d))
          /\ Once(queue, Register(d)) => Once(queue', Register(d))
    BY <1>6, <2>2, Posts DEF SendRemove
  <2> QED BY <1>6, <2>3, BoundAssumption DEF SendRemove, Phases, Held, TypeOK, mapVars
<1>7. ASSUME NEW c \in Caller, PollFinisher(c) \/ TickUpgrade(c) PROVE Phases'
  <2>1. UNCHANGED <<callVars, mapVars, queue, cur>>
    BY <1>7 DEF PollFinisher, TickUpgrade
  <2>2. task[c] # "none" /\ task'[c] # "none"
    BY <1>7 DEF PollFinisher, TickUpgrade, TypeOK
  <2>3. \A d \in Caller : d # c => task'[d] = task[d]
    BY <1>7 DEF PollFinisher, TickUpgrade, TypeOK
  <2> QED BY <2>1, <2>2, <2>3 DEF Phases, Held, callVars, mapVars
<1>8. ASSUME NEW c \in Caller, TickSend(c) PROVE Phases'
  <2>1. key[c] \in Keys
    BY <1>0, <1>8 DEF TickSend, Phases
  <2>2. Run(key[c]) \in Message /\ \A d \in Caller : Register(d) # Run(key[c])
    BY <2>1, MessageForms
  <2>3. \A d \in Caller :
          /\ Occurs(queue', Register(d)) => Occurs(queue, Register(d))
          /\ Once(queue, Register(d)) => Once(queue', Register(d))
    BY <1>8, <2>2, Posts DEF TickSend
  <2>4. UNCHANGED <<callVars, mapVars, cur>>
    BY <1>8 DEF TickSend
  <2>5. /\ task[c] # "none" /\ task'[c] # "none"
        /\ \A d \in Caller : d # c => task'[d] = task[d]
    BY <1>8 DEF TickSend, TypeOK
  <2> QED BY <2>3, <2>4, <2>5 DEF Phases, Held, callVars, mapVars
<1>9. ASSUME NEW a \in Actor, Recv(a) PROVE Phases'
  <2> DEFINE m == Head(queue)
  <2>1. /\ m \in Message /\ Occurs(queue, m)
        /\ \A x : Occurs(queue', x) => Occurs(queue, x)
        /\ \A x : Once(queue, x) => Once(queue', x)
        /\ Once(queue, m) => ~Occurs(queue', m)
        /\ \A b \in Actor : cur'[b] = IF b = a THEN m ELSE cur[b]
        /\ \A d \in Caller : Held(Register(d))' => Register(d) = m \/ Held(Register(d))
    <3>1. \A d \in Caller : Register(d) # NoMsg
      BY MessageForms
    <3> QED BY <1>9, <3>1, Receives
  <2>2. UNCHANGED <<callVars, task>>
    BY <1>9 DEF Recv
  <2>3. CASE m.kind = "register"
    <3>1. PICK c \in Caller : m = Register(c) /\ m.by = c
      BY <2>1, <2>3, MessageForms
    <3>2. /\ key[c] = NoKey /\ ~Occurs(queue', Register(c))
          /\ call[c] \in {"waiting", "abandoned"} /\ task[c] = "none"
      BY <2>1, <3>1 DEF Phases
    <3>3. /\ key'[c] = next /\ next # NoKey
          /\ \A d \in Caller : d # c => key'[d] = key[d] /\ Register(d) # m
      BY <1>9, <2>3, <3>1, MessageForms, CallerCount DEF Recv, NextKey, NoKey, TypeOK
    <3>4. ASSUME NEW b \in Actor, cur[b] = m PROVE FALSE
      BY <3>1, <3>2, <3>4 DEF Phases, Held
    <3> HIDE DEF m
    <3>5. \A b, d \in Actor : (cur'[b] = cur'[d] /\ cur'[b].kind = "register") => b = d
      BY <2>1, <3>4 DEF Phases
    <3>6. ASSUME NEW d \in Caller, d # c
          PROVE  /\ Occurs(queue', Register(d)) => Occurs(queue, Register(d))
                 /\ Once(queue', Register(d))
                 /\ Held(Register(d))' => Held(Register(d))
                 /\ key'[d] = key[d]
      BY <2>1, <3>1, <3>3, <3>6 DEF Phases
    <3>7. Once(queue', Register(c))
      BY <2>1 DEF Phases
    <3> QED BY <2>2, <3>2, <3>3, <3>5, <3>6, <3>7 DEF Phases, callVars
  <2>4. CASE m.kind # "register"
    <3>1. key' = key
      BY <1>9, <2>4 DEF Recv
    <3>2. \A d \in Caller : Register(d) # m
      BY <2>4, MessageForms
    <3> HIDE DEF m
    <3>3. \A b, d \in Actor : (cur'[b] = cur'[d] /\ cur'[b].kind = "register") => b = d
      BY <2>1, <2>4 DEF Phases
    <3>4. ASSUME NEW d \in Caller
          PROVE  /\ Occurs(queue', Register(d)) => Occurs(queue, Register(d))
                 /\ Once(queue', Register(d))
                 /\ Held(Register(d))' => Held(Register(d))
      BY <2>1, <3>2 DEF Phases
    <3> QED BY <2>2, <3>1, <3>3, <3>4 DEF Phases, callVars
  <2> QED BY <2>3, <2>4
<1>10. ASSUME NEW a \in Actor, HandleRegister(a) PROVE Phases'
  <2>1. PICK c \in Caller : cur[a] = Register(c) /\ cur[a].by = c
    BY <1>0, <1>10, MessageForms DEF HandleRegister
  <2>2. /\ call[c] \in {"waiting", "abandoned"} /\ key[c] # NoKey /\ task[c] = "none"
        /\ ~Occurs(queue, Register(c))
    BY <2>1 DEF Phases, Held
  <2>3. /\ \A b \in Actor : cur'[b] = IF b = a THEN NoMsg ELSE cur[b]
        /\ \A d \in Caller : Held(Register(d))' => Held(Register(d))
        /\ \A d \in Caller : Register(d).kind = "register"
        /\ \A d \in Caller : Register(d).by = d
    <3>1. \A d \in Caller : Register(d) # NoMsg
      BY MessageForms
    <3> QED BY <1>10, <3>1, Finishes, MessageForms DEF HandleRegister
  <2>4. ~Held(Register(c))'
    <3>1. \A b \in Actor : cur[b] = Register(c) => b = a
      BY <2>1, <2>3 DEF Phases
    <3> QED BY <2>1, <2>3, <3>1, MessageForms DEF Held
  <2>5. /\ task'[c] = "sleeping"
        /\ call'[c] = IF call[c] = "waiting" THEN "handle" ELSE call[c]
        /\ \A d \in Caller : d # c => task'[d] = task[d] /\ call'[d] = call[d]
        /\ UNCHANGED <<cancels, flag, removing, key, queue>>
    BY <1>10, <2>1 DEF HandleRegister, TypeOK
  <2>6. \A b, d \in Actor : (cur'[b] = cur'[d] /\ cur'[b].kind = "register") => b = d
    BY <2>3, MessageForms DEF Phases
  <2> QED BY <2>1, <2>2, <2>3, <2>4, <2>5, <2>6 DEF Phases
<1>11. ASSUME NEW a \in Actor, HandleRun(a) \/ RunEnds(a) \/ HandleRemove(a)
                               \/ Leave(a)
       PROVE  Phases'
  <2>1. UNCHANGED <<call, cancels, flag, removing, task, key, queue>>
    BY <1>11 DEF HandleRun, RunEnds, HandleRemove, Leave, callVars, mapVars
  <2>2. cur' = cur \/ \E to : Back(a, to)
    BY <1>11 DEF HandleRun, RunEnds, HandleRemove, Leave
  <2>3. \A b \in Actor : cur'[b] = cur[b] \/ cur'[b] = NoMsg
    BY <2>2, Finishes
  <2>4. \A d \in Caller : Held(Register(d))' => Held(Register(d))
    BY <2>3, MessageForms DEF Held
  <2>5. \A b, d \in Actor : (cur'[b] = cur'[d] /\ cur'[b].kind = "register") => b = d
    BY <2>3, MessageForms DEF Phases
  <2> QED BY <2>1, <2>4, <2>5 DEF Phases
<1> QED BY <1>1, <1>2, <1>3, <1>4, <1>5, <1>6, <1>7, <1>8, <1>9, <1>10, <1>11
           DEF Next, CallerStep, TickStep, ActorStep

LEMMA KeysDistinctStep ==
  ASSUME Bookkeeping, Next
  PROVE  KeysDistinct'
<1> USE DEF Bookkeeping
<1>1. CASE UNCHANGED <<key, next>>
  BY <1>1 DEF KeysDistinct, Drawn
<1>2. ASSUME NEW a \in Actor, Recv(a), Head(queue).kind = "register"
      PROVE  KeysDistinct'
  <2>1. PICK c \in Caller : Head(queue) = Register(c) /\ Head(queue).by = c
    BY <1>2, Receives, MessageForms
  <2>2. key[c] = NoKey
    BY <1>2, <2>1, Receives DEF Phases
  <2>3. next \in Nat /\ next # NoKey
    BY CallerCount DEF TypeOK, NoKey
  <2>4. /\ next' = next + 1 /\ key'[c] = next
        /\ \A d \in Caller : d # c => key'[d] = key[d]
    BY <1>2, <2>1 DEF Recv, NextKey, TypeOK
  <2>5. \A d \in Caller : key[d] # NoKey => key[d] \in Nat
    BY KeyType DEF TypeOK
  <2>6. \A d \in Caller : key'[d] # NoKey => key'[d] < next'
    BY <2>3, <2>4, <2>5 DEF KeysDistinct
  <2>7. \A d, e \in Caller : (key'[d] = key'[e] /\ key'[d] # NoKey) => d = e
    BY <2>3, <2>4, <2>5 DEF KeysDistinct
  <2>8. next' = Cardinality(Drawn')
    <3>1. Drawn' = Drawn \cup {c} /\ c \notin Drawn
      BY <2>2, <2>3, <2>4 DEF Drawn
    <3>2. IsFiniteSet(Drawn)
      BY CallerCount, FS_Subset DEF Drawn
    <3>3. Cardinality(Drawn') = Cardinality(Drawn) + 1
      BY <3>1, <3>2, FS_AddElement
    <3> QED BY <2>4, <3>3 DEF KeysDistinct
  <2> QED BY <2>6, <2>7, <2>8 DEF KeysDistinct
<1>3. UNCHANGED <<key, next>>
      \/ \E a \in Actor : Recv(a) /\ Head(queue).kind = "register"
  <2>1. ASSUME NEW c \in Caller, CallerStep(c) \/ TickStep(c) \/ SendRemove(c)
        PROVE  UNCHANGED <<key, next>>
    BY <2>1 DEF CallerStep, TickStep, RunInterval, Abandon, Cancel, SpawnRemove,
                SendRemove, PollFinisher, TickUpgrade, TickSend, mapVars
  <2>2. ASSUME NEW a \in Actor, ActorStep(a)
        PROVE  \/ UNCHANGED <<key, next>>
               \/ Recv(a) /\ Head(queue).kind = "register"
    BY <2>2 DEF ActorStep, Recv, HandleRegister, HandleRun, RunEnds, HandleRemove,
                Leave, mapVars
  <2>3. DropAddress => UNCHANGED <<key, next>>
    BY DEF DropAddress, mapVars
  <2> QED BY <2>1, <2>2, <2>3 DEF Next
<1> QED BY <1>1, <1>2, <1>3

LEMMA BusyStep ==
  ASSUME Bookkeeping, Next
  PROVE  Busy'
<1> USE DEF Bookkeeping
<1>1. ASSUME NEW c \in Caller, CallerStep(c) \/ TickStep(c) \/ SendRemove(c)
      PROVE  UNCHANGED <<pc, cur>>
  BY <1>1 DEF CallerStep, TickStep, RunInterval, Abandon, Cancel, SpawnRemove,
              SendRemove, PollFinisher, TickUpgrade, TickSend
<1>2. DropAddress => UNCHANGED <<pc, cur>>
  BY DEF DropAddress
<1>3. ASSUME NEW a \in Actor, Recv(a) PROVE Busy'
  <2>1. Head(queue) # NoMsg
    BY <1>3, Receives, MessageForms
  <2> QED BY <1>3, <2>1, Receives DEF Busy
<1>4. ASSUME NEW a \in Actor, HandleRegister(a) \/ HandleRun(a) \/ RunEnds(a)
                              \/ HandleRemove(a)
      PROVE  Busy'
  <2>1. \/ /\ \A b \in Actor : cur'[b] = IF b = a THEN NoMsg ELSE cur[b]
           /\ \/ \A b \in Actor : pc'[b] = IF b = a THEN "recv" ELSE pc[b]
              \/ \A b \in Actor : pc'[b] = IF b = a THEN "panicked" ELSE pc[b]
        \/ pc' = [pc EXCEPT ![a] = "running"] /\ cur' = cur /\ pc[a] = "lock"
    BY <1>4, Finishes DEF HandleRegister, HandleRun, RunEnds, HandleRemove, HasLock
  <2> QED BY <2>1 DEF Busy, TypeOK
<1>5. ASSUME NEW a \in Actor, Leave(a) PROVE Busy'
  BY <1>5 DEF Leave, Busy, TypeOK
<1> QED BY <1>1, <1>2, <1>3, <1>4, <1>5 DEF Next, ActorStep, Busy

\* The one that runs a future keeps the others from the map.
LEMMA Alone ==
  ASSUME TypeOK, Locked, NEW a \in Actor, HasLock(a)
  PROVE  \A b \in Actor : pc[b] # "running"
  BY DEF Locked, HasLock

LEMMA LockedStep ==
  ASSUME Bookkeeping, Next
  PROVE  Locked'
<1> USE DEF Bookkeeping
<1>1. CASE UNCHANGED <<lockq, pc, cur, stored>>
  BY <1>1 DEF Locked
<1>2. ASSUME NEW a \in Actor, Recv(a) PROVE Locked'
  <2>1. /\ pc[a] = "recv" /\ lockq' = Append(lockq, a) /\ stored' = stored
        /\ \A b \in Actor : pc'[b] = IF b = a THEN "lock" ELSE pc[b]
        /\ \A b \in Actor : b # a => cur'[b] = cur[b]
    BY <1>2, Receives DEF Recv
  <2> QED BY <2>1, WaitsInLine DEF Locked
<1>3. ASSUME NEW a \in Actor, NEW to \in {"recv", "panicked"},
             HasLock(a) \/ pc[a] = "running", Unlock, Back(a, to)
      PROVE  Locked'
  <2>1. \A b \in Actor : pc'[b] = IF b = a THEN to ELSE pc[b]
    BY <1>3, Finishes
  <2>2. /\ IsInjective(lockq') /\ Range(lockq') = Range(lockq) \ {a}
        /\ \A b \in Actor : pc[b] = "running" => b = a
    BY <1>3, Unlocks
  <2> QED BY <2>1, <2>2 DEF Locked
<1>4. ASSUME NEW a \in Actor, HandleRun(a), stored[cur[a].key] # NoOne
      PROVE  Locked'
  <2>1. /\ HasLock(a) /\ UNCHANGED <<lockq, cur, stored>> /\ cur[a].kind = "run"
        /\ \A b \in Actor : pc'[b] = IF b = a THEN "running" ELSE pc[b]
    BY <1>4 DEF HandleRun, mapVars, TypeOK
  <2> QED BY <1>4, <2>1, Alone DEF Locked, HasLock
<1>5. ASSUME NEW c \in Caller, CallerStep(c) \/ TickStep(c) \/ SendRemove(c)
      PROVE  UNCHANGED <<lockq, pc, cur, stored>>
  BY <1>5 DEF CallerStep, TickStep, RunInterval, Abandon, Cancel, SpawnRemove,
              SendRemove, PollFinisher, TickUpgrade, TickSend, mapVars
<1>6. DropAddress => UNCHANGED <<lockq, pc, cur, stored>>
  BY DEF DropAddress, mapVars
<1>7. ASSUME NEW a \in Actor, HandleRegister(a) PROVE Locked'
  BY <1>3, <1>7 DEF HandleRegister
<1>8. ASSUME NEW a \in Actor, HandleRun(a) PROVE Locked'
  BY <1>3, <1>4, <1>8 DEF HandleRun
<1>9. ASSUME NEW a \in Actor, RunEnds(a) PROVE Locked'
  BY <1>3, <1>9 DEF RunEnds
<1>10. ASSUME NEW a \in Actor, HandleRemove(a) PROVE Locked'
  BY <1>3, <1>10 DEF HandleRemove
<1>11. ASSUME NEW a \in Actor, Leave(a) PROVE Locked'
  <2>1. /\ pc[a] = "recv" /\ UNCHANGED <<lockq, cur, stored>>
        /\ \A b \in Actor : pc'[b] = IF b = a THEN "gone" ELSE pc[b]
    BY <1>11 DEF Leave, mapVars, TypeOK
  <2> QED BY <2>1 DEF Locked
<1> QED BY <1>1, <1>2, <1>5, <1>6, <1>7, <1>8, <1>9, <1>10, <1>11 DEF Next, ActorStep

LEMMA MapExactStep ==
  ASSUME Bookkeeping, Next
  PROVE  MapExact'
<1> USE DEF Bookkeeping
<1>0. /\ \A a \in Actor : cur[a] \in Message \cup {NoMsg}
      /\ \A c \in Caller : /\ key[c] # NoKey => key[c] \in Keys
                           /\ task[c] # "none" => key[c] \in Keys
      /\ \A k \in Keys : stored[k] \in Caller \cup {NoOne} /\ k # NoKey
  BY KeyType DEF TypeOK, Phases
<1>1. CASE DropAddress \/ \E c \in Caller : Abandon(c) \/ SpawnRemove(c)
  BY <1>1 DEF DropAddress, Abandon, SpawnRemove, MapExact, Held, callVars, mapVars
<1>2. ASSUME NEW c \in Caller, RunInterval(c) PROVE MapExact'
  <2>1. /\ Register(c) \in Message
        /\ \A k \in Keys : Remove(k) # Register(c)
    BY MessageForms
  <2>2. \A k \in Keys : Occurs(queue', Remove(k)) => Occurs(queue, Remove(k))
    BY <1>2, <2>1, Posts DEF RunInterval
  <2> QED BY <1>2, <2>2 DEF RunInterval, MapExact, Held, mapVars
<1>3. ASSUME NEW c \in Caller, Cancel(c) PROVE MapExact'
  BY <1>3 DEF Cancel, MapExact, Held, mapVars, TypeOK
<1>4. ASSUME NEW c \in Caller, SendRemove(c) PROVE MapExact'
  <2>1. key[c] \in Keys /\ flag[c]
    BY <1>0, <1>4 DEF SendRemove, Phases
  <2>2. /\ Remove(key[c]) \in Message
        /\ \A k \in Keys : Remove(k) = Remove(key[c]) => k = key[c]
    BY <2>1, MessageForms
  <2>3. \A k \in Keys :
          Occurs(queue', Remove(k)) => Occurs(queue, Remove(k)) \/ k = key[c]
    BY <1>4, <2>2, Posts DEF SendRemove
  <2> QED BY <1>4, <2>1, <2>3 DEF SendRemove, MapExact, Held, mapVars
<1>5. ASSUME NEW c \in Caller, TickStep(c) PROVE MapExact'
  <2>1. task[c] # "none" /\ key[c] \in Keys
    BY <1>0, <1>5 DEF TickStep, PollFinisher, TickUpgrade, TickSend
  <2>2. /\ task'[c] # "none"
        /\ \A d \in Caller : d # c => task'[d] = task[d]
    BY <1>5 DEF TickStep, PollFinisher, TickUpgrade, TickSend, TypeOK
  <2>3. UNCHANGED <<key, stored, flag, cur>>
    BY <1>5 DEF TickStep, PollFinisher, TickUpgrade, TickSend, callVars, mapVars
  <2>4. \A k \in Keys : Occurs(queue', Remove(k)) => Occurs(queue, Remove(k))
    <3>1. queue' = queue \/ Post(Run(key[c]))
      BY <1>5 DEF TickStep, PollFinisher, TickUpgrade, TickSend
    <3>2. Run(key[c]) \in Message /\ \A k \in Keys : Remove(k) # Run(key[c])
      BY <2>1, MessageForms
    <3> QED BY <3>1, <3>2, Posts
  <2>5. \A d \in Caller : task'[d] # "none" <=> task[d] # "none"
    BY <2>1, <2>2
  <2>6. \A k \in Keys : stored[k] # NoOne => stored[k] \in Caller
    BY <1>0
  <2> QED BY <2>3, <2>4, <2>5, <2>6 DEF MapExact, Held
<1>6. ASSUME NEW a \in Actor, Recv(a) PROVE MapExact'
  <2>1. /\ UNCHANGED <<stored, task, flag>>
        /\ Occurs(queue, Head(queue))
        /\ \A x : Occurs(queue', x) => Occurs(queue, x)
    BY <1>6, Receives DEF Recv, callVars
  <2>2. \A k \in Keys : Occurs(queue', Remove(k)) \/ Held(Remove(k))'
                        => Occurs(queue, Remove(k)) \/ Held(Remove(k))
    <3>1. \A k \in Keys : Remove(k) # NoMsg
      BY MessageForms
    <3> QED BY <1>6, <2>1, <3>1, Receives
  <2>3. \A d \in Caller : key[d] # NoKey => key'[d] = key[d]
    <3>1. CASE Head(queue).kind = "register"
      <4>1. PICK c \in Caller : Head(queue) = Register(c) /\ Head(queue).by = c
        BY <1>6, <3>1, Receives, MessageForms
      <4>2. key[c] = NoKey
        BY <2>1, <4>1 DEF Phases
      <4> QED BY <1>6, <3>1, <4>1, <4>2 DEF Recv, TypeOK
    <3>2. CASE Head(queue).kind # "register"
      BY <1>6, <3>2 DEF Recv
    <3> QED BY <3>1, <3>2
  <2>4. \A d \in Caller : task[d] # "none" => key[d] # NoKey
    BY DEF Phases
  <2> QED BY <1>0, <2>1, <2>2, <2>3, <2>4 DEF MapExact
<1>7. ASSUME NEW a \in Actor, HandleRegister(a) PROVE MapExact'
  <2>1. PICK c \in Caller : cur[a] = Register(c) /\ cur[a].by = c
    BY <1>0, <1>7, MessageForms DEF HandleRegister
  <2>2. key[c] \in Keys /\ task[c] = "none"
    BY <1>0, <2>1 DEF Phases, Held
  <2>3. /\ UNCHANGED <<key, flag, queue>>
        /\ task'[c] = "sleeping"
        /\ \A d \in Caller : d # c => task'[d] = task[d]
        /\ stored'[key[c]] = c
        /\ \A k \in Keys : k # key[c] => stored'[k] = stored[k]
    BY <1>7, <2>1, <2>2 DEF HandleRegister, TypeOK
  <2>4. \A k \in Keys : Held(Remove(k))' => Held(Remove(k))
    <3>1. \A k \in Keys : Remove(k) # NoMsg
      BY MessageForms
    <3> QED BY <1>7, <3>1, Finishes DEF HandleRegister
  <2>5. \A d \in Caller : task[d] # "none" => d # c /\ key[d] # key[c]
    BY <2>2 DEF KeysDistinct, Phases
  <2> QED BY <1>0, <2>2, <2>3, <2>4, <2>5, CallerAssumption DEF MapExact
<1>8. ASSUME NEW a \in Actor, HandleRemove(a) PROVE MapExact'
  <2>1. PICK k \in Keys : cur[a] = Remove(k) /\ cur[a].key = k
    BY <1>0, <1>8, MessageForms DEF HandleRemove
  <2>2. PICK c \in Caller : key[c] = k /\ flag[c]
    BY <2>1 DEF MapExact, Held
  <2>3. /\ UNCHANGED <<key, flag, queue, task>>
        /\ stored'[k] = NoOne
        /\ \A j \in Keys : j # k => stored'[j] = stored[j]
    BY <1>8, <2>1 DEF HandleRemove, TypeOK, callVars
  <2>4. \A j \in Keys : Held(Remove(j))' => Held(Remove(j))
    <3>1. \A j \in Keys : Remove(j) # NoMsg
      BY MessageForms
    <3> QED BY <1>8, <3>1, Finishes DEF HandleRemove
  <2>5. \A d \in Caller : ~flag[d] => d # c
    BY <2>2
  <2>6. \A d \in Caller : task[d] # "none" /\ ~flag[d] => key[d] # k
    BY <1>0, <2>2, <2>5 DEF KeysDistinct, Phases
  <2> QED BY <1>0, <2>3, <2>4, <2>6 DEF MapExact
<1>9. ASSUME NEW a \in Actor, HandleRun(a) \/ RunEnds(a) \/ Leave(a)
      PROVE  MapExact'
  <2>1. UNCHANGED <<flag, task, key, stored, queue>>
    BY <1>9 DEF HandleRun, RunEnds, Leave, callVars, mapVars
  <2>2. cur' = cur \/ \E to : Back(a, to)
    BY <1>9 DEF HandleRun, RunEnds, Leave
  <2>3. \A b \in Actor : cur'[b] = cur[b] \/ cur'[b] = NoMsg
    BY <2>2, Finishes
  <2>4. \A k \in Keys : Held(Remove(k))' => Held(Remove(k))
    BY <2>3, MessageForms DEF Held
  <2> QED BY <2>1, <2>4 DEF MapExact
<1> QED BY <1>1, <1>2, <1>3, <1>4, <1>5, <1>6, <1>7, <1>8, <1>9
           DEF Next, CallerStep, ActorStep

LEMMA InitBookkeeping == Init => Bookkeeping
<1> SUFFICES ASSUME Init PROVE Bookkeeping
  OBVIOUS
<1> USE DEF Init
<1>1. \A x : ~Occurs(queue, x) /\ Once(queue, x)
  BY DEF Occurs, Once
<1>2. \A c \in Caller : ~Held(Register(c))
  BY MessageForms DEF Held
<1>3. \A k \in Keys : ~Held(Remove(k))
  BY MessageForms DEF Held
<1>4. TypeOK
  <2>1. 0 \in 0 .. MaxCancels /\ 0 \in 0 .. Cardinality(Caller)
    BY CallerCount, BoundAssumption
  <2> QED BY <2>1 DEF TypeOK
<1>5. Phases
  BY <1>1, <1>2, MessageForms, BoundAssumption DEF Phases
<1>6. KeysDistinct
  <2>1. Drawn = {}
    BY DEF Drawn
  <2> QED BY <2>1, FS_EmptySet DEF KeysDistinct
<1>7. MapExact
  BY <1>1, <1>3 DEF MapExact
<1>8. Busy
  BY DEF Busy
<1>9. Locked
  <2>1. Range(lockq) = {}
    BY DEF Range
  <2> QED BY <2>1 DEF Locked, IsInjective
<1> QED BY <1>4, <1>5, <1>6, <1>7, <1>8, <1>9 DEF Bookkeeping

LEMMA BookkeepingHolds == Spec => []Bookkeeping
<1>1. Init => Bookkeeping
  BY InitBookkeeping
<1>2. Bookkeeping /\ [Next]_vars => Bookkeeping'
  <2> SUFFICES ASSUME Bookkeeping, [Next]_vars PROVE Bookkeeping'
    OBVIOUS
  <2>1. CASE Next
    BY <2>1, TypeStep, PhasesStep, KeysDistinctStep, MapExactStep, BusyStep,
       LockedStep DEF Bookkeeping
  <2>2. CASE UNCHANGED vars
    BY <2>2 DEF vars, callVars, mapVars, Bookkeeping, TypeOK, Phases, KeysDistinct,
                Drawn, MapExact, Busy, Locked, Held
  <2> QED BY <2>1, <2>2
<1> QED BY <1>1, <1>2, PTL DEF Spec

------------------------------------------------------------------------------
(* Theorems.                                                                *)

\* interval.rs, context.rs: every variable keeps its type, whatever the number
\* of callers and actors; a key below the number of registrations fits the map.
THEOREM TypeCorrect == Spec => []TypeOK
<1>1. Bookkeeping => TypeOK
  BY DEF Bookkeeping
<1> QED BY <1>1, BookkeepingHolds, PTL

\* address.rs:367, interval.rs insert and remove: an interval nobody cancelled
\* stays registered, for any number of intervals, handles and actors.
THEOREM UncancelledKept == Spec => []UncancelledStays
<1>1. Bookkeeping => UncancelledStays
  <2> SUFFICES ASSUME Bookkeeping, NEW c \in Caller, task[c] # "none", ~flag[c]
               PROVE  Stored(c)
    BY DEF UncancelledStays
  <2>1. stored[key[c]] = c
    BY DEF Bookkeeping, MapExact
  <2>2. key[c] \in Keys
    BY DEF Bookkeeping, Phases, TypeOK
  <2> QED BY <2>1, <2>2 DEF Stored
<1> QED BY <1>1, BookkeepingHolds, PTL

\* context.rs:130 handle_interval_msg: the asynchronous lock keeps two futures
\* from running at once, and the one that runs is in the map while it does.
THEOREM OneFutureRuns == Spec => []OneRunner
<1>1. Bookkeeping => OneRunner
  BY DEF Bookkeeping, Locked, OneRunner
<1> QED BY <1>1, BookkeepingHolds, PTL

------------------------------------------------------------------------------
(* No leak: a future that nobody will run has its Remove on the way.        *)

Owed(c) ==
  \/ call[c] = "cancelling" \/ removing[c] > 0
  \/ Occurs(queue, Remove(key[c])) \/ Held(Remove(key[c]))

Leftover(c) ==
  /\ flag[c] \/ task[c] = "ended"
  /\ task[c] # "none" /\ stored[key[c]] = c

Tidy == \A c \in Caller : Leftover(c) /\ SenderAlive /\ Receivers # {} => Owed(c)

\* Nothing brings back a sender or an actor.
LEMMA EndsForGood ==
  ASSUME Bookkeeping, Next
  PROVE  (SenderAlive' => SenderAlive) /\ Receivers' \subseteq Receivers
<1> USE DEF Bookkeeping
<1>1. CASE DropAddress
  BY <1>1 DEF DropAddress, SenderAlive, TicksHolding, Receivers, callVars
<1>2. ASSUME NEW c \in Caller, RunInterval(c) \/ Abandon(c) \/ Cancel(c)
      PROVE  (SenderAlive' => SenderAlive) /\ Receivers' \subseteq Receivers
  BY <1>2 DEF RunInterval, Abandon, Cancel, SenderAlive, TicksHolding, Receivers
<1>3. ASSUME NEW c \in Caller, SpawnRemove(c)
      PROVE  (SenderAlive' => SenderAlive) /\ Receivers' \subseteq Receivers
  <2>1. /\ UNCHANGED <<alive, task, pc>>
        /\ ~SenderAlive => removing' = removing
    BY <1>3 DEF SpawnRemove, TypeOK
  <2> QED BY <2>1 DEF SenderAlive, TicksHolding, Receivers
<1>4. ASSUME NEW c \in Caller, SendRemove(c)
      PROVE  (SenderAlive' => SenderAlive) /\ Receivers' \subseteq Receivers
  BY <1>4 DEF SendRemove, SenderAlive, Receivers
<1>5. ASSUME NEW c \in Caller, TickStep(c)
      PROVE  (SenderAlive' => SenderAlive) /\ Receivers' \subseteq Receivers
  <2>1. UNCHANGED <<alive, removing, pc>>
    BY <1>5 DEF TickStep, PollFinisher, TickUpgrade, TickSend, callVars
  <2>2. ~SenderAlive => \A d \in Caller : task'[d] = "sending" => task[d] = "sending"
    BY <1>5 DEF TickStep, PollFinisher, TickUpgrade, TickSend, TypeOK
  <2> QED BY <2>1, <2>2 DEF SenderAlive, TicksHolding, Receivers
<1>6. ASSUME NEW a \in Actor, HandleRegister(a)
      PROVE  (SenderAlive' => SenderAlive) /\ Receivers' \subseteq Receivers
  <2>1. UNCHANGED <<alive, removing>>
    BY <1>6 DEF HandleRegister
  <2>2. \A d \in Caller : task'[d] = "sending" => task[d] = "sending"
    BY <1>6 DEF HandleRegister, TypeOK
  <2>3. pc[a] = "lock" /\ \A b \in Actor : b # a => pc'[b] = pc[b]
    BY <1>6, Finishes DEF HandleRegister, HasLock
  <2> QED BY <2>1, <2>2, <2>3 DEF SenderAlive, TicksHolding, Receivers
<1>7. ASSUME NEW a \in Actor, Recv(a) \/ HandleRun(a) \/ RunEnds(a)
                              \/ HandleRemove(a) \/ Leave(a)
      PROVE  (SenderAlive' => SenderAlive) /\ Receivers' \subseteq Receivers
  <2>1. UNCHANGED <<alive, removing, task>>
    BY <1>7 DEF Recv, HandleRun, RunEnds, HandleRemove, Leave, callVars
  <2>2. pc[a] \in {"recv", "lock", "running"} /\ \A b \in Actor : b # a => pc'[b] = pc[b]
    BY <1>7 DEF Recv, HandleRun, RunEnds, HandleRemove, Leave, HasLock, Back, TypeOK
  <2> QED BY <2>1, <2>2 DEF SenderAlive, TicksHolding, Receivers
<1> QED BY <1>1, <1>2, <1>3, <1>4, <1>5, <1>6, <1>7
           DEF Next, CallerStep, ActorStep

\* A key stays with its caller.
LEMMA KeyKept ==
  ASSUME Bookkeeping, Next, NEW c \in Caller, key[c] # NoKey
  PROVE  key'[c] = key[c]
<1> USE DEF Bookkeeping
<1>1. ASSUME NEW d \in Caller, CallerStep(d) \/ TickStep(d) \/ SendRemove(d)
      PROVE  key' = key
  BY <1>1 DEF CallerStep, TickStep, RunInterval, Abandon, Cancel, SpawnRemove,
              SendRemove, PollFinisher, TickUpgrade, TickSend, mapVars
<1>2. ASSUME NEW a \in Actor, Recv(a), Head(queue).kind = "register"
      PROVE  key'[c] = key[c]
  <2>1. PICK d \in Caller : Head(queue) = Register(d) /\ Head(queue).by = d
    BY <1>2, Receives, MessageForms
  <2>2. key[d] = NoKey
    BY <1>2, <2>1, Receives DEF Phases
  <2> QED BY <1>2, <2>1, <2>2 DEF Recv, TypeOK
<1>3. ASSUME NEW a \in Actor, ActorStep(a)
      PROVE  \/ UNCHANGED <<key, next>>
             \/ Recv(a) /\ Head(queue).kind = "register"
  BY <1>3 DEF ActorStep, Recv, HandleRegister, HandleRun, RunEnds, HandleRemove,
              Leave, mapVars
<1>4. DropAddress => key' = key
  BY DEF DropAddress, mapVars
<1> QED BY <1>1, <1>2, <1>3, <1>4 DEF Next

LEMMA TidyStep ==
  ASSUME Bookkeeping, Tidy, Next
  PROVE  Tidy'
<1> SUFFICES ASSUME NEW c \in Caller, Leftover(c)', SenderAlive', (Receivers # {})'
             PROVE  Owed(c)'
  BY DEF Tidy
<1> USE DEF Bookkeeping
<1>0. SenderAlive /\ Receivers # {}
  BY EndsForGood
<1>1. ASSUME NEW a \in Actor, HandleRegister(a) PROVE Owed(c)'
  <2>1. PICK d \in Caller : cur[a] = Register(d) /\ cur[a].by = d
    <3>1. cur[a] \in Message \cup {NoMsg} /\ cur[a].kind = "register"
      BY <1>1 DEF HandleRegister, TypeOK
    <3> QED BY <3>1, MessageForms
  <2>2. key[d] \in Keys /\ task[d] = "none" /\ ~flag[d]
    BY <2>1 DEF Phases, Held, TypeOK
  <2>3. /\ UNCHANGED <<flag, key, removing, queue>>
        /\ task'[d] = "sleeping"
        /\ \A e \in Caller : e # d => task'[e] = task[e] /\ call'[e] = call[e]
        /\ \A k \in Keys : k # key[d] => stored'[k] = stored[k]
    BY <1>1, <2>1, <2>2 DEF HandleRegister, TypeOK
  <2>4. c # d
    BY <2>2, <2>3 DEF Leftover
  <2>5. key[c] \in Keys /\ key[c] # key[d]
    BY <2>2, <2>3, <2>4 DEF Leftover, Phases, KeysDistinct, TypeOK
  <2>6. Owed(c)
    BY <1>0, <2>3, <2>4, <2>5 DEF Tidy, Leftover
  <2>7. Held(Remove(key[c])) => Held(Remove(key[c]))'
    <3>1. Remove(key[c]) # Register(d)
      BY <2>5, MessageForms
    <3> QED BY <1>1, <2>1, <3>1, Finishes DEF HandleRegister
  <2> QED BY <2>3, <2>4, <2>6, <2>7 DEF Owed
<1>2. ASSUME ~\E a \in Actor : HandleRegister(a)
      PROVE  task[c] # "none"
  <2>1. CASE DropAddress
    BY <2>1 DEF DropAddress, Leftover
  <2>2. ASSUME NEW d \in Caller, CallerStep(d) \/ SendRemove(d) PROVE task[c] # "none"
    BY <2>2 DEF CallerStep, RunInterval, Abandon, Cancel, SpawnRemove, SendRemove,
                Leftover
  <2>3. ASSUME NEW d \in Caller, TickStep(d) PROVE task[c] # "none"
    <3>1. task[d] # "none" /\ \A e \in Caller : e # d => task'[e] = task[e]
      BY <2>3 DEF TickStep, PollFinisher, TickUpgrade, TickSend, TypeOK
    <3> QED BY <3>1 DEF Leftover
  <2>4. ASSUME NEW a \in Actor, Recv(a) \/ HandleRun(a) \/ RunEnds(a)
                                \/ HandleRemove(a) \/ Leave(a)
        PROVE  task[c] # "none"
    BY <2>4 DEF Recv, HandleRun, RunEnds, HandleRemove, Leave, Leftover
  <2> QED BY <1>2, <2>1, <2>2, <2>3, <2>4 DEF Next, ActorStep
<1>3. ASSUME ~\E a \in Actor : HandleRegister(a)
      PROVE  key[c] \in Keys /\ key'[c] = key[c] /\ stored[key[c]] = c
  <2>1. key[c] # NoKey /\ key[c] \in Keys
    BY <1>2, <1>3 DEF Phases, TypeOK
  <2>2. key'[c] = key[c]
    BY <2>1, KeyKept
  <2>3. stored'[key[c]] = c
    BY <2>2 DEF Leftover
  <2>4. stored' = stored \/ \E a \in Actor : HandleRemove(a)
    BY <1>3 DEF Next, DropAddress, CallerStep, TickStep, RunInterval, Abandon, Cancel,
                SpawnRemove, SendRemove, PollFinisher, TickUpgrade, TickSend,
                ActorStep, Recv, HandleRun, RunEnds, Leave, mapVars
  <2>5. ASSUME NEW a \in Actor, HandleRemove(a) PROVE stored[key[c]] = c
    BY <2>1, <2>3, <2>5, CallerAssumption DEF HandleRemove, TypeOK
  <2> QED BY <2>1, <2>2, <2>3, <2>4, <2>5
<1>4. CASE ~\E a \in Actor : HandleRegister(a)
  <2>1. PICK k \in Keys : /\ key[c] = k /\ key'[c] = k /\ stored[k] = c
                          /\ task[c] # "none"
    BY <1>2, <1>3, <1>4
  <2>3. flag'[c] \/ task'[c] = "ended"
    BY DEF Leftover
  <2>4. /\ Remove(k) \in Message /\ Remove(k).kind = "remove" /\ Remove(k) # NoMsg
        /\ Remove(k).key = k
    BY <2>1, MessageForms
  <2>2. (flag[c] \/ task[c] = "ended") =>
          \/ call[c] = "cancelling" \/ removing[c] > 0
          \/ Occurs(queue, Remove(k)) \/ Held(Remove(k))
    BY <1>0, <2>1 DEF Tidy, Leftover, Owed
  <2>5. cur' = cur => (Held(Remove(k)) => Held(Remove(k))')
    BY DEF Held
  <2>6. Owed(c)' <=> \/ call'[c] = "cancelling" \/ removing'[c] > 0
                     \/ Occurs(queue', Remove(k)) \/ Held(Remove(k))'
    BY <2>1 DEF Owed, Held
  <2>7. CASE DropAddress
    BY <2>2, <2>3, <2>5, <2>6, <2>7 DEF DropAddress, callVars
  <2>8. ASSUME NEW d \in Caller, RunInterval(d) PROVE Owed(c)'
    <3>1. /\ UNCHANGED <<cancels, flag, removing, task, cur>>
          /\ call[d] = "idle" /\ \A e \in Caller : e # d => call'[e] = call[e]
      BY <2>8 DEF RunInterval, TypeOK
    <3>2. c # d
      BY <2>1, <3>1 DEF Phases
    <3>3. Occurs(queue, Remove(k)) => Occurs(queue', Remove(k))
      BY <2>8, Posts, MessageForms DEF RunInterval
    <3> QED BY <2>2, <2>3, <2>5, <2>6, <3>1, <3>2, <3>3
  <2>9. ASSUME NEW d \in Caller, Abandon(d) PROVE Owed(c)'
    BY <2>2, <2>3, <2>5, <2>6, <2>9 DEF Abandon, TypeOK
  <2>10. ASSUME NEW d \in Caller, Cancel(d) PROVE Owed(c)'
    BY <2>2, <2>3, <2>5, <2>6, <2>10 DEF Cancel, TypeOK
  <2>11. ASSUME NEW d \in Caller, SpawnRemove(d) PROVE Owed(c)'
    BY <1>0, <2>2, <2>3, <2>5, <2>6, <2>11, BoundAssumption
       DEF SpawnRemove, TypeOK
  <2>12. ASSUME NEW d \in Caller, SendRemove(d) PROVE Owed(c)'
    <3>1. key[d] \in Keys /\ Remove(key[d]) \in Message
      BY <2>12, MessageForms DEF SendRemove, Phases, TypeOK
    <3>2. /\ Occurs(queue', Remove(key[d]))
          /\ Occurs(queue, Remove(k)) => Occurs(queue', Remove(k))
      BY <1>0, <2>12, <3>1, Posts DEF SendRemove
    <3>3. CASE d = c
      BY <2>1, <2>6, <3>2, <3>3
    <3>4. CASE d # c
      BY <2>2, <2>3, <2>5, <2>6, <2>12, <3>2, <3>4 DEF SendRemove, TypeOK
    <3> QED BY <3>3, <3>4
  <2>13. ASSUME NEW d \in Caller, TickStep(d) PROVE Owed(c)'
    <3>1. UNCHANGED <<callVars, key, cur>>
      BY <2>13 DEF TickStep, PollFinisher, TickUpgrade, TickSend, mapVars
    <3>2. flag[c] \/ task[c] = "ended"
      BY <1>0, <2>3, <2>13, <3>1 DEF TickStep, PollFinisher, TickUpgrade, TickSend,
                                     TypeOK, callVars
    <3>3. Occurs(queue, Remove(k)) => Occurs(queue', Remove(k))
      <4>1. task[d] = "sending" => key[d] \in Keys /\ Run(key[d]) \in Message
        BY MessageForms DEF Phases, TypeOK
      <4>2. \/ queue' = queue
            \/ task[d] = "sending" /\ Post(Run(key[d]))
        BY <2>13 DEF TickStep, PollFinisher, TickUpgrade, TickSend
      <4> QED BY <4>1, <4>2, Posts
    <3> QED BY <2>2, <2>5, <2>6, <3>1, <3>2, <3>3 DEF callVars
  <2>14. ASSUME NEW a \in Actor, Recv(a) PROVE Owed(c)'
    <3>1. UNCHANGED <<callVars, task>>
      BY <2>14 DEF Recv
    <3>2. /\ Occurs(queue, Remove(k)) => Occurs(queue', Remove(k)) \/ Held(Remove(k))'
          /\ Held(Remove(k)) => Held(Remove(k))'
      BY <2>4, <2>14, Receives
    <3> QED BY <2>2, <2>3, <2>5, <2>6, <3>1, <3>2 DEF callVars
  <2>15. ASSUME NEW a \in Actor, HandleRun(a) \/ RunEnds(a) \/ HandleRemove(a)
                                 \/ Leave(a)
         PROVE  Owed(c)'
    <3>1. UNCHANGED <<callVars, task, queue>>
      BY <2>15 DEF HandleRun, RunEnds, HandleRemove, Leave
    <3>2. cur[a] # Remove(k) \/ cur' = cur
      <4>1. CASE HandleRemove(a)
        <5>1. stored'[k] = c /\ c # NoOne
          BY <2>1, CallerAssumption DEF Leftover
        <5>2. cur[a].key # k
          BY <2>1, <4>1, <5>1 DEF HandleRemove, TypeOK
        <5> QED BY <2>4, <5>2
      <4>2. CASE ~HandleRemove(a)
        BY <2>4, <2>15, <4>2 DEF HandleRun, RunEnds, Leave, Locked
      <4> QED BY <4>1, <4>2
    <3>3. cur' = cur \/ \E to : Back(a, to)
      BY <2>15 DEF HandleRun, RunEnds, HandleRemove, Leave
    <3>4. Held(Remove(k)) => Held(Remove(k))'
      BY <3>2, <3>3, Finishes DEF Held
    <3> QED BY <2>2, <2>3, <2>5, <2>6, <3>1, <3>4 DEF callVars
  <2> QED BY <1>4, <2>7, <2>8, <2>9, <2>10, <2>11, <2>12, <2>13, <2>14, <2>15
             DEF Next, CallerStep, ActorStep
<1> QED BY <1>1, <1>4

LEMMA UnderWay == \A c \in Caller : Owed(c) => RemoveUnderWay(c)
  BY DEF Owed, RemoveUnderWay, Occurs, Held

\* context.rs:148, future_handle.rs:45 cancel: a tick task ends, and leaves its
\* future in the map, only while the Remove is under way or when nothing can be
\* sent or read any more.
THEOREM NothingLeaks == Spec => []NoLeak
<1>1. Init => Tidy
  BY DEF Init, Tidy, Leftover
<1>2. Bookkeeping /\ Tidy /\ [Next]_vars => Tidy'
  <2> SUFFICES ASSUME Bookkeeping, Tidy, [Next]_vars PROVE Tidy'
    OBVIOUS
  <2>1. CASE Next
    BY <2>1, TidyStep
  <2>2. CASE UNCHANGED vars
    BY <2>2 DEF vars, callVars, mapVars, Tidy, Leftover, Owed, Held, SenderAlive,
                TicksHolding, Receivers
  <2> QED BY <2>1, <2>2
<1>3. Bookkeeping /\ Tidy => NoLeak
  <2> SUFFICES ASSUME Bookkeeping, Tidy, NEW c \in Caller,
                      flag[c] \/ task[c] = "ended", Stored(c)
               PROVE  RemoveUnderWay(c) \/ ~SenderAlive \/ Receivers = {}
    BY DEF NoLeak
  <2>1. PICK k \in Keys : stored[k] = c
    BY DEF Stored
  <2>2. key[c] = k /\ task[c] # "none"
    BY <2>1, CallerAssumption DEF Bookkeeping, MapExact
  <2> QED BY <2>1, <2>2, UnderWay DEF Tidy, Leftover
<1> QED BY <1>1, <1>2, <1>3, BookkeepingHolds, PTL DEF Spec

------------------------------------------------------------------------------
(* A cancelled interval.                                                    *)

LEMMA SilencedStays ==
  ASSUME Bookkeeping, Next, NEW c \in Caller, Silenced(c)
  PROVE  Silenced(c)'
<1> USE DEF Bookkeeping
<1>1. task[c] # "none"
  BY DEF Silenced
<1>2. flag'[c]
  <2>1. flag' = flag \/ \E d \in Caller : Cancel(d)
    BY DEF Next, DropAddress, CallerStep, TickStep, RunInterval, Abandon, SpawnRemove,
           SendRemove, PollFinisher, TickUpgrade, TickSend, ActorStep, Recv,
           HandleRegister, HandleRun, RunEnds, HandleRemove, Leave, callVars
  <2>2. ASSUME NEW d \in Caller, Cancel(d) PROVE flag'[c]
    BY <2>2 DEF Cancel, Silenced, TypeOK
  <2> QED BY <2>1, <2>2 DEF Silenced
<1>3. ASSUME NEW d \in Caller, TickStep(d) PROVE task'[c] \in {"sleeping", "ended"}
  BY <1>3 DEF TickStep, PollFinisher, TickUpgrade, TickSend, Silenced, TypeOK
<1>4. ASSUME NEW a \in Actor, HandleRegister(a)
      PROVE  task'[c] \in {"sleeping", "ended"}
  BY <1>4 DEF HandleRegister, Silenced, TypeOK
<1>5. \/ task' = task
      \/ \E d \in Caller : TickStep(d)
      \/ \E a \in Actor : HandleRegister(a)
  BY DEF Next, DropAddress, CallerStep, RunInterval, Abandon, Cancel, SpawnRemove,
         SendRemove, ActorStep, Recv, HandleRun, RunEnds, HandleRemove, Leave
<1>6. task'[c] \in {"sleeping", "ended"}
  BY <1>3, <1>4, <1>5 DEF Silenced
<1> QED BY <1>2, <1>6 DEF Silenced

LEMMA BacklogShrinks ==
  ASSUME Bookkeeping, Next, NEW c \in Caller, Silenced(c)
  PROVE  Backlog(key[c])' <= Backlog(key[c])
<1> USE DEF Bookkeeping
<1>1. PICK k \in Keys : key[c] = k /\ key'[c] = k
  <2>1. key[c] # NoKey /\ key[c] \in Keys
    BY DEF Silenced, Phases, TypeOK
  <2> QED BY <2>1, KeyKept
<1>2. queue \in Seq(Message) /\ Run(k) \in Message
  BY MessageForms DEF TypeOK
<1>3. /\ Backlog(key[c]) = Cardinality(PositionsOf(queue, Run(k)))
      /\ Backlog(key[c])' = Cardinality(PositionsOf(queue', Run(k)))
  BY <1>1 DEF Backlog, PositionsOf
<1>4. Cardinality(PositionsOf(queue, Run(k))) \in Nat
  <2>1. Len(queue) \in Nat /\ DOMAIN queue = 1 .. Len(queue)
    BY <1>2, LenProperties
  <2>2. IsFiniteSet(PositionsOf(queue, Run(k)))
    <3>1. PositionsOf(queue, Run(k)) \subseteq 1 .. Len(queue)
      BY <2>1 DEF PositionsOf
    <3>2. IsFiniteSet(1 .. Len(queue))
      BY <2>1, FS_Interval
    <3> QED BY <3>1, <3>2, FS_Subset
  <2> QED BY <2>2, FS_CardinalityType
<1>5. CASE PositionsOf(queue', Run(k)) = PositionsOf(queue, Run(k))
  BY <1>3, <1>4, <1>5
<1>6. CASE queue' = queue
  BY <1>5, <1>6
<1>7. ASSUME NEW m \in Message, m # Run(k), Post(m)
      PROVE  PositionsOf(queue', Run(k)) = PositionsOf(queue, Run(k))
  BY <1>7, Posts
<1>8. ASSUME NEW d \in Caller, RunInterval(d)
      PROVE  PositionsOf(queue', Run(k)) = PositionsOf(queue, Run(k))
  BY <1>7, <1>8, MessageForms DEF RunInterval
<1>9. ASSUME NEW d \in Caller, SendRemove(d)
      PROVE  PositionsOf(queue', Run(k)) = PositionsOf(queue, Run(k))
  <2>1. key[d] \in Keys
    BY <1>9 DEF SendRemove, Phases, TypeOK
  <2> QED BY <1>7, <1>9, <2>1, MessageForms DEF SendRemove
<1>10. ASSUME NEW d \in Caller, TickSend(d)
       PROVE  PositionsOf(queue', Run(k)) = PositionsOf(queue, Run(k))
  <2>1. key[d] \in Keys /\ d # c
    BY <1>10 DEF TickSend, Phases, TypeOK, Silenced
  <2>2. key[d] # k
    BY <1>1, <2>1 DEF KeysDistinct, Phases, Silenced
  <2>3. Run(key[d]) \in Message /\ Run(key[d]) # Run(k)
    BY <2>1, <2>2, MessageForms
  <2> QED BY <1>7, <1>10, <2>3 DEF TickSend
<1>11. ASSUME NEW a \in Actor, Recv(a)
       PROVE  Backlog(key[c])' <= Backlog(key[c])
  BY <1>2, <1>3, <1>11, TailCount DEF Recv
<1>12. \/ queue' = queue
       \/ \E d \in Caller : RunInterval(d) \/ SendRemove(d) \/ TickSend(d)
       \/ \E a \in Actor : Recv(a)
  BY DEF Next, DropAddress, CallerStep, TickStep, Abandon, Cancel, SpawnRemove,
         PollFinisher, TickUpgrade, ActorStep, HandleRegister, HandleRun, RunEnds,
         HandleRemove, Leave
<1> QED BY <1>5, <1>6, <1>8, <1>9, <1>10, <1>11, <1>12

LEMMA RemovedStays ==
  ASSUME Bookkeeping, Next, NEW c \in Caller, Removed(c)
  PROVE  Removed(c)'
<1> USE DEF Bookkeeping
<1>1. task[c] # "none" /\ \A k \in Keys : stored[k] # c
  BY DEF Removed, Stored
<1>2. ASSUME NEW a \in Actor, HandleRegister(a) PROVE Removed(c)'
  <2>1. PICK d \in Caller : cur[a] = Register(d) /\ cur[a].by = d
    <3>1. cur[a] \in Message \cup {NoMsg} /\ cur[a].kind = "register"
      BY <1>2 DEF HandleRegister, TypeOK
    <3> QED BY <3>1, MessageForms
  <2>2. d # c
    BY <1>1, <2>1 DEF Phases, Held
  <2> QED BY <1>1, <1>2, <2>1, <2>2 DEF HandleRegister, Removed, Stored, TypeOK
<1>3. ASSUME NEW a \in Actor, HandleRemove(a) PROVE Removed(c)'
  <2>1. \A k \in Keys : stored'[k] \in {stored[k], NoOne}
    BY <1>3 DEF HandleRemove, TypeOK
  <2>2. task' = task
    BY <1>3 DEF HandleRemove
  <2> QED BY <1>1, <2>1, <2>2, CallerAssumption DEF Removed, Stored
<1>4. \/ stored' = stored
      \/ \E a \in Actor : HandleRegister(a) \/ HandleRemove(a)
  BY DEF Next, DropAddress, CallerStep, TickStep, RunInterval, Abandon, Cancel,
         SpawnRemove, SendRemove, PollFinisher, TickUpgrade, TickSend, ActorStep,
         Recv, HandleRun, RunEnds, Leave, mapVars
<1>5. task'[c] # "none"
  <2>1. ASSUME NEW d \in Caller, TickStep(d) PROVE task'[c] # "none"
    BY <1>1, <2>1 DEF TickStep, PollFinisher, TickUpgrade, TickSend, TypeOK
  <2>2. ASSUME NEW a \in Actor, HandleRegister(a) PROVE task'[c] # "none"
    BY <1>1, <2>2 DEF HandleRegister, TypeOK
  <2>3. \/ task' = task
        \/ \E d \in Caller : TickStep(d)
        \/ \E a \in Actor : HandleRegister(a)
    BY DEF Next, DropAddress, CallerStep, RunInterval, Abandon, Cancel, SpawnRemove,
           SendRemove, ActorStep, Recv, HandleRun, RunEnds, HandleRemove, Leave
  <2> QED BY <1>1, <2>1, <2>2, <2>3
<1> QED BY <1>1, <1>2, <1>3, <1>4, <1>5 DEF Removed, Stored

\* future_handle.rs:45, interval.rs remove: cancel() is final, for any number of
\* intervals, handles and actors: once the flag is up and the tick it may have
\* overtaken is through, no further Run is sent, and a future taken out of the
\* map never comes back.
THEOREM CancellationIsFinal == Spec => CancelIsFinal
<1> DEFINE Step == \A c \in Caller :
             /\ Silenced(c) => Silenced(c)' /\ Backlog(key[c])' <= Backlog(key[c])
             /\ Removed(c) => Removed(c)'
<1>1. Bookkeeping /\ [Next]_vars => [Step]_vars
  BY SilencedStays, BacklogShrinks, RemovedStays
<1> QED BY <1>1, BookkeepingHolds, PTL DEF Spec, CancelIsFinal
=============================================================================
