--------------------------- MODULE ActorCoreProofs ---------------------------
(***************************************************************************)
(* Theorems about ActorCore.tla, for any clients, actors and messages and  *)
(* every configuration of the builder.  Bookkeeping and OnePlace are the   *)
(* inductive invariants everything else rests on.  MessageStep lists what  *)
(* a step can do to one message: how requests end (Requests) and the       *)
(* refinement of Mailbox.tla both follow from it, not from the actions.    *)
(***************************************************************************)
EXTENDS ActorCore, Queues, FiniteSetTheorems, TLAPS

------------------------------------------------------------------------------
(* The bookkeeping: types, strong_count and current_active.  The type       *)
(* invariant is not inductive alone, both counters must stay natural.       *)
(* Neither counter is what the docs make of it; the two invariants say by   *)
(* exactly how much.                                                        *)

\* An actor whose handler panicked never gets to dec_active.
Counted == {a \in Actor : pc[a] \in {"recv", "handle", "exit", "panicked"}}
CountKeepsPanicked == count = Cardinality(Counted)

\* An upgrade that panicked has been counted, and nobody drops an Address for
\* it; Drop::drop never meets the value it compares with.
Leaked == {c \in Client : holder[c] = "panicked"}
NeverShutsDown ==
  /\ strong = Cardinality(Live) + Cardinality(Leaked)
  /\ ~closing /\ cancelled = {}

Bookkeeping == TypeOK /\ CountKeepsPanicked /\ NeverShutsDown

LEMMA Finite == /\ IsFiniteSet(Live) /\ Cardinality(Live) \in Nat
                /\ IsFiniteSet(Leaked) /\ Cardinality(Leaked) \in Nat
                /\ IsFiniteSet(Counted) /\ Cardinality(Counted) \in Nat
  BY PartiesAssumption, FS_Subset, FS_CardinalityType DEF Live, Leaked, Counted

LEMMA InitBookkeeping == Init => Bookkeeping
<1> SUFFICES ASSUME Init PROVE Bookkeeping
  OBVIOUS
<1>1. TypeOK
  <2>1. queue \in Seq(Msg)
    BY DEF Init
  <2>2. gen \in [Actor -> 0 .. MaxGeneration]
    BY ConfigAssumption DEF Init
  <2> QED BY <2>1, <2>2 DEF Init, TypeOK
<1>2. CountKeepsPanicked
  <2>1. Counted = {}
    BY DEF Init, Counted
  <2> QED BY <2>1, FS_EmptySet DEF Init, CountKeepsPanicked
<1>3. NeverShutsDown
  <2>1. Live = {First}
    BY PartiesAssumption DEF Init, Live
  <2>2. Leaked = {}
    BY DEF Init, Leaked
  <2>3. Cardinality(Live) = 1 /\ Cardinality(Leaked) = 0
    BY <2>1, <2>2, FS_EmptySet, FS_Singleton
  <2> QED BY <2>3 DEF Init, NeverShutsDown
<1> QED BY <1>1, <1>2, <1>3 DEF Bookkeeping

\* Which actions can move which counter.
LEMMA AddressFrame ==
  ASSUME Next,
         \A c \in Client : /\ \A d \in Client : ~Clone(c, d)
                           /\ ~UpgradeTx(c) /\ ~UpgradeGroup(c)
                           /\ ~Drop(c) /\ ~Release(c)
  PROVE  UNCHANGED <<holder, strong, closing, cancelled>>
  BY DEF Next, ClientStep, ActorStep, TaskStep, addrVars, stateVars, Downgrade,
         Send, CloseOne, Request, SendLater, DoSend, GetReply, Abandon, OnStart,
         Recv, RecvFails, Handled, HandlerPanics, HandleClose, CloseHeard, HandleDelayed,
         LoopEnds, OnStop, TaskSends, DelayEnds

LEMMA StrongStep == Bookkeeping /\ Next => NeverShutsDown'
<1> SUFFICES ASSUME Bookkeeping, Next PROVE NeverShutsDown'
  OBVIOUS
<1> USE DEF Bookkeeping
<1>1. ASSUME NEW c \in Client, NEW d \in Client, Clone(c, d) PROVE NeverShutsDown'
  <2>1. Live' = Live \cup {d} /\ d \notin Live /\ Leaked' = Leaked
    BY <1>1 DEF Clone, TypeOK, Live, Leaked
  <2>2. Cardinality(Live') = Cardinality(Live) + 1
    BY <2>1, Finite, FS_AddElement
  <2> QED BY <1>1, <2>1, <2>2, Finite DEF Clone, NeverShutsDown, stateVars
<1>2. ASSUME NEW c \in Client, UpgradeTx(c) PROVE NeverShutsDown'
  <2>1. Live' = Live /\ Leaked' = Leaked
    BY <1>2 DEF UpgradeTx, TypeOK, Live, Leaked
  <2> QED BY <1>2, <2>1 DEF UpgradeTx, NeverShutsDown, stateVars
<1>3. ASSUME NEW c \in Client, UpgradeGroup(c) PROVE NeverShutsDown'
  <2>0. strong' = strong + 1 /\ UNCHANGED <<closing, cancelled>>
    BY <1>3 DEF UpgradeGroup, stateVars
  <2>1. CASE holder' = [holder EXCEPT ![c] = "panicked"]
    <3>1. Leaked' = Leaked \cup {c} /\ c \notin Leaked /\ Live' = Live
      BY <1>3, <2>1 DEF UpgradeGroup, TypeOK, Live, Leaked
    <3>2. Cardinality(Leaked') = Cardinality(Leaked) + 1
      BY <3>1, Finite, FS_AddElement
    <3> QED BY <2>0, <3>1, <3>2, Finite DEF NeverShutsDown
  <2>2. CASE holder' = [holder EXCEPT ![c] = "live"]
    <3>1. Live' = Live \cup {c} /\ c \notin Live /\ Leaked' = Leaked
      BY <1>3, <2>2 DEF UpgradeGroup, TypeOK, Live, Leaked
    <3>2. Cardinality(Live') = Cardinality(Live) + 1
      BY <3>1, Finite, FS_AddElement
    <3> QED BY <2>0, <3>1, <3>2, Finite DEF NeverShutsDown
  <2> QED BY <1>3, <2>1, <2>2 DEF UpgradeGroup
<1>4. ASSUME NEW c \in Client, Drop(c) PROVE NeverShutsDown'
  <2>1. Live' = Live \ {c} /\ c \in Live /\ Leaked' = Leaked
    BY <1>4 DEF Drop, TypeOK, Live, Leaked
  <2>2. Cardinality(Live') = Cardinality(Live) - 1
    BY <2>1, Finite, FS_RemoveElement
  <2>3. Cardinality(Live) > 0
    BY <2>1, Finite, FS_EmptySet
  <2>4. ~NoneLeft
    BY <2>3, Finite DEF NoneLeft, NeverShutsDown
  <2>5. ~closing' /\ cancelled' = {} /\ strong' = strong - 1
    BY <1>4, <2>4 DEF Drop, NeverShutsDown
  <2> QED BY <2>1, <2>2, <2>5, Finite DEF NeverShutsDown
<1>5. ASSUME NEW c \in Client, Release(c) PROVE NeverShutsDown'
  <2>1. Live' = Live /\ Leaked' = Leaked
    BY <1>5 DEF Release, TypeOK, Live, Leaked
  <2> QED BY <1>5, <2>1 DEF Release, NeverShutsDown, stateVars
<1>6. CASE UNCHANGED <<holder, strong, closing, cancelled>>
  BY <1>6 DEF NeverShutsDown, Live, Leaked
<1> QED BY <1>1, <1>2, <1>3, <1>4, <1>5, <1>6, AddressFrame

LEMMA ActorFrame ==
  ASSUME Next, \A a \in Actor : ~ActorStep(a)
  PROVE  UNCHANGED <<pc, cur, manual, gen, count>>
  BY DEF Next, ClientStep, TaskStep, addrVars, stateVars, actorVars, Clone,
         Downgrade, UpgradeTx, UpgradeGroup, Drop, Release, Send, CloseOne,
         Request, SendLater, DoSend, GetReply, Abandon, TaskSends, DelayEnds

LEMMA CountStep == Bookkeeping /\ Next => CountKeepsPanicked'
<1> SUFFICES ASSUME Bookkeeping, Next PROVE CountKeepsPanicked'
  OBVIOUS
<1> USE DEF Bookkeeping
<1>0. ~closing
  BY DEF NeverShutsDown
<1>1. ASSUME NEW a \in Actor, OnStart(a) PROVE CountKeepsPanicked'
  <2>1. count' = count + 1
    BY <1>0, <1>1 DEF OnStart
  <2>2. Counted' = Counted \cup {a} /\ a \notin Counted
    BY <1>1 DEF OnStart, TypeOK, Counted
  <2>3. Cardinality(Counted') = Cardinality(Counted) + 1
    BY <2>2, Finite, FS_AddElement
  <2> QED BY <2>1, <2>3, Finite DEF CountKeepsPanicked
<1>2. ASSUME NEW a \in Actor, LoopEnds(a) PROVE CountKeepsPanicked'
  <2>1. count' = count - 1
    BY <1>0, <1>2 DEF LoopEnds, DecActive
  <2>2. Counted' = Counted \ {a} /\ a \in Counted
    BY <1>2 DEF LoopEnds, TypeOK, Counted
  <2>3. Cardinality(Counted') = Cardinality(Counted) - 1
    BY <2>2, Finite, FS_RemoveElement
  <2> QED BY <2>1, <2>3, Finite DEF CountKeepsPanicked
<1>3. ASSUME NEW a \in Actor,
             Recv(a) \/ RecvFails(a) \/ Handled(a) \/ HandlerPanics(a)
               \/ HandleClose(a) \/ HandleDelayed(a) \/ OnStop(a)
      PROVE  CountKeepsPanicked'
  <2>1. count' = count
    BY <1>3 DEF Recv, RecvFails, Handled, HandlerPanics, HandleClose, CloseHeard,
                HandleDelayed, OnStop, stateVars
  <2>2. Counted' = Counted
    BY <1>3 DEF Recv, RecvFails, Handled, HandlerPanics, HandleClose, CloseHeard,
                HandleDelayed, OnStop, Back, TypeOK, Counted
  <2> QED BY <2>1, <2>2 DEF CountKeepsPanicked
<1>4. CASE \A a \in Actor : ~ActorStep(a)
  BY <1>4, ActorFrame DEF CountKeepsPanicked, Counted
<1> QED BY <1>1, <1>2, <1>3, <1>4 DEF ActorStep

\* The counters never go below zero: what is counted is still there.
LEMMA CountersPositive ==
  ASSUME Bookkeeping
  PROVE  /\ \A c \in Client : holder[c] = "live" => strong - 1 \in Nat
         /\ \A a \in Actor : pc[a] = "exit" => count - 1 \in Nat
<1> USE DEF Bookkeeping
<1>1. ASSUME NEW c \in Client, holder[c] = "live" PROVE strong - 1 \in Nat
  <2>1. Live # {}
    BY <1>1 DEF Live
  <2>2. Cardinality(Live) > 0
    BY <2>1, Finite, FS_EmptySet
  <2> QED BY <2>2, Finite DEF NeverShutsDown
<1>2. ASSUME NEW a \in Actor, pc[a] = "exit" PROVE count - 1 \in Nat
  <2>1. Counted # {}
    BY <1>2 DEF Counted
  <2>2. Cardinality(Counted) > 0
    BY <2>1, Finite, FS_EmptySet
  <2> QED BY <2>2, Finite DEF CountKeepsPanicked
<1> QED BY <1>1, <1>2

\* Settling keeps the types of what it touches.
LEMMA SettleType ==
  ASSUME TypeOK, NEW gone, NEW st0, NEW reply0, Settle(gone, st0, reply0),
         st0 \in [Msg -> {"unused", "queued", "handling", "sleeping", "sending",
                          "done", "crashed", "lost"}],
         reply0 \in [Msg -> {"none", "open", "abandoned", "value", "canceled",
                             "closed"}]
  PROVE  /\ queue' \in Seq(Msg)
         /\ st' \in [Msg -> {"unused", "queued", "handling", "sleeping",
                             "sending", "done", "crashed", "lost"}]
         /\ reply' \in [Msg -> {"none", "open", "abandoned", "value",
                                "canceled", "closed"}]
<1>1. queue' \in Seq(Msg)
  BY DEF Settle, TypeOK
<1> QED BY <1>1 DEF Settle

LEMMA EnqueueType ==
  ASSUME TypeOK, NEW m \in Msg, Enqueue(m)
  PROVE  /\ queue' \in Seq(Msg)
         /\ st' \in [Msg -> {"unused", "queued", "handling", "sleeping",
                             "sending", "done", "crashed", "lost"}]
<1>1. queue' \in Seq(Msg)
  BY AppendProperties DEF Enqueue, TypeOK
<1> QED BY <1>1 DEF Enqueue, TypeOK

LEMMA TypeStep == Bookkeeping /\ Next => TypeOK'
<1> SUFFICES ASSUME Bookkeeping, Next PROVE TypeOK'
  OBVIOUS
<1> USE DEF Bookkeeping
<1>1. ASSUME NEW c \in Client, NEW d \in Client, Clone(c, d) PROVE TypeOK'
  BY <1>1 DEF Clone, TypeOK, stateVars, msgVars, actorVars
<1>2. ASSUME NEW c \in Client, Downgrade(c) PROVE TypeOK'
  BY <1>2 DEF Downgrade, TypeOK, stateVars, msgVars, actorVars
<1>3. ASSUME NEW c \in Client, UpgradeTx(c) PROVE TypeOK'
  BY <1>3 DEF UpgradeTx, TypeOK, stateVars, msgVars, actorVars
<1>4. ASSUME NEW c \in Client, UpgradeGroup(c) PROVE TypeOK'
  <2>1. /\ queue' \in Seq(Msg)
        /\ st' \in [Msg -> {"unused", "queued", "handling", "sleeping",
                            "sending", "done", "crashed", "lost"}]
        /\ reply' \in [Msg -> {"none", "open", "abandoned", "value",
                               "canceled", "closed"}]
    BY <1>4, SettleType DEF UpgradeGroup, TypeOK
  <2> QED BY <1>4, <2>1 DEF UpgradeGroup, TypeOK, stateVars, actorVars
<1>5. ASSUME NEW c \in Client, Drop(c) PROVE TypeOK'
  <2>1. strong' \in Nat
    BY <1>5, CountersPositive DEF Drop
  <2>2. closing' \in BOOLEAN /\ cancelled' \subseteq handlers'
    BY <1>5 DEF Drop, TypeOK
  <2> QED BY <1>5, <2>1, <2>2 DEF Drop, TypeOK, msgVars, actorVars
<1>6. ASSUME NEW c \in Client, Release(c) PROVE TypeOK'
  <2>1. /\ queue' \in Seq(Msg)
        /\ st' \in [Msg -> {"unused", "queued", "handling", "sleeping",
                            "sending", "done", "crashed", "lost"}]
        /\ reply' \in [Msg -> {"none", "open", "abandoned", "value",
                               "canceled", "closed"}]
    BY <1>6, SettleType DEF Release, TypeOK
  <2> QED BY <1>6, <2>1 DEF Release, TypeOK, stateVars, actorVars
<1>7. ASSUME NEW c \in Client, NEW m \in Awaited, Request(c, m) PROVE TypeOK'
  <2>1. m \in Msg
    BY DEF Awaited, Msg
  <2>2. /\ queue' \in Seq(Msg)
        /\ st' \in [Msg -> {"unused", "queued", "handling", "sleeping",
                            "sending", "done", "crashed", "lost"}]
    BY <1>7, <2>1, EnqueueType DEF Request, TypeOK
  <2>3. wait' \in [Client -> Awaited \cup {NoMsg}]
    BY <1>7 DEF Request, TypeOK
  <2>4. reply' \in [Msg -> {"none", "open", "abandoned", "value", "canceled",
                           "closed"}]
    BY <1>7 DEF Request, TypeOK
  <2> QED BY <1>7, <2>2, <2>3, <2>4
          DEF Request, TypeOK, addrVars, stateVars, actorVars
<1>8. ASSUME NEW c \in Client, NEW m \in Delays, SendLater(c, m) PROVE TypeOK'
  <2>1. m \in Msg
    BY DEF Msg
  <2>2. /\ queue' \in Seq(Msg)
        /\ st' \in [Msg -> {"unused", "queued", "handling", "sleeping",
                            "sending", "done", "crashed", "lost"}]
    BY <1>8, <2>1, EnqueueType DEF SendLater, TypeOK
  <2> QED BY <1>8, <2>2 DEF SendLater, TypeOK, addrVars, stateVars, actorVars
<1>9. ASSUME NEW c \in Client, NEW m \in DoSends, DoSend(c, m) PROVE TypeOK'
  BY <1>9 DEF DoSend, TypeOK, addrVars, stateVars, actorVars
<1>10. ASSUME NEW c \in Client, GetReply(c) \/ Abandon(c) PROVE TypeOK'
  BY <1>10 DEF GetReply, Abandon, TypeOK, addrVars, stateVars, actorVars
<1>11. ASSUME NEW m \in Msg, TaskSends(m) PROVE TypeOK'
  <2>1. CASE Accepting
    BY <1>11, <2>1, EnqueueType DEF TaskSends, TypeOK, addrVars, stateVars, actorVars
  <2>2. CASE ~Accepting
    <3>1. /\ queue' \in Seq(Msg)
          /\ st' \in [Msg -> {"unused", "queued", "handling", "sleeping",
                              "sending", "done", "crashed", "lost"}]
          /\ reply' \in [Msg -> {"none", "open", "abandoned", "value",
                                 "canceled", "closed"}]
      BY <1>11, <2>2, SettleType DEF TaskSends, TypeOK
    <3> QED BY <1>11, <3>1 DEF TaskSends, TypeOK, addrVars, stateVars, actorVars
  <2> QED BY <2>1, <2>2
<1>12. ASSUME NEW m \in Msg, DelayEnds(m) PROVE TypeOK'
  <2>1. /\ queue' \in Seq(Msg)
        /\ st' \in [Msg -> {"unused", "queued", "handling", "sleeping",
                            "sending", "done", "crashed", "lost"}]
        /\ reply' \in [Msg -> {"none", "open", "abandoned", "value",
                               "canceled", "closed"}]
    BY <1>12, SettleType DEF DelayEnds, TypeOK
  <2> QED BY <1>12, <2>1 DEF DelayEnds, TypeOK, addrVars, stateVars, actorVars
<1>13. ASSUME NEW a \in Actor, OnStart(a) PROVE TypeOK'
  BY <1>13 DEF OnStart, TypeOK, addrVars, msgVars
<1>14. ASSUME NEW a \in Actor, Recv(a) PROVE TypeOK'
  <2>1. Head(queue) \in Msg /\ Tail(queue) \in Seq(Msg)
    BY <1>14 DEF Recv, TypeOK
  <2> QED BY <1>14, <2>1 DEF Recv, TypeOK, addrVars, stateVars
<1>15. ASSUME NEW a \in Actor, RecvFails(a) PROVE TypeOK'
  BY <1>15 DEF RecvFails, TypeOK, addrVars, stateVars, msgVars
<1>16. ASSUME NEW a \in Actor, Handled(a) PROVE TypeOK'
  BY <1>16 DEF Handled, Back, TypeOK, addrVars, stateVars
<1>17. ASSUME NEW a \in Actor, HandlerPanics(a) PROVE TypeOK'
  <2>1. /\ queue' \in Seq(Msg)
        /\ st' \in [Msg -> {"unused", "queued", "handling", "sleeping",
                            "sending", "done", "crashed", "lost"}]
        /\ reply' \in [Msg -> {"none", "open", "abandoned", "value",
                               "canceled", "closed"}]
    BY <1>17, SettleType DEF HandlerPanics, TypeOK
  <2> QED BY <1>17, <2>1 DEF HandlerPanics, Back, Ended, TypeOK, addrVars, stateVars
<1>18. ASSUME NEW a \in Actor, HandleClose(a) PROVE TypeOK'
  BY <1>18 DEF HandleClose, CloseHeard, Back, TypeOK, addrVars, stateVars
<1>19. ASSUME NEW a \in Actor, HandleDelayed(a) PROVE TypeOK'
  BY <1>19 DEF HandleDelayed, Back, TypeOK, addrVars
<1>20. ASSUME NEW a \in Actor, LoopEnds(a) PROVE TypeOK'
  <2>1. count' \in Nat
    BY <1>20, CountersPositive DEF LoopEnds, DecActive, TypeOK
  <2>2. gen' \in [Actor -> 0 .. MaxGeneration]
    BY <1>20, ConfigAssumption DEF LoopEnds, TypeOK
  <2> QED BY <1>20, <2>1, <2>2 DEF LoopEnds, TypeOK, addrVars, msgVars
<1>21. ASSUME NEW a \in Actor, OnStop(a) PROVE TypeOK'
  <2>1. /\ queue' \in Seq(Msg)
        /\ st' \in [Msg -> {"unused", "queued", "handling", "sleeping",
                            "sending", "done", "crashed", "lost"}]
        /\ reply' \in [Msg -> {"none", "open", "abandoned", "value",
                               "canceled", "closed"}]
    BY <1>21, SettleType DEF OnStop, TypeOK
  <2> QED BY <1>21, <2>1 DEF OnStop, Ended, TypeOK, addrVars, stateVars
<1> QED
  BY <1>1, <1>2, <1>3, <1>4, <1>5, <1>6, <1>7, <1>8, <1>9, <1>10, <1>11, <1>12,
     <1>13, <1>14, <1>15, <1>16, <1>17, <1>18, <1>19, <1>20, <1>21
  DEF Next, ClientStep, ActorStep, TaskStep, Send, CloseOne, Awaited

LEMMA Stutter == Bookkeeping /\ UNCHANGED vars => Bookkeeping'
  BY DEF vars, addrVars, stateVars, msgVars, actorVars, Bookkeeping, TypeOK,
         CountKeepsPanicked, NeverShutsDown, Counted, Live, Leaked

THEOREM BookkeepingHolds == Spec => []Bookkeeping
<1>1. Bookkeeping /\ [Next]_vars => Bookkeeping'
  BY TypeStep, CountStep, StrongStep, Stutter DEF Bookkeeping
<1> QED BY <1>1, InitBookkeeping, PTL DEF Spec

\* Type correctness of the whole core.
THEOREM TypeCorrect == Spec => []TypeOK
  BY BookkeepingHolds, PTL DEF Bookkeeping

\* current_active() (address.rs:75) exceeds the number of active actors by the
\* actors whose handler panicked (ActiveActorsExist is what the doc says), and
\* by nothing else.
THEOREM PanickedStayCounted == Spec => []CountKeepsPanicked
  BY BookkeepingHolds, PTL DEF Bookkeeping

\* strong_count counts the Addresses and the panicked upgrades, so the branch
\* of Drop::drop (address.rs:55) that shuts the actors down is never taken: not
\* what its comments say, and the ground of PendingLostWithAddress' violation.
THEOREM DropNeverShutsDown == Spec => []NeverShutsDown
  BY BookkeepingHolds, PTL DEF Bookkeeping

------------------------------------------------------------------------------
(* What is over stays over: a channel without senders, a group without      *)
(* actors, a broadcast group without Addresses.                             *)

\* ~SenderAlive, spelled out.
LEMMA NoSender ==
  ~SenderAlive <=> /\ \A c \in Client : holder[c] \notin {"upgrading", "live", "dropping"}
                   /\ \A m \in Msg : st[m] \notin {"sleeping", "sending"}
  BY DEF SenderAlive, TxHolders, Tasks

LEMMA NoSenderNext ==
  (~SenderAlive)' <=>
    /\ \A c \in Client : holder'[c] \notin {"upgrading", "live", "dropping"}
    /\ \A m \in Msg : st'[m] \notin {"sleeping", "sending"}
  BY DEF SenderAlive, TxHolders, Tasks

LEMMA SealedStays == TypeOK /\ Next /\ ~SenderAlive => ~SenderAlive'
<1> SUFFICES ASSUME TypeOK, Next, ~SenderAlive PROVE ~SenderAlive'
  OBVIOUS
<1>0. /\ \A c \in Client : holder[c] \notin {"upgrading", "live", "dropping"}
      /\ \A m \in Msg : st[m] \notin {"sleeping", "sending"}
  BY NoSender
<1>1. \A c \in Client : ~ClientStep(c) \/ GetReply(c) \/ Abandon(c)
  BY <1>0 DEF ClientStep, Clone, Downgrade, UpgradeTx, UpgradeGroup, Drop,
              Release, Send, CloseOne, Request, SendLater, DoSend
<1>2. \A m \in Msg : ~TaskStep(m)
  BY <1>0 DEF TaskStep, TaskSends, DelayEnds
<1>3. ASSUME NEW c \in Client, GetReply(c) \/ Abandon(c) PROVE ~SenderAlive'
  BY <1>0, <1>3, NoSenderNext DEF GetReply, Abandon, addrVars
<1>4. ASSUME NEW a \in Actor, ActorStep(a) PROVE ~SenderAlive'
  <2>1. UNCHANGED holder
    BY <1>4 DEF ActorStep, OnStart, Recv, RecvFails, Handled, HandlerPanics,
                HandleClose, CloseHeard, HandleDelayed, LoopEnds, OnStop, addrVars
  <2>2. \A m \in Msg : st'[m] \notin {"sleeping", "sending"}
    <3>1. CASE OnStart(a) \/ RecvFails(a) \/ LoopEnds(a)
      BY <1>0, <3>1 DEF OnStart, RecvFails, LoopEnds, msgVars
    <3>2. CASE Recv(a) \/ Handled(a) \/ HandleClose(a)
      BY <1>0, <3>2 DEF Recv, Handled, HandleClose, CloseHeard, TypeOK
    <3>3. CASE HandleDelayed(a)
      BY <1>0, <3>3 DEF HandleDelayed, TypeOK
    <3>4. CASE HandlerPanics(a)
      BY <1>0, <3>4 DEF HandlerPanics, Settle, TypeOK
    <3>5. CASE OnStop(a)
      BY <1>0, <3>5 DEF OnStop, Settle, TypeOK
    <3> QED BY <1>4, <3>1, <3>2, <3>3, <3>4, <3>5 DEF ActorStep
  <2> QED BY <1>0, <2>1, <2>2, NoSenderNext
<1> QED BY <1>1, <1>2, <1>3, <1>4 DEF Next

LEMMA ReceiversShrink == TypeOK /\ Next => Receivers' \subseteq Receivers
<1> SUFFICES ASSUME TypeOK, Next PROVE Receivers' \subseteq Receivers
  OBVIOUS
<1>1. ASSUME NEW a \in Actor, ActorStep(a) PROVE Receivers' \subseteq Receivers
  BY <1>1 DEF ActorStep, OnStart, Recv, RecvFails, Handled, HandlerPanics,
              HandleClose, CloseHeard, HandleDelayed, LoopEnds, OnStop, Back, Receivers,
              Ended, TypeOK
<1>2. CASE \A a \in Actor : ~ActorStep(a)
  BY <1>2, ActorFrame DEF Receivers
<1> QED BY <1>1, <1>2

LEMMA GroupStaysGone ==
  TypeOK /\ Next /\ AllowBroadcast /\ GroupHolders = {} => GroupHolders' = {}
<1> SUFFICES ASSUME TypeOK, Next, AllowBroadcast, GroupHolders = {}
             PROVE  GroupHolders' = {}
  OBVIOUS
<1>0. \A c \in Client : holder[c] \notin {"live", "dropping"}
  BY DEF GroupHolders
<1>1. ASSUME NEW c \in Client, ClientStep(c) PROVE GroupHolders' = {}
  <2>1. CASE UpgradeTx(c)
    BY <1>0, <2>1 DEF UpgradeTx, TypeOK, GroupHolders
  <2>2. CASE UpgradeGroup(c)
    BY <1>0, <2>2 DEF UpgradeGroup, TypeOK, GroupHolders
  <2>3. CASE GetReply(c) \/ Abandon(c)
    BY <1>0, <2>3 DEF GetReply, Abandon, addrVars, GroupHolders
  <2> QED
    BY <1>0, <1>1, <2>1, <2>2, <2>3
    DEF ClientStep, Clone, Downgrade, Drop, Release, Send, CloseOne, Request,
        SendLater, DoSend
<1>2. CASE \A c \in Client : ~ClientStep(c)
  <2>1. UNCHANGED holder
    BY <1>2 DEF Next, ActorStep, OnStart, Recv, RecvFails, Handled,
                HandlerPanics, HandleClose, CloseHeard, HandleDelayed, LoopEnds, OnStop,
                TaskStep, TaskSends, DelayEnds, addrVars
  <2> QED BY <1>0, <2>1 DEF GroupHolders
<1> QED BY <1>1, <1>2

\* tests/actor.rs:68: a closed channel is never revived, and with broadcasting
\* allowed no Address comes back once all are gone.
THEOREM NothingRevives == Spec => NoRevival
<1>1. TypeOK /\ [Next]_vars =>
        [/\ ~SenderAlive => ~SenderAlive'
         /\ (AllowBroadcast /\ GroupHolders = {}) => GroupHolders' = {}]_vars
  BY SealedStays, GroupStaysGone
<1> QED BY <1>1, TypeCorrect, PTL DEF Spec, NoRevival

------------------------------------------------------------------------------
(* Actors leave only a channel that is closed and empty, and that is final. *)

LEMMA DrainedStays == TypeOK /\ Next /\ Drained => Drained'
<1> SUFFICES ASSUME TypeOK, Next, Drained PROVE queue' = <<>>
  BY SealedStays DEF Drained
<1>0. /\ queue = <<>>
      /\ \A c \in Client : holder[c] \notin {"upgrading", "live", "dropping"}
      /\ \A m \in Msg : st[m] \notin {"sleeping", "sending"}
  BY NoSender DEF Drained
<1>1. ASSUME NEW c \in Client, ClientStep(c) PROVE queue' = <<>>
  BY <1>0, <1>1
  DEF ClientStep, Clone, Downgrade, UpgradeTx, UpgradeGroup, Drop, Release, Send,
      CloseOne, Request, SendLater, DoSend, GetReply, Abandon, msgVars
<1>2. ASSUME NEW m \in Msg, TaskStep(m) PROVE queue' = <<>>
  BY <1>0, <1>2 DEF TaskStep, TaskSends, DelayEnds
<1>3. ASSUME NEW a \in Actor, ActorStep(a) PROVE queue' = <<>>
  BY <1>0, <1>3
  DEF ActorStep, OnStart, Recv, RecvFails, Handled, HandlerPanics, HandleClose, CloseHeard,
      HandleDelayed, LoopEnds, OnStop, Settle, msgVars
<1> QED BY <1>1, <1>2, <1>3 DEF Next

Left(a) == (pc[a] \in {"exit", "stop", "gone"} /\ ~manual[a]) \/ gen[a] > 0

\* The only way to have left is a recv that failed, or to have left before.
LEMMA LeaveStep ==
  ASSUME TypeOK, Next, NEW a \in Actor, Left(a)'
  PROVE  Left(a) \/ RecvFails(a)
<1>1. ASSUME NEW b \in Actor, ActorStep(b) PROVE Left(a) \/ RecvFails(a)
  <2>1. CASE a # b
    <3>1. /\ pc'[a] = pc[a] /\ manual'[a] = manual[a] /\ gen'[a] = gen[a]
      BY <1>1, <2>1
      DEF ActorStep, OnStart, Recv, RecvFails, Handled, HandlerPanics,
          HandleClose, CloseHeard, HandleDelayed, LoopEnds, OnStop, Back, TypeOK
    <3> QED BY <3>1 DEF Left
  <2>2. CASE a = b /\ LoopEnds(a)
    <3>1. pc[a] = "exit" /\ manual' = manual
      BY <2>2 DEF LoopEnds
    <3>2. manual[a] => gen'[a] = gen[a]
      BY <2>2 DEF LoopEnds, Restarts, TypeOK
    <3>3. manual[a] => pc'[a] = "stop"
      BY <2>2 DEF LoopEnds, Restarts, TypeOK
    <3> QED BY <3>1, <3>2, <3>3 DEF Left
  <2>3. CASE a = b /\ OnStop(a)
    BY <2>3 DEF OnStop, Left, TypeOK
  <2>4. CASE a = b /\ HandleClose(a)
    BY <2>4 DEF HandleClose, CloseHeard, Back, Left, TypeOK
  <2>5. CASE a = b /\ (OnStart(a) \/ Recv(a) \/ Handled(a) \/ HandlerPanics(a)
                         \/ HandleDelayed(a))
    BY <2>5 DEF OnStart, Recv, Handled, HandlerPanics, HandleDelayed, Back, Left,
                TypeOK
  <2> QED BY <1>1, <2>1, <2>2, <2>3, <2>4, <2>5 DEF ActorStep
<1>2. CASE \A b \in Actor : ~ActorStep(b)
  BY <1>2, ActorFrame DEF Left
<1> QED BY <1>1, <1>2

\* ActorContext::spawn_loop: an actor nobody closed leaves its loop only when no
\* message is left and none can come; a restarted actor never has work.
THEOREM ActorsLeaveDrained == Spec => []LeavesWhenDrained
<1> DEFINE Inv == \A a \in Actor : Left(a) => Drained
<1>1. Init => Inv
  <2> SUFFICES ASSUME Init, NEW a \in Actor PROVE ~Left(a)
    OBVIOUS
  <2> QED BY DEF Init, Left
<1>2. TypeOK /\ Inv /\ [Next]_vars => Inv'
  <2>1. ASSUME TypeOK, Inv, Next, NEW a \in Actor, Left(a)' PROVE Drained'
    <3>1. Drained
      BY <2>1, LeaveStep DEF RecvFails
    <3> QED BY <2>1, <3>1, DrainedStays
  <2>2. ASSUME Inv, UNCHANGED vars PROVE Inv'
    BY <2>2 DEF vars, addrVars, msgVars, actorVars, Left, Drained, SenderAlive,
                TxHolders, Tasks
  <2> QED BY <2>1, <2>2
<1>3. Inv => LeavesWhenDrained
  BY DEF Left, Drained, LeavesWhenDrained
<1> QED BY <1>1, <1>2, <1>3, TypeCorrect, PTL DEF Spec

------------------------------------------------------------------------------
(* Nothing accepted is lost while somebody can read it.                     *)

LEMMA SettleLost ==
  ASSUME NEW senders, NEW receivers, NEW st0, NEW reply0, NEW m \in Msg,
         Settle(Discarded(senders, receivers), st0, reply0), st'[m] = "lost"
  PROVE  st0[m] = "lost" \/ receivers = {}
  BY DEF Settle, Discarded

\* A message newly lost was refused or discarded without a receiver, or is a
\* delayed one taken without a sender.
LEMMA LossStep ==
  ASSUME Bookkeeping, Next, NEW m \in Msg, st[m] # "lost", st'[m] = "lost"
  PROVE  \/ Receivers = {} \/ Receivers' = {}
         \/ (m \in Delays /\ ~SenderAlive)
<1> USE DEF Bookkeeping
<1>1. ASSUME NEW c \in Client, ClientStep(c) PROVE Receivers = {}
  <2>1. CASE UpgradeGroup(c)
    <3>1. CASE Settle({}, st, reply)
      BY <3>1 DEF Settle
    <3>2. CASE \E senders : Settle(Discarded(senders, Receivers), st, reply)
      BY <3>2, SettleLost
    <3> QED BY <2>1, <3>1, <3>2 DEF UpgradeGroup
  <2>2. CASE Release(c)
    BY <2>2, SettleLost DEF Release
  <2>3. CASE \E k \in Msg : Request(c, k)
    BY <2>3 DEF Request, Enqueue, Accepting, TypeOK
  <2>4. CASE \E k \in Delays : SendLater(c, k)
    BY <2>4 DEF SendLater, Enqueue, Accepting, TypeOK
  <2>5. CASE \E k \in DoSends : DoSend(c, k)
    BY <2>5 DEF DoSend, TypeOK
  <2> QED
    BY <1>1, <2>1, <2>2, <2>3, <2>4, <2>5
    DEF ClientStep, Clone, Downgrade, UpgradeTx, Drop, Send, CloseOne, GetReply,
        Abandon, msgVars, Msg
<1>2. ASSUME NEW k \in Msg, TaskStep(k) PROVE Receivers = {}
  <2>1. CASE TaskSends(k) /\ Accepting
    BY <2>1 DEF TaskSends, Enqueue, TypeOK
  <2>2. CASE ~Accepting
    BY <2>2 DEF Accepting
  <2>3. CASE DelayEnds(k)
    <3>1. k \notin cancelled
      BY DEF NeverShutsDown
    <3>2. Settle({}, [st EXCEPT ![k] = "sending"], reply)
      BY <2>3, <3>1 DEF DelayEnds, CancelDrops
    <3> QED BY <3>2 DEF Settle, TypeOK
  <2> QED BY <1>2, <2>1, <2>2, <2>3 DEF TaskStep
<1>3. ASSUME NEW a \in Actor, ActorStep(a)
      PROVE  Receivers' = {} \/ (m \in Delays /\ ~SenderAlive)
  <2>1. CASE HandlerPanics(a)
    <3>1. [st EXCEPT ![cur[a]] = "crashed"][m] # "lost"
      BY DEF TypeOK
    <3>2. Receivers \ {a} = {}
      BY <2>1, <3>1, SettleLost DEF HandlerPanics
    <3> QED BY <2>1, <3>2 DEF HandlerPanics, Back, Receivers, Ended, TypeOK
  <2>2. CASE OnStop(a)
    <3>1. Receivers \ {a} = {}
      BY <2>2, SettleLost DEF OnStop
    <3> QED BY <2>2, <3>1 DEF OnStop, Receivers, Ended, TypeOK
  <2>3. CASE HandleDelayed(a)
    BY <2>3 DEF HandleDelayed, TypeOK
  <2>4. CASE OnStart(a) \/ Recv(a) \/ RecvFails(a) \/ Handled(a)
               \/ HandleClose(a) \/ LoopEnds(a)
    BY <2>4 DEF OnStart, Recv, RecvFails, Handled, HandleClose, CloseHeard, LoopEnds, msgVars,
                TypeOK
  <2> QED BY <1>3, <2>1, <2>2, <2>3, <2>4 DEF ActorStep
<1> QED BY <1>1, <1>2, <1>3 DEF Next

\* No accepted message disappears while an actor could still read it.
THEOREM NothingLostSilently == Spec => []NoSilentLoss
<1>1. Init => NoSilentLoss
  BY DEF Init, NoSilentLoss
<1>2. Bookkeeping /\ NoSilentLoss /\ [Next]_vars => NoSilentLoss'
  <2>1. ASSUME Bookkeeping, NoSilentLoss, Next, NEW m \in Msg, st'[m] = "lost"
        PROVE  Receivers' = {} \/ (m \in Delays /\ ~SenderAlive')
    <3>1. \/ Receivers = {} \/ Receivers' = {}
          \/ (m \in Delays /\ ~SenderAlive)
      BY <2>1, LossStep DEF NoSilentLoss
    <3> QED BY <2>1, <3>1, ReceiversShrink, SealedStays DEF Bookkeeping
  <2>2. ASSUME NoSilentLoss, UNCHANGED vars PROVE NoSilentLoss'
    BY <2>2 DEF vars, addrVars, msgVars, actorVars, NoSilentLoss, SenderAlive,
                TxHolders, Tasks, Receivers
  <2> QED BY <2>1, <2>2 DEF NoSilentLoss
<1> QED BY <1>1, <1>2, BookkeepingHolds, PTL DEF Spec

------------------------------------------------------------------------------
(* A message is in one place: in the channel once, or with one actor.       *)

\* OnePlace in two parts, which most actions disturb separately.
InChannel == /\ IsInjective(queue)
             /\ \A m \in Msg : st[m] = "queued" <=> m \in Range(queue)

WithActor ==
  /\ \A a \in Actor : /\ pc[a] = "handle" <=> cur[a] # NoMsg
                      /\ cur[a] # NoMsg => st[cur[a]] = "handling"
  /\ \A m \in Msg : st[m] = "handling" => \E a \in Actor : cur[a] = m
  /\ \A a, b \in Actor : (cur[a] = cur[b] /\ cur[a] # NoMsg) => a = b

LEMMA Places == OnePlace <=> InChannel /\ WithActor
  BY DEF OnePlace, InChannel, WithActor

LEMMA RangeType == TypeOK => Range(queue) \subseteq Msg
  BY DEF TypeOK, Range

LEMMA SettlePlace ==
  ASSUME TypeOK, InChannel, NEW gone, gone = {} \/ gone = Range(queue),
         NEW st0, NEW reply0, Settle(gone, st0, reply0),
         \A m \in Msg : st0[m] = "queued" <=> st[m] = "queued"
  PROVE  /\ InChannel'
         /\ \A m \in Msg : st'[m] = "handling" <=> st0[m] = "handling"
<1>1. CASE gone = {}
  <2>1. queue' = queue /\ \A m \in Msg : st'[m] = st0[m]
    BY <1>1 DEF Settle
  <2> QED BY <2>1 DEF InChannel
<1>2. CASE gone = Range(queue) /\ gone # {}
  <2>1. queue' = <<>> /\ \A m \in Msg : st'[m] = IF m \in gone THEN "lost" ELSE st0[m]
    BY <1>2 DEF Settle
  <2>2. IsInjective(queue') /\ Range(queue') = {}
    BY <2>1 DEF IsInjective, Range
  <2>3. \A m \in Msg : m \in gone <=> st0[m] = "queued"
    BY <1>2 DEF InChannel
  <2> QED BY <2>1, <2>2, <2>3 DEF InChannel
<1> QED BY <1>1, <1>2

LEMMA EnqueuePlace ==
  ASSUME TypeOK, InChannel, NEW m \in Msg, st[m] \in {"unused", "sending"},
         Enqueue(m)
  PROVE  /\ InChannel'
         /\ \A k \in Msg : st'[k] = "handling" <=> st[k] = "handling"
<1>1. queue \in Seq(Msg) /\ IsInjective(queue) /\ m \notin Range(queue)
  BY DEF TypeOK, InChannel
<1>2. IsInjective(queue') /\ Range(queue') = Range(queue) \cup {m}
  BY <1>1, AppendOne DEF Enqueue
<1>3. \A k \in Msg : st'[k] = IF k = m THEN "queued" ELSE st[k]
  BY DEF Enqueue, TypeOK
<1> QED BY <1>2, <1>3 DEF InChannel

\* Nothing moves between the actors.
LEMMA ActorsKeep ==
  ASSUME WithActor, UNCHANGED cur,
         \A a \in Actor : pc'[a] = "handle" <=> pc[a] = "handle",
         \A m \in Msg : st'[m] = "handling" <=> st[m] = "handling",
         TypeOK
  PROVE  WithActor'
<1>1. \A a \in Actor : cur[a] \in Msg \cup {NoMsg}
  BY DEF TypeOK
<1> QED BY <1>1, MsgAssumption DEF WithActor

\* An actor is through with its message.
LEMMA ActorIsDone ==
  ASSUME TypeOK, WithActor, NEW a \in Actor, NEW to, to # "handle",
         pc[a] = "handle", Back(a, to),
         \A m \in Msg : st'[m] = "handling" <=> (st[m] = "handling" /\ m # cur[a])
  PROVE  WithActor'
<1>1. \A b \in Actor : /\ cur[b] \in Msg \cup {NoMsg}
                       /\ cur'[b] = IF b = a THEN NoMsg ELSE cur[b]
                       /\ pc'[b] = IF b = a THEN to ELSE pc[b]
  BY DEF TypeOK, Back
<1>2. cur[a] \in Msg
  BY <1>1 DEF WithActor
<1>3. ASSUME NEW b \in Actor
      PROVE  /\ pc'[b] = "handle" <=> cur'[b] # NoMsg
             /\ cur'[b] # NoMsg => st'[cur'[b]] = "handling"
  BY <1>1, <1>2 DEF WithActor
<1>4. ASSUME NEW m \in Msg, st'[m] = "handling"
      PROVE  \E b \in Actor : cur'[b] = m
  <2>1. PICK b \in Actor : cur[b] = m /\ m # cur[a]
    BY <1>4 DEF WithActor
  <2> QED BY <1>1, <2>1
<1>5. ASSUME NEW b \in Actor, NEW c \in Actor, cur'[b] = cur'[c], cur'[b] # NoMsg
      PROVE  b = c
  BY <1>1, <1>5 DEF WithActor
<1> QED BY <1>3, <1>4, <1>5 DEF WithActor

LEMMA DiscardedAll ==
  ASSUME NEW s, NEW r
  PROVE  Discarded(s, r) = {} \/ Discarded(s, r) = Range(queue)
BY DEF Discarded

\* Steps that let messages be discarded and leave the actors where they are.
LEMMA SettleKeeps ==
  ASSUME TypeOK, OnePlace, NEW gone, gone = {} \/ gone = Range(queue),
         NEW st0, NEW reply0, Settle(gone, st0, reply0), UNCHANGED cur,
         \A a \in Actor : pc'[a] = "handle" <=> pc[a] = "handle",
         \A m \in Msg : st0[m] = "queued" <=> st[m] = "queued",
         \A m \in Msg : st0[m] = "handling" <=> st[m] = "handling"
  PROVE  OnePlace'
<1>1. InChannel' /\ \A m \in Msg : st'[m] = "handling" <=> st0[m] = "handling"
  BY SettlePlace, Places
<1>2. WithActor'
  BY <1>1, ActorsKeep, Places
<1> QED BY <1>1, <1>2 DEF OnePlace, InChannel, WithActor

\* Steps that leave the channel alone, but for a message not in it.
LEMMA QueueKeeps ==
  ASSUME OnePlace, UNCHANGED queue,
         \A m \in Msg : st'[m] = "queued" <=> st[m] = "queued"
  PROVE  InChannel'
BY DEF OnePlace, InChannel

LEMMA OnePlaceClients ==
  ASSUME TypeOK, OnePlace, NEW c \in Client, ClientStep(c)
  PROVE  OnePlace'
<1>1. ASSUME UNCHANGED <<queue, st, pc, cur>> PROVE OnePlace'
  BY <1>1 DEF OnePlace
<1>2. CASE \/ \E d \in Client : Clone(c, d)
           \/ Downgrade(c) \/ UpgradeTx(c) \/ Drop(c) \/ GetReply(c) \/ Abandon(c)
  BY <1>1, <1>2 DEF Clone, Downgrade, UpgradeTx, Drop, GetReply, Abandon, msgVars,
                    actorVars
<1>3. CASE UpgradeGroup(c)
  <2>1. PICK gone : /\ gone = {} \/ gone = Range(queue)
                    /\ Settle(gone, st, reply) /\ UNCHANGED <<pc, cur>>
    BY <1>3, DiscardedAll DEF UpgradeGroup, actorVars
  <2> QED BY <2>1, SettleKeeps
<1>4. CASE Release(c)
  <2>1. PICK gone : /\ gone = {} \/ gone = Range(queue)
                    /\ Settle(gone, st, reply) /\ UNCHANGED <<pc, cur>>
    BY <1>4, DiscardedAll DEF Release, actorVars
  <2> QED BY <2>1, SettleKeeps
<1>5. ASSUME NEW m \in Msg, st[m] = "unused", Enqueue(m), UNCHANGED <<pc, cur>>
      PROVE  OnePlace'
  <2>1. InChannel' /\ \A k \in Msg : st'[k] = "handling" <=> st[k] = "handling"
    BY <1>5, EnqueuePlace, Places
  <2>2. WithActor'
    BY <1>5, <2>1, ActorsKeep, Places
  <2> QED BY <2>1, <2>2 DEF OnePlace, InChannel, WithActor
<1>6. ASSUME NEW m \in Msg, st[m] = "unused", NEW to, to \in {"lost", "sending"},
             st' = [st EXCEPT ![m] = to], UNCHANGED <<queue, pc, cur>>
      PROVE  OnePlace'
  <2>1. \A k \in Msg : st'[k] = IF k = m THEN to ELSE st[k]
    BY <1>6 DEF TypeOK
  <2>2. InChannel'
    BY <1>6, <2>1, QueueKeeps
  <2>3. WithActor'
    BY <1>6, <2>1, ActorsKeep, Places
  <2> QED BY <2>2, <2>3 DEF OnePlace, InChannel, WithActor
<1>7. ASSUME NEW m \in Msg, Request(c, m) PROVE OnePlace'
  BY <1>5, <1>6, <1>7 DEF Request, actorVars
<1>8. ASSUME NEW m \in Delays, SendLater(c, m) PROVE OnePlace'
  BY <1>5, <1>6, <1>8 DEF SendLater, actorVars, Msg
<1>9. ASSUME NEW m \in DoSends, DoSend(c, m) PROVE OnePlace'
  BY <1>6, <1>9 DEF DoSend, actorVars, Msg
<1>10. CASE Send(c) \/ CloseOne(c)
  BY <1>7, <1>10 DEF Send, CloseOne, Msg
<1> QED BY <1>2, <1>3, <1>4, <1>8, <1>9, <1>10 DEF ClientStep

LEMMA OnePlaceTasks ==
  ASSUME TypeOK, OnePlace, NEW m \in Msg, TaskStep(m)
  PROVE  OnePlace'
<1>1. CASE TaskSends(m) /\ Enqueue(m)
  <2>1. InChannel' /\ \A k \in Msg : st'[k] = "handling" <=> st[k] = "handling"
    BY <1>1, EnqueuePlace, Places DEF TaskSends
  <2>2. WithActor'
    BY <1>1, <2>1, ActorsKeep, Places DEF TaskSends, actorVars
  <2> QED BY <2>1, <2>2 DEF OnePlace, InChannel, WithActor
<1>2. ASSUME NEW gone, gone = {} \/ gone = Range(queue), NEW to,
             to \in {"lost", "sending"}, st[m] \in {"sleeping", "sending"},
             Settle(gone, [st EXCEPT ![m] = to], reply), UNCHANGED <<pc, cur>>
      PROVE  OnePlace'
  <2>1. \A k \in Msg : [st EXCEPT ![m] = to][k] = IF k = m THEN to ELSE st[k]
    BY DEF TypeOK
  <2> QED BY <1>2, <2>1, SettleKeeps
<1>3. CASE TaskSends(m) /\ ~Enqueue(m)
  BY <1>2, <1>3, DiscardedAll DEF TaskSends, actorVars
<1>4. CASE DelayEnds(m)
  <2>1. PICK gone, to : /\ gone = {} \/ gone = Range(queue)
                        /\ to \in {"lost", "sending"}
                        /\ Settle(gone, [st EXCEPT ![m] = to], reply)
    BY <1>4, DiscardedAll DEF DelayEnds
  <2> QED BY <1>2, <1>4, <2>1 DEF DelayEnds, actorVars
<1> QED BY <1>1, <1>3, <1>4 DEF TaskStep

LEMMA OnePlaceActors ==
  ASSUME TypeOK, OnePlace, NEW a \in Actor, ActorStep(a)
  PROVE  OnePlace'
<1> DEFINE m == cur[a]
<1>0. \A b \in Actor : cur[b] \in Msg \cup {NoMsg} /\ (pc[b] = "handle" => cur[b] \in Msg)
  BY DEF TypeOK, OnePlace
<1>1. ASSUME NEW to, to # "handle", pc[a] # "handle",
             pc' = [pc EXCEPT ![a] = to], UNCHANGED cur
      PROVE  \A b \in Actor : pc'[b] = "handle" <=> pc[b] = "handle"
  BY <1>1 DEF TypeOK
<1>2. CASE OnStart(a) \/ RecvFails(a) \/ LoopEnds(a)
  <2>1. /\ UNCHANGED <<queue, st, cur>>
        /\ \A b \in Actor : pc'[b] = "handle" <=> pc[b] = "handle"
    <3>1. CASE OnStart(a)
      BY <1>1, <3>1 DEF OnStart, msgVars
    <3>2. CASE RecvFails(a)
      BY <1>1, <3>2 DEF RecvFails, msgVars
    <3>3. CASE LoopEnds(a)
      BY <1>1, <3>3 DEF LoopEnds, msgVars
    <3> QED BY <1>2, <3>1, <3>2, <3>3
  <2>2. InChannel' /\ WithActor'
    BY <2>1, QueueKeeps, ActorsKeep, Places
  <2> QED BY <2>2 DEF OnePlace, InChannel, WithActor
<1>3. CASE OnStop(a)
  <2>1. \A b \in Actor : pc'[b] = "handle" <=> pc[b] = "handle"
    BY <1>1, <1>3 DEF OnStop
  <2> QED BY <1>3, <2>1, SettleKeeps, DiscardedAll DEF OnStop
<1>4. CASE Recv(a)
  <2> DEFINE h == Head(queue)
  <2>1. queue \in Seq(Msg) /\ IsInjective(queue) /\ queue # <<>>
    BY <1>4 DEF Recv, TypeOK, OnePlace
  <2>2. /\ IsInjective(queue') /\ Range(queue') = Range(queue) \ {h}
        /\ h \in Range(queue)
    BY <1>4, <2>1, TakeOne DEF Recv
  <2>3. h \in Msg /\ st[h] = "queued"
    BY <2>2, RangeType DEF OnePlace
  <2>4. \A k \in Msg : st'[k] = IF k = h THEN "handling" ELSE st[k]
    BY <1>4 DEF Recv, TypeOK
  <2>5. InChannel'
    BY <2>2, <2>3, <2>4 DEF OnePlace, InChannel
  <2>6. /\ \A b \in Actor : cur'[b] = IF b = a THEN h ELSE cur[b]
        /\ \A b \in Actor : pc'[b] = IF b = a THEN "handle" ELSE pc[b]
    BY <1>4 DEF Recv, TypeOK
  <2>7. h # NoMsg /\ \A b \in Actor : cur[b] # h
    BY <1>0, <2>3, MsgAssumption DEF OnePlace
  <2>8. WithActor'
    <3>1. ASSUME NEW b \in Actor
          PROVE  /\ pc'[b] = "handle" <=> cur'[b] # NoMsg
                 /\ cur'[b] # NoMsg => st'[cur'[b]] = "handling"
      BY <1>0, <2>3, <2>4, <2>6, <2>7 DEF OnePlace
    <3>2. ASSUME NEW k \in Msg, st'[k] = "handling"
          PROVE  \E b \in Actor : cur'[b] = k
      <4>1. CASE k = h
        BY <2>6, <4>1
      <4>2. CASE k # h
        <5>1. PICK b \in Actor : cur[b] = k
          BY <2>4, <3>2, <4>2 DEF OnePlace
        <5>2. pc[a] = "recv"
          BY <1>4 DEF Recv
        <5>3. b # a
          BY <5>1, <5>2, MsgAssumption DEF OnePlace
        <5> QED BY <2>6, <5>1, <5>3
      <4> QED BY <4>1, <4>2
    <3>3. ASSUME NEW b \in Actor, NEW d \in Actor, cur'[b] = cur'[d], cur'[b] # NoMsg
          PROVE  b = d
      BY <2>6, <2>7, <3>3 DEF OnePlace
    <3> QED BY <3>1, <3>2, <3>3 DEF WithActor
  <2> QED BY <2>5, <2>8 DEF OnePlace, InChannel, WithActor
<1>5. ASSUME pc[a] = "handle", NEW v \in {"done", "sleeping", "lost"},
             NEW to \in {"recv", "exit"}, st' = [st EXCEPT ![m] = v], UNCHANGED queue, Back(a, to)
      PROVE  OnePlace'
  <2>1. m \in Msg /\ st[m] = "handling"
    BY <1>0, <1>5, MsgAssumption DEF OnePlace
  <2>2. \A k \in Msg : st'[k] = IF k = m THEN v ELSE st[k]
    BY <1>5 DEF TypeOK
  <2>3. InChannel'
    BY <1>5, <2>1, <2>2, QueueKeeps
  <2>4. WithActor'
    BY <1>5, <2>1, <2>2, ActorIsDone, Places
  <2> QED BY <2>3, <2>4 DEF OnePlace, InChannel, WithActor
<1>6. CASE Handled(a)
  <2>1. /\ pc[a] = "handle" /\ st' = [st EXCEPT ![m] = "done"]
        /\ UNCHANGED queue /\ Back(a, "recv")
    BY <1>6 DEF Handled
  <2> QED BY <1>5, <2>1
<1>7. CASE HandleClose(a)
  <2>1. /\ pc[a] = "handle" /\ st' = [st EXCEPT ![m] = "done"]
        /\ UNCHANGED queue /\ (Back(a, "exit") \/ Back(a, "recv"))
    BY <1>7 DEF HandleClose, CloseHeard
  <2> QED BY <1>5, <2>1
<1>8. CASE HandleDelayed(a)
  BY <1>5, <1>8 DEF HandleDelayed
<1>9. CASE HandlerPanics(a)
  <2> DEFINE st0 == [st EXCEPT ![m] = "crashed"]
  <2>1. m \in Msg /\ st[m] = "handling" /\ pc[a] = "handle"
    BY <1>0, <1>9, MsgAssumption DEF OnePlace, HandlerPanics
  <2>2. \A k \in Msg : st0[k] = IF k = m THEN "crashed" ELSE st[k]
    BY DEF TypeOK
  <2>3. PICK gone, reply0 : (gone = {} \/ gone = Range(queue)) /\ Settle(gone, st0, reply0)
    BY <1>9, DiscardedAll DEF HandlerPanics
  <2>4. InChannel /\ \A k \in Msg : st0[k] = "queued" <=> st[k] = "queued"
    BY <2>1, <2>2, Places
  <2> HIDE DEF st0
  <2>5. InChannel' /\ \A k \in Msg : st'[k] = "handling" <=> st0[k] = "handling"
    BY <2>3, <2>4, SettlePlace
  <2>6. WithActor'
    BY <1>9, <2>1, <2>2, <2>5, ActorIsDone, Places DEF HandlerPanics
  <2> QED BY <2>5, <2>6 DEF OnePlace, InChannel, WithActor
<1> QED BY <1>2, <1>3, <1>4, <1>6, <1>7, <1>8, <1>9 DEF ActorStep

\* The actors steal work from one channel, yet each message is in one place:
\* no interleaving hands it to two of them.
THEOREM EachMessageInOnePlace == Spec => []OnePlace
<1>1. Init => OnePlace
  BY MsgAssumption DEF Init, OnePlace, IsInjective, Range
<1>2. TypeOK /\ OnePlace /\ [Next]_vars => OnePlace'
  <2>1. ASSUME OnePlace, UNCHANGED vars PROVE OnePlace'
    BY <2>1 DEF vars, msgVars, actorVars, OnePlace
  <2> QED BY <2>1, OnePlaceClients, OnePlaceTasks, OnePlaceActors DEF Next
<1> QED BY <1>1, <1>2, TypeCorrect, PTL DEF Spec

------------------------------------------------------------------------------
(* What one step can do to one message, and what its sender then learns.    *)

\* Whoever still waits for m is told v.
Told(m, v) == reply'[m] = IF reply[m] = "open" THEN v ELSE reply[m]
Untold(m) == reply'[m] = reply[m]
Goes(m, from, to) == st[m] = from /\ st'[m] = to
ArmedKept(m) == m \in Delays => armed'[m] = armed[m]

\* Nothing, unless the awaiting client gives up.
Kept(m) == st'[m] = st[m] /\ (Untold(m) \/ (reply[m] = "open" /\ reply'[m] = "abandoned"))
\* A request or do_send by a client: enqueued, refused, given to a task.
Accepted(m) == /\ Goes(m, "unused", "queued") /\ SenderAlive /\ Receivers # {}
               /\ reply'[m] = IF m \in Awaited THEN "open" ELSE reply[m]
Refused(m) == /\ Goes(m, "unused", "lost") /\ Receivers = {}
              /\ reply'[m] = "closed"
Detached(m) == Goes(m, "unused", "sending") /\ SenderAlive /\ Untold(m)
\* The end of a task.
Carried(m) == Goes(m, "sending", "queued") /\ Receivers # {} /\ Untold(m)
Failed(m) == Goes(m, "sending", "lost") /\ Receivers = {} /\ Untold(m)
\* An actor takes it, and is through with it in one of four ways.
Taken(m) == Goes(m, "queued", "handling") /\ Receivers # {} /\ Untold(m)
Served(m) == /\ Goes(m, "handling", "done") /\ (Runnable(m) \/ m \in Closes)
             /\ Told(m, "value")
Crashed(m) == Goes(m, "handling", "crashed") /\ Runnable(m) /\ Told(m, "canceled")
Armed(m) == /\ Goes(m, "handling", "sleeping") /\ Untold(m)
            /\ m \in Delays /\ ~armed[m] /\ armed'[m]
Unarmed(m) == /\ Goes(m, "handling", "lost") /\ Untold(m)
              /\ m \in Delays /\ ~armed[m] /\ ~SenderAlive
\* The delay is over; the queue is discarded.
Woken(m) == Goes(m, "sleeping", "sending") /\ Untold(m)
Unread(m) == /\ Goes(m, "queued", "lost") /\ Receivers' = {}
             /\ DrainOnClose \/ ~SenderAlive'
             /\ Told(m, "canceled")

MessageStep(m) ==
  \/ Armed(m)
  \/ /\ ArmedKept(m)
     /\ \/ Kept(m) \/ Accepted(m) \/ Refused(m) \/ Detached(m) \/ Carried(m)
        \/ Failed(m) \/ Taken(m) \/ Served(m) \/ Crashed(m) \/ Unarmed(m)
        \/ Woken(m) \/ Unread(m)

\* A holder of a live Address keeps the channel open.
LEMMA LiveKeepsOpen ==
  ASSUME NEW c \in Client, holder[c] \in {"upgrading", "live", "dropping"}
  PROVE  SenderAlive
BY DEF SenderAlive, TxHolders

LEMMA TaskKeepsOpen ==
  ASSUME NEW m \in Msg, st[m] \in {"sleeping", "sending"}
  PROVE  SenderAlive
BY DEF SenderAlive, Tasks

\* Settling after a step that itself changes no message: what is queued goes.
LEMMA SettleMessages ==
  ASSUME TypeOK, InChannel, NEW senders, NEW receivers,
         Settle(Discarded(senders, receivers), st, reply), UNCHANGED armed,
         receivers = {} => Receivers' = {},
         DrainOnClose \/ senders \/ ~SenderAlive'
  PROVE  \A m \in Msg : MessageStep(m)
<1> SUFFICES ASSUME NEW m \in Msg PROVE MessageStep(m)
  OBVIOUS
<1>1. CASE m \in Discarded(senders, receivers)
  <2>1. /\ m \in Range(queue) /\ receivers = {} /\ (DrainOnClose \/ ~senders)
    BY <1>1 DEF Discarded
  <2>2. st[m] = "queued"
    BY <2>1 DEF InChannel
  <2>3. st'[m] = "lost" /\ Told(m, "canceled")
    BY <1>1 DEF Settle, Told
  <2> QED BY <2>1, <2>2, <2>3 DEF Unread, Goes, ArmedKept, MessageStep
<1>2. CASE m \notin Discarded(senders, receivers)
  BY <1>2 DEF Settle, Kept, Untold, ArmedKept, MessageStep
<1> QED BY <1>1, <1>2

LEMMA EnqueueMessages ==
  ASSUME TypeOK, NEW k \in Msg, Enqueue(k), UNCHANGED armed, Receivers # {},
         \/ st[k] = "unused" /\ SenderAlive
            /\ reply' = IF k \in Awaited THEN [reply EXCEPT ![k] = "open"] ELSE reply
         \/ st[k] = "sending" /\ UNCHANGED reply
  PROVE  \A m \in Msg : MessageStep(m)
<1>1. \A m \in Msg : st'[m] = IF m = k THEN "queued" ELSE st[m]
  BY DEF Enqueue, TypeOK
<1> QED BY <1>1 DEF TypeOK, Accepted, Carried, Kept, Goes, Untold, ArmedKept, MessageStep

LEMMA ClientMessages ==
  ASSUME TypeOK, OnePlace, NEW c \in Client, ClientStep(c)
  PROVE  \A m \in Msg : MessageStep(m)
<1>0. InChannel
  BY Places
<1>1. ASSUME UNCHANGED <<st, reply, armed>> PROVE \A m \in Msg : MessageStep(m)
  BY <1>1 DEF Kept, Untold, ArmedKept, MessageStep
<1>2. CASE \/ \E d \in Client : Clone(c, d)
           \/ Downgrade(c) \/ UpgradeTx(c) \/ Drop(c) \/ GetReply(c)
  BY <1>1, <1>2 DEF Clone, Downgrade, UpgradeTx, Drop, GetReply, msgVars
<1>3. CASE Abandon(c)
  <2>1. wait[c] \in Msg
    BY <1>3 DEF Abandon, TypeOK, Awaited, Msg
  <2> QED BY <1>3, <2>1 DEF Abandon, TypeOK, Kept, Untold, ArmedKept, MessageStep
<1>4. CASE UpgradeGroup(c)
  <2> DEFINE senders == (TxHolders \ {c}) # {} \/ Tasks # {}
  <2>1. CASE Settle(Discarded(senders, Receivers), st, reply)
              /\ holder' = [holder EXCEPT ![c] = "panicked"]
    <3>1. ~senders => ~SenderAlive'
      <4> SUFFICES ASSUME ~senders PROVE ~SenderAlive'
        OBVIOUS
      <4>1. \A d \in Client : holder'[d] \notin {"upgrading", "live", "dropping"}
        BY <2>1 DEF TypeOK, TxHolders
      <4>2. \A m \in Msg : st'[m] \notin {"sleeping", "sending"}
        BY <2>1 DEF Settle, Tasks
      <4> QED BY <4>1, <4>2, NoSenderNext
    <3>2. UNCHANGED <<armed, pc>>
      BY <1>4 DEF UpgradeGroup, actorVars
    <3>3. Receivers = {} => Receivers' = {}
      BY <3>2 DEF Receivers
    <3> HIDE DEF senders
    <3> QED BY <1>0, <2>1, <3>1, <3>2, <3>3, SettleMessages
  <2>2. CASE Settle({}, st, reply)
    BY <1>4, <2>2 DEF UpgradeGroup, Settle, Kept, Untold, ArmedKept, MessageStep
  <2> QED BY <1>4, <2>1, <2>2 DEF UpgradeGroup
<1>5. CASE Release(c)
  <2> DEFINE senders == (TxHolders \ {c}) # {} \/ Tasks # {}
  <2>1. Settle(Discarded(senders, Receivers), st, reply)
        /\ holder' = [holder EXCEPT ![c] = "none"] /\ UNCHANGED <<armed, pc>>
    BY <1>5 DEF Release, actorVars
  <2>2. ~senders => ~SenderAlive'
    <4> SUFFICES ASSUME ~senders PROVE ~SenderAlive'
      OBVIOUS
    <4>1. \A d \in Client : holder'[d] \notin {"upgrading", "live", "dropping"}
      BY <2>1 DEF TypeOK, TxHolders
    <4>2. \A m \in Msg : st'[m] \notin {"sleeping", "sending"}
      BY <2>1 DEF Settle, Tasks
    <4> QED BY <4>1, <4>2, NoSenderNext
  <2>3. Receivers = {} => Receivers' = {}
    BY <2>1 DEF Receivers
  <2> HIDE DEF senders
  <2> QED BY <1>0, <2>1, <2>2, <2>3, SettleMessages
<1>6. ASSUME NEW k \in Msg, holder[c] = "live", st[k] = "unused", Enqueue(k),
             Accepting, UNCHANGED armed,
             reply' = IF k \in Awaited THEN [reply EXCEPT ![k] = "open"] ELSE reply
      PROVE  \A m \in Msg : MessageStep(m)
  BY <1>6, LiveKeepsOpen, EnqueueMessages DEF Accepting
<1>7. ASSUME NEW k \in Msg, st[k] = "unused", ~Accepting, UNCHANGED armed,
             st' = [st EXCEPT ![k] = "lost"], reply' = [reply EXCEPT ![k] = "closed"]
      PROVE  \A m \in Msg : MessageStep(m)
  BY <1>7 DEF Accepting, TypeOK, Refused, Kept, Goes, Untold, ArmedKept, MessageStep
<1>8. ASSUME NEW k \in Awaited, Request(c, k) PROVE \A m \in Msg : MessageStep(m)
  BY <1>6, <1>7, <1>8 DEF Request, Awaited, Msg
<1>9. ASSUME NEW k \in Delays, SendLater(c, k) PROVE \A m \in Msg : MessageStep(m)
  <2>1. k \in Msg /\ k \notin Awaited
    BY MsgAssumption DEF Msg, Awaited
  <2> QED BY <1>6, <1>7, <1>9, <2>1 DEF SendLater
<1>10. ASSUME NEW k \in DoSends, DoSend(c, k) PROVE \A m \in Msg : MessageStep(m)
  <2>1. SenderAlive
    BY <1>10, LiveKeepsOpen DEF DoSend
  <2> QED BY <1>10, <2>1 DEF DoSend, Msg, TypeOK, Detached, Kept, Goes, Untold,
                             ArmedKept, MessageStep
<1>11. CASE Send(c) \/ CloseOne(c)
  BY <1>8, <1>11 DEF Send, CloseOne, Awaited
<1> QED BY <1>2, <1>3, <1>4, <1>5, <1>9, <1>10, <1>11 DEF ClientStep

LEMMA TaskMessages ==
  ASSUME Bookkeeping, OnePlace, NEW k \in Msg, TaskStep(k)
  PROVE  \A m \in Msg : MessageStep(m)
<1> DEFINE senders == TxHolders # {} \/ Tasks \ {k} # {}
<1>0. TypeOK /\ InChannel /\ cancelled = {}
  BY Places DEF Bookkeeping, NeverShutsDown
<1>1. CASE TaskSends(k) /\ Accepting
  BY <1>0, <1>1, EnqueueMessages DEF TaskSends, Accepting
<1>2. CASE TaskSends(k) /\ ~Accepting
  <2>1. /\ Settle(Discarded(senders, {}), [st EXCEPT ![k] = "lost"], reply)
        /\ st[k] = "sending" /\ Receivers = {} /\ UNCHANGED <<holder, armed, pc>>
    BY <1>2 DEF TaskSends, Accepting, addrVars, actorVars
  <2>2. ~senders => ~SenderAlive'
    <3> SUFFICES ASSUME ~senders PROVE ~SenderAlive'
      OBVIOUS
    <3>1. \A d \in Client : holder'[d] \notin {"upgrading", "live", "dropping"}
      BY <2>1 DEF TxHolders
    <3>2. \A m \in Msg : st'[m] \notin {"sleeping", "sending"}
      BY <1>0, <2>1 DEF Settle, Tasks, TypeOK
    <3> QED BY <3>1, <3>2, NoSenderNext
  <2>3. Receivers' = {}
    BY <2>1 DEF Receivers
  <2> SUFFICES ASSUME NEW m \in Msg PROVE MessageStep(m)
    OBVIOUS
  <2>4. CASE m = k
    <3>1. k \notin Range(queue)
      BY <1>0, <2>1 DEF InChannel
    <3>2. st'[k] = "lost" /\ Untold(k)
      BY <1>0, <2>1, <3>1 DEF Settle, Discarded, Untold, TypeOK
    <3> QED BY <2>1, <2>4, <3>2 DEF Failed, Goes, ArmedKept, MessageStep
  <2>5. CASE m # k /\ m \in Discarded(senders, {})
    <3>1. m \in Range(queue) /\ (DrainOnClose \/ ~senders)
      BY <2>5 DEF Discarded
    <3>2. Goes(m, "queued", "lost") /\ Told(m, "canceled")
      BY <1>0, <2>1, <2>5, <3>1 DEF Settle, InChannel, Goes, Told
    <3> HIDE DEF senders
    <3> QED BY <2>1, <2>2, <2>3, <3>1, <3>2 DEF Unread, ArmedKept, MessageStep
  <2>6. CASE m # k /\ m \notin Discarded(senders, {})
    BY <1>0, <2>1, <2>6 DEF Settle, TypeOK, Kept, Untold, ArmedKept, MessageStep
  <2> QED BY <2>4, <2>5, <2>6
<1>3. CASE DelayEnds(k)
  <2>1. /\ Settle({}, [st EXCEPT ![k] = "sending"], reply)
        /\ st[k] = "sleeping" /\ UNCHANGED armed
    BY <1>0, <1>3 DEF DelayEnds, CancelDrops
  <2> QED BY <1>0, <2>1 DEF Settle, TypeOK, Woken, Kept, Goes, Untold, ArmedKept,
                            MessageStep
<1> QED BY <1>1, <1>2, <1>3 DEF TaskStep

LEMMA ActorMessages ==
  ASSUME Bookkeeping, OnePlace, NEW a \in Actor, ActorStep(a)
  PROVE  \A m \in Msg : MessageStep(m)
<1> DEFINE k == cur[a]
<1>0. /\ TypeOK /\ InChannel
      /\ pc[a] = "handle" => k \in Msg /\ st[k] = "handling"
  BY MsgAssumption, Places DEF Bookkeeping, TypeOK, OnePlace
<1>1. CASE OnStart(a) \/ RecvFails(a) \/ LoopEnds(a)
  BY <1>1 DEF OnStart, RecvFails, LoopEnds, msgVars, Kept, Untold, ArmedKept,
              MessageStep
<1>2. CASE Recv(a)
  <2>1. queue \in Seq(Msg) /\ IsInjective(queue) /\ queue # <<>>
    BY <1>0, <1>2 DEF Recv, TypeOK, InChannel
  <2>2. Head(queue) \in Range(queue)
    BY <2>1, TakeOne
  <2>3. Head(queue) \in Msg /\ st[Head(queue)] = "queued"
    BY <1>0, <2>2, RangeType DEF InChannel
  <2>4. Receivers # {}
    BY <1>2 DEF Recv, Receivers, Ended
  <2> QED BY <1>0, <1>2, <2>3, <2>4 DEF Recv, TypeOK, Taken, Kept, Goes, Untold,
                                        ArmedKept, MessageStep
<1>3. CASE Handled(a)
  BY <1>0, <1>3 DEF Handled, TypeOK, Served, Kept, Goes, Told, Untold, ArmedKept,
                    MessageStep
<1>4. CASE HandleClose(a)
  BY <1>0, <1>4 DEF HandleClose, CloseHeard, TypeOK, Served, Kept, Goes, Told, Untold, ArmedKept,
                    MessageStep
<1>5. CASE HandleDelayed(a)
  <2>1. CASE SenderAlive
    BY <1>0, <1>5, <2>1 DEF HandleDelayed, TypeOK, Armed, Kept, Goes, Untold,
                            ArmedKept, MessageStep
  <2>2. CASE ~SenderAlive
    BY <1>0, <1>5, <2>2 DEF HandleDelayed, TypeOK, Unarmed, Kept, Goes, Untold,
                            ArmedKept, MessageStep
  <2> QED BY <2>1, <2>2
<1>6. CASE OnStop(a)
  <2>1. /\ Settle(Discarded(SenderAlive, Receivers \ {a}), st, reply)
        /\ pc' = [pc EXCEPT ![a] = "gone"] /\ UNCHANGED <<armed, holder>>
    BY <1>6 DEF OnStop, addrVars
  <2>2. Receivers \ {a} = {} => Receivers' = {}
    BY <1>0, <2>1 DEF Receivers, Ended, TypeOK
  <2>3. SenderAlive \/ ~SenderAlive'
    BY <1>0, <1>6, SealedStays DEF Next, ActorStep
  <2> QED BY <1>0, <2>1, <2>2, <2>3, SettleMessages
<1>7. CASE HandlerPanics(a)
  <2> DEFINE st0 == [st EXCEPT ![k] = "crashed"]
             reply0 == [reply EXCEPT ![k] = IF @ = "open" THEN "canceled" ELSE @]
             gone == Discarded(SenderAlive, Receivers \ {a})
  <2>1. /\ Settle(gone, st0, reply0) /\ UNCHANGED armed
        /\ pc' = [pc EXCEPT ![a] = "panicked"]
        /\ k \in Msg /\ st[k] = "handling" /\ Runnable(k)
    BY <1>0, <1>7 DEF HandlerPanics, Back
  <2>2. Receivers \ {a} = {} => Receivers' = {}
    BY <1>0, <2>1 DEF Receivers, Ended, TypeOK
  <2>3. SenderAlive \/ ~SenderAlive'
    BY <1>0, <1>7, SealedStays DEF Next, ActorStep
  <2> SUFFICES ASSUME NEW m \in Msg PROVE MessageStep(m)
    OBVIOUS
  <2>4. CASE m = k
    <3>1. k \notin Range(queue)
      BY <1>0, <2>1 DEF InChannel
    <3>2. st'[k] = "crashed" /\ Told(k, "canceled")
      BY <1>0, <2>1, <3>1 DEF Settle, Discarded, Told, TypeOK
    <3> QED BY <2>1, <2>4, <3>2 DEF Crashed, Goes, ArmedKept, MessageStep
  <2>5. CASE m # k /\ m \in gone
    <3>1. /\ m \in Range(queue) /\ (DrainOnClose \/ ~SenderAlive)
          /\ Receivers \ {a} = {}
      BY <2>5 DEF Discarded
    <3>2. Goes(m, "queued", "lost") /\ Told(m, "canceled")
      BY <1>0, <2>1, <2>5, <3>1 DEF Settle, InChannel, Goes, Told, TypeOK
    <3> QED BY <2>1, <2>2, <2>3, <3>1, <3>2 DEF Unread, ArmedKept, MessageStep
  <2>6. CASE m # k /\ m \notin gone
    BY <1>0, <2>1, <2>6 DEF Settle, TypeOK, Kept, Untold, ArmedKept, MessageStep
  <2> QED BY <2>4, <2>5, <2>6
<1> QED BY <1>1, <1>2, <1>3, <1>4, <1>5, <1>6, <1>7 DEF ActorStep

\* Every step moves every message along one of these ways.
LEMMA Messages == Bookkeeping /\ OnePlace /\ Next => \A m \in Msg : MessageStep(m)
  BY ClientMessages, TaskMessages, ActorMessages DEF Next, Bookkeeping

------------------------------------------------------------------------------
(* How a request ends, and who waits for it.                                *)

\* What ReplyMatchesFate needs to be inductive: a message not sent yet has no
\* oneshot, and whoever waits holds its Address, which keeps the channel open,
\* and waits for a request that was accepted and that it has not abandoned.
Fresh == \A m \in Msg : st[m] = "unused" => reply[m] = "none"
Waiters == \A c \in Client :
             wait[c] # NoMsg => /\ holder[c] = "live"
                                /\ reply[wait[c]] \in {"open", "value", "canceled"}
Requests == ReplyMatchesFate /\ Fresh /\ Waiters

\* What a step does to the clients' waiting: nothing, or one client begins to
\* wait for a message it has just sent, or ends.
Quiet(m) == reply'[m] \in {"open", "abandoned"} => reply[m] = reply'[m]
Begins(c, k) == /\ wait[c] = NoMsg /\ wait' = [wait EXCEPT ![c] = k]
                /\ st[k] = "unused" /\ k \in Awaited /\ reply'[k] = "open"
                /\ holder[c] = "live" /\ UNCHANGED holder
                /\ \A m \in Msg \ {k} : Quiet(m)
Ends(c) == /\ wait[c] # NoMsg /\ wait' = [wait EXCEPT ![c] = NoMsg]
           /\ reply'[wait[c]] # "open"
           /\ UNCHANGED holder
           /\ \A m \in Msg \ {wait[c]} : Quiet(m)
Stays == /\ UNCHANGED wait
         /\ \A c \in Client : holder[c] = "live" /\ wait[c] # NoMsg => holder'[c] = "live"
         /\ \A m \in Msg : Quiet(m)

LEMMA WaitStep ==
  ASSUME TypeOK, Next
  PROVE  Stays \/ \E c \in Client : Ends(c) \/ \E m \in Msg : Begins(c, m)
<1>1. ASSUME UNCHANGED <<holder, wait, reply>> PROVE Stays
  BY <1>1 DEF Stays, Quiet
<1>2. ASSUME NEW c \in Client, ClientStep(c)
      PROVE  Stays \/ \E d \in Client : Ends(d) \/ \E m \in Msg : Begins(d, m)
  <2>1. CASE \/ \E d \in Client : Clone(c, d)
             \/ Downgrade(c) \/ UpgradeTx(c) \/ Drop(c)
    BY <2>1 DEF Clone, Downgrade, UpgradeTx, Drop, msgVars, TypeOK, Stays, Quiet
  <2>2. CASE UpgradeGroup(c)
    BY <2>2 DEF UpgradeGroup, Settle, TypeOK, Stays, Quiet
  <2>3. CASE Release(c)
    BY <2>3 DEF Release, Settle, TypeOK, Stays, Quiet
  <2>4. CASE Send(c) \/ CloseOne(c)
    <3>1. PICK m \in Awaited : Request(c, m)
      BY <2>4 DEF Send, CloseOne, Awaited
    <3>2. m \in Msg
      BY DEF Msg, Awaited
    <3>3. CASE Accepting
      <4>1. Begins(c, m)
        BY <3>1, <3>2, <3>3 DEF Request, Begins, Quiet, TypeOK, addrVars
      <4> QED BY <3>2, <4>1
    <3>4. CASE ~Accepting
      BY <3>1, <3>2, <3>4 DEF Request, Stays, Quiet, TypeOK, addrVars
    <3> QED BY <3>3, <3>4
  <2>5. CASE \E m \in Delays : SendLater(c, m)
    BY <2>5 DEF SendLater, addrVars, Stays, Quiet, TypeOK
  <2>6. CASE \E m \in DoSends : DoSend(c, m)
    BY <1>1, <2>6 DEF DoSend, addrVars
  <2>7. CASE GetReply(c)
    <3>1. Ends(c)
      BY <2>7 DEF GetReply, addrVars, Ends, Quiet
    <3> QED BY <3>1
  <2>8. CASE Abandon(c)
    <3>1. wait[c] \in Msg
      BY <2>8 DEF Abandon, TypeOK, Awaited, Msg
    <3>2. Ends(c)
      BY <2>8, <3>1 DEF Abandon, addrVars, Ends, Quiet, TypeOK
    <3> QED BY <3>2
  <2> QED BY <1>2, <2>1, <2>2, <2>3, <2>4, <2>5, <2>6, <2>7, <2>8 DEF ClientStep
<1>3. ASSUME NEW m \in Msg, TaskStep(m) PROVE Stays
  BY <1>3 DEF TaskStep, TaskSends, DelayEnds, Settle, addrVars, Stays, Quiet, TypeOK
<1>4. ASSUME NEW a \in Actor, ActorStep(a) PROVE Stays
  <2>1. CASE OnStart(a) \/ Recv(a) \/ RecvFails(a) \/ HandleDelayed(a) \/ LoopEnds(a)
    BY <1>1, <2>1 DEF OnStart, Recv, RecvFails, HandleDelayed, LoopEnds, addrVars,
                      msgVars
  <2>2. CASE Handled(a) \/ HandleClose(a)
    BY <2>2 DEF Handled, HandleClose, CloseHeard, addrVars, Stays, Quiet, TypeOK
  <2>3. CASE HandlerPanics(a) \/ OnStop(a)
    BY <2>3 DEF HandlerPanics, OnStop, Settle, addrVars, Stays, Quiet, TypeOK
  <2> QED BY <1>4, <2>1, <2>2, <2>3 DEF ActorStep
<1> QED BY <1>2, <1>3, <1>4 DEF Next

\* Whoever waits keeps the channel open, during the step as well.
LEMMA WaitingKeepsOpen ==
  ASSUME TypeOK, Next, Waiters, NEW c \in Client, wait[c] # NoMsg
  PROVE  SenderAlive'
<1>1. holder[c] = "live"
  BY DEF Waiters
<1>2. holder'[c] = "live"
  BY <1>1, WaitStep DEF Stays, Ends, Begins
<1> QED BY <1>2, NoSenderNext

LEMMA RequestsStep ==
  ASSUME Bookkeeping, OnePlace, Requests, Next
  PROVE  Requests'
<1>0. TypeOK /\ ReplyMatchesFate /\ Fresh /\ Waiters
  BY DEF Bookkeeping, Requests
<1>1. \A m \in Msg : MessageStep(m)
  BY Messages
<1>2. Receivers = {} => Receivers' = {}
  BY <1>0, ReceiversShrink
<1>3. Fresh'
  <2> SUFFICES ASSUME NEW m \in Msg, st'[m] = "unused" PROVE reply'[m] = "none"
    BY DEF Fresh
  <2> QED BY <1>0, <1>1 DEF MessageStep, Armed, Kept, Accepted, Refused, Detached,
            Carried, Failed, Taken, Served, Crashed, Unarmed, Woken, Unread, Goes,
            Untold, Fresh
\* Messages that an answer or a waiting client is about have been sent.
<1>4. \A m \in Msg : reply[m] # "none" => st[m] # "unused"
  BY <1>0 DEF Fresh
<1>5. \A c \in Client : wait[c] # NoMsg => wait[c] \in Awaited /\ wait[c] \in Msg
  BY <1>0 DEF TypeOK, Awaited, Msg
<1>6. Waiters'
  <2> SUFFICES ASSUME NEW c \in Client, wait'[c] # NoMsg
               PROVE  holder'[c] = "live" /\ reply'[wait'[c]] \in {"open", "value", "canceled"}
    BY DEF Waiters
  <2>1. ASSUME wait[c] # NoMsg, wait'[c] = wait[c], Quiet(wait[c])
        PROVE  reply'[wait'[c]] \in {"open", "value", "canceled"}
    <3> DEFINE m == wait[c]
    <3>1. m \in Msg /\ reply[m] \in {"open", "value", "canceled"} /\ st[m] # "unused"
      BY <1>0, <1>4, <1>5, <2>1 DEF Waiters
    <3>2. MessageStep(m)
      BY <1>1, <3>1
    <3> HIDE DEF m
    <3> QED BY <2>1, <3>1, <3>2 DEF MessageStep, Armed, Kept, Accepted, Refused,
              Detached, Carried, Failed, Taken, Served, Crashed, Unarmed, Woken,
              Unread, Goes, Told, Untold, Quiet, m
  <2>2. CASE Stays
    BY <1>0, <1>5, <2>1, <2>2 DEF Stays, Waiters
  <2>3. ASSUME NEW d \in Client, Ends(d)
        PROVE  holder'[c] = "live" /\ reply'[wait'[c]] \in {"open", "value", "canceled"}
    <3>1. c # d /\ wait'[c] = wait[c]
      BY <1>0, <2>3 DEF Ends, TypeOK
    <3>2. wait[c] # wait[d]
      BY <1>0, <2>3, <3>1 DEF ReplyMatchesFate, Ends
    <3> QED BY <1>0, <1>5, <2>1, <2>3, <3>1, <3>2 DEF Ends, Waiters
  <2>4. ASSUME NEW d \in Client, NEW k \in Msg, Begins(d, k)
        PROVE  holder'[c] = "live" /\ reply'[wait'[c]] \in {"open", "value", "canceled"}
    <3>1. CASE c = d
      BY <1>0, <2>4, <3>1 DEF Begins, TypeOK
    <3>2. CASE c # d
      <4>1. wait'[c] = wait[c] /\ wait[c] # NoMsg
        BY <1>0, <2>4, <3>2 DEF Begins, TypeOK
      <4>2. wait[c] # k
        BY <1>0, <2>4, <4>1 DEF Begins, Waiters, Fresh
      <4> QED BY <1>0, <1>5, <2>1, <2>4, <4>1, <4>2 DEF Begins, Waiters
    <3> QED BY <3>1, <3>2
  <2> QED BY <1>0, <2>2, <2>3, <2>4, WaitStep
<1>7. ASSUME NEW m \in Awaited
      PROVE  /\ reply'[m] = "value" => st'[m] = "done"
             /\ reply'[m] = "canceled" => \/ st'[m] = "crashed"
                                          \/ (DrainOnClose /\ Receivers' = {})
             /\ reply'[m] = "closed" => Receivers' = {}
             /\ reply'[m] = "open" => st'[m] \in {"queued", "handling"}
  <2>1. m \in Msg /\ m \notin Delays /\ MessageStep(m)
    BY <1>1, MsgAssumption DEF Msg, Awaited
  <2>2. /\ reply[m] = "value" => st[m] = "done"
        /\ reply[m] = "canceled" => \/ st[m] = "crashed"
                                    \/ (DrainOnClose /\ Receivers = {})
        /\ reply[m] = "closed" => Receivers = {}
        /\ reply[m] = "open" => st[m] \in {"queued", "handling"}
        /\ st[m] = "unused" => reply[m] = "none"
    BY <1>0, <2>1 DEF ReplyMatchesFate, Fresh
  <2>3. reply[m] = "open" => SenderAlive'
    BY <1>0, WaitingKeepsOpen, MsgAssumption, <2>1 DEF ReplyMatchesFate
  <2> QED BY <1>2, <2>1, <2>2, <2>3 DEF MessageStep, Armed, Kept, Accepted, Refused,
            Detached, Carried, Failed, Taken, Served, Crashed, Unarmed, Woken,
            Unread, Goes, Told, Untold
<1>8. ASSUME NEW m \in Awaited, reply'[m] = "open" PROVE \E c \in Client : wait'[c] = m
  <2>0. m \in Msg /\ m # NoMsg
    BY MsgAssumption DEF Msg, Awaited
  <2>1. CASE reply[m] = "open"
    <3>1. PICK c \in Client : wait[c] = m
      BY <1>0, <2>1 DEF ReplyMatchesFate
    <3>2. wait'[c] = m
      BY <1>0, <1>8, <2>0, <3>1, WaitStep DEF Stays, Ends, Begins, TypeOK
    <3> QED BY <3>2
  <2>2. CASE reply[m] # "open"
    <3>1. ~Quiet(m)
      BY <1>8, <2>2 DEF Quiet
    <3>2. \A c \in Client : ~Ends(c)
      BY <1>8, <2>0, <3>1 DEF Ends
    <3>3. PICK c \in Client : Begins(c, m)
      BY <1>0, <2>0, <3>1, <3>2, WaitStep DEF Stays, Begins
    <3> QED BY <1>0, <3>3 DEF Begins, TypeOK
  <2> QED BY <2>1, <2>2
<1>9. ASSUME NEW c \in Client, NEW d \in Client, wait'[c] = wait'[d], wait'[c] # NoMsg
      PROVE  c = d
  <2>1. CASE Stays
    BY <1>0, <1>9, <2>1 DEF Stays, ReplyMatchesFate
  <2>2. ASSUME NEW e \in Client, Ends(e) PROVE c = d
    BY <1>0, <1>9, <2>2 DEF Ends, ReplyMatchesFate, TypeOK
  <2>3. ASSUME NEW e \in Client, NEW k \in Msg, Begins(e, k) PROVE c = d
    <3>1. \A x \in Client : wait[x] # k
      BY <1>0, <2>3, MsgAssumption DEF Begins, Waiters, Fresh
    <3> QED BY <1>0, <1>9, <2>3, <3>1 DEF Begins, ReplyMatchesFate, TypeOK
  <2> QED BY <1>0, <2>1, <2>2, <2>3, WaitStep
<1> QED BY <1>3, <1>6, <1>7, <1>8, <1>9 DEF Requests, ReplyMatchesFate

\* Every client's request, from its sending to its end.
LEMMA RequestsHold == Spec => []Requests
<1>1. Init => Requests
  <2> SUFFICES ASSUME Init PROVE Requests
    OBVIOUS
  <2>1. \A m \in Msg : reply[m] = "none"
    BY DEF Init
  <2>2. \A c \in Client : wait[c] = NoMsg
    BY DEF Init
  <2> QED BY <2>1, <2>2 DEF Requests, ReplyMatchesFate, Fresh, Waiters, Awaited, Msg
<1>2. Bookkeeping /\ OnePlace /\ Requests /\ [Next]_vars => Requests'
  <2>1. ASSUME Requests, UNCHANGED vars PROVE Requests'
    BY <2>1 DEF vars, addrVars, msgVars, actorVars, Requests, ReplyMatchesFate, Fresh,
                Waiters, Receivers
  <2> QED BY <2>1, RequestsStep
<1> QED BY <1>1, <1>2, BookkeepingHolds, EachMessageInOnePlace, PTL DEF Spec

\* address.rs, send_inner and close_one: what the caller is told agrees with what
\* became of its message, and a request still open is in the channel or with an
\* actor, with exactly one client awaiting it.
THEOREM RepliesMatchFates == Spec => []ReplyMatchesFate
  BY RequestsHold, PTL DEF Requests

------------------------------------------------------------------------------
(* Nobody waits at a dead channel.                                          *)

\* What stays queued can still be read, or could if somebody sent.
UnreadGone == Receivers = {} /\ (DrainOnClose \/ ~SenderAlive) => queue = <<>>

LEMMA SettleEmpties ==
  ASSUME TypeOK, NEW senders, DrainOnClose \/ ~senders, NEW st0, NEW reply0,
         Settle(Discarded(senders, {}), st0, reply0)
  PROVE  queue' = <<>>
<1>1. queue' = IF Range(queue) = {} THEN queue ELSE <<>>
  BY DEF Settle, Discarded
<1>2. queue # <<>> => Range(queue) # {}
  <2> SUFFICES ASSUME queue # <<>> PROVE Range(queue) # {}
    OBVIOUS
  <2>1. 1 \in DOMAIN queue
    BY DEF TypeOK
  <2> QED BY <2>1 DEF Range
<1> QED BY <1>1, <1>2

\* Only the last sender's leaving seals a channel nobody reads, and only the
\* last reader's leaving deserts it: both discard the queue.
LEMMA UnreadStep ==
  ASSUME Bookkeeping, OnePlace, UnreadGone, Next, Receivers' = {},
         DrainOnClose \/ ~SenderAlive'
  PROVE  queue' = <<>>
<1>0. TypeOK /\ cancelled = {}
  BY DEF Bookkeeping, NeverShutsDown
<1>1. \A m \in Msg : st[m] \in {"sleeping", "sending"} => m \notin Range(queue)
  BY DEF OnePlace
<1>2. \/ DrainOnClose
      \/ /\ \A c \in Client : holder'[c] \notin {"upgrading", "live", "dropping"}
         /\ \A m \in Msg : st'[m] \notin {"sleeping", "sending"}
  BY NoSenderNext
<1>3. ASSUME UNCHANGED <<pc, holder, queue>>,
             \A m \in Msg : st[m] \in {"sleeping", "sending"}
                              => st'[m] \in {"sleeping", "sending"}
      PROVE  queue' = <<>>
  <2>1. Receivers = {}
    BY <1>3 DEF Receivers
  <2>2. DrainOnClose \/ ~SenderAlive
    BY <1>2, <1>3, NoSender
  <2> QED BY <1>3, <2>1, <2>2 DEF UnreadGone
<1>4. ASSUME NEW c \in Client, ClientStep(c) PROVE queue' = <<>>
  <2>0. Receivers = {}
    BY <1>4 DEF ClientStep, Clone, Downgrade, UpgradeTx, UpgradeGroup, Drop, Release,
                Send, CloseOne, Request, SendLater, DoSend, GetReply, Abandon,
                actorVars, Receivers
  <2> DEFINE senders == (TxHolders \ {c}) # {} \/ Tasks # {}
  <2>1. ASSUME Settle(Discarded(senders, {}), st, reply),
               \A d \in Client \ {c} : holder'[d] = holder[d]
        PROVE  queue' = <<>>
    <3>1. ASSUME ~DrainOnClose PROVE ~senders
      <4>1. \A d \in Client \ {c} : holder[d] \notin {"upgrading", "live", "dropping"}
        BY <1>2, <2>1, <3>1
      <4>2. \A m \in Msg : st[m] \notin {"sleeping", "sending"}
        BY <1>1, <1>2, <2>1, <3>1 DEF Settle, Discarded
      <4> QED BY <4>1, <4>2 DEF TxHolders, Tasks
    <3> HIDE DEF senders
    <3> QED BY <1>0, <2>1, <3>1, SettleEmpties
  <2>2. CASE Release(c)
    BY <1>0, <2>0, <2>1, <2>2 DEF Release, TypeOK
  <2>3. CASE UpgradeGroup(c)
    <3>1. CASE AllowBroadcast /\ GroupHolders = {}
      BY <1>0, <2>0, <2>1, <2>3, <3>1 DEF UpgradeGroup, TypeOK
    <3>2. CASE ~(AllowBroadcast /\ GroupHolders = {})
      <4>1. holder'[c] = "live"
        BY <1>0, <2>3, <3>2 DEF UpgradeGroup, TypeOK
      <4>2. DrainOnClose
        BY <1>2, <4>1
      <4>3. queue' = queue
        BY <2>3, <3>2 DEF UpgradeGroup, Settle
      <4> QED BY <2>0, <4>2, <4>3 DEF UnreadGone
    <3> QED BY <3>1, <3>2
  <2>4. CASE \/ \E d \in Client : Clone(c, d)
             \/ UpgradeTx(c) \/ Drop(c)
    <3>1. queue' = queue /\ DrainOnClose
      BY <1>0, <1>2, <2>4 DEF Clone, UpgradeTx, Drop, msgVars, TypeOK
    <3> QED BY <2>0, <3>1 DEF UnreadGone
  <2>5. CASE Downgrade(c) \/ GetReply(c) \/ Abandon(c)
    BY <1>3, <2>5 DEF Downgrade, GetReply, Abandon, msgVars, actorVars, addrVars
  <2>6. CASE \/ \E m \in Awaited : Request(c, m)
             \/ \E m \in Delays : SendLater(c, m)
             \/ \E m \in DoSends : DoSend(c, m)
    <3>1. queue' = queue /\ holder'[c] = "live"
      BY <2>0, <2>6 DEF Request, SendLater, DoSend, Accepting, addrVars
    <3>2. DrainOnClose
      BY <1>2, <3>1
    <3> QED BY <2>0, <3>1, <3>2 DEF UnreadGone
  <2> QED BY <1>4, <2>2, <2>3, <2>4, <2>5, <2>6
          DEF ClientStep, Send, CloseOne, Awaited
<1>5. ASSUME NEW k \in Msg, TaskStep(k) PROVE queue' = <<>>
  <2> DEFINE senders == TxHolders # {} \/ Tasks \ {k} # {}
  <2>0. Receivers = {} /\ UNCHANGED holder
    BY <1>5 DEF TaskStep, TaskSends, DelayEnds, actorVars, addrVars, Receivers
  <2>1. CASE TaskSends(k)
    <3>1. Settle(Discarded(senders, {}), [st EXCEPT ![k] = "lost"], reply)
      BY <2>0, <2>1 DEF TaskSends, Accepting
    <3>2. ASSUME ~DrainOnClose PROVE ~senders
      <4>1. \A d \in Client : holder[d] \notin {"upgrading", "live", "dropping"}
        BY <1>2, <2>0, <3>2
      <4>2. \A m \in Msg \ {k} : st[m] \notin {"sleeping", "sending"}
        BY <1>0, <1>1, <1>2, <3>1, <3>2 DEF Settle, Discarded, TypeOK
      <4> QED BY <4>1, <4>2 DEF TxHolders, Tasks
    <3> HIDE DEF senders
    <3> QED BY <1>0, <3>1, <3>2, SettleEmpties
  <2>2. CASE DelayEnds(k)
    <3>1. Settle({}, [st EXCEPT ![k] = "sending"], reply)
      BY <1>0, <2>2 DEF DelayEnds, CancelDrops
    <3> QED BY <1>0, <1>3, <2>0, <2>2, <3>1 DEF DelayEnds, Settle, actorVars, TypeOK
  <2> QED BY <1>5, <2>1, <2>2 DEF TaskStep
<1>6. ASSUME NEW a \in Actor, ActorStep(a) PROVE queue' = <<>>
  <2>0. UNCHANGED holder /\ pc[a] \notin Ended
    BY <1>6 DEF ActorStep, OnStart, Recv, RecvFails, Handled, HandlerPanics,
                HandleClose, CloseHeard, HandleDelayed, LoopEnds, OnStop, addrVars, Ended
  <2>1. pc'[a] \in Ended
    BY <1>0 DEF Receivers
  <2>2. HandlerPanics(a) \/ OnStop(a)
    BY <1>0, <1>6, <2>1 DEF ActorStep, OnStart, Recv, RecvFails, Handled,
       HandleClose, CloseHeard, HandleDelayed, LoopEnds, Back, Ended, TypeOK
  <2>3. PICK st0, reply0 :
          /\ Settle(Discarded(SenderAlive, Receivers \ {a}), st0, reply0)
          /\ \A m \in Msg : st[m] \in {"sleeping", "sending"} => st0[m] = st[m]
    <3>1. CASE OnStop(a)
      BY <3>1 DEF OnStop
    <3>2. CASE HandlerPanics(a)
      <4>1. \A m \in Msg : st[m] \in {"sleeping", "sending"}
                             => [st EXCEPT ![cur[a]] = "crashed"][m] = st[m]
        BY <1>0, <3>2, MsgAssumption DEF HandlerPanics, OnePlace, TypeOK
      <4> QED BY <3>2, <4>1 DEF HandlerPanics
    <3> QED BY <2>2, <3>1, <3>2
  <2>4. Receivers \ {a} = {}
    <3>1. \A b \in Actor \ {a} : pc'[b] = pc[b]
      BY <1>0, <2>2 DEF HandlerPanics, OnStop, Back, TypeOK
    <3> QED BY <3>1 DEF Receivers
  <2>5. ASSUME ~DrainOnClose PROVE ~SenderAlive
    <3>1. \A m \in Msg : st[m] \notin {"sleeping", "sending"}
      BY <1>1, <1>2, <2>3, <2>5 DEF Settle, Discarded
    <3> QED BY <1>2, <2>0, <2>5, <3>1, NoSender
  <2> QED BY <1>0, <2>3, <2>4, <2>5, SettleEmpties
<1> QED BY <1>4, <1>5, <1>6 DEF Next

LEMMA UnreadGoneHolds == Spec => []UnreadGone
<1>1. Init => UnreadGone
  BY DEF Init, UnreadGone
<1>2. Bookkeeping /\ OnePlace /\ UnreadGone /\ [Next]_vars => UnreadGone'
  <2>1. ASSUME UnreadGone, UNCHANGED vars PROVE UnreadGone'
    BY <2>1 DEF vars, addrVars, msgVars, actorVars, UnreadGone, Receivers,
                SenderAlive, TxHolders, Tasks
  <2>2. ASSUME Bookkeeping, OnePlace, UnreadGone, Next PROVE UnreadGone'
    <3>1. (Receivers = {} /\ (DrainOnClose \/ ~SenderAlive))'
             <=> (Receivers' = {} /\ (DrainOnClose \/ ~SenderAlive'))
      OBVIOUS
    <3> QED BY <2>2, <3>1, UnreadStep DEF UnreadGone
  <2> QED BY <2>1, <2>2
<1> QED BY <1>1, <1>2, BookkeepingHolds, EachMessageInOnePlace, PTL DEF Spec

\* In the mpsc build, where the receiver discards what is queued when it goes,
\* an awaited reply always has an actor that can still give it.
THEOREM NobodyWaitsInVain == DrainOnClose => (Spec => []NoDeadWait)
<1> SUFFICES ASSUME DrainOnClose PROVE Spec => []NoDeadWait
  OBVIOUS
<1>1. OnePlace /\ UnreadGone /\ ReplyMatchesFate => NoDeadWait
  <2> SUFFICES ASSUME OnePlace, UnreadGone, ReplyMatchesFate,
                      NEW m \in Awaited, reply[m] = "open"
               PROVE  Receivers # {}
    BY DEF NoDeadWait
  <2>1. m \in Msg /\ st[m] \in {"queued", "handling"}
    BY DEF ReplyMatchesFate, Awaited, Msg
  <2>2. CASE st[m] = "queued"
    <3>1. m \in Range(queue)
      BY <2>1, <2>2 DEF OnePlace
    <3>2. queue # <<>>
      BY <3>1 DEF Range
    <3> QED BY <3>2 DEF UnreadGone
  <2>3. CASE st[m] = "handling"
    <3>1. PICK a \in Actor : cur[a] = m
      BY <2>1, <2>3 DEF OnePlace
    <3>2. pc[a] = "handle"
      BY <2>1, <3>1, MsgAssumption DEF OnePlace
    <3> QED BY <3>2 DEF Receivers, Ended
  <2> QED BY <2>1, <2>2, <2>3
<1> QED BY <1>1, EachMessageInOnePlace, UnreadGoneHolds, RepliesMatchFates, PTL

------------------------------------------------------------------------------
(* close_one stops one actor for every answer, and for good.                *)

Stopped == {a \in Actor : manual[a]}
Answered == {m \in Closes : reply[m] = "value"}

\* Answered is finite because it grows only together with Stopped.
Closings == CloseStopsOne /\ IsFiniteSet(Answered)

\* Only the handler of a close_one answers one, and it stops its actor.
LEMMA ClosingStep ==
  ASSUME Bookkeeping, OnePlace, ReplyMatchesFate, Next
  PROVE  \/ UNCHANGED manual /\ Answered' = Answered
         \/ \E a \in Actor, k \in Closes :
              /\ pc[a] = "handle" /\ pc'[a] = "exit"
              /\ manual' = [manual EXCEPT ![a] = TRUE]
              /\ reply[k] # "value" /\ reply' = [reply EXCEPT ![k] = "value"]
<1>0. TypeOK /\ \A m \in Closes : m \in Msg /\ m \in Awaited
  BY DEF Bookkeeping, Msg, Awaited
<1> DEFINE Same == \A m \in Closes : reply'[m] = "value" <=> reply[m] = "value"
<1>1. ASSUME NEW c \in Client, ClientStep(c) PROVE UNCHANGED manual /\ Same
  <2>1. CASE UpgradeGroup(c) \/ Release(c)
    BY <1>0, <2>1 DEF UpgradeGroup, Release, Settle, actorVars
  <2>2. ASSUME NEW m \in Awaited, Request(c, m) PROVE UNCHANGED manual /\ Same
    <3>1. reply[m] # "value"
      BY <2>2 DEF Request, ReplyMatchesFate
    <3> QED BY <1>0, <2>2, <3>1 DEF Request, actorVars, TypeOK
  <2>3. ASSUME NEW m \in Delays, SendLater(c, m) PROVE UNCHANGED manual /\ Same
    BY <1>0, <2>3, MsgAssumption DEF SendLater, actorVars, TypeOK
  <2>4. CASE Abandon(c)
    BY <1>0, <2>4 DEF Abandon, actorVars, TypeOK
  <2>5. CASE \/ \E d \in Client : Clone(c, d)
             \/ Downgrade(c) \/ UpgradeTx(c) \/ Drop(c) \/ GetReply(c)
             \/ \E m \in DoSends : DoSend(c, m)
    BY <2>5 DEF Clone, Downgrade, UpgradeTx, Drop, DoSend, GetReply, msgVars, actorVars
  <2> QED BY <1>1, <2>1, <2>2, <2>3, <2>4, <2>5
          DEF ClientStep, Send, CloseOne, Awaited
<1>2. ASSUME NEW m \in Msg, TaskStep(m) PROVE UNCHANGED manual /\ Same
  BY <1>0, <1>2 DEF TaskStep, TaskSends, DelayEnds, Settle, actorVars
<1>3. ASSUME NEW a \in Actor, ActorStep(a), ~HandleClose(a) PROVE UNCHANGED manual /\ Same
  <2>1. CASE Handled(a)
    <3>1. cur[a] \in Msg /\ cur[a] \notin Closes
      BY <1>0, <2>1, MsgAssumption DEF Handled, Runnable, Msg
    <3> QED BY <1>0, <2>1, <3>1 DEF Handled, TypeOK
  <2>2. CASE HandlerPanics(a)
    <3>1. cur[a] \in Msg
      BY <2>2 DEF HandlerPanics, Runnable, Msg
    <3>2. reply[cur[a]] # "value" \/ reply[cur[a]] # "open"
      OBVIOUS
    <3> QED BY <1>0, <2>2, <3>1 DEF HandlerPanics, Settle, TypeOK
  <2>3. CASE OnStop(a)
    BY <1>0, <2>3 DEF OnStop, Settle
  <2>4. CASE OnStart(a) \/ Recv(a) \/ RecvFails(a) \/ HandleDelayed(a) \/ LoopEnds(a)
    BY <2>4 DEF OnStart, Recv, RecvFails, HandleDelayed, LoopEnds, msgVars
  <2> QED BY <1>3, <2>1, <2>2, <2>3, <2>4 DEF ActorStep
<1>4. ASSUME NEW a \in Actor, HandleClose(a)
      PROVE  \/ UNCHANGED manual /\ Same
             \/ /\ pc[a] = "handle" /\ pc'[a] = "exit"
                /\ manual' = [manual EXCEPT ![a] = TRUE]
                /\ cur[a] \in Closes /\ reply[cur[a]] # "value"
                /\ reply' = [reply EXCEPT ![cur[a]] = "value"]
  BY <1>0, <1>4 DEF HandleClose, CloseHeard, Back, TypeOK
<1>5. Same => Answered' = Answered
  BY DEF Answered
<1> HIDE DEF Same
<1> QED BY <1>1, <1>2, <1>3, <1>4, <1>5 DEF Next

\* A stopped actor goes on from exit to stop and gone, and never anywhere else.
LEMMA StoppedStays ==
  ASSUME TypeOK, Next, NEW a \in Actor, manual[a], pc[a] \in {"exit", "stop", "gone"}
  PROVE  pc'[a] \in {"exit", "stop", "gone"}
<1>1. ASSUME NEW b \in Actor, ActorStep(b) PROVE pc'[a] \in {"exit", "stop", "gone"}
  BY <1>1 DEF ActorStep, OnStart, Recv, RecvFails, Handled, HandlerPanics,
              HandleClose, CloseHeard, HandleDelayed, LoopEnds, OnStop, Restarts, Back, TypeOK
<1>2. CASE \A b \in Actor : ~ActorStep(b)
  BY <1>2, ActorFrame
<1> QED BY <1>1, <1>2

LEMMA ClosingsStep ==
  ASSUME Bookkeeping, OnePlace, ReplyMatchesFate, Closings, Next
  PROVE  Closings'
<1>0. /\ TypeOK /\ IsFiniteSet(Answered) /\ IsFiniteSet(Stopped)
      /\ Cardinality(Stopped) \in Nat
      /\ Cardinality(Stopped) = Cardinality(Answered)
      /\ \A a \in Actor : manual[a] => pc[a] \in {"exit", "stop", "gone"}
  BY PartiesAssumption, FS_Subset, FS_CardinalityType
  DEF Bookkeeping, Closings, CloseStopsOne, Stopped, Answered
<1>1. CASE UNCHANGED manual /\ Answered' = Answered
  <2>1. Stopped' = Stopped
    BY <1>1 DEF Stopped
  <2>2. \A a \in Actor : manual'[a] => pc'[a] \in {"exit", "stop", "gone"}
    BY <1>0, <1>1, StoppedStays
  <2> QED BY <1>0, <1>1, <2>1, <2>2 DEF Closings, CloseStopsOne, Stopped, Answered
<1>2. ASSUME NEW a \in Actor, NEW k \in Closes,
             pc[a] = "handle", pc'[a] = "exit", manual' = [manual EXCEPT ![a] = TRUE],
             reply[k] # "value", reply' = [reply EXCEPT ![k] = "value"]
      PROVE  Closings'
  <2>1. Stopped' = Stopped \cup {a} /\ a \notin Stopped
    BY <1>0, <1>2 DEF Stopped, TypeOK
  <2>2. Answered' = Answered \cup {k} /\ k \notin Answered
    BY <1>0, <1>2 DEF Answered, TypeOK, Msg
  <2>3. /\ IsFiniteSet(Answered')
        /\ Cardinality(Answered') = Cardinality(Answered) + 1
        /\ Cardinality(Stopped') = Cardinality(Stopped) + 1
    BY <1>0, <2>1, <2>2, FS_AddElement
  <2>4. \A b \in Actor : manual'[b] => pc'[b] \in {"exit", "stop", "gone"}
    BY <1>0, <1>2, StoppedStays DEF TypeOK
  <2> QED BY <1>0, <2>3, <2>4 DEF Closings, CloseStopsOne, Stopped, Answered
<1> QED BY <1>1, <1>2, ClosingStep

\* handle_msg, ManualShutDown: every answered close_one stopped one actor and no
\* actor stops by hand without answering one, whatever the order of close_ones,
\* abandoned requests and restarts.
THEOREM EachCloseStopsOne == Spec => []CloseStopsOne
<1>1. Init => Closings
  <2> SUFFICES ASSUME Init PROVE Closings
    OBVIOUS
  <2>1. Stopped = {} /\ Answered = {}
    BY DEF Init, Stopped, Answered, Msg
  <2>2. \A a \in Actor : ~manual[a]
    BY DEF Init
  <2> QED BY <2>1, <2>2, FS_EmptySet DEF Closings, CloseStopsOne, Stopped, Answered
<1>2. Bookkeeping /\ OnePlace /\ ReplyMatchesFate /\ Closings /\ [Next]_vars => Closings'
  <2>1. ASSUME Closings, UNCHANGED vars PROVE Closings'
    BY <2>1 DEF vars, msgVars, actorVars, Closings, CloseStopsOne, Answered
  <2> QED BY <2>1, ClosingsStep
<1>3. Closings => CloseStopsOne
  BY DEF Closings
<1> QED BY <1>1, <1>2, <1>3, BookkeepingHolds, EachMessageInOnePlace,
           RepliesMatchFates, PTL DEF Spec

------------------------------------------------------------------------------
(* The group implements the abstract mailbox: every step of the core is a   *)
(* step of Mailbox.tla, or none, under the mapping of Promise.              *)

LEMMA FateType ==
  ASSUME TypeOK, NEW m \in Msg
  PROVE  Fate(m) \in {"new", "pending", "taken", "done", "crashed", "lost"}
BY DEF TypeOK, Fate

\* Who holds a runnable message or a close_one has taken it for good.
LEMMA FateKinds ==
  ASSUME TypeOK, NEW m \in Msg
  PROVE  /\ st[m] = "unused" => Fate(m) = "new"
         /\ st[m] \in {"queued", "sleeping", "sending"} => Fate(m) = "pending"
         /\ st[m] = "handling" /\ m \in Delays /\ ~armed[m] => Fate(m) = "pending"
         /\ st[m] = "handling" /\ ~(m \in Delays /\ ~armed[m]) => Fate(m) = "taken"
         /\ st[m] \in {"done", "crashed", "lost"} => Fate(m) = st[m]
BY DEF Fate

\* Every way of a message through the core is a way the mailbox allows.
LEMMA MailboxStep ==
  ASSUME TypeOK, TypeOK', Fresh, NEW m \in Msg, MessageStep(m),
         Receivers = {} => Receivers' = {}, ~SenderAlive => ~SenderAlive'
  PROVE  Promise!FateStep(m) /\ Promise!AnswerStep(m)
<1> DEFINE f == Fate(m)
           g == Fate(m)'
<1>1. /\ st[m] = "unused" => f = "new"
      /\ st[m] \in {"queued", "sleeping", "sending"} => f = "pending"
      /\ st[m] = "handling" /\ m \in Delays /\ ~armed[m] => f = "pending"
      /\ st[m] = "handling" /\ ~(m \in Delays /\ ~armed[m]) => f = "taken"
      /\ st[m] \in {"done", "crashed", "lost"} => f = st[m]
  BY FateKinds
<1>2. /\ st'[m] = "unused" => g = "new"
      /\ st'[m] \in {"queued", "sleeping", "sending"} => g = "pending"
      /\ st'[m] = "handling" /\ m \in Delays /\ ~armed'[m] => g = "pending"
      /\ st'[m] = "handling" /\ ~(m \in Delays /\ ~armed'[m]) => g = "taken"
      /\ st'[m] \in {"done", "crashed", "lost"} => g = st'[m]
  BY DEF Fate
<1>3. /\ [k \in Msg |-> Fate(k)][m] = f
      /\ [k \in Msg |-> Fate(k)]'[m] = g
  OBVIOUS
<1>4. /\ st[m] \in {"unused", "queued", "handling", "sleeping", "sending", "done",
                   "crashed", "lost"}
      /\ st[m] = "unused" => reply[m] = "none"
      /\ Runnable(m) \/ m \in Closes => ~(m \in Delays /\ ~armed[m])
  BY MsgAssumption DEF TypeOK, Fresh, Runnable
<1> HIDE DEF f, g
<1>5. CASE Armed(m)
  BY <1>1, <1>2, <1>3, <1>5 DEF Armed, Goes, Untold, Promise!FateStep, Promise!AnswerStep
<1>6. CASE ArmedKept(m) /\ Kept(m)
  BY <1>1, <1>2, <1>3, <1>4, <1>6 DEF ArmedKept, Kept, Untold, Promise!FateStep, Promise!AnswerStep
<1>7. CASE Accepted(m) \/ Refused(m) \/ Detached(m)
  BY <1>1, <1>2, <1>3, <1>4, <1>7
  DEF Accepted, Refused, Detached, Goes, Untold, Promise!FateStep, Promise!AnswerStep,
      Promise!Moves
<1>8. CASE Carried(m) \/ Failed(m) \/ Woken(m)
  BY <1>1, <1>2, <1>3, <1>8
  DEF Carried, Failed, Woken, Goes, Untold, Promise!FateStep, Promise!AnswerStep,
      Promise!Moves
<1>9. CASE ArmedKept(m) /\ (Taken(m) \/ Served(m) \/ Crashed(m))
  BY <1>1, <1>2, <1>3, <1>4, <1>9
  DEF ArmedKept, Taken, Served, Crashed, Goes, Told, Untold, Promise!FateStep,
      Promise!AnswerStep, Promise!Moves
<1>10. CASE Unread(m)
  BY <1>1, <1>2, <1>3, <1>10 DEF Unread, Goes, Told, Promise!FateStep,
      Promise!AnswerStep, Promise!Moves
<1>11. CASE Unarmed(m)
  BY <1>1, <1>2, <1>3, <1>11 DEF Unarmed, Goes, Untold, Promise!FateStep,
      Promise!AnswerStep, Promise!Moves
<1> QED BY <1>5, <1>6, <1>7, <1>8, <1>9, <1>10, <1>11 DEF MessageStep

\* Each actor handles one message, so no more are taken than there are actors.
OneEach == Cardinality({m \in Msg : Fate(m) = "taken"}) <= Cardinality(Actor)

LEMMA TakenBound == TypeOK /\ OnePlace => OneEach
<1> SUFFICES ASSUME TypeOK, OnePlace PROVE OneEach
  OBVIOUS
<1> DEFINE T == {m \in Msg : Fate(m) = "taken"}
           by == [m \in T |-> CHOOSE a \in Actor : cur[a] = m]
<1>1. \A m \in T : \E a \in Actor : cur[a] = m
  <2>1. \A m \in T : st[m] = "handling"
    BY DEF TypeOK, Fate
  <2> QED BY <2>1 DEF OnePlace
<1>2. \A m \in T : by[m] \in Actor /\ cur[by[m]] = m
  BY <1>1
<1>3. by \in Injection(T, Actor)
  BY <1>2 DEF Injection, IsInjective
<1> HIDE DEF T, by
<1>4. Cardinality(T) <= Cardinality(Actor)
  BY <1>3, PartiesAssumption, FS_Injection
<1> QED BY <1>4 DEF T, OneEach

LEMMA InitPromise == Init => Promise!Init
<1> SUFFICES ASSUME Init PROVE Promise!Init
  OBVIOUS
<1>1. [m \in Msg |-> Fate(m)] = [m \in Msg |-> "new"]
  BY DEF Init, Fate
<1>2. (Receivers = {}) = FALSE
  BY PartiesAssumption DEF Init, Receivers, Ended
<1>3. (~SenderAlive) = FALSE
  <2>1. holder[First] = "live" /\ First \in Client
    BY PartiesAssumption DEF Init
  <2> QED BY <2>1, LiveKeepsOpen
<1> QED BY <1>1, <1>2, <1>3 DEF Init, Promise!Init
\* The Cardinality of the instance is the one of FiniteSets.
LEMMA SameCardinality == \A S : Promise!Cardinality(S) = Cardinality(S)
  BY DEF Promise!Cardinality, Cardinality

LEMMA PromiseStep ==
  ASSUME Bookkeeping, Bookkeeping', OnePlace, OneEach', Requests, [Next]_vars
  PROVE  [Promise!Next]_(Promise!vars)
<1>1. CASE UNCHANGED vars
  BY <1>1 DEF vars, addrVars, msgVars, actorVars, Promise!vars, Fate, Receivers,
              SenderAlive, TxHolders, Tasks
<1>2. CASE Next
  <2>1. TypeOK /\ TypeOK' /\ Fresh
    BY DEF Bookkeeping, Requests
  <2>7. (Receivers = {} => Receivers' = {}) /\ (~SenderAlive => ~SenderAlive')
    BY <1>2, <2>1, ReceiversShrink, SealedStays
  <2>2. /\ (Receivers = {})' \in BOOLEAN /\ (Receivers = {} => (Receivers = {})')
        /\ (~SenderAlive)' \in BOOLEAN /\ (~SenderAlive => (~SenderAlive)')
    BY <1>2, <2>1, ReceiversShrink, SealedStays
  <2>3. [m \in Msg |-> Fate(m)]'
          \in [Msg -> {"new", "pending", "taken", "done", "crashed", "lost"}]
    <3>1. \A m \in Msg : Fate(m)' \in {"new", "pending", "taken", "done", "crashed", "lost"}
      BY <2>1 DEF TypeOK, Fate
    <3> QED BY <3>1
  <2>4. reply' \in [Msg -> {"none", "open", "abandoned", "value", "canceled", "closed"}]
    BY <2>1 DEF TypeOK
  <2>5. \A m \in Msg : Promise!FateStep(m) /\ Promise!AnswerStep(m)
    BY <1>2, <2>1, <2>7, Messages, MailboxStep
  <2>6. Cardinality({m \in Msg : [k \in Msg |-> Fate(k)]'[m] = "taken"})
          <= Cardinality(Actor)
    <3>1. {m \in Msg : [k \in Msg |-> Fate(k)]'[m] = "taken"}
            = {m \in Msg : Fate(m) = "taken"}'
      OBVIOUS
    <3> QED BY <3>1 DEF OneEach
  <2> QED BY <2>2, <2>3, <2>4, <2>5, <2>6, SameCardinality DEF Promise!Next
<1> QED BY <1>1, <1>2

\* The group of actors keeps the promise of Mailbox.tla: at most once, lost only
\* when deserted or sealed, answered by what became of the message.
THEOREM MailboxImplemented == Spec => ImplementsMailbox
<1>1. Spec => [][Promise!Next]_(Promise!vars)
  BY PromiseStep, TakenBound, TypeCorrect, BookkeepingHolds, EachMessageInOnePlace, RequestsHold, PTL DEF Spec
<1> QED BY <1>1, InitPromise, PTL DEF Spec, ImplementsMailbox, Promise!Spec
=============================================================================
