--------------------------- MODULE SubscribeProofs ---------------------------
(***************************************************************************)
(* Theorems about Subscribe.tla, for any groups, calls and lists.          *)
(***************************************************************************)
EXTENDS Subscribe, Queues

------------------------------------------------------------------------------
(* Subscriptions are served: of the state, only the calls and the list      *)
(* matter.                                                                  *)

ServedTypes ==
  /\ op \in [Op -> {"new", "locking", "done", "refused", "dropped"}]
  /\ list \in Seq(Sub)
  /\ res \in [Post -> Seq({"sent", "Closed", "mismatch"})]
  /\ before \in [Post -> SUBSET Sub]

\* A complete subscription is in the list; those a post has to serve are complete.
Listed == \A u \in Sub : op[u] = "done" => u \in Range(list)
Complete == \A p \in Post : \A u \in before[p] : op[u] = "done"

\* A post has results for list entries only.
Within == \A p \in Post : Len(res[p]) <= Len(list)

\* A finished post has polled the entry of every subscription it has to serve.
EntryPolled == \A p \in Post : op[p] = "done" =>
  \A u \in before[p] : \E i \in DOMAIN res[p] : list[i] = u

ServedInv == ServedTypes /\ Listed /\ Complete /\ Within /\ EntryPolled

LEMMA ServedInit == Init => ServedInv
<1> SUFFICES ASSUME Init PROVE ServedInv
  OBVIOUS
<1>1. ServedTypes
  BY DEF Init, ServedTypes
<1>2. Listed /\ Complete /\ Within /\ EntryPolled
  BY DEF Init, Listed, Complete, Within, EntryPolled, Op
<1> QED BY <1>1, <1>2 DEF ServedInv

\* A step that completes nothing keeps all of it.
LEMMA ServedUnchanged ==
  ASSUME ServedInv, ServedTypes', Within', list' = list,
         \A o \in Op : op'[o] = "done" <=> op[o] = "done",
         \A p \in Post : op[p] = "done" => res'[p] = res[p],
         \A p \in Post : before'[p] = before[p] \/ (op[p] # "done"
                           /\ \A u \in before'[p] : op[u] = "done")
  PROVE  ServedInv'
<1>1. Sub \subseteq Op /\ Post \subseteq Op
  BY DEF Op
<1>2. Listed' /\ Complete'
  BY <1>1 DEF ServedInv, Listed, Complete, ServedTypes
<1>3. EntryPolled'
  BY <1>1 DEF ServedInv, EntryPolled, Complete
<1> QED BY <1>2, <1>3 DEF ServedInv

LEMMA ServedNext == ServedInv /\ [Next]_vars => ServedInv'
<1> SUFFICES ASSUME ServedInv, [Next]_vars PROVE ServedInv'
  OBVIOUS
<1> USE DEF Op
<1>1. ASSUME NEW o \in Op, Call(o) PROVE ServedInv'
  <2>1. ServedTypes' /\ Within'
    BY <1>1 DEF Call, ServedInv, ServedTypes, Within
  <2>2. \A x \in Op : op'[x] = "done" <=> op[x] = "done"
    BY <1>1 DEF Call, ServedInv, ServedTypes
  <2>3. \A p \in Post : before'[p] = before[p] \/ (op[p] # "done"
                          /\ \A u \in before'[p] : op[u] = "done")
    BY <1>1 DEF Call, ServedInv, ServedTypes
  <2> QED BY <1>1, <2>1, <2>2, <2>3, ServedUnchanged DEF Call
<1>2. ASSUME NEW o \in Op, Refused(o) \/ DropCall(o) PROVE ServedInv'
  <2>1. ServedTypes' /\ Within'
    BY <1>2 DEF Refused, DropCall, Lets, Ends, ServedInv, ServedTypes, Within
  <2>2. \A x \in Op : op'[x] = "done" <=> op[x] = "done"
    BY <1>2 DEF Refused, DropCall, Lets, Ends, HasLock, ServedInv, ServedTypes
  <2>3. UNCHANGED <<list, res, before>>
    BY <1>2 DEF Refused, DropCall
  <2> QED BY <2>1, <2>2, <2>3, ServedUnchanged
<1>3. ASSUME NEW u \in Sub, Subscribes(u) PROVE ServedInv'
  <2>1. /\ list' = Append(list, u) /\ list' \in Seq(Sub) /\ Len(list') = Len(list) + 1
        /\ \A i \in 1 .. Len(list) : list'[i] = list[i]
        /\ list'[Len(list) + 1] = u
        /\ Len(list) \in Nat /\ DOMAIN list = 1 .. Len(list)
        /\ DOMAIN list' = 1 .. Len(list) + 1
    BY <1>3, AppendProperties, LenProperties DEF Subscribes, Push, ServedInv, ServedTypes
  <2>2. op' = [op EXCEPT ![u] = "done"] /\ UNCHANGED <<res, before>> /\ op[u] = "locking"
    BY <1>3 DEF Subscribes, Ends, HasLock
  <2>3. \A p \in Post : Len(res[p]) \in Nat /\ DOMAIN res[p] = 1 .. Len(res[p])
    BY LenProperties DEF ServedInv, ServedTypes
  <2>4. ServedTypes' /\ Within'
    BY <2>1, <2>2, <2>3 DEF ServedInv, ServedTypes, Within
  <2>5. Listed'
    <3>1. Range(list) \subseteq Range(list')
      BY <2>1 DEF Range
    <3>2. u \in Range(list')
      BY <2>1 DEF Range
    <3> QED BY <2>2, <3>1, <3>2 DEF ServedInv, ServedTypes, Listed
  <2>6. Complete'
    BY <2>2 DEF ServedInv, ServedTypes, Complete
  <2>7. EntryPolled'
    <3> SUFFICES ASSUME NEW p \in Post, op'[p] = "done", NEW w \in before[p]
                 PROVE  \E i \in DOMAIN res[p] : list'[i] = w
      BY <2>2 DEF EntryPolled
    <3>1. op[p] = "done"
      BY <2>2, OpAssumption DEF ServedInv, ServedTypes
    <3>2. PICK i \in DOMAIN res[p] : list[i] = w
      BY <3>1 DEF ServedInv, EntryPolled
    <3>3. i \in 1 .. Len(list)
      BY <2>1, <2>3, <3>2 DEF ServedInv, Within
    <3> QED BY <2>1, <3>2, <3>3
  <2> QED BY <2>4, <2>5, <2>6, <2>7 DEF ServedInv
<1>4. ASSUME NEW p \in Post, Mismatch(p) \/ Upgrade(p) \/ Send(p) PROVE ServedInv'
  <2>1. /\ UNCHANGED <<op, list, before>>
        /\ op[p] = "locking" /\ Len(res[p]) < Len(list)
        /\ res' = res \/ \E x \in {"sent", "Closed", "mismatch"} : Result(p, x)
    BY <1>4 DEF Mismatch, Upgrade, Send, HasEntry, HasLock, Deliver
  <2>2. Len(list) \in Nat /\ \A x \in Post : Len(res[x]) \in Nat
    BY LenProperties DEF ServedInv, ServedTypes
  <2>3. ServedTypes' /\ Within' /\ \A x \in Post \ {p} : res'[x] = res[x]
    <3>1. CASE res' = res
      BY <2>1, <3>1 DEF ServedInv, ServedTypes, Within
    <3>2. ASSUME NEW x \in {"sent", "Closed", "mismatch"}, Result(p, x)
          PROVE  ServedTypes' /\ Within' /\ \A y \in Post \ {p} : res'[y] = res[y]
      <4>1. Append(res[p], x) \in Seq({"sent", "Closed", "mismatch"})
            /\ Len(Append(res[p], x)) = Len(res[p]) + 1
        BY AppendProperties DEF ServedInv, ServedTypes
      <4>2. res' = [res EXCEPT ![p] = Append(@, x)]
        BY <3>2 DEF Result
      <4>3. ServedTypes'
        BY <2>1, <4>1, <4>2 DEF ServedInv, ServedTypes
      <4>4. Within' /\ \A y \in Post \ {p} : res'[y] = res[y]
        BY <2>1, <2>2, <4>1, <4>2 DEF ServedInv, ServedTypes, Within
      <4> QED BY <4>3, <4>4
    <3> QED BY <2>1, <3>1, <3>2
  <2> QED BY <2>1, <2>3, ServedUnchanged
<1>5. ASSUME NEW p \in Post, Collected(p) PROVE ServedInv'
  <2>1. /\ op' = [op EXCEPT ![p] = "done"] /\ UNCHANGED <<list, res, before>>
        /\ op[p] = "locking" /\ Len(res[p]) = Len(list)
    BY <1>5 DEF Collected, Ends, HasLock
  <2>2. DOMAIN list = 1 .. Len(list) /\ DOMAIN res[p] = 1 .. Len(res[p])
    BY LenProperties DEF ServedInv, ServedTypes
  <2>3. ServedTypes' /\ Within' /\ Complete'
    BY <2>1 DEF ServedInv, ServedTypes, Within, Complete
  <2>4. Listed'
    BY <2>1, OpAssumption DEF ServedInv, ServedTypes, Listed
  <2>5. \A u \in before[p] : \E i \in DOMAIN res[p] : list[i] = u
    <3>1. \A u \in before[p] : u \in Range(list)
      BY DEF ServedInv, ServedTypes, Complete, Listed
    <3> QED BY <2>1, <2>2, <3>1 DEF Range
  <2>6. EntryPolled'
    BY <2>1, <2>5 DEF ServedInv, ServedTypes, EntryPolled
  <2> QED BY <2>3, <2>4, <2>6 DEF ServedInv
<1>6. ASSUME NEW g \in Group,
             DropAddress(g) \/ LastCloses(g) \/ Handle(g) \/ Leave(g)
      PROVE  ServedInv'
  <2>1. UNCHANGED <<op, list, res, before>>
    BY <1>6 DEF DropAddress, LastCloses, Handle, Leave, callVars
  <2> QED BY <2>1 DEF ServedInv, ServedTypes, Listed, Complete, Within, EntryPolled
<1>7. CASE UNCHANGED vars
  BY <1>7 DEF vars, callVars, ServedInv, ServedTypes, Listed, Complete, Within, EntryPolled
<1> QED BY <1>1, <1>2, <1>3, <1>4, <1>5, <1>6, <1>7 DEF Next, Holder, Reader, PostStep

LEMMA ServedHolds == Spec => []ServedInv
  BY ServedInit, ServedNext, PTL DEF Spec

------------------------------------------------------------------------------
(* One order for all groups: what is in an inbox came from calls that ended *)
(* or from the one that has the lock, and the latter's copies come last.    *)

OrderTypes ==
  /\ op \in [Op -> {"new", "locking", "done", "refused", "dropped"}]
  /\ lock \in Seq(Op)
  /\ inbox \in [Group -> Seq(Post)]

\* The lock's queue holds the calls that wait for it, once each.
Locking == /\ IsInjective(lock)
           /\ \A o \in Op : op[o] = "locking" <=> o \in Range(lock)

Ended(o) == op[o] \in {"done", "dropped"}
Turns == \A g \in Group : \A p \in Range(inbox[g]) : Ended(p) \/ HasLock(p)
LatestLast == \A p \in Post : HasLock(p) =>
  \A g \in Group : \A i, j \in DOMAIN inbox[g] :
    inbox[g][i] = p /\ inbox[g][j] # p => j < i

OrderInv == OrderTypes /\ Locking /\ Turns /\ LatestLast /\ SameOrder

LEMMA OrderInit == Init => OrderInv
<1> SUFFICES ASSUME Init PROVE OrderInv
  OBVIOUS
<1>1. OrderTypes
  BY DEF Init, OrderTypes
<1>2. lock = <<>> /\ IsInjective(lock) /\ Range(lock) = {}
  BY DEF Init, IsInjective, Range
<1>3. Locking
  BY <1>2 DEF Init, Locking
<1>4. \A g \in Group : DOMAIN inbox[g] = {} /\ Range(inbox[g]) = {}
  BY DEF Init, Range
<1>5. Turns /\ LatestLast /\ SameOrder
  BY <1>4 DEF Turns, LatestLast, SameOrder
<1> QED BY <1>1, <1>3, <1>5 DEF OrderInv

\* Calls that end stay so, and the lock passes only from a call that ends.
LEMMA TurnPasses ==
  ASSUME OrderInv, inbox' = inbox,
         \A o \in Op : Ended(o) => Ended(o)',
         \A o \in Op : HasLock(o) => HasLock(o)' \/ Ended(o)'
  PROVE  Turns' /\ LatestLast' /\ SameOrder'
<1>1. \A g \in Group : Range(inbox[g]) \subseteq Op
  BY DEF OrderInv, OrderTypes, Range, Op
<1>2. Turns'
  BY <1>1 DEF OrderInv, Turns
<1>3. LatestLast'
  <2> SUFFICES ASSUME NEW p \in Post, HasLock(p)', NEW g \in Group,
                      NEW i \in DOMAIN inbox[g], NEW j \in DOMAIN inbox[g],
                      inbox[g][i] = p, inbox[g][j] # p
               PROVE  j < i
    BY DEF LatestLast
  <2>1. p \in Op /\ ~Ended(p)' /\ p \in Range(inbox[g])
    BY DEF HasLock, Ended, Op, Range
  <2>2. HasLock(p)
    BY <2>1 DEF OrderInv, Turns
  <2> QED BY <2>2 DEF OrderInv, LatestLast
<1>4. SameOrder'
  BY DEF OrderInv, SameOrder
<1> QED BY <1>2, <1>3, <1>4

LEMMA CallOrder == ASSUME OrderInv, NEW o \in Op, Call(o) PROVE OrderInv'
<1>1. /\ op[o] = "new" /\ op' = [op EXCEPT ![o] = "locking"]
      /\ lock' = Append(lock, o) /\ inbox' = inbox
  BY DEF Call, groupVars
<1>2. lock \in Seq(Op) /\ IsInjective(lock) /\ o \notin Range(lock)
  BY <1>1 DEF OrderInv, OrderTypes, Locking
<1>3. IsInjective(lock') /\ Range(lock') = Range(lock) \cup {o}
  BY <1>1, <1>2, AppendOne
<1>4. OrderTypes'
  BY <1>1, <1>2, AppendProperties DEF OrderInv, OrderTypes
<1>5. Locking'
  BY <1>1, <1>3 DEF OrderInv, OrderTypes, Locking
<1>6. ASSUME NEW x \in Op, HasLock(x) PROVE HasLock(x)'
  <2>1. op[x] = "locking" /\ x \in Range(lock) /\ x # o /\ Head(lock) = x
    BY <1>1, <1>6 DEF HasLock, OrderInv, Locking
  <2>2. Len(lock) \in Nat /\ Len(lock) >= 1
    BY <1>2, <2>1, LenProperties DEF Range
  <2>3. Head(lock') = Head(lock)
    <3>1. lock'[1] = lock[1]
      BY <1>1, <1>2, <2>2, AppendProperties
    <3> QED BY <3>1
  <2> QED BY <1>1, <2>1, <2>3 DEF HasLock, OrderInv, OrderTypes
<1>7. \A x \in Op : Ended(x) => Ended(x)'
  BY <1>1 DEF Ended, OrderInv, OrderTypes
<1> QED BY <1>1, <1>4, <1>5, <1>6, <1>7, TurnPasses DEF OrderInv

LEMMA EndsOrder ==
  ASSUME OrderInv, NEW o \in Op, op[o] = "locking", NEW how \in {"done", "dropped"},
         Ends(o, how), inbox' = inbox
  PROVE  OrderInv'
<1> DEFINE k == Place(o)
<1>1. /\ op' = [op EXCEPT ![o] = how]
      /\ lock' = [i \in 1 .. Len(lock) - 1 |-> lock[IF i < k THEN i ELSE i + 1]]
  BY DEF Ends, Without
<1>2. /\ lock \in Seq(Op) /\ IsInjective(lock) /\ o \in Range(lock)
      /\ Len(lock) \in Nat /\ DOMAIN lock = 1 .. Len(lock)
  BY LenProperties DEF OrderInv, OrderTypes, Locking
<1>3. k \in 1 .. Len(lock) /\ lock[k] = o
  BY <1>2 DEF Range, Place
<1> HIDE DEF k
<1>4. lock' \in Seq(Op) /\ WithoutPlace(lock, k, lock')
  <2>1. Len(lock) - 1 \in Nat
    BY <1>2, <1>3
  <2>2. \A i \in 1 .. Len(lock) - 1 : lock[IF i < k THEN i ELSE i + 1] \in Op
    BY <1>2, <1>3, ElementOfSeq
  <2>3. lock' \in [1 .. Len(lock) - 1 -> Op]
    BY <1>1, <2>2
  <2>4. lock' \in Seq(Op) /\ Len(lock') = Len(lock) - 1
    BY <2>1, <2>3, SeqDef
  <2>5. \A i \in 1 .. Len(lock) - 1 : lock'[i] = IF i < k THEN lock[i] ELSE lock[i + 1]
    BY <1>1
  <2> QED BY <2>4, <2>5 DEF WithoutPlace
<1>5. /\ IsInjective(lock') /\ Range(lock') = Range(lock) \ {o}
      /\ k # 1 => Head(lock') = Head(lock)
  BY <1>2, <1>3, <1>4, LeaveOne
<1>6. OrderTypes'
  BY <1>1, <1>4 DEF OrderInv, OrderTypes
<1>7. Locking'
  BY <1>1, <1>5 DEF OrderInv, OrderTypes, Locking
<1>8. ASSUME NEW x \in Op, HasLock(x) PROVE HasLock(x)' \/ Ended(x)'
  <2>1. CASE x = o
    BY <1>1, <2>1 DEF Ended, OrderInv, OrderTypes
  <2>2. CASE x # o
    <3>1. Head(lock) = lock[1] /\ Head(lock) = x
      BY <1>8 DEF HasLock
    <3>2. k # 1
      BY <1>3, <2>2, <3>1
    <3> QED BY <1>1, <1>5, <1>8, <2>2, <3>2 DEF HasLock, OrderInv, OrderTypes
  <2> QED BY <2>1, <2>2
<1>9. \A x \in Op : Ended(x) => Ended(x)'
  BY <1>1 DEF Ended, OrderInv, OrderTypes
<1> QED BY <1>6, <1>7, <1>8, <1>9, TurnPasses DEF OrderInv

\* The holder's copy is appended to one inbox, where it is not the first of its
\* call only if that call's copies are already the last.
LEMMA SendOrder == ASSUME OrderInv, NEW p \in Post, Send(p) PROVE OrderInv'
<1>1. HasLock(p) /\ UNCHANGED <<op, lock>>
  BY DEF Send, HasEntry
<1>2. PICK h : inbox' = inbox \/ inbox' = [inbox EXCEPT ![h] = Append(@, p)]
  BY DEF Send, Deliver
<1>3. CASE inbox' = inbox \/ h \notin Group
  <2>1. inbox' = inbox
    BY <1>2, <1>3 DEF OrderInv, OrderTypes
  <2> QED BY <1>1, <2>1 DEF OrderInv, OrderTypes, Locking, Turns, LatestLast, SameOrder,
                            HasLock, Ended
<1>4. CASE inbox' = [inbox EXCEPT ![h] = Append(@, p)] /\ h \in Group
  <2> DEFINE n == Len(inbox[h]) + 1
  <2>1. /\ inbox[h] \in Seq(Post) /\ Len(inbox[h]) \in Nat
        /\ DOMAIN inbox[h] = 1 .. Len(inbox[h])
    BY <1>4, LenProperties DEF OrderInv, OrderTypes
  <2>2. /\ inbox'[h] \in Seq(Post)
        /\ DOMAIN inbox'[h] = 1 .. n
        /\ \A i \in 1 .. Len(inbox[h]) : inbox'[h][i] = inbox[h][i]
        /\ inbox'[h][n] = p
        /\ \A g \in Group \ {h} : inbox'[g] = inbox[g]
    <3>1. inbox'[h] = Append(inbox[h], p) /\ \A g \in Group \ {h} : inbox'[g] = inbox[g]
      BY <1>4 DEF OrderInv, OrderTypes
    <3>2. /\ Append(inbox[h], p) \in Seq(Post) /\ Len(Append(inbox[h], p)) = n
          /\ \A i \in 1 .. Len(inbox[h]) : Append(inbox[h], p)[i] = inbox[h][i]
          /\ Append(inbox[h], p)[n] = p
      BY <2>1, AppendProperties
    <3> QED BY <3>1, <3>2, LenProperties
  <2> HIDE DEF n
  <2>3. n \in Nat /\ n = Len(inbox[h]) + 1
    BY <2>1 DEF n
  <2>4. OrderTypes' /\ Locking'
    <3>1. inbox' \in [Group -> Seq(Post)]
      BY <1>4, <2>2 DEF OrderInv, OrderTypes
    <3> QED BY <1>1, <3>1 DEF OrderInv, OrderTypes, Locking
  <2>5. Turns'
    <3>1. \A g \in Group : Range(inbox'[g]) \subseteq Range(inbox[g]) \cup {p}
      BY <2>1, <2>2, <2>3 DEF Range
    <3> QED BY <1>1, <3>1 DEF OrderInv, Turns, HasLock, Ended
  <2>6. ASSUME NEW g \in Group, NEW i \in DOMAIN inbox'[g], NEW j \in DOMAIN inbox'[g],
               inbox'[g][i] = p, inbox'[g][j] # p
        PROVE  j < i
    <3>1. \A x, y \in DOMAIN inbox[g] : inbox[g][x] = p /\ inbox[g][y] # p => y < x
      BY <1>1 DEF OrderInv, LatestLast
    <3>2. CASE g # h
      BY <2>2, <2>6, <3>1, <3>2
    <3>3. CASE g = h
      <4>1. j \in 1 .. Len(inbox[h])
        BY <2>2, <2>3, <2>6, <3>3
      <4> QED BY <2>1, <2>2, <2>3, <2>6, <3>1, <3>3, <4>1
    <3> QED BY <3>2, <3>3
  <2>7. LatestLast'
    <3>1. \A q \in Post : HasLock(q)' => q = p
      BY <1>1 DEF HasLock
    <3> QED BY <2>6, <3>1 DEF LatestLast
  <2>8. ASSUME NEW g \in Group, NEW i \in DOMAIN inbox'[g], inbox'[g][i] # p
        PROVE  i \in DOMAIN inbox[g] /\ inbox'[g][i] = inbox[g][i]
    BY <2>1, <2>2, <2>3, <2>8
  <2>9. ASSUME NEW g \in Group, NEW f \in Group,
               NEW i \in DOMAIN inbox'[g], NEW j \in DOMAIN inbox'[g],
               NEW k \in DOMAIN inbox'[f], NEW l \in DOMAIN inbox'[f],
               inbox'[g][i] = inbox'[f][k], inbox'[g][j] = inbox'[f][l],
               inbox'[g][i] # inbox'[g][j]
        PROVE  i < j <=> k < l
    <3>1. i \in Nat /\ j \in Nat /\ k \in Nat /\ l \in Nat
      BY <2>4, LenProperties DEF OrderTypes
    <3>2. CASE inbox'[g][i] = p
      <4>1. inbox'[f][k] = p /\ inbox'[g][j] # p /\ inbox'[f][l] # p
        BY <2>9, <3>2
      <4>2. j < i /\ l < k
        BY <2>6, <3>2, <4>1
      <4> QED BY <3>1, <4>2
    <3>3. CASE inbox'[g][j] = p
      BY <2>6, <2>9, <3>1, <3>3
    <3>4. CASE inbox'[g][i] # p /\ inbox'[g][j] # p
      BY <2>8, <2>9, <3>4 DEF OrderInv, SameOrder
    <3> QED BY <3>2, <3>3, <3>4
  <2>10. SameOrder'
    BY <2>9 DEF SameOrder
  <2> QED BY <2>4, <2>5, <2>7, <2>10 DEF OrderInv
<1> QED BY <1>2, <1>3, <1>4

LEMMA OrderNext == OrderInv /\ [Next]_vars => OrderInv'
<1> SUFFICES ASSUME OrderInv, [Next]_vars PROVE OrderInv'
  OBVIOUS
<1> USE DEF Op
<1>1. ASSUME UNCHANGED <<op, lock, inbox>> PROVE OrderInv'
  BY <1>1 DEF OrderInv, OrderTypes, Locking, Turns, LatestLast, SameOrder, HasLock, Ended
<1>2. ASSUME NEW o \in Op, Refused(o) PROVE OrderInv'
  <2>1. op' = [op EXCEPT ![o] = "refused"] /\ op[o] = "new" /\ UNCHANGED <<lock, inbox>>
    BY <1>2 DEF Refused, groupVars
  <2>2. OrderTypes' /\ Locking'
    BY <2>1 DEF OrderInv, OrderTypes, Locking
  <2>3. \A x \in Op : Ended(x) => Ended(x)'
    BY <2>1 DEF Ended, OrderInv, OrderTypes
  <2>4. \A x \in Op : HasLock(x) => HasLock(x)'
    BY <2>1 DEF HasLock, OrderInv, OrderTypes
  <2> QED BY <2>1, <2>2, <2>3, <2>4, TurnPasses DEF OrderInv
<1>3. ASSUME NEW o \in Op, DropCall(o) PROVE OrderInv'
  BY <1>3, EndsOrder DEF DropCall, Lets, groupVars
<1>4. ASSUME NEW u \in Sub, Subscribes(u) PROVE OrderInv'
  BY <1>4, EndsOrder DEF Subscribes, HasLock, groupVars
<1>5. ASSUME NEW p \in Post, PostStep(p) PROVE OrderInv'
  <2>1. CASE Mismatch(p) \/ Upgrade(p)
    BY <1>1, <2>1 DEF Mismatch, Upgrade, groupVars
  <2>2. CASE Send(p)
    BY <2>2, SendOrder
  <2>3. CASE Collected(p)
    BY <2>3, EndsOrder DEF Collected, HasLock, groupVars
  <2> QED BY <1>5, <2>1, <2>2, <2>3 DEF PostStep
<1>6. ASSUME NEW g \in Group, DropAddress(g) \/ LastCloses(g) \/ Handle(g) \/ Leave(g)
      PROVE  OrderInv'
  BY <1>1, <1>6 DEF DropAddress, LastCloses, Handle, Leave, callVars
<1>7. CASE UNCHANGED vars
  BY <1>1, <1>7 DEF vars, callVars, groupVars
<1> QED BY <1>2, <1>3, <1>4, <1>5, <1>6, <1>7, CallOrder DEF Next, Holder, Reader

\* Any two groups receive any two posts in the same order, however calls are
\* dropped in between (Address::send_subscribe holds the lock while it sends).
THEOREM PostsInOneOrder == Spec => []SameOrder
<1>1. OrderInv => SameOrder
  BY DEF OrderInv
<1> QED BY <1>1, OrderInit, OrderNext, PTL DEF Spec

------------------------------------------------------------------------------
(* What a post is told is what happened.                                    *)

\* A sender upgraded for an entry is that of a subscriber of the post's type.
Holding == \A p \in Post : holds[p] =>
  op[p] = "locking" /\ Len(res[p]) < Len(list) /\ TypeOf[Entry(p)] = TypeOf[p]

\* ResultsAccount, and conversely only an entry of another type is left out.
Accounts == \A p \in Post, g \in Group :
  /\ Times(p, g) = Cardinality(Entries(p, g, "sent"))
  /\ Entries(p, g, "Closed") # {} => ~addr[g] \/ actors[g] # "up"
  /\ \A i \in DOMAIN res[p] :
       res[p][i] = "mismatch" <=> TypeOf[list[i]] # TypeOf[p]

AccountInv == TypeOK /\ Within /\ Holding /\ Accounts

Results == {"sent", "Closed", "mismatch"}

LEMMA AccountInit == Init => AccountInv
<1> SUFFICES ASSUME Init PROVE AccountInv
  OBVIOUS
<1>1. TypeOK
  BY DEF Init, TypeOK
<1>2. Within /\ Holding
  BY DEF Init, Within, Holding
<1>3. \A p \in Post, g \in Group, r \in Results :
        {i \in DOMAIN inbox[g] : inbox[g][i] = p} = {} /\ Entries(p, g, r) = {}
  BY DEF Init, Entries
<1>4. Accounts
  <2>1. \A p \in Post : DOMAIN res[p] = {}
    BY DEF Init
  <2> QED BY <1>3, <2>1, FS_EmptySet DEF Accounts, Times, Results
<1> QED BY <1>1, <1>2, <1>4 DEF AccountInv

\* One more result, for the next entry of the list.
LEMMA OneMoreResult ==
  ASSUME AccountInv, NEW p \in Post, Len(res[p]) < Len(list),
         NEW r \in Results, Result(p, r), list' = list
  PROVE  /\ res' \in [Post -> Seq(Results)] /\ Within'
         /\ Entry(p) \in Sub /\ To[Entry(p)] \in Group
         /\ \A q \in Post \ {p} : res'[q] = res[q]
         /\ \A i \in DOMAIN res'[p] :
              \/ i = Len(res[p]) + 1 /\ res'[p][i] = r /\ list[i] = Entry(p)
              \/ i \in DOMAIN res[p] /\ res'[p][i] = res[p][i]
         /\ \A g \in Group, x \in Results :
              LET E == Entries(p, g, x) IN
              /\ Cardinality(E) \in Nat
              /\ IF g = To[Entry(p)] /\ x = r
                 THEN Cardinality(E') = Cardinality(E) + 1 ELSE E' = E
<1> DEFINE n == Len(res[p]) + 1
<1>1. /\ res \in [Post -> Seq(Results)] /\ list \in Seq(Sub) /\ res[p] \in Seq(Results)
      /\ Len(res[p]) \in Nat /\ Len(list) \in Nat /\ DOMAIN list = 1 .. Len(list)
      /\ DOMAIN res[p] = 1 .. Len(res[p])
  BY LenProperties DEF AccountInv, TypeOK, Results
<1>2. /\ res'[p] = Append(res[p], r) /\ \A q \in Post \ {p} : res'[q] = res[q]
      /\ res' = [res EXCEPT ![p] = Append(res[p], r)]
  BY <1>1 DEF Result
<1>3. /\ DOMAIN res'[p] = 1 .. n /\ Len(res'[p]) = n /\ res'[p] \in Seq(Results)
      /\ \A i \in 1 .. Len(res[p]) : res'[p][i] = res[p][i]
      /\ res'[p][n] = r
  BY <1>1, <1>2, AppendProperties, LenProperties
<1>4. Entry(p) = list[n] /\ Entry(p) \in Sub /\ To[Entry(p)] \in Group
  <2>1. n \in 1 .. Len(list)
    BY <1>1
  <2> QED BY <1>1, <2>1, OpAssumption DEF Entry
<1>5. res' \in [Post -> Seq(Results)]
  BY <1>1, <1>2, <1>3
<1>6. Within'
  BY <1>1, <1>2, <1>3 DEF AccountInv, Within
<1>7. /\ DOMAIN res'[p] = DOMAIN res[p] \cup {n} /\ n \notin DOMAIN res[p]
      /\ \A i \in DOMAIN res[p] : res'[p][i] = res[p][i]
  BY <1>1, <1>3
<1> HIDE DEF n
<1>8. ASSUME NEW g \in Group, NEW x \in Results
      PROVE  /\ Cardinality(Entries(p, g, x)) \in Nat
             /\ IF g = To[Entry(p)] /\ x = r
                THEN Cardinality(Entries(p, g, x)') = Cardinality(Entries(p, g, x)) + 1
                ELSE Entries(p, g, x)' = Entries(p, g, x)
  <2>1. IsFiniteSet(Entries(p, g, x))
    <3>1. IsFiniteSet(1 .. Len(res[p]))
      BY <1>1, FS_Interval
    <3> QED BY <1>1, <3>1, FS_Subset DEF Entries
  <2>2. CASE g = To[Entry(p)] /\ x = r
    <3>1. Entries(p, g, x)' = Entries(p, g, x) \cup {n} /\ n \notin Entries(p, g, x)
      BY <1>3, <1>4, <1>7, <2>2 DEF Entries
    <3> QED BY <2>1, <2>2, <3>1, FS_AddElement, FS_CardinalityType
  <2>3. CASE ~(g = To[Entry(p)] /\ x = r)
    <3>1. Entries(p, g, x)' = Entries(p, g, x)
      BY <1>3, <1>4, <1>7, <2>3 DEF Entries
    <3> QED BY <2>1, <2>3, <3>1, FS_CardinalityType
  <2> QED BY <2>2, <2>3
<1> QED BY <1>1, <1>2, <1>3, <1>4, <1>5, <1>6, <1>7, <1>8 DEF n

\* A step that touches neither list nor results, nor what was sent.
LEMMA AccountKept ==
  ASSUME AccountInv, TypeOK', UNCHANGED <<list, res, inbox>>,
         \A p \in Post : holds'[p] => holds[p] /\ op'[p] = op[p],
         \A g \in Group : /\ addr'[g] => addr[g]
                          /\ actors'[g] = "up" => actors[g] = "up"
  PROVE  AccountInv'
<1>1. Within' /\ Holding'
  BY DEF AccountInv, Within, Holding, Entry
<1>2. ASSUME NEW p \in Post, NEW g \in Group
      PROVE  /\ Times(p, g)' = Times(p, g)
             /\ \A r \in Results : Entries(p, g, r)' = Entries(p, g, r)
  BY DEF Times, Entries
<1>3. Accounts'
  BY <1>2 DEF AccountInv, Accounts, Results
<1> QED BY <1>1, <1>3 DEF AccountInv

\* The list only grows.
LEMMA SubscribesAccount ==
  ASSUME AccountInv, OrderInv', NEW u \in Sub, Subscribes(u)
  PROVE  AccountInv'
<1>1. /\ list \in Seq(Sub) /\ Len(list) \in Nat
      /\ list' = Append(list, u) /\ list' \in Seq(Sub) /\ Len(list') = Len(list) + 1
      /\ \A i \in 1 .. Len(list) : list'[i] = list[i]
  BY AppendProperties, LenProperties DEF Subscribes, Push, AccountInv, TypeOK
<1>2. /\ UNCHANGED <<res, holds, before, groupVars>> /\ op' = [op EXCEPT ![u] = "done"]
  BY DEF Subscribes, Ends
<1>3. \A p \in Post : /\ Len(res[p]) \in Nat /\ DOMAIN res[p] = 1 .. Len(res[p])
                      /\ Len(res[p]) <= Len(list)
  BY LenProperties DEF AccountInv, TypeOK, Within
<1>4. TypeOK'
  BY <1>1, <1>2 DEF AccountInv, OrderInv, OrderTypes, TypeOK, groupVars
<1>5. Within'
  BY <1>1, <1>2, <1>3 DEF Within
<1>6. \A p \in Post : \A i \in DOMAIN res[p] : list'[i] = list[i]
  BY <1>1, <1>3
<1>7. Holding'
  <2> SUFFICES ASSUME NEW p \in Post, holds'[p]
               PROVE  /\ op'[p] = "locking" /\ Len(res'[p]) < Len(list')
                      /\ TypeOf[Entry(p)'] = TypeOf[p]
    BY DEF Holding
  <2>1. op[p] = "locking" /\ Len(res[p]) < Len(list) /\ TypeOf[Entry(p)] = TypeOf[p]
    BY <1>2 DEF AccountInv, Holding
  <2>2. Len(res[p]) + 1 \in 1 .. Len(list)
    BY <1>1, <1>3, <2>1
  <2>3. Entry(p)' = Entry(p)
    BY <1>1, <1>2, <2>2 DEF Entry
  <2>4. op'[p] = op[p]
    BY <1>2, OpAssumption DEF AccountInv, TypeOK, Op
  <2> QED BY <1>1, <1>2, <1>3, <2>1, <2>3, <2>4
<1>8. ASSUME NEW p \in Post, NEW g \in Group
      PROVE  /\ Times(p, g)' = Times(p, g)
             /\ \A r \in Results : Entries(p, g, r)' = Entries(p, g, r)
  BY <1>2, <1>6 DEF Times, Entries, groupVars
<1>9. Accounts'
  BY <1>2, <1>6, <1>8 DEF AccountInv, Accounts, Results, groupVars
<1> QED BY <1>4, <1>5, <1>7, <1>9 DEF AccountInv

\* A result without a copy.
LEMMA RefusalAccount ==
  ASSUME AccountInv, NEW p \in Post, Len(res[p]) < Len(list), NEW r \in {"Closed", "mismatch"},
         Result(p, r), UNCHANGED <<op, list, lock, before, groupVars>>,
         \A q \in Post : holds'[q] => holds[q] /\ q # p, holds' \in [Post -> BOOLEAN],
         r = "mismatch" <=> TypeOf[Entry(p)] # TypeOf[p],
         r = "Closed" => ~addr[To[Entry(p)]] \/ actors[To[Entry(p)]] # "up"
  PROVE  AccountInv'
<1>1. /\ res' \in [Post -> Seq(Results)] /\ Within'
      /\ Entry(p) \in Sub /\ To[Entry(p)] \in Group
      /\ \A q \in Post \ {p} : res'[q] = res[q]
      /\ \A i \in DOMAIN res'[p] :
           \/ i = Len(res[p]) + 1 /\ res'[p][i] = r /\ list[i] = Entry(p)
           \/ i \in DOMAIN res[p] /\ res'[p][i] = res[p][i]
      /\ \A g \in Group, x \in Results :
           LET E == Entries(p, g, x) IN
           /\ Cardinality(E) \in Nat
           /\ IF g = To[Entry(p)] /\ x = r
              THEN Cardinality(E') = Cardinality(E) + 1 ELSE E' = E
  BY OneMoreResult DEF Results
<1>2. TypeOK'
  BY <1>1 DEF AccountInv, TypeOK, Results, groupVars
<1>3. Holding'
  BY <1>1 DEF AccountInv, Holding, Entry
<1>4. ASSUME NEW q \in Post, NEW g \in Group
      PROVE  /\ Times(q, g)' = Times(q, g)
             /\ Entries(q, g, "sent")' = Entries(q, g, "sent")
             /\ Entries(q, g, "Closed")' # {} =>
                  Entries(q, g, "Closed") # {} \/ ~addr[g] \/ actors[g] # "up"
             /\ \A i \in DOMAIN res'[q] :
                  res'[q][i] = "mismatch" <=> TypeOf[list[i]] # TypeOf[q]
  <2>1. Times(q, g)' = Times(q, g)
    BY DEF Times, groupVars
  <2>2. CASE q # p
    <3>1. \A x \in Results : Entries(q, g, x)' = Entries(q, g, x)
      BY <1>1, <2>2 DEF Entries
    <3> QED BY <1>1, <2>1, <2>2, <3>1 DEF AccountInv, Accounts, Results
  <2>3. CASE q = p
    <3>1. /\ "sent" \in Results /\ "sent" # r
          /\ "Closed" \in Results
      BY DEF Results
    <3>2. Entries(p, g, "sent")' = Entries(p, g, "sent")
      BY <1>1, <3>1
    <3>3. Entries(p, g, "Closed")' = Entries(p, g, "Closed")
          \/ (r = "Closed" /\ g = To[Entry(p)])
      BY <1>1, <3>1
    <3>4. \A i \in DOMAIN res'[p] :
            res'[p][i] = "mismatch" <=> TypeOf[list[i]] # TypeOf[p]
      BY <1>1 DEF AccountInv, Accounts
    <3> QED BY <2>1, <2>3, <3>2, <3>3, <3>4
  <2> QED BY <2>2, <2>3
<1>5. Accounts'
  BY <1>4 DEF AccountInv, Accounts, groupVars
<1> QED BY <1>1, <1>2, <1>3, <1>5 DEF AccountInv

\* One copy, and the Ok for it.
LEMMA SentAccount ==
  ASSUME AccountInv, NEW p \in Post, Send(p), actors[To[Entry(p)]] = "up", Result(p, "sent"),
         inbox' = [inbox EXCEPT ![To[Entry(p)]] = Append(@, p)]
  PROVE  AccountInv'
<1> DEFINE h == To[Entry(p)]
<1>0. /\ holds[p] /\ Len(res[p]) < Len(list) /\ TypeOf[Entry(p)] = TypeOf[p]
      /\ holds' = [holds EXCEPT ![p] = FALSE]
      /\ UNCHANGED <<op, lock, list, before, addr, actors, handled>>
  BY DEF Send, HasEntry, AccountInv, Holding
<1>1. /\ res' \in [Post -> Seq(Results)] /\ Within'
      /\ Entry(p) \in Sub /\ h \in Group
      /\ \A q \in Post \ {p} : res'[q] = res[q]
      /\ \A i \in DOMAIN res'[p] :
           \/ i = Len(res[p]) + 1 /\ res'[p][i] = "sent" /\ list[i] = Entry(p)
           \/ i \in DOMAIN res[p] /\ res'[p][i] = res[p][i]
      /\ \A g \in Group, x \in Results :
           LET E == Entries(p, g, x) IN
           /\ Cardinality(E) \in Nat
           /\ IF g = h /\ x = "sent"
              THEN Cardinality(E') = Cardinality(E) + 1 ELSE E' = E
  BY <1>0, OneMoreResult DEF Results
<1> HIDE DEF h
<1>2. /\ "sent" \in Results /\ "Closed" \in Results
      /\ \A g \in Group : /\ g = h => Cardinality(Entries(p, g, "sent")')
                                       = Cardinality(Entries(p, g, "sent")) + 1
                          /\ g # h => Entries(p, g, "sent")' = Entries(p, g, "sent")
                          /\ Entries(p, g, "Closed")' = Entries(p, g, "Closed")
  BY <1>1 DEF Results
<1>3. \A i \in DOMAIN res'[p] : res'[p][i] = "mismatch" <=> TypeOf[list[i]] # TypeOf[p]
  <2>1. \A i \in DOMAIN res[p] : res[p][i] = "mismatch" <=> TypeOf[list[i]] # TypeOf[p]
    BY <1>1 DEF AccountInv, Accounts
  <2> QED BY <1>0, <1>1, <2>1
<1>4. /\ inbox[h] \in Seq(Post) /\ inbox' = [inbox EXCEPT ![h] = Append(inbox[h], p)]
      /\ inbox'[h] = Append(inbox[h], p) /\ \A g \in Group \ {h} : inbox'[g] = inbox[g]
      /\ Len(inbox[h]) \in Nat
  BY <1>1, LenProperties DEF AccountInv, TypeOK, h
<1>5. Append(inbox[h], p) \in Seq(Post) /\ Len(inbox'[h]) = Len(inbox[h]) + 1
  BY <1>4, AppendProperties
<1>6. TypeOK'
  <2>1. \A g \in Group : handled[g] <= Len(inbox'[g])
    BY <1>4, <1>5 DEF AccountInv, TypeOK
  <2>2. inbox' \in [Group -> Seq(Post)]
    BY <1>4, <1>5 DEF AccountInv, TypeOK
  <2> QED BY <1>0, <1>1, <2>1, <2>2 DEF AccountInv, TypeOK, Results
<1>7. Holding'
  BY <1>0, <1>1 DEF AccountInv, Holding, Entry, TypeOK
<1>8. \A q \in Post, g \in Group : /\ Times(q, g) = Cardinality(PositionsOf(inbox[g], q))
                                   /\ Times(q, g)' = Cardinality(PositionsOf(inbox'[g], q))
  BY DEF Times, PositionsOf
<1>9. /\ Cardinality(PositionsOf(inbox'[h], p)) = Cardinality(PositionsOf(inbox[h], p)) + 1
      /\ \A q \in Post \ {p} : PositionsOf(inbox'[h], q) = PositionsOf(inbox[h], q)
      /\ \A q \in Post, g \in Group \ {h} : PositionsOf(inbox'[g], q) = PositionsOf(inbox[g], q)
  BY <1>4, AppendCount, AppendPlaces
<1>10. ASSUME NEW q \in Post, NEW g \in Group
      PROVE  /\ Cardinality(PositionsOf(inbox'[g], q)) = Cardinality(Entries(q, g, "sent")')
             /\ Entries(q, g, "Closed")' # {} => Entries(q, g, "Closed") # {}
             /\ \A i \in DOMAIN res'[q] :
                  res'[q][i] = "mismatch" <=> TypeOf[list[i]] # TypeOf[q]
  <2>1. Cardinality(PositionsOf(inbox[g], q)) = Cardinality(Entries(q, g, "sent"))
    BY <1>8 DEF AccountInv, Accounts
  <2>2. CASE q # p
    <3>1. \A x \in Results : Entries(q, g, x)' = Entries(q, g, x)
      BY <1>0, <1>1, <2>2 DEF Entries
    <3>2. PositionsOf(inbox'[g], q) = PositionsOf(inbox[g], q)
      BY <1>9, <2>2
    <3>3. res'[q] = res[q]
      BY <1>1, <2>2
    <3> QED BY <1>2, <2>1, <3>1, <3>2, <3>3 DEF AccountInv, Accounts
  <2>3. CASE q = p /\ g = h
    BY <1>2, <1>3, <1>9, <2>1, <2>3
  <2>4. CASE q = p /\ g # h
    BY <1>2, <1>3, <1>9, <2>1, <2>4
  <2> QED BY <2>2, <2>3, <2>4
<1>11. Accounts'
  BY <1>0, <1>8, <1>10 DEF AccountInv, Accounts
<1> QED BY <1>1, <1>6, <1>7, <1>11 DEF AccountInv

LEMMA AccountNext == AccountInv /\ OrderInv' /\ [Next]_vars => AccountInv'
<1> SUFFICES ASSUME AccountInv, OrderInv', [Next]_vars PROVE AccountInv'
  OBVIOUS
<1>0. lock' \in Seq(Op) /\ op' \in [Op -> {"new", "locking", "done", "refused", "dropped"}]
  BY DEF OrderInv, OrderTypes
<1>1. ASSUME NEW o \in Op, Call(o) \/ Refused(o) PROVE AccountInv'
  <2>1. TypeOK'
    <3>1. before' \in [Post -> SUBSET Sub]
      <4>1. {u \in Sub : op[u] = "done"} \in SUBSET Sub
        OBVIOUS
      <4> QED BY <1>1, <4>1 DEF Call, Refused, AccountInv, TypeOK
    <3> QED BY <1>0, <1>1, <3>1 DEF Call, Refused, AccountInv, TypeOK, groupVars
  <2>2. \A p \in Post : holds'[p] => holds[p] /\ op'[p] = op[p]
    BY <1>1 DEF Call, Refused, AccountInv, TypeOK, Holding, Op
  <2> QED BY <1>1, <2>1, <2>2, AccountKept DEF Call, Refused, groupVars
<1>2. ASSUME NEW o \in Op, DropCall(o) PROVE AccountInv'
  <2>1. TypeOK'
    BY <1>0, <1>2 DEF DropCall, AccountInv, TypeOK, groupVars
  <2>2. \A p \in Post : holds'[p] => holds[p] /\ op'[p] = op[p]
    BY <1>2 DEF DropCall, Lets, Ends, AccountInv, TypeOK, Op
  <2> QED BY <1>2, <2>1, <2>2, AccountKept DEF DropCall, groupVars
<1>3. ASSUME NEW u \in Sub, Subscribes(u) PROVE AccountInv'
  BY <1>3, SubscribesAccount
<1>4. ASSUME NEW p \in Post, Mismatch(p) PROVE AccountInv'
  <2>1. ~holds[p]
    BY <1>4 DEF Mismatch, AccountInv, Holding
  <2> QED BY <1>4, <2>1, RefusalAccount DEF Mismatch, HasEntry, AccountInv, TypeOK
<1>5. ASSUME NEW p \in Post, Upgrade(p) PROVE AccountInv'
  <2>1. /\ HasEntry(p) /\ Len(res[p]) < Len(list) /\ ~holds[p]
        /\ TypeOf[Entry(p)] = TypeOf[p] /\ UNCHANGED <<op, lock, list, before, groupVars>>
    BY <1>5 DEF Upgrade, HasEntry
  <2>2. CASE SenderAlive(To[Entry(p)])
    <3>1. holds' = [holds EXCEPT ![p] = TRUE] /\ res' = res
      BY <1>5, <2>2 DEF Upgrade
    <3>2. TypeOK' /\ Within'
      BY <2>1, <3>1 DEF AccountInv, TypeOK, Within, groupVars
    <3>3. Holding'
      BY <2>1, <3>1 DEF AccountInv, TypeOK, Holding, Entry, HasEntry, HasLock
    <3>4. ASSUME NEW q \in Post, NEW g \in Group
          PROVE  /\ Times(q, g)' = Times(q, g)
                 /\ \A r \in Results : Entries(q, g, r)' = Entries(q, g, r)
      BY <2>1, <3>1 DEF Times, Entries, groupVars
    <3>5. Accounts'
      BY <2>1, <3>1, <3>4 DEF AccountInv, Accounts, Results, groupVars
    <3> QED BY <3>2, <3>3, <3>5 DEF AccountInv
  <2>3. CASE ~SenderAlive(To[Entry(p)])
    <3>1. Result(p, "Closed") /\ holds' = holds /\ ~addr[To[Entry(p)]]
      BY <1>5, <2>3 DEF Upgrade, SenderAlive
    <3> QED BY <2>1, <3>1, RefusalAccount DEF AccountInv, TypeOK
  <2> QED BY <2>2, <2>3
<1>6. ASSUME NEW p \in Post, Send(p) PROVE AccountInv'
  <2>1. CASE actors[To[Entry(p)]] = "up"
    BY <1>6, <2>1, SentAccount DEF Send, Deliver
  <2>2. CASE actors[To[Entry(p)]] # "up"
    <3>1. /\ Result(p, "Closed") /\ inbox' = inbox
          /\ holds[p] /\ Len(res[p]) < Len(list) /\ TypeOf[Entry(p)] = TypeOf[p]
          /\ holds' = [holds EXCEPT ![p] = FALSE]
          /\ UNCHANGED <<op, lock, list, before, groupVars>>
      BY <1>6, <2>2 DEF Send, Deliver, HasEntry, AccountInv, Holding, groupVars
    <3> QED BY <2>2, <3>1, RefusalAccount DEF AccountInv, TypeOK
  <2> QED BY <2>1, <2>2
<1>7. ASSUME NEW p \in Post, Collected(p) PROVE AccountInv'
  <2>1. TypeOK'
    BY <1>0, <1>7 DEF Collected, AccountInv, TypeOK, groupVars
  <2>2. ~holds[p]
    BY <1>7 DEF Collected, AccountInv, Holding, TypeOK
  <2>3. \A q \in Post : holds'[q] => holds[q] /\ op'[q] = op[q]
    BY <1>7, <2>2 DEF Collected, Ends, AccountInv, TypeOK, Op
  <2> QED BY <1>7, <2>1, <2>3, AccountKept DEF Collected, groupVars
<1>8. ASSUME NEW g \in Group, DropAddress(g) \/ LastCloses(g) \/ Handle(g) \/ Leave(g)
      PROVE  AccountInv'
  <2>1. TypeOK'
    <3>1. handled[g] \in Nat /\ Len(inbox[g]) \in Nat
      BY LenProperties DEF AccountInv, TypeOK
    <3>2. \A f \in Group : handled'[f] \in Nat /\ handled'[f] <= Len(inbox'[f])
      <4>1. CASE Handle(g)
        <5>1. /\ inbox' = inbox /\ handled'[g] = handled[g] + 1 /\ handled[g] < Len(inbox[g])
              /\ \A f \in Group \ {g} : handled'[f] = handled[f]
          BY <4>1 DEF Handle, AccountInv, TypeOK
        <5>2. handled[g] + 1 \in Nat /\ handled[g] + 1 <= Len(inbox[g])
          BY <3>1, <5>1
        <5> QED BY <5>1, <5>2 DEF AccountInv, TypeOK
      <4>2. CASE UNCHANGED <<inbox, handled>>
        BY <4>2 DEF AccountInv, TypeOK
      <4> QED BY <1>8, <4>1, <4>2 DEF DropAddress, LastCloses, Leave
    <3> QED BY <1>8, <3>2 DEF DropAddress, LastCloses, Handle, Leave, AccountInv, TypeOK,
                              callVars
  <2>2. \A f \in Group : /\ addr'[f] => addr[f]
                         /\ actors'[f] = "up" => actors[f] = "up"
    BY <1>8 DEF DropAddress, LastCloses, Handle, Leave, AccountInv, TypeOK
  <2> QED BY <1>8, <2>1, <2>2, AccountKept
          DEF DropAddress, LastCloses, Handle, Leave, callVars
<1>9. CASE UNCHANGED vars
  <2>1. TypeOK'
    BY <1>9 DEF vars, callVars, groupVars, AccountInv, TypeOK
  <2> QED BY <1>9, <2>1, AccountKept DEF vars, callVars, groupVars
<1> QED BY <1>1, <1>2, <1>3, <1>4, <1>5, <1>6, <1>7, <1>8, <1>9
           DEF Next, Holder, Reader, PostStep

LEMMA AccountHolds == Spec => []AccountInv
  BY AccountInit, AccountNext, OrderInit, OrderNext, PTL DEF Spec

\* subscribe.rs, address.rs: the calls, the list, the channels and the results
\* keep their types, for any groups and calls.
THEOREM TypeCorrect == Spec => []TypeOK
<1>1. AccountInv => TypeOK
  BY DEF AccountInv
<1> QED BY <1>1, AccountHolds, PTL

\* Address::send_subscribe: each Ok it returns stands for one copy in the channel
\* of that subscriber's group, and nothing else put one there; a Closed was true,
\* and no entry of the post's own type is left out.
THEOREM ResultsAreTrue == Spec => []ResultsAccount
<1>1. AccountInv => ResultsAccount
  BY DEF AccountInv, Accounts, ResultsAccount
<1> QED BY <1>1, AccountHolds, PTL

\* A subscription to the post's type that was complete before the post was made
\* has a result that the caller sees (Address::send_subscribe, Subscribe::push).
THEOREM SubscribersAreServed == Spec => []SubscribedIsServed
<1>1. ServedInv /\ Accounts => SubscribedIsServed
  <2> SUFFICES ASSUME ServedInv, Accounts,
                      NEW p \in Post, op[p] = "done",
                      NEW u \in before[p], TypeOf[u] = TypeOf[p]
               PROVE  \E i \in DOMAIN res[p] : list[i] = u /\ res[p][i] \in Returned(p)
    BY DEF SubscribedIsServed
  <2>1. PICK i \in DOMAIN res[p] : list[i] = u
    BY DEF ServedInv, EntryPolled
  <2>2. To[u] \in Group
    BY OpAssumption DEF ServedInv, ServedTypes
  <2>3. res[p][i] # "mismatch"
    BY <2>1, <2>2 DEF Accounts
  <2> QED BY <2>1, <2>3 DEF Returned, Range
<1>2. AccountInv => Accounts
  BY DEF AccountInv
<1> QED BY <1>1, <1>2, ServedHolds, AccountHolds, PTL
=============================================================================
