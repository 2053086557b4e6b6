------------------------------ MODULE StreamsProofs ----------------------------
(***************************************************************************)
(* Theorems about Dispatch.tla and Streams.tla, for any declarations, any  *)
(* number of actors and streams, and any items.  What the macros generate  *)
(* is the same in every state; about the streams, the inductive invariant  *)
(* says that each has at most one message out, and which one.              *)
(***************************************************************************)
EXTENDS Streams, Queues

------------------------------------------------------------------------------
(* The generated code.                                                      *)

LEMMA FirstIs == ASSUME NEW S, S \subseteq Nat, S # {} PROVE First(S) \in S
<1>1. \E i \in S : \A j \in S : i <= j
  BY Least
<1> QED BY <1>1 DEF First

LEMMA LastIs ==
  ASSUME NEW n \in Nat, NEW S, S \subseteq 1 .. n, S # {} PROVE Last(S) \in S
<1>1. \E i \in S : \A j \in S : i >= j
  BY Greatest
<1> QED BY <1>1 DEF Last

\* What running the body b on m comes to.
Outcome(b, blocking, m, panics) ==
  IF blocking THEN SpawnBlocking(b, m, panics) ELSE IF panics THEN Panic ELSE Own(b, m)

\* A message of type n, and the result for it, go through the arm of b.
Through(e, n, m, panics, b, blocking) ==
  /\ Into(e, n, m) = [variant |-> n, msg |-> m]
  /\ Handle(e, [variant |-> n, msg |-> m], panics) =
       [variant |-> n, val |-> Outcome(b, blocking, m, panics)]
  /\ \A r : r.variant = n => MapResult(e, n, r) = IF blocking THEN r.val ELSE Ok(r.val)

\* What the lists of the generated code are made from.
Lists(e, D, nm, wr, bl, bo, re) ==
  /\ D \subseteq Nat
  /\ wr \in [D -> BOOLEAN] /\ bl \in [D -> BOOLEAN] /\ \A i \in D : wr[i] <=> ~bl[i]
  /\ e.from = [i \in D |-> [name |-> nm[i], variant |-> nm[i]]]
  /\ e.map = [i \in D |-> [name |-> nm[i], variant |-> nm[i], wraps |-> wr[i]]]
  /\ e.arms = [i \in D |-> [name |-> nm[i], body |-> bo[i], ret |-> re[i], blocking |-> bl[i]]]

\* As they agree on the names, a message meets its own arm and its own MapResult.
LEMMA OneArm ==
  ASSUME NEW e, NEW D, NEW nm, NEW wr, NEW bl, NEW bo, NEW re,
         Lists(e, D, nm, wr, bl, bo, re)
  PROVE  \A n : (\E i \in D : nm[i] = n) =>
           \E k \in D : nm[k] = n /\ \A m, panics : Through(e, n, m, panics, bo[k], bl[k])
<1> SUFFICES ASSUME NEW n, \E i \in D : nm[i] = n
             PROVE  \E k \in D : nm[k] = n /\ \A m, panics : Through(e, n, m, panics, bo[k], bl[k])
  OBVIOUS
<1> DEFINE same == {i \in D : nm[i] = n}
<1>1. PICK k \in D : k = First(same) /\ nm[k] = n
  <2>1. same \subseteq Nat /\ same # {}
    BY DEF Lists
  <2>2. First(same) \in same
    BY <2>1, FirstIs
  <2> QED BY <2>2
<1>2. Named(e.from, n) = same /\ Named(e.map, n) = same /\ Named(e.arms, n) = same
  BY DEF Named, Lists
<1>3. /\ e.from[k] = [name |-> nm[k], variant |-> nm[k]]
      /\ e.map[k] = [name |-> nm[k], variant |-> nm[k], wraps |-> wr[k]]
      /\ e.arms[k] = [name |-> nm[k], body |-> bo[k], ret |-> re[k], blocking |-> bl[k]]
  BY DEF Lists
<1>4. ASSUME NEW m PROVE Into(e, n, m) = [variant |-> n, msg |-> m]
  <2>1. First(Named(e.from, n)) = k
    BY <1>1, <1>2
  <2>2. e.from[k].variant = n
    BY <1>1, <1>3
  <2> QED BY <2>1, <2>2 DEF Into
<1>5. ASSUME NEW m, NEW panics
      PROVE  Handle(e, [variant |-> n, msg |-> m], panics) =
               [variant |-> n, val |-> RunArm(e.arms[k], m, panics)]
  BY <1>1, <1>2 DEF Handle
<1>6. ASSUME NEW r, r.variant = n
      PROVE  MapResult(e, n, r) = IF bl[k] THEN r.val ELSE Ok(r.val)
  <2>1. PICK impl : impl = e.map[First(Named(e.map, n))]
    OBVIOUS
  <2>2. First(Named(e.map, n)) = k
    BY <1>1, <1>2
  <2>3. impl.variant = n /\ impl.wraps = wr[k]
    BY <1>1, <1>3, <2>1, <2>2
  <2>4. wr[k] \in BOOLEAN /\ bl[k] \in BOOLEAN /\ (wr[k] <=> ~bl[k])
    BY DEF Lists
  <2>5. MapResult(e, n, r) = IF impl.wraps THEN Ok(r.val) ELSE r.val
    BY <1>6, <2>1, <2>3 DEF MapResult
  <2> QED BY <2>3, <2>4, <2>5
<1>7. \A m, panics : RunArm(e.arms[k], m, panics) = Outcome(bo[k], bl[k], m, panics)
  BY <1>3 DEF RunArm, Outcome
<1>8. ASSUME NEW m, NEW panics PROVE Through(e, n, m, panics, bo[k], bl[k])
  <2>1. Handle(e, [variant |-> n, msg |-> m], panics) =
          [variant |-> n, val |-> Outcome(bo[k], bl[k], m, panics)]
    BY <1>5, <1>7
  <2> QED BY <1>4, <1>6, <2>1 DEF Through
<1> QED BY <1>1, <1>8

LEMMA ModThrough ==
  ASSUME NEW p \in Programs, p.macro = "actor_mod", Expands(p), NEW n \in Messages(p)
  PROVE  \E b \in Written(p, n), blocking \in BOOLEAN : \A m, panics :
           Through(Expansion(p), n, m, panics, b, blocking)
<1>1. PICK d : d = p.items
  OBVIOUS
<1>2. DOMAIN d \subseteq Nat /\ \A i \in DOMAIN d : d[i].kind # "method"
  <2>1. DOMAIN d = 1 .. Len(d) /\ Len(d) \in Nat
    BY <1>1, StreamAssumption
  <2> QED BY <1>1, <2>1, StreamAssumption
<1>3. PICK e : e = Expansion(p)
  OBVIOUS
<1> DEFINE ps == MessageParams(d)
           hs == OfKind(d, "handler")
<1>4. PICK D : D = {i \in DOMAIN d : d[i].kind = "message"}
  OBVIOUS
<1>5. /\ DOMAIN ps = D
      /\ \A i \in D : ps[i].name = d[i].name /\ ps[i].blocking \in BOOLEAN
  BY <1>4 DEF MessageParams, OfKind, IsBlocking
<1>6. D \subseteq Nat /\ \E i \in D : d[i].name = n
  BY <1>1, <1>2, <1>4 DEF Messages
<1>7. e.from = ModFrom(ps) /\ e.map = ModMap(ps) /\ e.arms = ModArms(ps, hs)
  BY <1>1, <1>3 DEF Expansion, ActorMod
<1>8. \A i \in D : Named(hs, ps[i].name) # {}
  BY <1>1, <1>5 DEF Expands, ModExpands
<1>9. PICK nm : nm = [i \in D |-> ps[i].name]
  OBVIOUS
<1>10. PICK bl \in [D -> BOOLEAN] : bl = [i \in D |-> ps[i].blocking]
  BY <1>5
<1>11. PICK wr \in [D -> BOOLEAN] : wr = [i \in D |-> ~ps[i].blocking]
  BY <1>5
<1>12. \A i \in D : wr[i] <=> ~bl[i]
  BY <1>5, <1>10, <1>11
<1>13. PICK bo : bo = [i \in D |-> HandlerFor(hs, ps[i].name).body]
  OBVIOUS
<1>14. PICK re : re = [i \in D |-> HandlerFor(hs, ps[i].name).ret]
  OBVIOUS
<1>15. Lists(e, D, nm, wr, bl, bo, re)
  BY <1>5, <1>6, <1>7, <1>9, <1>10, <1>11, <1>12, <1>13, <1>14
  DEF Lists, ModFrom, ModMap, ModArms
<1>16. \E i \in D : nm[i] = n
  BY <1>5, <1>6, <1>9
<1> HIDE DEF ps, hs
<1>17. PICK k \in D : nm[k] = n /\ \A m, panics : Through(e, n, m, panics, bo[k], bl[k])
  BY <1>15, <1>16, OneArm
<1>18. bo[k] \in Written(p, n)
  <2>1. PICK h : h = First(Named(hs, n))
    OBVIOUS
  <2>2. Named(hs, n) \subseteq Nat /\ Named(hs, n) # {}
    BY <1>2, <1>8, <1>9, <1>17 DEF Named, hs, OfKind
  <2>3. h \in Named(hs, n)
    BY <2>1, <2>2, FirstIs
  <2>4. h \in DOMAIN d /\ d[h].kind = "handler" /\ d[h].name = n /\ hs[h] = d[h]
    BY <2>3 DEF Named, hs, OfKind
  <2>5. bo[k] = d[h].body
    BY <1>9, <1>13, <1>17, <2>1, <2>4 DEF HandlerFor
  <2> QED BY <1>1, <2>4, <2>5 DEF Written
<1> QED BY <1>3, <1>10, <1>17, <1>18

LEMMA V2Through ==
  ASSUME NEW p \in Programs, p.macro = "handler_v2", NEW n \in Messages(p)
  PROVE  \E b \in Written(p, n), blocking \in BOOLEAN : \A m, panics :
           Through(Expansion(p), n, m, panics, b, blocking)
<1>1. PICK d : d = p.items
  OBVIOUS
<1>2. DOMAIN d \subseteq Nat /\ \A i \in DOMAIN d : d[i].kind \notin {"message", "handler"}
  <2>1. DOMAIN d = 1 .. Len(d) /\ Len(d) \in Nat
    BY <1>1, StreamAssumption
  <2> QED BY <1>1, <2>1, StreamAssumption
<1>3. PICK e : e = Expansion(p)
  OBVIOUS
<1> DEFINE fs == HandleMethods(d)
<1>4. PICK D : D = {i \in DOMAIN d : d[i].kind = "method" /\ d[i].attr = ""}
  OBVIOUS
<1>5. DOMAIN fs = D /\ \A i \in D : fs[i] = d[i] /\ fs[i].async \in BOOLEAN
  BY <1>1, <1>4, StreamAssumption DEF HandleMethods
<1>6. D \subseteq Nat /\ \E i \in D : d[i].name = n
  BY <1>1, <1>2, <1>4 DEF Messages
<1>7. e.from = FromTrait(fs) /\ e.map = MapResultTrait(fs) /\ e.arms = HandlerTrait(fs)
  BY <1>1, <1>3 DEF Expansion, HandlerV2
<1>8. PICK nm : nm = [i \in D |-> fs[i].name]
  OBVIOUS
<1>9. PICK bl \in [D -> BOOLEAN] : bl = [i \in D |-> ~fs[i].async]
  BY <1>5
<1>10. PICK bo : bo = [i \in D |-> fs[i].body]
  OBVIOUS
<1>11. PICK re : re = [i \in D |-> fs[i].ret]
  OBVIOUS
<1>12. PICK wr \in [D -> BOOLEAN] : wr = [i \in D |-> fs[i].async]
  BY <1>5
<1>13. \A i \in D : wr[i] <=> ~bl[i]
  BY <1>5, <1>9, <1>12
<1>14. Lists(e, D, nm, wr, bl, bo, re)
  <2>1. e.from = [i \in D |-> [name |-> nm[i], variant |-> nm[i]]]
    BY <1>5, <1>7, <1>8 DEF FromTrait
  <2>2. e.map = [i \in D |-> [name |-> nm[i], variant |-> nm[i], wraps |-> wr[i]]]
    BY <1>5, <1>7, <1>8, <1>12 DEF MapResultTrait
  <2>3. e.arms = [i \in D |-> [name |-> nm[i], body |-> bo[i], ret |-> re[i], blocking |-> bl[i]]]
    BY <1>5, <1>7, <1>8, <1>9, <1>10, <1>11 DEF HandlerTrait
  <2> QED BY <1>6, <1>9, <1>12, <1>13, <2>1, <2>2, <2>3 DEF Lists
<1>15. \E i \in D : nm[i] = n
  BY <1>5, <1>6, <1>8
<1>16. bo \in [D -> {d[i].body : i \in D}] /\ \A i \in D : bo[i] = d[i].body /\ nm[i] = d[i].name
  BY <1>5, <1>8, <1>10
<1>17. \A i \in D : i \in DOMAIN d /\ d[i].kind = "method" /\ d[i].attr = ""
  BY <1>4
<1> HIDE DEF fs
<1>18. PICK k \in D : nm[k] = n /\ \A m, panics : Through(e, n, m, panics, bo[k], bl[k])
  BY <1>14, <1>15, OneArm
<1>19. bo[k] \in Written(p, n)
  BY <1>1, <1>16, <1>17, <1>18 DEF Written
<1> QED BY <1>3, <1>9, <1>18, <1>19

\* Every message has one arm, which runs a body written for it and whose result
\* comes back through MapResult.
LEMMA EachThrough ==
  ASSUME NEW p \in Programs, Expands(p), NEW n \in Messages(p)
  PROVE  \E b \in Written(p, n), blocking \in BOOLEAN : \A m, panics :
           Through(Expansion(p), n, m, panics, b, blocking)
<1>1. p.macro \in {"actor_mod", "handler_v2"}
  BY StreamAssumption
<1> QED BY <1>1, ModThrough, V2Through

\* The round trip of a message, by the outcome of its handler.
LEMMA RoundTrips ==
  ASSUME NEW e, NEW n, NEW m, NEW panics \in BOOLEAN, NEW b, NEW blocking \in BOOLEAN,
         Through(e, n, m, panics, b, blocking), NEW r, r = Handle(e, Into(e, n, m), panics)
  PROVE  /\ r = [variant |-> n, val |-> Outcome(b, blocking, m, panics)]
         /\ r.val # Panic =>
              MapResult(e, n, r) \in {Ok(Own(b, m))} \cup IF panics THEN {Err("Blocking")} ELSE {}
         /\ ~panics /\ Runtime # "actix" => r.val # Panic
         /\ ~panics /\ r.val = Panic => MapResult(e, n, r) = Panic
<1>1. r = [variant |-> n, val |-> Outcome(b, blocking, m, panics)]
  BY DEF Through
<1>2. r.variant = n /\ r.val = Outcome(b, blocking, m, panics)
  BY <1>1
<1>3. MapResult(e, n, r) = IF blocking THEN r.val ELSE Ok(r.val)
  BY <1>2 DEF Through
<1>4. Own(b, m) # Panic /\ Ok(Own(b, m)) # Panic /\ Err("Blocking") # Panic
  BY DEF Own, Ok, Err, Panic
<1>5. CASE ~blocking
  <2>1. r.val = IF panics THEN Panic ELSE Own(b, m)
    BY <1>2, <1>5 DEF Outcome
  <2> QED BY <1>1, <1>3, <1>4, <1>5, <2>1
<1>6. CASE blocking
  <2>1. r.val = SpawnBlocking(b, m, panics)
    BY <1>2, <1>6 DEF Outcome
  <2>2. CASE Runtime = "actix"
    BY <1>1, <1>3, <1>6, <2>1, <2>2 DEF SpawnBlocking
  <2>3. CASE Runtime = "async_std"
    <3>1. r.val = IF panics THEN Panic ELSE Ok(Own(b, m))
      BY <2>1, <2>3 DEF SpawnBlocking
    <3> QED BY <1>1, <1>3, <1>4, <1>6, <3>1
  <2>4. CASE Runtime = "tokio"
    <3>1. r.val = IF panics THEN Err("Blocking") ELSE Ok(Own(b, m))
      BY <2>1, <2>4 DEF SpawnBlocking
    <3> QED BY <1>1, <1>3, <1>4, <1>6, <3>1
  <2> QED BY <2>2, <2>3, <2>4, RuntimeAssumption
<1> QED BY <1>5, <1>6

LEMMA OwnHandlers ==
  ASSUME NEW p \in Programs, Expands(p), NEW n \in Messages(p), NEW m
  PROVE  OwnHandler(p, n, m)
<1>1. PICK e : e = Expansion(p)
  OBVIOUS
<1>2. PICK b \in Written(p, n), blocking \in BOOLEAN : Through(e, n, m, FALSE, b, blocking)
  BY <1>1, EachThrough
<1>3. PICK r : r = Handle(e, Into(e, n, m), FALSE)
  OBVIOUS
<1>4. RoundTrip(p, n, m) = MapResult(e, n, r)
  BY <1>1, <1>3 DEF RoundTrip
<1>5. \/ MapResult(e, n, r) = Ok(Own(b, m))
      \/ Runtime = "actix" /\ MapResult(e, n, r) = Panic
  <2>1. PICK never \in BOOLEAN : never = FALSE
    OBVIOUS
  <2>2. Through(e, n, m, never, b, blocking) /\ r = Handle(e, Into(e, n, m), never)
    BY <1>2, <1>3, <2>1
  <2>3. /\ r.val # Panic => MapResult(e, n, r) \in {Ok(Own(b, m))} \cup IF never THEN {Err("Blocking")} ELSE {}
        /\ ~never /\ Runtime # "actix" => r.val # Panic
        /\ ~never /\ r.val = Panic => MapResult(e, n, r) = Panic
    BY <2>2, RoundTrips
  <2> QED BY <2>1, <2>3
<1> QED BY <1>4, <1>5 DEF OwnHandler

\* The two macros agree.
LEMMA MacrosAgree ==
  ASSUME NamedBlocking = {}, NEW p \in Programs, p.macro = "actor_mod", Expands(p), Compiles(p)
  PROVE  HandlerV2(AsMethods(p.items)) = Expansion(p)
<1>1. PICK d : d = p.items
  OBVIOUS
<1>2. PICK D : D = {i \in DOMAIN d : d[i].kind = "message"}
  OBVIOUS
<1>3. PICK ms, hs, ps, fs :
        /\ ms = OfKind(d, "message") /\ hs = OfKind(d, "handler")
        /\ ps = MessageParams(d) /\ fs = AsMethods(d)
  OBVIOUS
<1>4. PICK e : e = Expansion(p)
  OBVIOUS
<1>5. e = [variants |-> ModVariants(ps), from |-> ModFrom(ps), map |-> ModMap(ps),
           arms |-> ModArms(ps, hs), on_start |-> <<>>, on_stop |-> <<>>]
  BY <1>1, <1>3, <1>4 DEF Expansion, ActorMod
<1>6. DOMAIN ms = D /\ DOMAIN ps = D /\ DOMAIN fs = D
  BY <1>2, <1>3 DEF OfKind, MessageParams, AsMethods
<1>7. ASSUME NEW i \in D
      PROVE  /\ ps[i].name = ms[i].name /\ ps[i].ty = ms[i].ty
             /\ ps[i].blocking = IsBlocking(ms[i]) /\ IsBlocking(ms[i]) \in BOOLEAN
  <2>1. ps[i] = [name |-> ms[i].name, ty |-> ResultType(ms[i]), blocking |-> IsBlocking(ms[i])]
    BY <1>3, <1>6 DEF MessageParams
  <2>2. ResultType(ms[i]) = ms[i].ty /\ IsBlocking(ms[i]) \in BOOLEAN
    BY DEF ResultType, IsBlocking
  <2> QED BY <2>1, <2>2
<1>8. PICK async \in [D -> BOOLEAN] : async = [i \in D |-> ~IsBlocking(ms[i])]
  OBVIOUS
<1>9. ASSUME NEW i \in D
      PROVE  fs[i] = [kind |-> "method", attr |-> "", name |-> ms[i].name, ret |-> ms[i].ty,
                      async |-> async[i], body |-> HandlerFor(hs, ms[i].name).body]
  BY <1>3, <1>6, <1>8 DEF AsMethods, HandlerFor
<1>10. ASSUME NEW i \in D
       PROVE  /\ fs[i].kind = "method" /\ fs[i].attr = "" /\ fs[i].name = ps[i].name
              /\ fs[i].ret = ps[i].ty /\ fs[i].async \in BOOLEAN /\ ps[i].blocking \in BOOLEAN
              /\ fs[i].async <=> ~ps[i].blocking
              /\ fs[i].body = HandlerFor(hs, ps[i].name).body
  <2>1. PICK r : r = fs[i]
    OBVIOUS
  <2>2. r = [kind |-> "method", attr |-> "", name |-> ms[i].name, ret |-> ms[i].ty,
                      async |-> async[i], body |-> HandlerFor(hs, ms[i].name).body]
    BY <1>9, <2>1
  <2>3. /\ r.kind = "method" /\ r.attr = "" /\ r.name = ms[i].name /\ r.ret = ms[i].ty
        /\ r.async = async[i] /\ r.body = HandlerFor(hs, ms[i].name).body
    BY <2>2
  <2>4. async[i] \in BOOLEAN
    BY <1>8
  <2>5. async[i] <=> ~IsBlocking(ms[i])
    BY <1>8
  <2>6. ps[i].blocking \in BOOLEAN /\ (fs[i].async <=> ~ps[i].blocking) /\ fs[i].async \in BOOLEAN
    BY <1>7, <2>4, <2>5, <2>1, <2>3
  <2> QED BY <1>7, <2>1, <2>3, <2>6
<1>11. HandleMethods(fs) = [i \in D |-> fs[i]]
  BY <1>6, <1>10 DEF HandleMethods
<1>12. ASSUME NEW i \in D PROVE HandlerFor(hs, ps[i].name).ret = ps[i].ty
  <2>1. e.variants = ModVariants(ps) /\ e.arms = ModArms(ps, hs)
    BY <1>5
  <2>2. e.arms[i].ret = e.variants[i].field[2]
    <3>1. i \in DOMAIN e.variants
      BY <1>6, <2>1 DEF ModVariants
    <3> QED BY <1>4, <3>1 DEF Compiles
  <2>3. e.arms[i].ret = HandlerFor(hs, ps[i].name).ret
    BY <1>6, <2>1 DEF ModArms
  <2>4. e.variants[i].field[2] = ps[i].ty
    BY <1>6, <2>1 DEF ModVariants
  <2> QED BY <2>2, <2>3, <2>4
<1>13. PICK js : js = [i \in D |-> fs[i]]
  OBVIOUS
<1>14. DOMAIN js = D /\ \A i \in D : js[i] = fs[i]
  BY <1>13
<1>15. EnumVariants(js) = ModVariants(ps)
  <2>1. ASSUME NEW i \in D
        PROVE  [name |-> js[i].name,
                field |-> IF js[i].async THEN <<"plain", js[i].ret>> ELSE <<"Result", js[i].ret>>]
             = [name |-> ps[i].name,
                field |-> IF ps[i].blocking THEN <<"Result", ps[i].ty>> ELSE <<"plain", ps[i].ty>>]
    <3>1. CASE ps[i].blocking
      BY <1>10, <1>14, <3>1
    <3>2. CASE ~ps[i].blocking
      BY <1>10, <1>14, <3>2
    <3> QED BY <3>1, <3>2
  <2> QED BY <1>6, <1>14, <2>1 DEF EnumVariants, ModVariants
<1>16. FromTrait(js) = ModFrom(ps)
  BY <1>6, <1>10, <1>14 DEF FromTrait, ModFrom
<1>17. MapResultTrait(js) = ModMap(ps)
  <2>1. ASSUME NEW i \in D PROVE js[i].name = ps[i].name /\ js[i].async = ~ps[i].blocking
    BY <1>10, <1>14
  <2> QED BY <1>6, <1>14, <2>1 DEF MapResultTrait, ModMap
<1>18. HandlerTrait(js) = ModArms(ps, hs)
  <2>1. ASSUME NEW i \in D
        PROVE  [name |-> js[i].name, body |-> js[i].body, ret |-> js[i].ret, blocking |-> ~js[i].async]
             = [name |-> ps[i].name, body |-> HandlerFor(hs, ps[i].name).body,
                ret |-> HandlerFor(hs, ps[i].name).ret, blocking |-> ps[i].blocking]
    <3>1. ~js[i].async = ps[i].blocking
      BY <1>10, <1>14
    <3> QED BY <1>10, <1>12, <1>14, <3>1
  <2> QED BY <1>6, <1>14, <2>1 DEF HandlerTrait, ModArms
<1>19. Hook(fs, "on_start") = <<>> /\ Hook(fs, "on_stop") = <<>>
  BY <1>6, <1>10 DEF Hook
<1>20. HandlerV2(fs) = e
  BY <1>5, <1>11, <1>13, <1>15, <1>16, <1>17, <1>18, <1>19 DEF HandlerV2
<1> QED BY <1>1, <1>3, <1>4, <1>20

LEMMA HooksRun ==
  ASSUME NEW p \in Programs, p.macro = "handler_v2", Compiles(p), NEW attr
  PROVE  IsOneOf(Hook(p.items, attr), Hooks(p, attr))
<1>1. PICK d : d = p.items
  OBVIOUS
<1>2. DOMAIN d = 1 .. Len(d) /\ Len(d) \in Nat
  BY <1>1, StreamAssumption
<1>3. PICK at : at = {i \in DOMAIN d : d[i].kind = "method" /\ d[i].attr = attr}
  OBVIOUS
<1>4. Hooks(p, attr) = {d[i].body : i \in at}
  BY <1>1, <1>3 DEF Hooks
<1>5. Hook(d, attr) = IF at = {} THEN <<>> ELSE <<d[Last(at)].body>>
  BY <1>3 DEF Hook
<1>6. CASE at = {}
  BY <1>1, <1>4, <1>5, <1>6 DEF IsOneOf
<1>7. CASE at # {}
  <2>1. Last(at) \in at
    BY <1>2, <1>3, <1>7, LastIs
  <2> QED BY <1>1, <1>4, <1>5, <1>7, <2>1 DEF IsOneOf
<1> QED BY <1>6, <1>7

\* The declaration and what was made of it stay as they are.
Declared == prog \in Programs /\ Usable(prog) /\ code = Expansion(prog)

LEMMA DeclaredNext == Declared /\ [Next]_vars => Declared' /\ prog' = prog /\ code' = code
<1> SUFFICES ASSUME Declared, [Next]_vars PROVE UNCHANGED <<prog, code>>
  BY DEF Declared, Usable
<1> QED BY DEF Next, AdapterStep, ActorStep, SourceEnds, SkipsNone, SendsItem, PollsLast,
     DropStream, DropAddress, OnStart, Recv, Handled, HandlerPanics, Closed, Leaves, Ends, vars

LEMMA DeclaredStays == Spec => []Declared
<1>1. Init => Declared
  BY DEF Init, Declared
<1> QED BY <1>1, DeclaredNext, PTL DEF Spec

\* Whatever the result types are called, the generated From, handle and
\* MapResult bring every message to a handler written for its type and its
\* result back, wrapped once (actor_mod, handler_v2).
THEOREM OwnHandlersRun == Spec => [](\A n \in Messages(prog) : OwnHandler(prog, n, "m"))
<1>1. Declared => \A n \in Messages(prog) : OwnHandler(prog, n, "m")
  BY OwnHandlers DEF Declared, Usable
<1> QED BY <1>1, DeclaredStays, PTL

\* Every message goes to a handler that was written for its type and its result
\* comes back to the caller as that handler's, the two macros agree, and the
\* hooks that are declared run; for declarations that compile.  The macros agree
\* only if no result type is named for the flag: actor_mod cuts such a type.
THEOREM DispatchIsRight == NamedBlocking = {} => (Spec => []DispatchesRight)
<1> SUFFICES ASSUME NamedBlocking = {} PROVE Spec => []DispatchesRight
  OBVIOUS
<1>1. Declared => DispatchesRight
  <2> SUFFICES ASSUME Declared PROVE DispatchesRight
    OBVIOUS
  <2>1. prog \in Programs /\ Expands(prog) /\ Compiles(prog) /\ code = Expansion(prog)
    BY DEF Declared, Usable
  <2>2. \A n \in Messages(prog) : OwnHandler(prog, n, "m")
    BY <2>1, OwnHandlers
  <2>3. ASSUME prog.macro = "actor_mod" PROVE HandlerV2(AsMethods(prog.items)) = code
    BY <2>1, <2>3, MacrosAgree
  <2>4. ASSUME prog.macro = "handler_v2"
        PROVE  /\ IsOneOf(ActorImpl(prog.actor, code).on_start, Hooks(prog, "on_start"))
               /\ IsOneOf(ActorImpl(prog.actor, code).on_stop, Hooks(prog, "on_stop"))
    <3>1. ActorImpl(prog.actor, code).message = "enum"
      BY <2>1 DEF Compiles
    <3>2. "no_static" \notin prog.actor
      BY <3>1 DEF ActorImpl
    <3>3. /\ ActorImpl(prog.actor, code).on_start = code.on_start
          /\ ActorImpl(prog.actor, code).on_stop = code.on_stop
      BY <3>2 DEF ActorImpl
    <3>4. /\ code.on_start = Hook(prog.items, "on_start")
          /\ code.on_stop = Hook(prog.items, "on_stop")
      BY <2>1, <2>4 DEF Expansion, HandlerV2
    <3> QED BY <2>1, <2>4, <3>3, <3>4, HooksRun
  <2> QED BY <2>2, <2>3, <2>4 DEF DispatchesRight
<1> QED BY <1>1, DeclaredStays, PTL

------------------------------------------------------------------------------
(* Answers by the place of their items.                                     *)

Item == UNION {{Items[s][i] : i \in DOMAIN Items[s]} : s \in Stream}

\* The items among the first n of a stream, and the rank of the i-th of them.
GivenTo(s, n) == {i \in 1 .. n : Items[s][i] # None}
Nth(s, n, i) == Cardinality({j \in GivenTo(s, n) : j <= i})

\* o holds the answers to the first items of s among n.
Answered(p, s, n, o) ==
  /\ Len(o) \in {Cardinality(GivenTo(s, n)), Cardinality(GivenTo(s, n)) - 1}
  /\ \A i \in GivenTo(s, n) :
       Nth(s, n, i) \in DOMAIN o => o[Nth(s, n, i)] \in Answers(p, s, Items[s][i])

LEMMA GivenFinite ==
  ASSUME NEW s, NEW n \in Nat
  PROVE  /\ IsFiniteSet(GivenTo(s, n)) /\ Cardinality(GivenTo(s, n)) \in Nat
         /\ \A i : Nth(s, n, i) \in Nat /\ Nth(s, n, i) <= Cardinality(GivenTo(s, n))
         /\ \A i \in GivenTo(s, n) : Nth(s, n, i) >= 1
<1>1. IsFiniteSet(GivenTo(s, n))
  <2>1. IsFiniteSet(1 .. n)
    BY FS_Interval
  <2> QED BY <2>1, FS_Subset DEF GivenTo
<1>2. ASSUME NEW i
      PROVE  /\ IsFiniteSet({j \in GivenTo(s, n) : j <= i})
             /\ Nth(s, n, i) \in Nat /\ Nth(s, n, i) <= Cardinality(GivenTo(s, n))
  <2>1. {j \in GivenTo(s, n) : j <= i} \subseteq GivenTo(s, n)
    OBVIOUS
  <2> QED BY <1>1, <2>1, FS_Subset, FS_CardinalityType DEF Nth
<1>3. ASSUME NEW i \in GivenTo(s, n) PROVE Nth(s, n, i) >= 1
  <2>1. i \in {j \in GivenTo(s, n) : j <= i}
    BY DEF GivenTo
  <2>2. Nth(s, n, i) # 0
    BY <1>2, <2>1, FS_EmptySet DEF Nth
  <2>3. Nth(s, n, i) \in Nat
    BY <1>2
  <2> QED BY <2>2, <2>3
<1> QED BY <1>1, <1>2, <1>3, FS_CardinalityType

LEMMA GivenGrows ==
  ASSUME NEW s, NEW n \in Nat
  PROVE  /\ Items[s][n + 1] = None => GivenTo(s, n + 1) = GivenTo(s, n)
         /\ Items[s][n + 1] # None =>
              /\ GivenTo(s, n + 1) = GivenTo(s, n) \cup {n + 1}
              /\ Cardinality(GivenTo(s, n + 1)) = Cardinality(GivenTo(s, n)) + 1
              /\ Nth(s, n + 1, n + 1) = Cardinality(GivenTo(s, n)) + 1
         /\ \A i \in GivenTo(s, n) : Nth(s, n + 1, i) = Nth(s, n, i)
<1>1. 1 .. n + 1 = (1 .. n) \cup {n + 1} /\ n + 1 \notin 1 .. n
  OBVIOUS
<1>2. /\ Items[s][n + 1] = None => GivenTo(s, n + 1) = GivenTo(s, n)
      /\ Items[s][n + 1] # None => GivenTo(s, n + 1) = GivenTo(s, n) \cup {n + 1}
      /\ n + 1 \notin GivenTo(s, n)
  BY <1>1 DEF GivenTo
<1>3. ASSUME Items[s][n + 1] # None
      PROVE  Cardinality(GivenTo(s, n + 1)) = Cardinality(GivenTo(s, n)) + 1
  BY <1>2, <1>3, GivenFinite, FS_AddElement
<1>4. {j \in GivenTo(s, n + 1) : j <= n + 1} = GivenTo(s, n + 1)
  BY DEF GivenTo
<1>5. ASSUME NEW i \in GivenTo(s, n)
      PROVE  {j \in GivenTo(s, n + 1) : j <= i} = {j \in GivenTo(s, n) : j <= i}
  <2>1. i \in Nat /\ i <= n /\ ~(n + 1 <= i)
    BY DEF GivenTo
  <2> QED BY <1>2, <2>1
<1> QED BY <1>2, <1>3, <1>4, <1>5 DEF Nth

\* Only the last item's rank is the number of items.
LEMMA LastNth ==
  ASSUME NEW s, NEW n \in Nat, n \in GivenTo(s, n), NEW i \in GivenTo(s, n),
         Nth(s, n, i) = Cardinality(GivenTo(s, n))
  PROVE  i = n
<1> SUFFICES ASSUME i # n PROVE FALSE
  OBVIOUS
<1>1. {j \in GivenTo(s, n) : j <= i} \subseteq GivenTo(s, n) \ {n}
  BY DEF GivenTo
<1>2. /\ IsFiniteSet(GivenTo(s, n) \ {n})
      /\ Cardinality(GivenTo(s, n) \ {n}) = Cardinality(GivenTo(s, n)) - 1
  BY GivenFinite, FS_RemoveElement
<1>3. Nth(s, n, i) <= Cardinality(GivenTo(s, n)) - 1
  BY <1>1, <1>2, FS_Subset DEF Nth
<1> QED BY <1>3, GivenFinite

\* An item is skipped, one is given, and one is answered.
LEMMA SkipAnswered ==
  ASSUME NEW p, NEW s, NEW n \in Nat, NEW o, Answered(p, s, n, o), Items[s][n + 1] = None
  PROVE  Answered(p, s, n + 1, o) /\ GivenTo(s, n + 1) = GivenTo(s, n)
BY GivenGrows DEF Answered

LEMMA GiveAnswered ==
  ASSUME NEW p, NEW s, NEW n \in Nat, NEW S, NEW o \in Seq(S), Answered(p, s, n, o),
         Items[s][n + 1] # None, Len(o) = Cardinality(GivenTo(s, n))
  PROVE  /\ Answered(p, s, n + 1, o) /\ n + 1 \in GivenTo(s, n + 1)
         /\ Len(o) = Cardinality(GivenTo(s, n + 1)) - 1
<1>1. /\ GivenTo(s, n + 1) = GivenTo(s, n) \cup {n + 1}
      /\ Cardinality(GivenTo(s, n + 1)) = Cardinality(GivenTo(s, n)) + 1
      /\ Nth(s, n + 1, n + 1) = Cardinality(GivenTo(s, n)) + 1
      /\ \A i \in GivenTo(s, n) : Nth(s, n + 1, i) = Nth(s, n, i)
  BY GivenGrows
<1>2. Len(o) = Cardinality(GivenTo(s, n + 1)) - 1 /\ Len(o) \in Nat
  BY <1>1, GivenFinite
<1>3. Nth(s, n + 1, n + 1) \notin DOMAIN o
  BY <1>1, <1>2, LenProperties
<1> QED BY <1>1, <1>2, <1>3 DEF Answered

LEMMA AnswerAnswered ==
  ASSUME NEW p, NEW s, NEW n \in Nat, NEW S, NEW o \in Seq(S), Answered(p, s, n, o), n \in GivenTo(s, n),
         Len(o) = Cardinality(GivenTo(s, n)) - 1, NEW v \in S, v \in Answers(p, s, Items[s][n])
  PROVE  Answered(p, s, n, Append(o, v)) /\ Len(Append(o, v)) = Cardinality(GivenTo(s, n))
<1> DEFINE q == Append(o, v)
<1>1. /\ q \in Seq(S) /\ Len(q) = Len(o) + 1 /\ DOMAIN q = 1 .. Len(o) + 1
      /\ \A i \in 1 .. Len(o) : q[i] = o[i]
      /\ q[Len(o) + 1] = v /\ DOMAIN o = 1 .. Len(o) /\ Len(o) \in Nat
  BY AppendProperties, LenProperties
<1> HIDE DEF q
<1>2. Len(q) = Cardinality(GivenTo(s, n))
  BY <1>1, GivenFinite
<1>3. ASSUME NEW i \in GivenTo(s, n), Nth(s, n, i) \in DOMAIN q
      PROVE  q[Nth(s, n, i)] \in Answers(p, s, Items[s][i])
  <2>1. CASE Nth(s, n, i) \in DOMAIN o
    BY <1>1, <2>1 DEF Answered
  <2>2. CASE Nth(s, n, i) = Len(o) + 1
    <3>1. i = n
      BY <1>1, <1>2, <2>2, LastNth
    <3> QED BY <1>1, <2>2, <3>1
  <2> QED BY <1>1, <1>3, <2>1, <2>2
<1>4. Answered(p, s, n, q)
  BY <1>2, <1>3 DEF Answered
<1> QED BY <1>2, <1>4 DEF q

------------------------------------------------------------------------------
(* What is on its way.                                                      *)

Passed(s) == Len(Items[s]) - Len(src[s])

Letter(s, x) == [stream |-> s, msg |-> [variant |-> MsgType[s], msg |-> x]]
Letters == {Letter(s, x) : s \in Stream, x \in Item}
InHand == {a \in Actor : pc[a] = "handle"}
Around(s) == (\E i \in DOMAIN queue : queue[i].stream = s) \/ \E a \in InHand : cur[a].stream = s

\* What the handler of an item makes of it.
Reaction(e, s, x) == Handle(e, Into(e, MsgType[s], x), x \in Panicky)

AllAnswers(p, s) == UNION {Answers(p, s, x) : x \in Item}

StreamTypes ==
  /\ TypeOK
  /\ src \in [Stream -> Seq(Item)] /\ ran \in [Stream -> Seq(Item)]
  /\ DOMAIN slot = Stream /\ DOMAIN out = Stream /\ DOMAIN cur = Actor
  /\ \A s \in Stream : out[s] \in Seq(AllAnswers(prog, s))
  /\ queue \in Seq(Letters) /\ \A a \in InHand : cur[a] \in Letters

\* What a source has left is the end of its items.
SuffixOf(s) ==
  /\ Len(src[s]) <= Len(Items[s])
  /\ \A i \in 1 .. Len(src[s]) : src[s][i] = Items[s][Passed(s) + i]

\* A stream has one message in the channel or in the actors' hands at most.
OneOut ==
  /\ \A i, j \in DOMAIN queue : queue[i].stream = queue[j].stream => i = j
  /\ \A a, b \in InHand : cur[a].stream = cur[b].stream => a = b
  /\ \A a \in InHand : \A i \in DOMAIN queue : cur[a].stream # queue[i].stream

\* It is the last item the stream gave, and its answer is awaited.
OutIsLast ==
  /\ \A s \in Stream : Around(s) => st[s] = "dropped" \/ (st[s] = "last" /\ slot[s] = Open)
  /\ \A i \in DOMAIN queue : LET s == queue[i].stream IN
       st[s] = "last" => queue[i] = Letter(s, Items[s][Passed(s)])
  /\ \A a \in InHand : LET s == cur[a].stream IN
       st[s] = "last" => cur[a] = Letter(s, Items[s][Passed(s)])

\* The answers so far, and the one that is due.
DueOf(s) ==
  /\ Answered(prog, s, Passed(s), out[s])
  /\ IF st[s] = "last"
     THEN /\ Passed(s) \in GivenTo(s, Passed(s))
          /\ Len(out[s]) = Cardinality(GivenTo(s, Passed(s))) - 1
          /\ \/ slot[s] \in {Open, Lost}
             \/ /\ slot[s] = Reaction(code, s, Items[s][Passed(s)])
                /\ slot[s].val # Panic
     ELSE st[s] # "dropped" => Len(out[s]) = Cardinality(GivenTo(s, Passed(s)))

StreamInv ==
  /\ Declared /\ StreamTypes /\ OneOut /\ OutIsLast
  /\ \A s \in Stream : SuffixOf(s) /\ DueOf(s)

LEMMA IntoIs ==
  ASSUME Declared, NEW s \in Stream, NEW x
  PROVE  Into(code, MsgType[s], x) = [variant |-> MsgType[s], msg |-> x]
<1>1. prog \in Programs /\ Expands(prog) /\ MsgType[s] \in Messages(prog) /\ code = Expansion(prog)
  BY DEF Declared, Usable
<1>2. PICK b \in Written(prog, MsgType[s]), blocking \in BOOLEAN :
        \A m, panics : Through(code, MsgType[s], m, panics, b, blocking)
  BY <1>1, EachThrough
<1> QED BY <1>2 DEF Through

\* What an item is answered with if somebody handles it.
LEMMA ReactionAnswers ==
  ASSUME Declared, NEW s \in Stream, NEW x, NEW r, r = Reaction(code, s, x)
  PROVE  /\ r.val # Panic =>
              /\ MapResult(code, MsgType[s], r) \in Answers(prog, s, x)
              /\ MapResult(code, MsgType[s], r) \notin {Err("Closed"), Err("Canceled")}
         /\ Runtime # "actix" /\ x \notin Panicky => r.val # Panic
<1>1. prog \in Programs /\ Expands(prog) /\ MsgType[s] \in Messages(prog) /\ code = Expansion(prog)
  BY DEF Declared, Usable
<1>2. PICK b \in Written(prog, MsgType[s]), blocking \in BOOLEAN :
        \A m, panics : Through(code, MsgType[s], m, panics, b, blocking)
  BY <1>1, EachThrough
<1>3. r = Handle(code, Into(code, MsgType[s], x), x \in Panicky)
  BY DEF Reaction
<1>4. /\ Ok(Own(b, x)) \notin {Err("Closed"), Err("Canceled")}
      /\ Err("Blocking") \notin {Err("Closed"), Err("Canceled")}
  <2>1. Ok(Own(b, x)) # Err("Closed") /\ Ok(Own(b, x)) # Err("Canceled")
    BY DEF Ok, Own, Err
  <2>2. Err("Blocking") # Err("Closed") /\ Err("Blocking") # Err("Canceled")
    <3>1. \A e : Err(e).err = e
      BY DEF Err
    <3>2. "Blocking" # "Closed" /\ "Blocking" # "Canceled"
      OBVIOUS
    <3> QED BY <3>1, <3>2
  <2> QED BY <2>1, <2>2
<1>5. CASE x \in Panicky
  <2>1. PICK panics \in BOOLEAN : panics = TRUE
    OBVIOUS
  <2>2. r = Handle(code, Into(code, MsgType[s], x), panics)
    BY <1>3, <1>5, <2>1 DEF Handle, RunArm, SpawnBlocking
  <2>3. Through(code, MsgType[s], x, panics, b, blocking)
    BY <1>2
  <2>4. r.val # Panic => MapResult(code, MsgType[s], r)
                           \in {Ok(Own(b, x))} \cup IF panics THEN {Err("Blocking")} ELSE {}
    BY <1>2, <2>2, <2>3, RoundTrips
  <2> QED BY <1>2, <1>4, <1>5, <2>1, <2>4 DEF Answers
<1>6. CASE x \notin Panicky
  <2>1. PICK panics \in BOOLEAN : panics = FALSE
    OBVIOUS
  <2>2. r = Handle(code, Into(code, MsgType[s], x), panics)
    BY <1>3, <1>6, <2>1 DEF Handle, RunArm, SpawnBlocking
  <2>3. Through(code, MsgType[s], x, panics, b, blocking)
    BY <1>2
  <2>4. /\ r.val # Panic => MapResult(code, MsgType[s], r)
                              \in {Ok(Own(b, x))} \cup IF panics THEN {Err("Blocking")} ELSE {}
        /\ ~panics /\ Runtime # "actix" => r.val # Panic
    BY <1>2, <2>2, <2>3, RoundTrips
  <2> QED BY <1>2, <1>4, <1>6, <2>1, <2>4 DEF Answers
<1> QED BY <1>5, <1>6

LEMMA Basics ==
  ASSUME StreamInv, NEW s \in Stream
  PROVE  /\ src[s] \in Seq(Item) /\ Len(src[s]) \in Nat
         /\ Items[s] \in Seq(Item) /\ Len(Items[s]) \in Nat
         /\ Passed(s) \in Nat /\ Passed(s) <= Len(Items[s])
<1>1. src[s] \in Seq(Item) /\ Items[s] \in Seq(Item)
  BY StreamAssumption DEF StreamInv, StreamTypes, Item
<1>2. Len(src[s]) \in Nat /\ Len(Items[s]) \in Nat /\ Len(src[s]) <= Len(Items[s])
  BY <1>1, LenProperties DEF StreamInv, SuffixOf
<1>3. \A n, k \in Nat : k <= n => n - k \in Nat /\ n - k <= n
  OBVIOUS
<1> QED BY <1>1, <1>2, <1>3 DEF Passed

LEMMA TakesItem ==
  ASSUME StreamInv, NEW s \in Stream, src[s] # <<>>, src' = [src EXCEPT ![s] = Tail(@)]
  PROVE  /\ Head(src[s]) \in Item /\ Head(src[s]) = Items[s][Passed(s) + 1]
         /\ Passed(s)' = Passed(s) + 1 /\ SuffixOf(s)'
         /\ src' \in [Stream -> Seq(Item)] /\ \A t \in Stream \ {s} : src'[t] = src[t]
<1>1. /\ src[s] \in Seq(Item) /\ Len(src[s]) \in Nat /\ Len(Items[s]) \in Nat
      /\ src \in [Stream -> Seq(Item)]
  BY Basics DEF StreamInv, StreamTypes
<1>2. /\ Tail(src[s]) \in Seq(Item) /\ Len(Tail(src[s])) = Len(src[s]) - 1 /\ Len(src[s]) > 0
      /\ \A i \in 1 .. Len(src[s]) - 1 : Tail(src[s])[i] = src[s][i + 1]
      /\ Head(src[s]) \in Item /\ Head(src[s]) = src[s][1]
  <2>1. Len(src[s]) # 0
    BY <1>1, EmptySeq
  <2> QED BY <1>1, <2>1, HeadTailProperties
<1>3. PICK r : r = Tail(src[s])
  OBVIOUS
<1>4. src'[s] = r /\ src' \in [Stream -> Seq(Item)] /\ \A t \in Stream \ {s} : src'[t] = src[t]
  BY <1>1, <1>2, <1>3
<1>5. PICK n \in Nat, k \in Nat : n = Len(Items[s]) /\ k = Len(src[s]) /\ k <= n /\ k > 0
  BY <1>1, <1>2 DEF StreamInv, SuffixOf
<1>6. \A i \in 1 .. k : src[s][i] = Items[s][(n - k) + i]
  BY <1>5 DEF StreamInv, SuffixOf, Passed
<1>7. /\ Passed(s) = n - k /\ Len(src'[s]) = k - 1 /\ Passed(s)' = n - (k - 1)
      /\ \A i \in 1 .. k - 1 : src'[s][i] = src[s][i + 1]
  BY <1>2, <1>3, <1>4, <1>5 DEF Passed
<1>8. n - (k - 1) = (n - k) + 1 /\ 1 \in 1 .. k /\ k - 1 <= n
  BY <1>5
<1>9. Head(src[s]) = Items[s][Passed(s) + 1]
  <2>1. src[s][1] = Items[s][(n - k) + 1]
    BY <1>6, <1>8
  <2> QED BY <1>2, <1>7, <2>1
<1>10. ASSUME NEW i \in 1 .. k - 1 PROVE src'[s][i] = Items[s][n - (k - 1) + i]
  <2>1. src'[s][i] = src[s][i + 1] /\ i + 1 \in 1 .. k
    BY <1>5, <1>7
  <2>2. i \in Nat /\ (n - k) + (i + 1) = (n - (k - 1)) + i
    OBVIOUS
  <2>3. src[s][i + 1] = Items[s][(n - k) + (i + 1)]
    BY <1>6, <2>1
  <2> QED BY <2>1, <2>2, <2>3
<1>11. Passed(s)' = Passed(s) + 1
  BY <1>7, <1>8
<1>12. SuffixOf(s)'
  BY <1>5, <1>7, <1>8, <1>10 DEF SuffixOf
<1> QED BY <1>2, <1>4, <1>9, <1>11, <1>12

\* A stream that a step does not touch.
LEMMA StreamKept ==
  ASSUME NEW t, SuffixOf(t), DueOf(t), prog' = prog, code' = code,
         src'[t] = src[t], st'[t] = st[t], slot'[t] = slot[t], out'[t] = out[t]
  PROVE  SuffixOf(t)' /\ DueOf(t)'
<1>1. Passed(t)' = Passed(t)
  BY DEF Passed
<1> QED BY <1>1 DEF SuffixOf, DueOf

\* No message is added, and the streams of those that are left wait as before.
LEMMA Shrinks ==
  ASSUME StreamInv, queue' = queue \/ queue' = <<>>, InHand' \subseteq InHand,
         \A b \in InHand' : cur'[b] = cur[b],
         \A t \in Stream : Around(t)' =>
           st'[t] = "dropped" \/ (st'[t] = st[t] /\ slot'[t] = slot[t] /\ src'[t] = src[t])
  PROVE  OneOut' /\ OutIsLast'
<1>1. /\ \A i \in DOMAIN queue' : i \in DOMAIN queue /\ queue'[i] = queue[i] /\ queue[i].stream \in Stream
      /\ \A b \in InHand' : b \in InHand /\ cur'[b] = cur[b] /\ cur[b].stream \in Stream
  <2>1. \A l \in Letters : l.stream \in Stream
    BY DEF Letters, Letter
  <2>2. \A i \in DOMAIN queue : queue[i] \in Letters
    BY LenProperties, ElementOfSeq DEF StreamInv, StreamTypes
  <2> QED BY <2>1, <2>2 DEF StreamInv, StreamTypes
<1>2. OneOut'
  BY <1>1 DEF StreamInv, OneOut
<1>3. \A t : Around(t)' => Around(t)
  BY <1>1 DEF Around
<1>4. \A t \in Stream : Around(t)' =>
        st'[t] = "dropped" \/ (st'[t] = st[t] /\ slot'[t] = slot[t] /\ Passed(t)' = Passed(t))
  BY DEF Passed
<1>5. \A i \in DOMAIN queue' : Around(queue[i].stream)'
  BY <1>1 DEF Around
<1>6. \A b \in InHand' : Around(cur[b].stream)'
  BY <1>1 DEF Around
<1>7. \A s \in Stream : Around(s)' => st'[s] = "dropped" \/ (st'[s] = "last" /\ slot'[s] = Open)
  BY <1>3, <1>4 DEF StreamInv, OutIsLast
<1>8. ASSUME NEW i \in DOMAIN queue', st'[queue'[i].stream] = "last"
      PROVE  queue'[i] = Letter(queue'[i].stream, Items[queue'[i].stream][Passed(queue[i].stream)'])
  <2>1. PICK s \in Stream : s = queue[i].stream /\ s = queue'[i].stream
    BY <1>1, <1>8
  <2>2. st[s] = "last" /\ Passed(s)' = Passed(s)
    BY <1>4, <1>5, <1>8, <2>1
  <2>3. queue[i] = Letter(s, Items[s][Passed(s)])
    BY <1>1, <1>8, <2>1, <2>2 DEF StreamInv, OutIsLast
  <2> QED BY <1>1, <1>8, <2>1, <2>2, <2>3 DEF Passed
<1>9. ASSUME NEW a \in InHand', st'[cur'[a].stream] = "last"
      PROVE  cur'[a] = Letter(cur'[a].stream, Items[cur'[a].stream][Passed(cur[a].stream)'])
  <2>1. PICK s \in Stream : s = cur[a].stream /\ s = cur'[a].stream
    BY <1>1, <1>9
  <2>2. st[s] = "last" /\ Passed(s)' = Passed(s)
    BY <1>4, <1>6, <1>9, <2>1
  <2>3. cur[a] = Letter(s, Items[s][Passed(s)])
    BY <1>1, <1>9, <2>1, <2>2 DEF StreamInv, OutIsLast
  <2> QED BY <1>1, <1>9, <2>1, <2>2, <2>3 DEF Passed
<1> QED BY <1>2, <1>7, <1>8, <1>9 DEF OutIsLast

\* A step of one stream, none of whose messages is left around.
LEMMA OneStream ==
  ASSUME StreamInv, NEW s \in Stream, Declared', StreamTypes', SuffixOf(s)', DueOf(s)',
         prog' = prog, code' = code, queue' = queue \/ queue' = <<>>, pc' = pc, cur' = cur,
         ~Around(s) \/ st'[s] = "dropped",
         \A t \in Stream \ {s} : /\ src'[t] = src[t] /\ st'[t] = st[t]
                                 /\ slot'[t] = slot[t] /\ out'[t] = out[t]
  PROVE  StreamInv'
<1>1. InHand' = InHand /\ \A t : Around(t)' => Around(t)
  BY DEF InHand, Around
<1>2. \A t \in Stream : Around(t)' =>
        st'[t] = "dropped" \/ (st'[t] = st[t] /\ slot'[t] = slot[t] /\ src'[t] = src[t])
  BY <1>1
<1>3. OneOut' /\ OutIsLast'
  BY <1>1, <1>2, Shrinks
<1>4. ASSUME NEW t \in Stream PROVE SuffixOf(t)' /\ DueOf(t)'
  <2>1. CASE t = s
    BY <2>1
  <2>2. CASE t # s
    BY <2>2, StreamKept DEF StreamInv
  <2> QED BY <2>1, <2>2
<1> QED BY <1>3, <1>4 DEF StreamInv

\* Only a message that is awaited, or whose stream was dropped, is around.
LEMMA AroundWaits ==
  ASSUME StreamInv, NEW s \in Stream, st[s] # "dropped", st[s] # "last" \/ slot[s] # Open
  PROVE  ~Around(s)
BY DEF StreamInv, OutIsLast

LEMMA SourceEndsKeeps == ASSUME StreamInv, NEW s \in Stream, SourceEnds(s), Declared' PROVE StreamInv'
<1>1. st[s] = "next" /\ ~Around(s)
  BY AroundWaits DEF SourceEnds, Asks
<1>2. st \in [Stream -> {"next", "last", "ended", "dropped"}]
  BY DEF StreamInv, StreamTypes, TypeOK
<1>3. StreamTypes'
  BY <1>2 DEF StreamInv, StreamTypes, TypeOK, SourceEnds, InHand, actorVars
<1>4. Passed(s)' = Passed(s) /\ SuffixOf(s)'
  BY DEF StreamInv, SuffixOf, Passed, SourceEnds
<1>5. DueOf(s)'
  BY <1>1, <1>2, <1>4 DEF StreamInv, DueOf, SourceEnds
<1> QED BY <1>1, <1>2, <1>3, <1>4, <1>5, OneStream DEF SourceEnds, actorVars

LEMMA SkipsNoneKeeps == ASSUME StreamInv, NEW s \in Stream, SkipsNone(s), Declared' PROVE StreamInv'
<1>1. st[s] = "next" /\ ~Around(s)
  BY AroundWaits DEF SkipsNone, Asks
<1>2. /\ Items[s][Passed(s) + 1] = None /\ Passed(s)' = Passed(s) + 1 /\ SuffixOf(s)'
      /\ src' \in [Stream -> Seq(Item)] /\ \A t \in Stream \ {s} : src'[t] = src[t]
  BY TakesItem DEF SkipsNone
<1>3. StreamTypes'
  BY <1>2 DEF StreamInv, StreamTypes, TypeOK, SkipsNone, InHand, actorVars
<1>4. Answered(prog, s, Passed(s) + 1, out[s]) /\ GivenTo(s, Passed(s) + 1) = GivenTo(s, Passed(s))
  BY <1>2, Basics, SkipAnswered DEF StreamInv, DueOf
<1>5. DueOf(s)'
  BY <1>1, <1>2, <1>4 DEF StreamInv, DueOf, SkipsNone
<1> QED BY <1>1, <1>2, <1>3, <1>5, OneStream DEF SkipsNone, actorVars

\* What the last message is answered with.
LEMMA AnswerIs ==
  ASSUME StreamInv, NEW s \in Stream, PollsLast(s)
  PROVE  /\ Answer(s) \in Answers(prog, s, Items[s][Passed(s)])
         /\ Answer(s) \in AllAnswers(prog, s)
         /\ slot[s] # Lost => Answer(s) \notin {Err("Closed"), Err("Canceled")}
<1>1. /\ st[s] = "last" /\ slot[s] # Open /\ Passed(s) \in GivenTo(s, Passed(s))
      /\ slot[s] = Lost \/ (/\ slot[s] = Reaction(code, s, Items[s][Passed(s)])
                            /\ slot[s].val # Panic)
  BY DEF StreamInv, DueOf, PollsLast
<1>2. Items[s][Passed(s)] \in Item
  <2>1. Passed(s) \in 1 .. Len(Items[s])
    BY <1>1, Basics DEF GivenTo
  <2> QED BY <2>1, Basics, ElementOfSeq
<1>3. CASE slot[s] = Lost
  BY <1>2, <1>3 DEF Answer, Answers, AllAnswers
<1>4. CASE slot[s] # Lost
  <2>1. /\ MapResult(code, MsgType[s], slot[s]) \in Answers(prog, s, Items[s][Passed(s)])
        /\ MapResult(code, MsgType[s], slot[s]) \notin {Err("Closed"), Err("Canceled")}
    BY <1>1, <1>4, ReactionAnswers DEF StreamInv
  <2> QED BY <1>2, <1>4, <2>1 DEF Answer, AllAnswers
<1> QED BY <1>3, <1>4

LEMMA PollsLastKeeps == ASSUME StreamInv, NEW s \in Stream, PollsLast(s), Declared' PROVE StreamInv'
<1>1. st[s] = "last" /\ ~Around(s) /\ prog' = prog /\ code' = code
  BY AroundWaits DEF PollsLast
<1>2. /\ Passed(s) \in GivenTo(s, Passed(s)) /\ Answered(prog, s, Passed(s), out[s])
      /\ Len(out[s]) = Cardinality(GivenTo(s, Passed(s))) - 1
      /\ out[s] \in Seq(AllAnswers(prog, s)) /\ Passed(s) \in Nat
  BY <1>1, Basics DEF StreamInv, StreamTypes, DueOf
<1>3. /\ Answered(prog, s, Passed(s), Append(out[s], Answer(s)))
      /\ Len(Append(out[s], Answer(s))) = Cardinality(GivenTo(s, Passed(s)))
      /\ Append(out[s], Answer(s)) \in Seq(AllAnswers(prog, s))
  <2>1. PICK v \in AllAnswers(prog, s) : v = Answer(s) /\ v \in Answers(prog, s, Items[s][Passed(s)])
    BY AnswerIs
  <2>2. Append(out[s], v) \in Seq(AllAnswers(prog, s))
    BY <1>2, AppendProperties
  <2>3. PICK n \in Nat, o \in Seq(AllAnswers(prog, s)) : n = Passed(s) /\ o = out[s]
    BY <1>2
  <2>4. /\ Answered(prog, s, n, o) /\ n \in GivenTo(s, n)
        /\ Len(o) = Cardinality(GivenTo(s, n)) - 1 /\ v \in Answers(prog, s, Items[s][n])
    BY <1>2, <2>1, <2>3
  <2>5. Answered(prog, s, n, Append(o, v)) /\ Len(Append(o, v)) = Cardinality(GivenTo(s, n))
    BY <2>4, AnswerAnswered
  <2> QED BY <2>1, <2>2, <2>3, <2>5
<1>4. /\ st \in [Stream -> {"next", "last", "ended", "dropped"}]
      /\ DOMAIN out = Stream /\ DOMAIN slot = Stream
  BY DEF StreamInv, StreamTypes, TypeOK
<1>5. /\ out'[s] = Append(out[s], Answer(s)) /\ st'[s] = "next" /\ slot'[s] = NoMsg
      /\ \A t \in Stream \ {s} : out'[t] = out[t] /\ st'[t] = st[t] /\ slot'[t] = slot[t]
      /\ DOMAIN out' = Stream /\ DOMAIN slot' = Stream
      /\ st' \in [Stream -> {"next", "last", "ended", "dropped"}]
  BY <1>4 DEF PollsLast, Yields
<1>6. \A t \in Stream : out'[t] \in Seq(AllAnswers(prog, t))
  BY <1>3, <1>5 DEF StreamInv, StreamTypes
<1>7. StreamTypes'
  <2>1. TypeOK'
    BY <1>5 DEF StreamInv, StreamTypes, TypeOK, PollsLast, actorVars
  <2> QED BY <1>1, <1>5, <1>6, <2>1 DEF StreamInv, StreamTypes, PollsLast, InHand, actorVars
<1>8. Passed(s)' = Passed(s) /\ SuffixOf(s)'
  BY DEF StreamInv, SuffixOf, Passed, PollsLast
<1>9. DueOf(s)'
  BY <1>1, <1>3, <1>5, <1>8 DEF DueOf
<1> QED BY <1>1, <1>5, <1>7, <1>8, <1>9, OneStream DEF PollsLast, actorVars

LEMMA DropStreamKeeps == ASSUME StreamInv, NEW s \in Stream, DropStream(s), Declared' PROVE StreamInv'
<1>1. /\ st \in [Stream -> {"next", "last", "ended", "dropped"}]
      /\ DOMAIN slot = Stream /\ prog' = prog /\ code' = code /\ pc' = pc /\ cur' = cur
      /\ queue \in Seq(Letters)
  BY DEF StreamInv, StreamTypes, TypeOK, DropStream, actorVars
<1>2. /\ st'[s] = "dropped" /\ DOMAIN slot' = Stream
      /\ st' \in [Stream -> {"next", "last", "ended", "dropped"}]
      /\ \A t \in Stream \ {s} : st'[t] = st[t] /\ slot'[t] = slot[t]
      /\ queue' = queue \/ queue' = <<>>
  BY <1>1 DEF DropStream, QueueIf
<1>3. StreamTypes'
  <2>1. queue' \in Seq(Letters)
    BY <1>1, <1>2, EmptySeq
  <2> QED BY <1>1, <1>2, <2>1 DEF StreamInv, StreamTypes, TypeOK, DropStream, InHand, actorVars
<1>4. Passed(s)' = Passed(s) /\ SuffixOf(s)'
  BY DEF StreamInv, SuffixOf, Passed, DropStream
<1>5. DueOf(s)'
  BY <1>1, <1>2, <1>4 DEF StreamInv, DueOf, DropStream
<1> QED BY <1>1, <1>2, <1>3, <1>4, <1>5, OneStream DEF DropStream

\* The next item is given.
LEMMA Gives ==
  ASSUME StreamInv, NEW s \in Stream, SendsItem(s)
  PROVE  /\ st[s] = "next" /\ ~Around(s) /\ prog' = prog /\ code' = code
         /\ Head(src[s]) \in Item /\ Items[s][Passed(s) + 1] = Head(src[s])
         /\ Passed(s)' = Passed(s) + 1 /\ Passed(s) + 1 \in Nat /\ SuffixOf(s)'
         /\ src' \in [Stream -> Seq(Item)] /\ \A t \in Stream \ {s} : src'[t] = src[t]
         /\ Answered(prog, s, Passed(s) + 1, out[s]) /\ Passed(s) + 1 \in GivenTo(s, Passed(s) + 1)
         /\ Len(out[s]) = Cardinality(GivenTo(s, Passed(s) + 1)) - 1
         /\ out[s] \in Seq(AllAnswers(prog, s))
<1>1. st[s] = "next" /\ ~Around(s) /\ prog' = prog /\ code' = code
  BY AroundWaits DEF SendsItem, Asks
<1>2. /\ Head(src[s]) \in Item /\ Head(src[s]) = Items[s][Passed(s) + 1]
      /\ Passed(s)' = Passed(s) + 1 /\ SuffixOf(s)'
      /\ src' \in [Stream -> Seq(Item)] /\ \A t \in Stream \ {s} : src'[t] = src[t]
  BY TakesItem DEF SendsItem
<1>3. Items[s][Passed(s) + 1] # None
  BY <1>2 DEF SendsItem
<1>4. /\ Passed(s) \in Nat /\ out[s] \in Seq(AllAnswers(prog, s))
      /\ Answered(prog, s, Passed(s), out[s]) /\ Len(out[s]) = Cardinality(GivenTo(s, Passed(s)))
  BY <1>1, Basics DEF StreamInv, StreamTypes, DueOf
<1>5. /\ Answered(prog, s, Passed(s) + 1, out[s]) /\ Passed(s) + 1 \in GivenTo(s, Passed(s) + 1)
      /\ Len(out[s]) = Cardinality(GivenTo(s, Passed(s) + 1)) - 1
  BY <1>3, <1>4, GiveAnswered
<1>6. Passed(s) + 1 \in Nat
  BY <1>4
<1> QED BY <1>1, <1>2, <1>4, <1>5, <1>6

LEMMA RefusedKeeps ==
  ASSUME StreamInv, NEW s \in Stream, SendsItem(s), Receivers = {}, Declared' PROVE StreamInv'
<1>1. PICK v : v = Err("Closed")
  OBVIOUS
<1>2. /\ out' = [out EXCEPT ![s] = Append(@, v)]
      /\ queue' = queue /\ st' = st /\ slot' = slot /\ pc' = pc /\ cur' = cur /\ ran' = ran
      /\ addr' = addr /\ closes' = closes
  BY <1>1 DEF SendsItem, Refused, Yields, actorVars
<1>3. /\ st[s] = "next" /\ ~Around(s) /\ prog' = prog /\ code' = code /\ Head(src[s]) \in Item
      /\ src' \in [Stream -> Seq(Item)] /\ \A t \in Stream \ {s} : src'[t] = src[t]
      /\ SuffixOf(s)' /\ out[s] \in Seq(AllAnswers(prog, s))
  BY Gives
<1>4. v \in Answers(prog, s, Head(src[s])) /\ v \in AllAnswers(prog, s)
  BY <1>1, <1>3 DEF Answers, AllAnswers
<1>5. PICK n \in Nat, o \in Seq(AllAnswers(prog, s)) :
        /\ n = Passed(s) + 1 /\ o = out[s] /\ n = Passed(s)'
        /\ Answered(prog, s, n, o) /\ n \in GivenTo(s, n) /\ Items[s][n] = Head(src[s])
        /\ Len(o) = Cardinality(GivenTo(s, n)) - 1
  BY Gives
<1>6. Answered(prog, s, n, Append(o, v)) /\ Len(Append(o, v)) = Cardinality(GivenTo(s, n))
  <2>1. v \in Answers(prog, s, Items[s][n]) /\ v \in AllAnswers(prog, s)
    BY <1>4, <1>5
  <2>2. /\ Answered(prog, s, n, o) /\ n \in GivenTo(s, n)
        /\ Len(o) = Cardinality(GivenTo(s, n)) - 1
    BY <1>5
  <2> QED BY <2>1, <2>2, AnswerAnswered
<1>7. DOMAIN out = Stream
  BY DEF StreamInv, StreamTypes
<1>8. /\ out'[s] = Append(o, v) /\ DOMAIN out' = Stream /\ \A t \in Stream \ {s} : out'[t] = out[t]
      /\ Append(o, v) \in Seq(AllAnswers(prog, s))
  BY <1>2, <1>4, <1>5, <1>7, AppendProperties
<1>9. \A t \in Stream : out'[t] \in Seq(AllAnswers(prog, t))
  BY <1>8 DEF StreamInv, StreamTypes
<1>10. StreamTypes'
  <2>1. TypeOK'
    BY <1>2, <1>3 DEF StreamInv, StreamTypes, TypeOK
  <2> QED BY <1>2, <1>3, <1>8, <1>9, <2>1 DEF StreamInv, StreamTypes, InHand
<1>11. DueOf(s)'
  BY <1>2, <1>3, <1>5, <1>6, <1>8 DEF DueOf
<1> QED BY <1>2, <1>3, <1>8, <1>10, <1>11, OneStream

LEMMA SentKeeps ==
  ASSUME StreamInv, NEW s \in Stream, SendsItem(s), Receivers # {}, Declared' PROVE StreamInv'
<1>1. /\ st[s] = "next" /\ ~Around(s) /\ prog' = prog /\ code' = code /\ Head(src[s]) \in Item
      /\ Items[s][Passed(s)'] = Head(src[s]) /\ SuffixOf(s)'
      /\ src' \in [Stream -> Seq(Item)] /\ \A t \in Stream \ {s} : src'[t] = src[t]
  BY Gives
<1>2. PICK l \in Letters : l = Letter(s, Head(src[s])) /\ l.stream = s
  <2>1. Letter(s, Head(src[s])) \in Letters
    BY <1>1 DEF Letters
  <2>2. Letter(s, Head(src[s])).stream = s
    BY DEF Letter
  <2> QED BY <2>1, <2>2
<1>3. Into(code, MsgType[s], Head(src[s])) = [variant |-> MsgType[s], msg |-> Head(src[s])]
  BY IntoIs DEF StreamInv
<1>4. /\ queue' = Append(queue, l) /\ st' = [st EXCEPT ![s] = "last"]
      /\ slot' = [slot EXCEPT ![s] = Open]
      /\ out' = out /\ ran' = ran /\ addr' = addr /\ pc' = pc /\ cur' = cur /\ closes' = closes
  BY <1>2, <1>3 DEF SendsItem, Letter, actorVars
<1>5. /\ st \in [Stream -> {"next", "last", "ended", "dropped"}] /\ DOMAIN slot = Stream
      /\ queue \in Seq(Letters)
  BY DEF StreamInv, StreamTypes, TypeOK
<1>6. /\ st'[s] = "last" /\ slot'[s] = Open /\ DOMAIN slot' = Stream
      /\ st' \in [Stream -> {"next", "last", "ended", "dropped"}]
      /\ \A t \in Stream \ {s} : st'[t] = st[t] /\ slot'[t] = slot[t]
  BY <1>4, <1>5
<1>7. PICK k \in Nat : /\ k = Len(queue) + 1 /\ DOMAIN queue' = DOMAIN queue \cup {k}
                       /\ k \notin DOMAIN queue /\ queue'[k] = l /\ queue' \in Seq(Letters)
                       /\ \A i \in DOMAIN queue : queue'[i] = queue[i]
  <2>1. /\ queue' \in Seq(Letters) /\ Len(queue') = Len(queue) + 1 /\ queue'[Len(queue) + 1] = l
        /\ \A i \in 1 .. Len(queue) : queue'[i] = queue[i]
    BY <1>4, <1>5, AppendProperties
  <2>2. /\ Len(queue) \in Nat /\ DOMAIN queue = 1 .. Len(queue) /\ DOMAIN queue' = 1 .. Len(queue')
    BY <1>5, <2>1, LenProperties
  <2> QED BY <2>1, <2>2
<1>8. StreamTypes'
  <2>1. TypeOK'
    BY <1>1, <1>4, <1>6 DEF StreamInv, StreamTypes, TypeOK
  <2>2. \A t \in Stream : out'[t] \in Seq(AllAnswers(prog, t))
    BY <1>4 DEF StreamInv, StreamTypes
  <2> QED BY <1>1, <1>4, <1>6, <1>7, <2>1, <2>2 DEF StreamInv, StreamTypes, InHand
<1>9. /\ \A i \in DOMAIN queue : queue[i].stream \in Stream /\ queue[i].stream # s
      /\ \A a \in InHand : cur[a].stream \in Stream /\ cur[a].stream # s
  <2>1. \A m \in Letters : m.stream \in Stream
    BY DEF Letters, Letter
  <2>2. \A i \in DOMAIN queue : queue[i] \in Letters
    BY <1>5, LenProperties, ElementOfSeq
  <2> QED BY <1>1, <2>1, <2>2 DEF Around, StreamInv, StreamTypes
<1>10. InHand' = InHand /\ cur' = cur
  BY <1>4 DEF InHand
<1>11. OneOut'
  BY <1>2, <1>7, <1>9, <1>10 DEF StreamInv, OneOut
<1>12. \A t \in Stream \ {s} : (Around(t)' <=> Around(t)) /\ Passed(t)' = Passed(t)
  BY <1>1, <1>2, <1>7, <1>10 DEF Around, Passed
<1>13. \A t \in Stream : Around(t)' => st'[t] = "dropped" \/ (st'[t] = "last" /\ slot'[t] = Open)
  BY <1>6, <1>12 DEF StreamInv, OutIsLast
<1>14. ASSUME NEW i \in DOMAIN queue', st'[queue'[i].stream] = "last"
       PROVE  queue'[i] = Letter(queue'[i].stream, Items[queue'[i].stream][Passed(queue[i].stream)'])
  <2>1. CASE i = k
    BY <1>1, <1>2, <1>7, <2>1 DEF Passed
  <2>2. CASE i # k
    <3>1. PICK t \in Stream \ {s} : t = queue[i].stream /\ t = queue'[i].stream
      BY <1>7, <1>9, <2>2
    <3>2. queue[i] = Letter(t, Items[t][Passed(t)]) /\ Passed(t)' = Passed(t)
      BY <1>6, <1>7, <1>12, <1>14, <2>2, <3>1 DEF StreamInv, OutIsLast
    <3> QED BY <1>7, <2>2, <3>1, <3>2 DEF Passed
  <2> QED BY <2>1, <2>2
<1>15. ASSUME NEW a \in InHand', st'[cur'[a].stream] = "last"
       PROVE  cur'[a] = Letter(cur'[a].stream, Items[cur'[a].stream][Passed(cur[a].stream)'])
  <2>1. PICK t \in Stream \ {s} : t = cur[a].stream /\ t = cur'[a].stream
    BY <1>9, <1>10
  <2>2. cur[a] = Letter(t, Items[t][Passed(t)]) /\ Passed(t)' = Passed(t)
    BY <1>6, <1>10, <1>12, <1>15, <2>1 DEF StreamInv, OutIsLast
  <2> QED BY <1>10, <2>1, <2>2 DEF Passed
<1>16. OutIsLast'
  BY <1>13, <1>14, <1>15 DEF OutIsLast
<1>17. DueOf(s)'
  BY <1>1, <1>4, <1>6, Gives DEF DueOf
<1>18. ASSUME NEW t \in Stream \ {s} PROVE SuffixOf(t)' /\ DueOf(t)'
  BY <1>1, <1>4, <1>6, StreamKept DEF StreamInv
<1> QED BY <1>1, <1>8, <1>11, <1>16, <1>17, <1>18 DEF StreamInv

\* A step of an actor, or of the last address, that adds no message: the streams
\* whose slot it fills have none around afterwards.
LEMMA OneActor ==
  ASSUME StreamInv, Declared', TypeOK', prog' = prog, code' = code, src' = src, st' = st, out' = out,
         ran' \in [Stream -> Seq(Item)], DOMAIN slot' = Stream, DOMAIN cur' = Actor,
         queue' = queue \/ queue' = <<>>, InHand' \subseteq InHand,
         \A b \in InHand' : cur'[b] = cur[b],
         \A t \in Stream : slot'[t] = slot[t] \/
           /\ ~Around(t)'
           /\ st[t] = "last" => \/ slot'[t] = Lost
                                \/ /\ slot'[t] = Reaction(code, t, Items[t][Passed(t)])
                                   /\ slot'[t].val # Panic
  PROVE  StreamInv'
<1>1. OneOut' /\ OutIsLast'
  BY Shrinks
<1>2. queue' \in Seq(Letters) /\ \A a \in InHand' : cur'[a] \in Letters
  BY EmptySeq DEF StreamInv, StreamTypes
<1>3. \A s \in Stream : out'[s] \in Seq(AllAnswers(prog, s))
  BY DEF StreamInv, StreamTypes
<1>4. StreamTypes'
  BY <1>2, <1>3 DEF StreamInv, StreamTypes
<1>5. ASSUME NEW t \in Stream PROVE SuffixOf(t)' /\ DueOf(t)'
  <2>1. Passed(t)' = Passed(t) /\ SuffixOf(t)'
    BY DEF StreamInv, SuffixOf, Passed
  <2>2. CASE slot'[t] = slot[t]
    BY <2>2, StreamKept DEF StreamInv
  <2>3. CASE slot'[t] # slot[t]
    <3>1. st[t] = "last" => \/ slot'[t] \in {Open, Lost}
                            \/ /\ slot'[t] = Reaction(code, t, Items[t][Passed(t)])
                               /\ slot'[t].val # Panic
      BY <2>3
    <3> QED BY <2>1, <3>1 DEF StreamInv, DueOf
  <2> QED BY <2>1, <2>2, <2>3
<1> QED BY <1>1, <1>4, <1>5 DEF StreamInv

LEMMA DropAddressKeeps == ASSUME StreamInv, DropAddress, Declared' PROVE StreamInv'
<1>1. /\ prog' = prog /\ code' = code /\ src' = src /\ st' = st /\ slot' = slot /\ out' = out
      /\ ran' = ran /\ pc' = pc /\ cur' = cur /\ (queue' = queue \/ queue' = <<>>)
  BY DEF DropAddress, QueueIf, streamVars, actorVars
<1>2. TypeOK'
  BY <1>1 DEF StreamInv, StreamTypes, TypeOK, DropAddress
<1>3. /\ ran' \in [Stream -> Seq(Item)] /\ DOMAIN slot' = Stream /\ DOMAIN cur' = Actor
      /\ InHand' = InHand
  BY <1>1 DEF StreamInv, StreamTypes, InHand
<1> QED BY <1>1, <1>2, <1>3, OneActor

LEMMA OnStartKeeps == ASSUME StreamInv, NEW a \in Actor, OnStart(a), Declared' PROVE StreamInv'
<1>1. /\ prog' = prog /\ code' = code /\ src' = src /\ st' = st /\ slot' = slot /\ out' = out
      /\ ran' = ran /\ addr' = addr /\ queue' = queue /\ cur' = cur /\ closes' = closes
  BY DEF OnStart, streamVars
<1>2. pc \in [Actor -> {"start", "recv", "handle", "gone"}]
  BY DEF StreamInv, StreamTypes, TypeOK
<1>3. TypeOK'
  BY <1>1, <1>2 DEF StreamInv, StreamTypes, TypeOK, OnStart
<1>4. InHand' = InHand
  BY <1>2 DEF InHand, OnStart
<1>5. ran' \in [Stream -> Seq(Item)] /\ DOMAIN slot' = Stream /\ DOMAIN cur' = Actor
  BY <1>1 DEF StreamInv, StreamTypes
<1> QED BY <1>1, <1>3, <1>4, <1>5, OneActor

\* The messages in hand, as the actors will handle them.
LEMMA HandIs ==
  ASSUME StreamInv, NEW a \in InHand
  PROVE  /\ a \in Actor /\ cur[a].stream \in Stream /\ cur[a].msg.msg \in Item
         /\ Around(cur[a].stream)
         /\ st[cur[a].stream] = "dropped" \/ (st[cur[a].stream] = "last" /\ slot[cur[a].stream] = Open)
         /\ Result(a) = Reaction(code, cur[a].stream, cur[a].msg.msg)
         /\ st[cur[a].stream] = "last" =>
              cur[a].msg.msg = Items[cur[a].stream][Passed(cur[a].stream)]
<1>1. PICK s \in Stream, x \in Item : cur[a] = Letter(s, x)
  BY DEF StreamInv, StreamTypes, Letters
<1>2. /\ cur[a].stream = s /\ cur[a].msg = [variant |-> MsgType[s], msg |-> x]
      /\ cur[a].msg.msg = x
  BY <1>1 DEF Letter
<1>3. Result(a) = Reaction(code, s, x)
  BY <1>2, IntoIs DEF StreamInv, Result, Reaction
<1>4. Around(s) /\ (st[s] = "dropped" \/ (st[s] = "last" /\ slot[s] = Open))
  BY <1>2 DEF Around, StreamInv, OutIsLast
<1>5. st[s] = "last" => x = Items[s][Passed(s)]
  <2>1. st[s] = "last" => cur[a] = Letter(s, Items[s][Passed(s)])
    BY <1>2 DEF StreamInv, OutIsLast
  <2>2. Letter(s, Items[s][Passed(s)]).msg.msg = Items[s][Passed(s)]
    BY DEF Letter
  <2> QED BY <1>2, <2>1, <2>2
<1> QED BY <1>2, <1>3, <1>4, <1>5 DEF InHand

LEMMA HandledKeeps == ASSUME StreamInv, NEW a \in Actor, Handled(a), Declared' PROVE StreamInv'
<1>1. /\ prog' = prog /\ code' = code /\ src' = src /\ st' = st /\ out' = out
      /\ ran' = ran /\ addr' = addr /\ queue' = queue /\ closes' = closes
      /\ a \in InHand /\ Result(a).val # Panic
      /\ pc' = [pc EXCEPT ![a] = "recv"] /\ cur' = [cur EXCEPT ![a] = NoMsg]
  BY DEF Handled, InHand
<1>2. /\ pc \in [Actor -> {"start", "recv", "handle", "gone"}] /\ DOMAIN cur = Actor
      /\ DOMAIN slot = Stream
  BY DEF StreamInv, StreamTypes, TypeOK
<1>3. /\ InHand' = InHand \ {a} /\ DOMAIN cur' = Actor /\ \A b \in InHand' : cur'[b] = cur[b]
      /\ pc' \in [Actor -> {"start", "recv", "handle", "gone"}]
  BY <1>1, <1>2 DEF InHand
<1>4. PICK s \in Stream : s = cur[a].stream
  BY <1>1, HandIs
<1>5. slot' = [t \in Stream |-> IF t = s /\ slot[t] = Open THEN Result(a) ELSE slot[t]]
  BY <1>4 DEF Handled, Reply
<1>6. TypeOK'
  BY <1>1, <1>3, <1>4, <1>5, HandIs DEF StreamInv, StreamTypes, TypeOK
<1>7. ~Around(s)'
  BY <1>1, <1>3, <1>4 DEF Around, StreamInv, OneOut
<1>8. st[s] = "last" => slot'[s] = Reaction(code, s, Items[s][Passed(s)]) /\ slot'[s].val # Panic
  BY <1>1, <1>4, <1>5, HandIs
<1>9. \A t \in Stream : slot'[t] = slot[t] \/ t = s
  BY <1>5
<1>10. ran' \in [Stream -> Seq(Item)] /\ DOMAIN slot' = Stream
  BY <1>1, <1>5 DEF StreamInv, StreamTypes
<1> QED BY <1>1, <1>3, <1>6, <1>7, <1>8, <1>9, <1>10, OneActor

\* What goes with a context, as Ends says it.
LEMMA GoneWith ==
  ASSUME NEW a, Ends(a)
  PROVE  /\ \/ queue' = <<>> /\ Receivers = {a}
            \/ queue' = queue
         /\ DOMAIN slot' = Stream
         /\ \A t \in Stream : slot'[t] = slot[t] \/
              /\ slot'[t] = Lost /\ slot[t] = Open
              /\ \/ pc[a] = "handle" /\ t = cur[a].stream
                 \/ queue' = <<>> /\ Receivers = {a} /\ \E i \in DOMAIN queue : queue[i].stream = t
         /\ prog' = prog /\ code' = code /\ src' = src /\ st' = st /\ out' = out /\ ran' = ran
         /\ addr' = addr /\ pc' = [pc EXCEPT ![a] = "gone"] /\ cur' = [cur EXCEPT ![a] = NoMsg]
BY DEF Ends, Reply

LEMMA EndsKeeps ==
  ASSUME StreamInv, NEW a \in Actor, Ends(a), pc[a] # "gone", closes' \in 0 .. MaxCloses, Declared'
  PROVE  StreamInv'
<1>1. /\ prog' = prog /\ code' = code /\ src' = src /\ st' = st /\ out' = out /\ ran' = ran
      /\ addr' = addr /\ pc' = [pc EXCEPT ![a] = "gone"] /\ cur' = [cur EXCEPT ![a] = NoMsg]
      /\ DOMAIN slot' = Stream /\ (queue' = queue \/ queue' = <<>>)
  BY GoneWith
<1>2. pc \in [Actor -> {"start", "recv", "handle", "gone"}] /\ DOMAIN cur = Actor
  BY DEF StreamInv, StreamTypes, TypeOK
<1>3. /\ InHand' = InHand \ {a} /\ DOMAIN cur' = Actor /\ \A b \in InHand' : cur'[b] = cur[b]
      /\ pc' \in [Actor -> {"start", "recv", "handle", "gone"}]
  BY <1>1, <1>2 DEF InHand
<1>4. ASSUME NEW t \in Stream, slot'[t] # slot[t]
      PROVE  slot'[t] = Lost /\ Around(t) /\ ~Around(t)'
  <2>1. slot'[t] = Lost
    BY <1>4, GoneWith
  <2>2. CASE pc[a] = "handle" /\ t = cur[a].stream
    <3>1. a \in InHand
      BY <2>2 DEF InHand
    <3>2. ~Around(t)'
      BY <1>1, <1>3, <2>2, <3>1 DEF Around, StreamInv, OneOut
    <3> QED BY <2>1, <2>2, <3>1, <3>2 DEF Around
  <2>3. CASE queue' = <<>> /\ Receivers = {a} /\ \E i \in DOMAIN queue : queue[i].stream = t
    <3>1. InHand' = {}
      BY <1>3, <2>3 DEF InHand, Receivers
    <3> QED BY <2>1, <2>3, <3>1 DEF Around
  <2> QED BY <1>4, <2>2, <2>3, GoneWith
<1>5. \A t \in Stream : st[t] = "next" => slot'[t] = NoMsg
  BY <1>4 DEF StreamInv, StreamTypes, TypeOK, OutIsLast
<1>6. TypeOK'
  BY <1>1, <1>3, <1>5 DEF StreamInv, StreamTypes, TypeOK
<1>7. ran' \in [Stream -> Seq(Item)]
  BY <1>1 DEF StreamInv, StreamTypes
<1>8. \A t \in Stream : slot'[t] = slot[t] \/ (slot'[t] = Lost /\ ~Around(t)')
  BY <1>4
<1> QED BY <1>1, <1>3, <1>6, <1>7, <1>8, OneActor

LEMMA RecvKeeps == ASSUME StreamInv, NEW a \in Actor, Recv(a), Declared' PROVE StreamInv'
<1>1. /\ prog' = prog /\ code' = code /\ src' = src /\ st' = st /\ slot' = slot /\ out' = out
      /\ addr' = addr /\ closes' = closes /\ queue' = Tail(queue) /\ a \notin InHand
      /\ pc' = [pc EXCEPT ![a] = "handle"] /\ cur' = [cur EXCEPT ![a] = Head(queue)]
      /\ ran' = [ran EXCEPT ![Head(queue).stream] = Append(@, Head(queue).msg.msg)]
  BY DEF Recv, InHand, streamVars
<1>2. /\ pc \in [Actor -> {"start", "recv", "handle", "gone"}] /\ DOMAIN cur = Actor
      /\ ran \in [Stream -> Seq(Item)] /\ queue \in Seq(Letters) /\ queue # <<>>
  BY DEF StreamInv, StreamTypes, TypeOK, Recv
<1>3. /\ queue' \in Seq(Letters) /\ Head(queue) \in Letters /\ Head(queue) = queue[1]
      /\ 1 \in DOMAIN queue
      /\ \A i \in DOMAIN queue' : /\ i + 1 \in DOMAIN queue /\ queue'[i] = queue[i + 1]
                                  /\ i \in Nat /\ i >= 1
  <2>1. /\ Len(queue) \in Nat \ {0} /\ DOMAIN queue = 1 .. Len(queue)
        /\ queue' \in Seq(Letters) /\ Len(queue') = Len(queue) - 1
        /\ \A i \in 1 .. Len(queue') : queue'[i] = queue[i + 1]
        /\ Head(queue) \in Letters /\ Head(queue) = queue[1]
    BY <1>1, <1>2, HeadTailProperties, EmptySeq, LenProperties
  <2>2. DOMAIN queue' = 1 .. Len(queue) - 1
    BY <2>1, LenProperties
  <2> QED BY <2>1, <2>2
<1>4. PICK s \in Stream, x \in Item : Head(queue) = Letter(s, x)
  BY <1>3 DEF Letters
<1>5. Head(queue).stream = s /\ Head(queue).msg.msg = x
  BY <1>4 DEF Letter
<1>6. /\ InHand' = InHand \cup {a} /\ DOMAIN cur' = Actor /\ cur'[a] = Head(queue)
      /\ \A b \in InHand : cur'[b] = cur[b]
      /\ pc' \in [Actor -> {"start", "recv", "handle", "gone"}]
  BY <1>1, <1>2 DEF InHand
<1>7. ran' \in [Stream -> Seq(Item)]
  <2>1. Append(ran[s], x) \in Seq(Item)
    BY <1>2, AppendProperties
  <2> QED BY <1>1, <1>2, <1>5, <2>1
<1>8. StreamTypes'
  <2>1. TypeOK'
    BY <1>1, <1>6 DEF StreamInv, StreamTypes, TypeOK
  <2>2. \A t \in Stream : out'[t] \in Seq(AllAnswers(prog, t))
    BY <1>1 DEF StreamInv, StreamTypes
  <2> QED BY <1>1, <1>3, <1>6, <1>7, <2>1, <2>2 DEF StreamInv, StreamTypes
<1>9. \A i, j \in DOMAIN queue' : queue'[i].stream = queue'[j].stream => i = j
  <2> SUFFICES ASSUME NEW i \in DOMAIN queue', NEW j \in DOMAIN queue',
                      queue'[i].stream = queue'[j].stream
               PROVE  i = j
    OBVIOUS
  <2>1. i + 1 = j + 1
    BY <1>3 DEF StreamInv, OneOut
  <2> QED BY <1>3, <2>1
<1>10. \A b, c \in InHand' : cur'[b].stream = cur'[c].stream => b = c
  BY <1>3, <1>6 DEF StreamInv, OneOut
<1>11. \A b \in InHand' : \A i \in DOMAIN queue' : cur'[b].stream # queue'[i].stream
  <2> SUFFICES ASSUME NEW b \in InHand', NEW i \in DOMAIN queue' PROVE cur'[b].stream # queue'[i].stream
    OBVIOUS
  <2>1. queue'[i] = queue[i + 1] /\ i + 1 \in DOMAIN queue /\ i + 1 # 1
    BY <1>3
  <2>2. CASE b = a
    BY <1>3, <1>6, <2>1, <2>2 DEF StreamInv, OneOut
  <2>3. CASE b # a
    BY <1>6, <2>1, <2>3 DEF StreamInv, OneOut
  <2> QED BY <2>2, <2>3
<1>12. \A t : Around(t)' => Around(t)
  BY <1>3, <1>6 DEF Around
<1>13. \A t \in Stream : Around(t)' => st'[t] = "dropped" \/ (st'[t] = "last" /\ slot'[t] = Open)
  BY <1>1, <1>12 DEF StreamInv, OutIsLast
<1>14. \A i \in DOMAIN queue' : st'[queue'[i].stream] = "last" =>
         queue'[i] = Letter(queue'[i].stream, Items[queue'[i].stream][Passed(queue[i].stream)'])
  BY <1>1, <1>3 DEF StreamInv, OutIsLast, Passed
<1>15. ASSUME NEW b \in InHand', st'[cur'[b].stream] = "last"
       PROVE  cur'[b] = Letter(cur'[b].stream, Items[cur'[b].stream][Passed(cur[b].stream)'])
  <2>1. CASE b = a
    BY <1>1, <1>3, <1>6, <1>15, <2>1 DEF StreamInv, OutIsLast, Passed
  <2>2. CASE b # a
    <3>1. b \in InHand /\ cur'[b] = cur[b]
      BY <1>6, <2>2
    <3>2. cur[b] = Letter(cur[b].stream, Items[cur[b].stream][Passed(cur[b].stream)])
      BY <1>1, <1>15, <3>1 DEF StreamInv, OutIsLast
    <3> QED BY <1>1, <3>1, <3>2 DEF Passed
  <2> QED BY <2>1, <2>2
<1>16. OneOut' /\ OutIsLast'
  BY <1>9, <1>10, <1>11, <1>13, <1>14, <1>15 DEF OneOut, OutIsLast
<1>17. ASSUME NEW t \in Stream PROVE SuffixOf(t)' /\ DueOf(t)'
  BY <1>1, StreamKept DEF StreamInv
<1> QED BY <1>8, <1>16, <1>17 DEF StreamInv

LEMMA InitStream == Init => StreamInv
<1> SUFFICES ASSUME Init PROVE StreamInv
  OBVIOUS
<1>1. Declared
  BY DEF Init, Declared
<1>2. /\ src = Items /\ src \in [Stream -> Seq(Item)]
      /\ queue = <<>> /\ DOMAIN queue = {} /\ InHand = {}
      /\ st = [s \in Stream |-> "next"] /\ slot = [s \in Stream |-> NoMsg]
      /\ out = [s \in Stream |-> <<>>] /\ ran = [s \in Stream |-> <<>>]
      /\ DOMAIN cur = Actor
  BY StreamAssumption DEF Init, InHand, Item
<1>3. \A S : <<>> \in Seq(S)
  BY EmptySeq
<1>4. TypeOK
  BY StreamAssumption DEF Init, TypeOK
<1>5. StreamTypes
  BY <1>2, <1>3, <1>4 DEF StreamTypes
<1>6. OneOut /\ OutIsLast
  BY <1>2 DEF OneOut, OutIsLast, Around
<1>7. ASSUME NEW s \in Stream PROVE SuffixOf(s) /\ DueOf(s)
  <2>1. Len(Items[s]) \in Nat
    BY <1>2, LenProperties
  <2>2. Passed(s) = 0
    BY <1>2, <2>1 DEF Passed
  <2>3. SuffixOf(s)
    BY <1>2, <2>1, <2>2 DEF SuffixOf
  <2>4. GivenTo(s, 0) = {} /\ Cardinality(GivenTo(s, 0)) = 0
    BY FS_EmptySet DEF GivenTo
  <2>5. out[s] = <<>> /\ Len(out[s]) = 0 /\ st[s] = "next"
    BY <1>2
  <2> QED BY <2>2, <2>3, <2>4, <2>5 DEF DueOf, Answered
<1> QED BY <1>1, <1>5, <1>6, <1>7 DEF StreamInv

LEMMA NextStream == StreamInv /\ [Next]_vars => StreamInv'
<1> SUFFICES ASSUME StreamInv, [Next]_vars PROVE StreamInv'
  OBVIOUS
<1>1. Declared'
  BY DeclaredNext DEF StreamInv
<1>2. ASSUME NEW s \in Stream, AdapterStep(s) \/ DropStream(s) PROVE StreamInv'
  <2>1. CASE SourceEnds(s)
    BY <1>1, <2>1, SourceEndsKeeps
  <2>2. CASE SkipsNone(s)
    BY <1>1, <2>2, SkipsNoneKeeps
  <2>3. CASE SendsItem(s)
    BY <1>1, <2>3, SentKeeps, RefusedKeeps
  <2>4. CASE PollsLast(s)
    BY <1>1, <2>4, PollsLastKeeps
  <2>5. CASE DropStream(s)
    BY <1>1, <2>5, DropStreamKeeps
  <2> QED BY <1>2, <2>1, <2>2, <2>3, <2>4, <2>5 DEF AdapterStep
<1>3. ASSUME NEW a \in Actor, ActorStep(a) \/ Closed(a) PROVE StreamInv'
  <2>1. CASE OnStart(a)
    BY <1>1, <2>1, OnStartKeeps
  <2>2. CASE Recv(a)
    BY <1>1, <2>2, RecvKeeps
  <2>3. CASE Handled(a)
    BY <1>1, <2>3, HandledKeeps
  <2>4. CASE HandlerPanics(a) \/ Closed(a) \/ Leaves(a)
    <3>1. Ends(a) /\ pc[a] # "gone"
      BY <2>4 DEF HandlerPanics, Closed, Leaves
    <3>2. closes' \in 0 .. MaxCloses
      BY <2>4, StreamAssumption DEF HandlerPanics, Closed, Leaves, StreamInv, StreamTypes, TypeOK
    <3> QED BY <1>1, <3>1, <3>2, EndsKeeps
  <2> QED BY <1>3, <2>1, <2>2, <2>3, <2>4 DEF ActorStep
<1>4. CASE DropAddress
  BY <1>1, <1>4, DropAddressKeeps
<1>5. CASE UNCHANGED vars
  <2>1. /\ TypeOK' /\ ran' \in [Stream -> Seq(Item)] /\ DOMAIN slot' = Stream /\ DOMAIN cur' = Actor
        /\ InHand' = InHand
    BY <1>5 DEF vars, streamVars, actorVars, StreamInv, StreamTypes, TypeOK, InHand
  <2> QED BY <1>1, <1>5, <2>1, OneActor DEF vars, streamVars, actorVars
<1> QED BY <1>2, <1>3, <1>4, <1>5 DEF Next

\* Type correctness of the streams' state.
THEOREM TypeCorrect == Spec => []TypeOK
<1>1. StreamInv => TypeOK
  BY DEF StreamInv, StreamTypes
<1> QED BY <1>1, InitStream, NextStream, PTL DEF Spec

\* A stream yields one answer for every item its source gave, in their order:
\* the result of a handler written for the item's type on that item, or the
\* error that says what happened to it.  At most one answer is still due, and
\* then the adapter waits for it or was dropped (ActorStream::poll_next).
THEOREM OneAnswer == Spec => []OneAnswerEach
<1>1. StreamInv => OneAnswerEach
  <2> SUFFICES ASSUME StreamInv, NEW s \in Stream
               PROVE  /\ Len(out[s]) \in {Cardinality(Given(s)), Cardinality(Given(s)) - 1}
                      /\ Len(out[s]) # Cardinality(Given(s)) => st[s] \in {"last", "dropped"}
                      /\ \A i \in Given(s) :
                           LET nth == Cardinality({j \in Given(s) : j <= i}) IN
                           nth \in DOMAIN out[s] => out[s][nth] \in Answers(prog, s, Items[s][i])
    BY DEF OneAnswerEach
  <2>1. Given(s) = GivenTo(s, Passed(s))
    BY DEF Given, GivenTo, Passed
  <2>2. DueOf(s)
    BY DEF StreamInv
  <2> QED BY <2>1, <2>2 DEF DueOf, Answered, Nth
<1> QED BY <1>1, InitStream, NextStream, PTL DEF Spec

------------------------------------------------------------------------------
(* Failures.                                                                *)

WasRun(s, x) == \E i \in DOMAIN ran[s] : ran[s][i] = x
Killed == closes > 0 \/ \E s \in Stream : \E x \in Panicky : WasRun(s, x)

\* A handler that runs was recorded.  Without a close or a panic, nobody goes
\* before the last sender, no answer gets lost, and no stream yields a failure.
HandlersRecorded == \A a \in InHand : WasRun(cur[a].stream, cur[a].msg.msg)
NobodyGoes == \A a \in Actor : pc[a] = "gone" => ~SenderAlive
NothingLost == \A s \in Stream : st[s] = "last" => slot[s] # Lost
NoFailures ==
  \A s \in Stream : \A i \in DOMAIN out[s] : out[s][i] \notin {Err("Closed"), Err("Canceled")}

KillInv == StreamInv /\ HandlersRecorded /\ (~Killed => NobodyGoes /\ NothingLost /\ NoFailures)

\* What happened stays so.
LEMMA PastStays ==
  ASSUME StreamInv, [Next]_vars
  PROVE  /\ \A s \in Stream : \A x : WasRun(s, x) => WasRun(s, x)'
         /\ Killed => Killed'
         /\ ~SenderAlive => ~SenderAlive'
<1>1. \A s \in Stream : \A x : WasRun(s, x) => WasRun(s, x)'
  <2>1. ASSUME NEW a \in Actor, Recv(a), NEW s \in Stream, NEW x, WasRun(s, x) PROVE WasRun(s, x)'
    <3>1. queue \in Seq(Letters) /\ queue # <<>> /\ ran \in [Stream -> Seq(Item)]
      BY <2>1 DEF StreamInv, StreamTypes, Recv
    <3>2. PICK l \in Letters : l = Head(queue)
      BY <3>1, HeadTailProperties
    <3>3. PICK t \in Stream, y \in Item : l.stream = t /\ l.msg.msg = y
      BY DEF Letters, Letter
    <3>4. ran' = [ran EXCEPT ![t] = Append(@, y)]
      BY <2>1, <3>2, <3>3 DEF Recv
    <3>5. CASE s # t
      BY <2>1, <3>1, <3>4, <3>5 DEF WasRun
    <3>6. CASE s = t
      <4>1. ran'[s] = Append(ran[s], y) /\ ran[s] \in Seq(Item)
        BY <3>1, <3>4, <3>6
      <4>2. Occurs(ran[s], x) => Occurs(Append(ran[s], y), x)
        BY <4>1, AppendPlaces
      <4> QED BY <2>1, <4>1, <4>2 DEF WasRun, Occurs
    <3> QED BY <3>5, <3>6
  <2>2. ran' = ran \/ \E a \in Actor : Recv(a)
    BY DEF Next, AdapterStep, ActorStep, SourceEnds, SkipsNone, SendsItem, PollsLast,
       DropStream, DropAddress, OnStart, Handled, HandlerPanics, Closed, Leaves, Ends, vars
  <2> QED BY <2>1, <2>2 DEF WasRun
<1>2. closes > 0 => closes' > 0
  <2>1. closes' = closes \/ closes' = closes + 1
    BY DEF Next, AdapterStep, ActorStep, SourceEnds, SkipsNone, SendsItem, PollsLast,
       DropStream, DropAddress, OnStart, Recv, Handled, HandlerPanics, Closed, Leaves, vars
  <2>2. closes \in Nat
    BY StreamAssumption DEF StreamInv, StreamTypes, TypeOK
  <2> QED BY <2>1, <2>2
<1>3. addr' = addr \/ addr' = FALSE
  BY DEF Next, AdapterStep, ActorStep, SourceEnds, SkipsNone, SendsItem, PollsLast,
     DropStream, DropAddress, OnStart, Recv, Handled, HandlerPanics, Closed, Leaves, Ends, vars
<1>4. \A s \in Stream : st[s] = "dropped" => st'[s] = "dropped"
  <2>1. st \in [Stream -> {"next", "last", "ended", "dropped"}]
    BY DEF StreamInv, StreamTypes, TypeOK
  <2>2. st' = st \/ \E t \in Stream : /\ st[t] # "dropped" \/ DropStream(t)
                                      /\ \E v : st' = [st EXCEPT ![t] = v]
    BY DEF Next, AdapterStep, ActorStep, SourceEnds, SkipsNone, SendsItem, PollsLast, Asks,
       DropStream, DropAddress, OnStart, Recv, Handled, HandlerPanics, Closed, Leaves, Ends,
       vars, streamVars
  <2> QED BY <2>1, <2>2 DEF DropStream
<1> QED BY <1>1, <1>2, <1>3, <1>4 DEF Killed, SenderAlive

\* A panic is one of a handler that was run.
LEMMA PanicKills ==
  ASSUME Runtime # "actix", KillInv, NEW a \in Actor, HandlerPanics(a) PROVE Killed
<1>1. a \in InHand
  BY DEF HandlerPanics, InHand
<1>2. PICK s \in Stream, x \in Item : s = cur[a].stream /\ x = cur[a].msg.msg /\ Result(a) = Reaction(code, s, x)
  BY <1>1, HandIs DEF KillInv
<1>3. PICK r : r = Reaction(code, s, x)
  OBVIOUS
<1>4. r.val = Panic
  BY <1>2, <1>3 DEF HandlerPanics
<1>5. x \in Panicky
  BY <1>3, <1>4, ReactionAnswers DEF KillInv, StreamInv
<1> QED BY <1>1, <1>2, <1>5 DEF KillInv, HandlersRecorded, Killed

LEMMA RecordedNext == KillInv /\ [Next]_vars => HandlersRecorded'
<1> SUFFICES ASSUME KillInv, [Next]_vars, NEW b \in InHand' PROVE WasRun(cur[b].stream, cur[b].msg.msg)'
  BY DEF HandlersRecorded
<1>1. CASE b \in InHand /\ cur'[b] = cur[b]
  <2>1. cur[b].stream \in Stream /\ cur[b].msg.msg \in Item
    BY <1>1, HandIs DEF KillInv
  <2>2. PICK s \in Stream, x \in Item : s = cur[b].stream /\ x = cur[b].msg.msg
    BY <2>1
  <2>3. WasRun(s, x)'
    BY <1>1, <2>2, PastStays DEF KillInv, HandlersRecorded
  <2> QED BY <1>1, <2>2, <2>3 DEF WasRun
<1>2. CASE Recv(b) /\ b \in Actor
  <2>1. /\ queue \in Seq(Letters) /\ queue # <<>> /\ ran \in [Stream -> Seq(Item)]
        /\ DOMAIN cur = Actor
    BY <1>2 DEF KillInv, StreamInv, StreamTypes, Recv
  <2>2. PICK l \in Letters : l = Head(queue)
    BY <2>1, HeadTailProperties
  <2>3. PICK t \in Stream, y \in Item : l.stream = t /\ l.msg.msg = y
    BY DEF Letters, Letter
  <2>4. cur'[b] = l /\ ran'[t] = Append(ran[t], y)
    BY <1>2, <2>1, <2>2, <2>3 DEF Recv
  <2>5. Occurs(Append(ran[t], y), y)
    BY <2>1, AppendPlaces
  <2> QED BY <2>3, <2>4, <2>5 DEF WasRun, Occurs
<1>3. (b \in InHand /\ cur'[b] = cur[b]) \/ (Recv(b) /\ b \in Actor)
  <2>1. pc \in [Actor -> {"start", "recv", "handle", "gone"}] /\ DOMAIN cur = Actor
    BY DEF KillInv, StreamInv, StreamTypes, TypeOK
  <2>2. CASE pc' = pc /\ cur' = cur
    BY <2>2 DEF InHand
  <2>3. ASSUME NEW a \in Actor, ActorStep(a) \/ Closed(a)
        PROVE  (b \in InHand /\ cur'[b] = cur[b]) \/ (Recv(b) /\ b \in Actor)
    <3>1. \A c \in Actor \ {a} : pc'[c] = pc[c] /\ cur'[c] = cur[c]
      BY <2>1, <2>3 DEF ActorStep, OnStart, Recv, Handled, HandlerPanics, Closed, Leaves, Ends
    <3>2. pc'[a] = "handle" => Recv(a)
      BY <2>1, <2>3 DEF ActorStep, OnStart, Recv, Handled, HandlerPanics, Closed, Leaves, Ends
    <3> QED BY <3>1, <3>2 DEF InHand
  <2> QED BY <2>2, <2>3 DEF Next, AdapterStep, SourceEnds, SkipsNone, SendsItem, PollsLast,
         DropStream, DropAddress, vars, actorVars
<1> QED BY <1>1, <1>2, <1>3

\* While nothing is killed, a context that goes leaves after the last sender.
LEMMA OnlyLeaves ==
  ASSUME Runtime # "actix", KillInv, [Next]_vars, ~Killed', NEW a \in Actor,
         HandlerPanics(a) \/ Closed(a) \/ Leaves(a)
  PROVE  Leaves(a) /\ ~SenderAlive
<1>1. ~HandlerPanics(a)
  BY PanicKills, PastStays DEF KillInv
<1>2. ~Closed(a)
  <2>1. SUFFICES ASSUME Closed(a) PROVE closes' > 0
    BY DEF Killed
  <2>2. closes \in Nat
    BY StreamAssumption DEF KillInv, StreamInv, StreamTypes, TypeOK
  <2> QED BY <2>1, <2>2 DEF Closed
<1> QED BY <1>1, <1>2 DEF Leaves, ChannelClosed

LEMMA NobodyGoesNext ==
  ASSUME Runtime # "actix", KillInv, [Next]_vars, ~Killed' PROVE NobodyGoes'
<1> SUFFICES ASSUME NEW b \in Actor, pc'[b] = "gone" PROVE ~SenderAlive'
  BY DEF NobodyGoes
<1>1. NobodyGoes
  BY PastStays DEF KillInv
<1>2. pc \in [Actor -> {"start", "recv", "handle", "gone"}]
  BY DEF KillInv, StreamInv, StreamTypes, TypeOK
<1>3. pc[b] = "gone" \/ HandlerPanics(b) \/ Closed(b) \/ Leaves(b)
  BY <1>2 DEF Next, AdapterStep, ActorStep, SourceEnds, SkipsNone, SendsItem, PollsLast,
     DropStream, DropAddress, OnStart, Recv, Handled, HandlerPanics, Closed, Leaves, Ends,
     vars, actorVars
<1>4. ~SenderAlive
  BY <1>1, <1>3, OnlyLeaves DEF NobodyGoes
<1> QED BY <1>4, PastStays DEF KillInv

LEMMA NothingLostNext ==
  ASSUME Runtime # "actix", KillInv, [Next]_vars, ~Killed' PROVE NothingLost'
<1> SUFFICES ASSUME NEW s \in Stream, st'[s] = "last", slot'[s] = Lost PROVE FALSE
  BY DEF NothingLost
<1>1. st[s] = "last" => slot[s] # Lost
  BY PastStays DEF KillInv, NothingLost
<1>2. /\ st \in [Stream -> {"next", "last", "ended", "dropped"}] /\ DOMAIN slot = Stream
  BY DEF KillInv, StreamInv, StreamTypes, TypeOK
<1>3. Open # Lost
  BY DEF Open, Lost
<1>4. ASSUME NEW t \in Stream, AdapterStep(t) \/ DropStream(t) PROVE FALSE
  <2>1. CASE t = s
    BY <1>1, <1>2, <1>3, <1>4, <2>1 DEF AdapterStep, SourceEnds, SkipsNone, SendsItem, PollsLast, DropStream
  <2>2. CASE t # s
    BY <1>1, <1>2, <1>4, <2>2 DEF AdapterStep, SourceEnds, SkipsNone, SendsItem, PollsLast, DropStream
  <2> QED BY <2>1, <2>2
<1>5. ASSUME NEW a \in Actor, Handled(a) PROVE FALSE
  <2>1. Result(a) # Lost
    BY DEF Result, Handle, Lost
  <2>2. st[s] = "last"
    BY <1>5 DEF Handled
  <2> QED BY <1>1, <1>5, <2>1, <2>2 DEF Handled, Reply
<1>6. ASSUME NEW a \in Actor, HandlerPanics(a) \/ Closed(a) \/ Leaves(a) PROVE FALSE
  <2>1. Leaves(a) /\ ~SenderAlive
    BY <1>6, OnlyLeaves
  <2> QED BY <2>1 DEF Leaves, Ends, SenderAlive
<1>7. CASE slot' = slot /\ st' = st
  BY <1>1, <1>7
<1> QED BY <1>4, <1>5, <1>6, <1>7 DEF Next, ActorStep, OnStart, Recv, DropAddress, vars, streamVars

LEMMA NoFailuresNext ==
  ASSUME Runtime # "actix", KillInv, [Next]_vars, ~Killed' PROVE NoFailures'
<1>1. NobodyGoes /\ NothingLost /\ NoFailures /\ StreamInv
  BY PastStays DEF KillInv
<1>2. CASE out' = out
  BY <1>1, <1>2 DEF NoFailures
<1>3. ASSUME NEW s \in Stream, PollsLast(s) PROVE NoFailures'
  <2>1. PICK v \in AllAnswers(prog, s) : v = Answer(s) /\ v \notin {Err("Closed"), Err("Canceled")}
    BY <1>1, <1>3, AnswerIs DEF NothingLost, PollsLast
  <2>2. DOMAIN out = Stream /\ out[s] \in Seq(AllAnswers(prog, s))
    BY <1>1 DEF StreamInv, StreamTypes
  <2>3. /\ out'[s] = Append(out[s], v) /\ \A t \in Stream \ {s} : out'[t] = out[t]
    BY <1>3, <2>1, <2>2 DEF PollsLast, Yields
  <2>4. \A i \in DOMAIN out'[s] : out'[s][i] = v \/ (i \in DOMAIN out[s] /\ out'[s][i] = out[s][i])
    <3>1. /\ Len(out[s]) \in Nat /\ DOMAIN out[s] = 1 .. Len(out[s])
          /\ DOMAIN out'[s] = 1 .. Len(out[s]) + 1 /\ out'[s][Len(out[s]) + 1] = v
          /\ \A i \in 1 .. Len(out[s]) : out'[s][i] = out[s][i]
      BY <2>2, <2>3, AppendProperties, LenProperties
    <3> QED BY <3>1
  <2> QED BY <1>1, <2>1, <2>3, <2>4 DEF NoFailures
<1>4. ASSUME NEW s \in Stream, SendsItem(s), Receivers = {} PROVE FALSE
  <2>1. PICK a \in Actor : pc[a] = "gone"
    BY <1>4, StreamAssumption DEF Receivers
  <2>2. SenderAlive
    BY <1>4 DEF SendsItem, Asks, SenderAlive
  <2> QED BY <1>1, <2>1, <2>2 DEF NobodyGoes
<1> QED BY <1>2, <1>3, <1>4 DEF Next, AdapterStep, ActorStep, SourceEnds, SkipsNone, SendsItem,
       DropStream, DropAddress, OnStart, Recv, Handled, HandlerPanics, Closed, Leaves, Ends,
       vars, streamVars

\* An adapter keeps a sender of its own, so a stream whose addresses are all
\* dropped goes on: it yields Closed or Canceled only if an actor was closed or
\* its handler panicked (ActorStream holds a strong sender).  The runtime is not
\* actix, whose spawn_blocking panics whatever the handler does.
THEOREM FailsIfKilled == Runtime # "actix" => (Spec => []FailsOnlyIfKilled)
<1> SUFFICES ASSUME Runtime # "actix" PROVE Spec => []FailsOnlyIfKilled
  OBVIOUS
<1>1. Init => KillInv
  <2> SUFFICES ASSUME Init PROVE KillInv
    OBVIOUS
  <2>1. InHand = {} /\ NobodyGoes
    BY DEF Init, InHand, NobodyGoes
  <2>2. NothingLost /\ NoFailures
    BY DEF Init, NothingLost, NoFailures
  <2> QED BY <2>1, <2>2, InitStream DEF KillInv, HandlersRecorded
<1>2. KillInv /\ [Next]_vars => KillInv'
  <2> SUFFICES ASSUME KillInv, [Next]_vars PROVE KillInv'
    OBVIOUS
  <2>1. StreamInv' /\ HandlersRecorded'
    BY NextStream, RecordedNext DEF KillInv
  <2>2. ~Killed' => NobodyGoes' /\ NothingLost' /\ NoFailures'
    BY NobodyGoesNext, NothingLostNext, NoFailuresNext
  <2> QED BY <2>1, <2>2 DEF KillInv
<1>3. KillInv => FailsOnlyIfKilled
  BY DEF KillInv, NoFailures, FailsOnlyIfKilled, Killed, WasRun
<1> QED BY <1>1, <1>2, <1>3, PTL DEF Spec
=============================================================================
