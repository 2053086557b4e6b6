------------------------------- MODULE Dispatch -------------------------------
(***************************************************************************)
(* actix-send-macros: what #[actor_mod] and #[handler_v2] make of an       *)
(* actor's declaration, and what the generated code does.  Both generate a *)
(* message enum and a result enum with one variant per message type, From  *)
(* into the first, MapResult out of the second, and a handle method that   *)
(* dispatches on the variant.                                              *)
(*                                                                         *)
(* A declaration is the sequence of items of the module or impl block:     *)
(*   [kind |-> "message", name, ty, flag]  #[message(result = ty)] struct  *)
(*      or type; flag: `blocking` absent, after or before the result       *)
(*   [kind |-> "handler", name, ret, body] #[handler] impl                 *)
(*   [kind |-> "method", attr, name, async, ret, body]  (handler_v2); name *)
(*      is "" without a typed argument, attr one of "", "on_start",    *)
(*      "on_stop"                                                          *)
(*   [kind |-> "other"]                                                    *)
(* and a program is [macro, items, actor, handler]: with the arguments of  *)
(* #[actor] and of #[handler_v2].                                          *)
(* Types are names; tokens, paths and generics are left out, and so is the *)
(* copying of attributes.                                                  *)
(*                                                                         *)
(* LastHandler is not part of the specification, but an erroneous variant  *)
(* of HandlerFor, kept to see that a property notices.                     *)
(***************************************************************************)
EXTENDS Naturals, Sequences

CONSTANTS
  NamedBlocking,  \* types whose own name contains the word "blocking"
  Chopped,        \* what is left of such a name without its last 9 characters
  Runtime,        \* "tokio", "async_std" or "actix", chosen by a feature
  Mpsc            \* feature actix-runtime-mpsc: the traits ask for no Send

ASSUME RuntimeAssumption ==
  Runtime \in {"tokio", "async_std", "actix"} /\ Mpsc \in BOOLEAN

\* The items of a kind keep their places in the declaration: the lists the
\* macros make of them are in its order, with gaps where other items are.
OfKind(d, k) == [i \in {j \in DOMAIN d : d[j].kind = k} |-> d[i]]

\* The enum's variant, a path's first segment, an impl's type: all are the
\* message's name.
Named(s, n) == {i \in DOMAIN s : s[i].name = n}
First(S) == CHOOSE i \in S : \A j \in S : i <= j
Last(S) == CHOOSE i \in S : \A j \in S : i >= j

------------------------------------------------------------------------------
(* #[actor_mod]                                                             *)

\* The attribute's text after its last `=`: a flag before the result is not
\* seen, and a result type that is named so is taken for one.
IsBlocking(item) == item.flag = "after" \/ item.ty \in NamedBlocking
ResultType(item) ==
  IF item.flag # "after" /\ IsBlocking(item) THEN Chopped ELSE item.ty

MessageParams(d) ==
  LET ms == OfKind(d, "message") IN
  [i \in DOMAIN ms |->
     [name |-> ms[i].name, ty |-> ResultType(ms[i]), blocking |-> IsBlocking(ms[i])]]

ModVariants(ps) ==
  [i \in DOMAIN ps |-> [name |-> ps[i].name,
     field |-> IF ps[i].blocking THEN <<"Result", ps[i].ty>> ELSE <<"plain", ps[i].ty>>]]

ModFrom(ps) == [i \in DOMAIN ps |-> [name |-> ps[i].name, variant |-> ps[i].name]]

ModMap(ps) ==
  [i \in DOMAIN ps |-> [name |-> ps[i].name, variant |-> ps[i].name,
                        wraps |-> ~ps[i].blocking]]

\* The first handler of the message's type; further ones are discarded.
LastHandler(hs, n) == hs[Last(Named(hs, n))]
HandlerFor(hs, n) == hs[First(Named(hs, n))]

ModArms(ps, hs) ==
  [i \in DOMAIN ps |->
     [name |-> ps[i].name, body |-> HandlerFor(hs, ps[i].name).body,
      ret |-> HandlerFor(hs, ps[i].name).ret, blocking |-> ps[i].blocking]]

\* The expansion panics if a message has no handler.  The life cycle hooks
\* are empty whatever the module contains.
ModExpands(d) ==
  \A i \in DOMAIN MessageParams(d) :
    Named(OfKind(d, "handler"), MessageParams(d)[i].name) # {}
ActorMod(d) ==
  LET ps == MessageParams(d) IN
  [variants |-> ModVariants(ps), from |-> ModFrom(ps), map |-> ModMap(ps),
   arms |-> ModArms(ps, OfKind(d, "handler")), on_start |-> <<>>, on_stop |-> <<>>]

------------------------------------------------------------------------------
(* #[handler_v2]                                                            *)

\* Every method that is not a hook handles the type of its first typed argument.
HandleMethods(d) ==
  [i \in {j \in DOMAIN d : d[j].kind = "method" /\ d[j].attr = ""} |-> d[i]]

EnumVariants(is) ==
  [i \in DOMAIN is |-> [name |-> is[i].name,
     field |-> IF is[i].async THEN <<"plain", is[i].ret>> ELSE <<"Result", is[i].ret>>]]

FromTrait(is) == [i \in DOMAIN is |-> [name |-> is[i].name, variant |-> is[i].name]]

MapResultTrait(is) ==
  [i \in DOMAIN is |-> [name |-> is[i].name, variant |-> is[i].name, wraps |-> is[i].async]]

HandlerTrait(is) ==
  [i \in DOMAIN is |-> [name |-> is[i].name, body |-> is[i].body, ret |-> is[i].ret,
                        blocking |-> ~is[i].async]]

\* The last method with the attribute.
Hook(d, attr) ==
  LET at == {i \in DOMAIN d : d[i].kind = "method" /\ d[i].attr = attr} IN
  IF at = {} THEN <<>> ELSE <<d[Last(at)].body>>

V2Expands(d) == \A i \in DOMAIN HandleMethods(d) : HandleMethods(d)[i].name # ""
HandlerV2(d) ==
  LET is == HandleMethods(d) IN
  [variants |-> EnumVariants(is), from |-> FromTrait(is), map |-> MapResultTrait(is),
   arms |-> HandlerTrait(is), on_start |-> Hook(d, "on_start"), on_stop |-> Hook(d, "on_stop")]

Expands(p) == IF p.macro = "actor_mod" THEN ModExpands(p.items) ELSE V2Expands(p.items)
Expansion(p) == IF p.macro = "actor_mod" THEN ActorMod(p.items) ELSE HandlerV2(p.items)

\* #[actor]: a dynamic-only actor (no_static) has () for message and result and
\* runs no hook; the others run what the handler macro generated.  no_send
\* takes the Send bound off the hooks.
ActorImpl(args, e) ==
  IF "no_static" \in args
  THEN [message |-> "()", send |-> TRUE, on_start |-> <<>>, on_stop |-> <<>>]
  ELSE [message |-> "enum", send |-> "no_send" \notin args,
        on_start |-> e.on_start, on_stop |-> e.on_stop]

\* #[handler] on the generated impl: async_trait, with or without Send;
\* #[actor_mod] passes no argument on.
HandlerSends(p) == p.macro = "actor_mod" \/ "no_send" \notin p.handler

\* What the compiler then insists on: variants and impls are not repeated, a
\* handler's body has the type its variant holds, and both traits are
\* implemented as this build declares them, for the generated enums.
Compiles(p) ==
  LET e == Expansion(p) IN
  /\ \A i, j \in DOMAIN e.variants :
       /\ e.variants[i].name = e.variants[j].name => i = j
       /\ e.arms[i].ret = e.variants[i].field[2]
  /\ ActorImpl(p.actor, e).message = "enum"
  /\ ActorImpl(p.actor, e).send = ~Mpsc /\ HandlerSends(p) = ~Mpsc

------------------------------------------------------------------------------
(* The generated code at run time.  A handler's own result is [by, of]: the *)
(* body that ran and the message it ran on.                                 *)

Own(body, m) == [by |-> body, of |-> m]
Ok(v) == [ok |-> v]
Err(e) == [err |-> e]
Panic == [panic |-> TRUE]

\* From<M> for the message enum, for a message m of type n.
Into(e, n, m) == [variant |-> e.from[First(Named(e.from, n))].variant, msg |-> m]

\* runtime::spawn_blocking: a panic is an error on tokio and goes through on
\* async-std; actix panics before it runs anything.
SpawnBlocking(body, m, panics) ==
  CASE Runtime = "actix" -> Panic
    [] Runtime = "async_std" -> IF panics THEN Panic ELSE Ok(Own(body, m))
    [] Runtime = "tokio" -> IF panics THEN Err("Blocking") ELSE Ok(Own(body, m))

\* Handler::handle: the value inside the result enum, or a panic of the actor.
RunArm(arm, m, panics) ==
  IF arm.blocking THEN SpawnBlocking(arm.body, m, panics)
  ELSE IF panics THEN Panic ELSE Own(arm.body, m)
Handle(e, v, panics) ==
  [variant |-> v.variant,
   val |-> RunArm(e.arms[First(Named(e.arms, v.variant))], v.msg, panics)]

\* MapResult::map of message type n; any other variant is unreachable!().
MapResult(e, n, r) ==
  LET impl == e.map[First(Named(e.map, n))] IN
  IF r.variant # impl.variant THEN Panic
  ELSE IF impl.wraps THEN Ok(r.val) ELSE r.val

------------------------------------------------------------------------------
(* What the declaration asks for, said without the generated code.          *)

Messages(p) ==
  {p.items[i].name : i \in
     {j \in DOMAIN p.items : \/ p.items[j].kind = "message"
                             \/ p.items[j].kind = "method" /\ p.items[j].attr = ""}}

\* The bodies written for a message type.
Written(p, n) ==
  {p.items[i].body : i \in
     {j \in DOMAIN p.items : \/ p.items[j].kind = "handler" /\ p.items[j].name = n
                             \/ /\ p.items[j].kind = "method" /\ p.items[j].attr = ""
                                /\ p.items[j].name = n}}

Hooks(p, attr) ==
  {p.items[i].body : i \in
     {j \in DOMAIN p.items : p.items[j].kind = "method" /\ p.items[j].attr = attr}}
IsOneOf(hook, S) == IF S = {} THEN hook = <<>> ELSE \E b \in S : hook = <<b>>

RoundTrip(p, n, m) ==
  LET e == Expansion(p) IN MapResult(e, n, Handle(e, Into(e, n, m), FALSE))

\* A message comes back as the result of a handler written for its own type on
\* that message, wrapped in Ok exactly once, blocking or not, and not through a
\* branch that is marked unreachable.
OwnHandler(p, n, m) ==
  \E b \in Written(p, n) :
    RoundTrip(p, n, m) = Ok(Own(b, m)) \/ (Runtime = "actix" /\ RoundTrip(p, n, m) = Panic)

\* The same declaration for the other macro: handlers in the order of the
\* messages, `blocking` written as a method that is not async.
AsMethods(d) ==
  LET ms == OfKind(d, "message") hs == OfKind(d, "handler") IN
  [i \in DOMAIN ms |->
     [kind |-> "method", attr |-> "", name |-> ms[i].name, ret |-> ms[i].ty,
      async |-> ~IsBlocking(ms[i]), body |-> hs[First(Named(hs, ms[i].name))].body]]
=============================================================================
