------------------------------- MODULE MCStreams ------------------------------
\* Declarations of an actor for two message types, A and B, in both macros.
EXTENDS Streams

CONSTANTS s1, s2, x1, x2, y1, y2, skip

Msg(n, f) == [kind |-> "message", name |-> n, ty |-> "R" \o n, flag |-> f]
Hnd(n, b) == [kind |-> "handler", name |-> n, ret |-> "R" \o n, body |-> b]
Mtd(n, async, b) ==
  [kind |-> "method", attr |-> "", name |-> n, async |-> async, ret |-> "R" \o n, body |-> b]
Hooked(attr, b) ==
  [kind |-> "method", attr |-> attr, name |-> "", async |-> TRUE, ret |-> "", body |-> b]

\* Handlers in either order, one of them twice, one missing.
Handlers == {<<Hnd("A", "a"), Hnd("B", "b")>>, <<Hnd("B", "b"), Hnd("A", "a")>>,
             <<Hnd("A", "a"), [kind |-> "other"], Hnd("A", "a2"), Hnd("B", "b")>>,
             <<Hnd("A", "a")>>}
Mods == {<<Msg("A", f), Msg("B", g)>> \o h :
           f \in {"none", "after"}, g \in {"none", "before", "after"}, h \in Handlers}
V2s == {<<Mtd("B", f, "b"), Hooked("on_start", "h1"), Mtd("A", g, "a"), Hooked("on_start", "h2")>> :
          f, g \in BOOLEAN}
       \cup {<<Mtd("A", TRUE, "a"), Mtd("A", TRUE, "a2"), Mtd("B", TRUE, "b")>>,
             <<Mtd("A", TRUE, "a"), Mtd("", TRUE, "b")>>}

\* All of them as plain actors, and a few with arguments that do not fit.
Program(m, d, args) == [macro |-> m, items |-> d, actor |-> args, handler |-> {}]
MCPrograms == {Program("actor_mod", d, {}) : d \in Mods}
              \cup {Program("handler_v2", d, a) : d \in V2s, a \in {{}, {"no_static"}, {"no_send"}}}
MCMsgType == [s \in Stream |-> IF s = s1 THEN "A" ELSE "B"]
MCItems == [s \in Stream |-> IF s = s1 THEN <<x1, x2>> ELSE <<y1, skip, y2>>]
=============================================================================
