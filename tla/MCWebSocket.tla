------------------------------ MODULE MCWebSocket -----------------------------
EXTENDS WebSocket

CONSTANT none

\* A good request and, for each check, one that fails it and the next ones.
Request(n, version, offers) ==
  [method |-> IF n = 1 THEN "POST" ELSE "GET", header |-> n \notin {1, 2},
   upgrade |-> n \notin {2, 3}, version |-> version, key |-> n \notin {5, 6}, offers |-> offers]
MCRequests == {Request(n, "", <<>>) : n \in 1 .. 4} \cup {Request(5, "6", <<"p2">>)}
              \cup {Request(6, "13", <<"p2">>)}
              \cup {Request(7, v, <<"p1", "p2", "p3">>) : v \in {"13"}}
\* Either the heartbeat or the program's messages have the larger bounds.
MCMaxFrames == [h \in {2, none} |-> IF h = none THEN 1 ELSE 2]
MCMaxPushes == [h \in {2, none} |-> IF h = none THEN 2 ELSE 0]
MCKnown == <<"p3", "p2">>
=============================================================================
