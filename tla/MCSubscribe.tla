----------------------------- MODULE MCSubscribe ------------------------------
\* Two subscribed groups; g1 is subscribed twice for the posted type, g2 once
\* for it and once for another.
EXTENDS Subscribe, TLC

CONSTANTS g1, g2, u1, u2, u3, p1, p2

MCTo == u1 :> g1 @@ u2 :> g2 @@ u3 :> g1
MCTypeOf == u1 :> "T" @@ u2 :> "T" @@ u3 :> "W" @@ p1 :> "T" @@ p2 :> "T"
=============================================================================
