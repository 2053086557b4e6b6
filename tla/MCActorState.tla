---------------------------- MODULE MCActorState -----------------------------
\* ActorState on a small instance.
EXTENDS ActorState, TLC

Symmetry == Permutations(Task) \cup Permutations(Handler)
=============================================================================
