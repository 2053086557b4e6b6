----------------------------- MODULE MCActorCore ------------------------------
\* ActorCore on small instances; the .cfg files choose the messages, the
\* builder's configuration and the properties.
EXTENDS ActorCore
=============================================================================
