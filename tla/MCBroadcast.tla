----------------------------- MODULE MCBroadcast ------------------------------
\* Broadcast on a small instance.
EXTENDS Broadcast
=============================================================================
