----------------------------- MODULE ActiveCount -----------------------------
(***************************************************************************)
(* What `ActorState::active` promises to the rest of actix_send: a count   *)
(* of the actors inside their message loop, and a switch that freezes the  *)
(* count for good.  Entering, leaving and closing are single steps here;   *)
(* ActorState.tla implements them with one atomic word and a               *)
(* compare-and-swap loop, and ActorCore.tla is built on this interface.    *)
(***************************************************************************)
EXTENDS Naturals

VARIABLES count,   \* actors that entered their loop and have not left it
          closing  \* shutdown() has run: the count never changes again

vars == <<count, closing>>

Init == count = 0 /\ closing = FALSE

\* inc_active() returns true.
Enter == ~closing /\ count' = count + 1 /\ UNCHANGED closing

\* dec_active() returns true.
Leave == ~closing /\ count > 0 /\ count' = count - 1 /\ UNCHANGED closing

\* The first step of shutdown(); calling it again changes nothing.
Close == closing' = TRUE /\ UNCHANGED count

Next == Enter \/ Leave \/ Close

Spec == Init /\ [][Next]_vars
=============================================================================
