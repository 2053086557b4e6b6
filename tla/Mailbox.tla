------------------------------- MODULE Mailbox --------------------------------
(***************************************************************************)
(* What a group of actors promises about the messages sent to it, whatever *)
(* happens to addresses, tasks, queue and actors: each message is handled  *)
(* at most once, by one of at most `Workers` handlers at a time; it is     *)
(* lost only if no actor is left to read it or no sender to carry it; and  *)
(* its answer is the handler's, or tells what became of the message.       *)
(* ActorCore.tla implements it.                                            *)
(***************************************************************************)
EXTENDS Naturals, FiniteSets

CONSTANTS Msg, Workers

VARIABLES fate,     \* how far each message got
          answer,   \* what its sender can learn
          deserted, \* no actor is left
          sealed    \* no sender is left

vars == <<fate, answer, deserted, sealed>>

Init == /\ fate = [m \in Msg |-> "new"]
        /\ answer = [m \in Msg |-> "none"]
        /\ deserted = FALSE
        /\ sealed = FALSE

Moves(m, from, to) == fate[m] = from /\ fate'[m] = to

\* One message's part of a step.
FateStep(m) ==
  \/ fate'[m] = fate[m]
  \/ Moves(m, "new", "pending") /\ ~sealed
  \/ Moves(m, "new", "lost") /\ deserted
  \/ Moves(m, "pending", "taken") /\ ~deserted
  \/ Moves(m, "taken", "done")
  \/ Moves(m, "taken", "crashed")
  \/ Moves(m, "pending", "lost") /\ (deserted' \/ sealed')

AnswerStep(m) ==
  LET becomes(v) == answer[m] = "open" /\ answer'[m] = v IN
  \/ answer'[m] = answer[m]
  \/ answer[m] = "none" /\ answer'[m] = "open" /\ Moves(m, "new", "pending")
  \/ answer[m] = "none" /\ answer'[m] = "closed" /\ Moves(m, "new", "lost")
  \/ becomes("abandoned") /\ fate'[m] = fate[m]
  \/ becomes("value") /\ Moves(m, "taken", "done")
  \/ becomes("canceled") /\ fate'[m] \in {"crashed", "lost"} /\ fate'[m] # fate[m]

Next ==
  /\ deserted' \in BOOLEAN /\ (deserted => deserted')
  /\ sealed' \in BOOLEAN /\ (sealed => sealed')
  /\ fate' \in [Msg -> {"new", "pending", "taken", "done", "crashed", "lost"}]
  /\ answer' \in [Msg -> {"none", "open", "abandoned", "value", "canceled", "closed"}]
  /\ \A m \in Msg : FateStep(m) /\ AnswerStep(m)
  /\ Cardinality({m \in Msg : fate'[m] = "taken"}) <= Workers

Spec == Init /\ [][Next]_vars
=============================================================================
