----------------------------- MODULE ActorState ------------------------------
(***************************************************************************)
(* actor.rs: the state shared by the actors of one address.  `active` is   *)
(* one atomic word, the number of actors in its upper bits and a shutdown  *)
(* marker in its lowest bit; `handlers` is the vector of cancel handles of *)
(* the delayed and interval tasks, behind a lock.  Tasks run on several    *)
(* threads, so the load and the compare-and-swap of modify_active, the     *)
(* check and the extend of push_handler, and the two halves of shutdown    *)
(* are separate steps.                                                     *)
(*                                                                         *)
(* A task calls inc_active when its on_start returned, push_handler while  *)
(* it handles messages, dec_active when its loop ends, and starts again    *)
(* only if dec_active returned true (context.rs, spawn_loop).              *)
(*                                                                         *)
(* ModifiedWithMarker, AnyWord, AssumedRunning and MarkerAdded are not     *)
(* part of the specification: each is an erroneous variant of the          *)
(* definition that follows it, kept to see that a property notices.        *)
(***************************************************************************)
EXTENDS Integers, FiniteSets

CONSTANTS Task,      \* the tasks running ActorContext::spawn_loop
          Closer,    \* threads that call shutdown (Address::drop)
          Handler,   \* the cancel handles the tasks create
          NoHandler  \* no handle in flight

ASSUME TaskAssumption == IsFiniteSet(Task) /\ Task \cap Closer = {}
ASSUME HandlerAssumption == NoHandler \notin Handler

MARKER == 1
UNIT == 2

\* The two readings of the word.
Marked(word) == word % 2 = MARKER
CurrentActive(word) == word \div 2

VARIABLES
  active,    \* the atomic word
  handlers,  \* handles in the vector
  cancelled, \* handles whose cancel() has been called
  status,    \* per task: out of its loop, in it, or ended for good
  pc,        \* per thread: where it is inside the operation it calls
  op,        \* per task: the operation modify_active is running for
  seen,      \* per task: the local variable `active` of modify_active
  pushing    \* per task: the handle push_handler is about to append

vars == <<active, handlers, cancelled, status, pc, op, seen, pushing>>

Idle(t) == pc[t] = "idle"
Used == handlers \cup {pushing[t] : t \in Task}

TypeOK ==
  /\ active \in Nat
  /\ handlers \subseteq Handler
  /\ cancelled \subseteq handlers
  /\ status \in [Task -> {"out", "in", "ended"}]
  /\ pc \in [Task \cup Closer -> {"idle", "cas", "extend", "cancel", "closed"}]
  /\ \A c \in Closer : pc[c] \in {"idle", "cancel", "closed"}
  /\ op \in [Task -> {"inc", "dec"}]
  /\ seen \in [Task -> Nat]
  /\ pushing \in [Task -> Handler \cup {NoHandler}]

Init ==
  /\ active = 0
  /\ handlers = {}
  /\ cancelled = {}
  /\ status = [t \in Task |-> "out"]
  /\ pc = [t \in Task \cup Closer |-> "idle"]
  /\ op = [t \in Task |-> "inc"]
  /\ seen = [t \in Task |-> 0]
  /\ pushing = [t \in Task |-> NoHandler]

------------------------------------------------------------------------------
(* modify_active: load, then compare-and-swap until it succeeds or the      *)
(* marker is seen.  compare_exchange_weak may also fail on equal words; the *)
(* retry then reloads the same word, a stuttering step.                     *)

Load(t, o) ==
  /\ Idle(t)
  /\ pc' = [pc EXCEPT ![t] = "cas"]
  /\ op' = [op EXCEPT ![t] = o]
  /\ seen' = [seen EXCEPT ![t] = active]
  /\ UNCHANGED <<active, handlers, cancelled, status, pushing>>

IncActive(t) == status[t] = "out" /\ Load(t, "inc")
DecActive(t) == status[t] = "in" /\ Load(t, "dec")

\* The closure passed to modify_active.
ModifiedWithMarker(o, word) ==
  IF o = "inc" THEN word + UNIT ELSE word - UNIT - MARKER
Modified(o, word) == IF o = "inc" THEN word + UNIT ELSE word - UNIT

\* Ok(_): the word was still the one loaded.
AnyWord(t) == TRUE
SameWord(t) == active = seen[t]

CasSucceeds(t) ==
  /\ pc[t] = "cas"
  /\ ~Marked(seen[t])
  /\ SameWord(t)
  /\ active' = Modified(op[t], seen[t])
  /\ status' = [status EXCEPT ![t] = IF op[t] = "inc" THEN "in" ELSE "out"]
  /\ pc' = [pc EXCEPT ![t] = "idle"]
  /\ UNCHANGED <<handlers, cancelled, op, seen, pushing>>

\* Err(a): someone else changed the word, go round with the new value.
CasRetries(t) ==
  /\ pc[t] = "cas"
  /\ ~Marked(seen[t])
  /\ ~SameWord(t)
  /\ seen' = [seen EXCEPT ![t] = active]
  /\ UNCHANGED <<active, handlers, cancelled, status, pc, op, pushing>>

\* The marker was loaded: return false.  inc_active's result is ignored, the
\* actor enters its loop all the same; after a false dec_active it stops.
SeesMarker(t) ==
  /\ pc[t] = "cas"
  /\ Marked(seen[t])
  /\ status' = [status EXCEPT ![t] = IF op[t] = "inc" THEN "in" ELSE "ended"]
  /\ pc' = [pc EXCEPT ![t] = "idle"]
  /\ UNCHANGED <<active, handlers, cancelled, op, seen, pushing>>

------------------------------------------------------------------------------
(* push_handler: is_running first, then the lock and the extend.  A handle  *)
(* that finds the marker set is dropped, its task runs on uncancelled.      *)

AssumedRunning == TRUE
IsRunning == ~Marked(active)

PushCheck(t, h) ==
  /\ Idle(t) /\ status[t] = "in"
  /\ h \in Handler \ Used
  /\ IsRunning
  /\ pc' = [pc EXCEPT ![t] = "extend"]
  /\ pushing' = [pushing EXCEPT ![t] = h]
  /\ UNCHANGED <<active, handlers, cancelled, status, op, seen>>

PushExtend(t) ==
  /\ pc[t] = "extend"
  /\ handlers' = handlers \cup {pushing[t]}
  /\ pushing' = [pushing EXCEPT ![t] = NoHandler]
  /\ pc' = [pc EXCEPT ![t] = "idle"]
  /\ UNCHANGED <<active, cancelled, status, op, seen>>

(* shutdown: fetch_or of the marker, then cancel every handle under the     *)
(* lock.                                                                    *)

MarkerAdded == active + MARKER
MarkerSet == IF Marked(active) THEN active ELSE active + MARKER

SetMarker(c) ==
  /\ Idle(c)
  /\ active' = MarkerSet
  /\ pc' = [pc EXCEPT ![c] = "cancel"]
  /\ UNCHANGED <<handlers, cancelled, status, op, seen, pushing>>

CancelAll(c) ==
  /\ pc[c] = "cancel"
  /\ cancelled' = handlers
  /\ pc' = [pc EXCEPT ![c] = "closed"]
  /\ UNCHANGED <<active, handlers, status, op, seen, pushing>>

Next ==
  \/ \E t \in Task : IncActive(t) \/ DecActive(t)
  \/ \E t \in Task : CasSucceeds(t) \/ CasRetries(t) \/ SeesMarker(t)
  \/ \E t \in Task : PushExtend(t) \/ \E h \in Handler : PushCheck(t, h)
  \/ \E c \in Closer : SetMarker(c) \/ CancelAll(c)

Spec == Init /\ [][Next]_vars

------------------------------------------------------------------------------
(* Properties.                                                              *)

InLoop == {t \in Task : status[t] = "in"}

\* Until shutdown, the count kept by the compare-and-swap loop is exactly the
\* number of tasks whose last inc_active returned and whose dec_active has not
\* (modify_active loses no update and never applies one twice), and the word
\* is large enough for every decrement in flight: dec_active cannot wrap.
CountExact ==
  ~Marked(active) => CurrentActive(active) = Cardinality(InLoop)

\* A task that saw the marker saw it in the word: a stale `seen` never makes
\* modify_active give up while the actors still run, so before shutdown
\* neither inc_active nor dec_active returns false.
NoEarlyRefusal ==
  ~Marked(active) => /\ \A t \in Task : ~Marked(seen[t])
                     /\ \A t \in Task : status[t] # "ended"

\* actor.rs:168: "Only push the handler if actors not shutdown."  The check and
\* the push are two steps, so a handle can still slip in after shutdown has
\* cancelled them all; but at most one per task, the one whose push_handler had
\* passed is_running when the marker was set.
Closed == \E c \in Closer : pc[c] = "closed"
EscapesBounded ==
  Closed => Cardinality(handlers \ cancelled) <= Cardinality(Task)

\* The whole object implements the abstract counter.
Abstract == INSTANCE ActiveCount WITH count <- CurrentActive(active),
                                      closing <- Marked(active)
ImplementsActiveCount == Abstract!Spec
=============================================================================
