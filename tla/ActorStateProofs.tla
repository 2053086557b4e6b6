-------------------------- MODULE ActorStateProofs ---------------------------
(***************************************************************************)
(* Theorems about ActorState.tla for any number of tasks, closers and      *)
(* handles.  The inductive invariant adds to the type invariant what ties  *)
(* the control state of a task to its local variables.                     *)
(***************************************************************************)
EXTENDS ActorState, FiniteSetTheorems, TLAPS

\* Where a task stands in modify_active and push_handler.
Control ==
  /\ \A t \in Task : pc[t] \in {"idle", "cas", "extend"}
  /\ \A t \in Task : pc[t] = "cas" =>
       status[t] = IF op[t] = "inc" THEN "out" ELSE "in"
  /\ \A t \in Task : pc[t] = "extend" => pushing[t] \in Handler
  /\ \A c \in Closer : pc[c] # "idle" => Marked(active)

IInv == TypeOK /\ Control /\ CountExact /\ NoEarlyRefusal

\* The two readings of the word under the three changes made to it.
LEMMA Word ==
  ASSUME NEW w \in Nat
  PROVE  /\ CurrentActive(w) \in Nat
         /\ CurrentActive(w + UNIT) = CurrentActive(w) + 1
         /\ Marked(w + UNIT) = Marked(w)
         /\ CurrentActive(w) > 0 => /\ w - UNIT \in Nat
                                    /\ CurrentActive(w - UNIT) = CurrentActive(w) - 1
                                    /\ Marked(w - UNIT) = Marked(w)
         /\ ~Marked(w) => /\ Marked(w + MARKER)
                          /\ CurrentActive(w + MARKER) = CurrentActive(w)
  BY SMTT(30) DEF CurrentActive, Marked, UNIT, MARKER

\* A task in its loop is counted, so the count a dec_active subtracts from is
\* positive.
LEMMA Positive ==
  ASSUME TypeOK, NEW t \in Task, status[t] = "in"
  PROVE  Cardinality(InLoop) > 0
<1>1. IsFiniteSet(InLoop)
  BY TaskAssumption, FS_Subset DEF InLoop
<1>2. t \in InLoop
  BY DEF InLoop
<1> QED BY <1>1, <1>2, FS_EmptySet, FS_CardinalityType

LEMMA InitInv == Init => IInv
<1> SUFFICES ASSUME Init PROVE IInv
  OBVIOUS
<1>1. TypeOK
  BY DEF Init, TypeOK
<1>2. Control
  BY TaskAssumption DEF Init, Control
<1>3. ~Marked(active) /\ CurrentActive(active) = 0
  BY DEF Init, Marked, MARKER, CurrentActive
<1>4. InLoop = {}
  BY DEF Init, InLoop
<1>5. CountExact
  BY <1>3, <1>4, FS_EmptySet DEF CountExact
<1>6. NoEarlyRefusal
  BY <1>3 DEF Init, NoEarlyRefusal
<1> QED BY <1>1, <1>2, <1>5, <1>6 DEF IInv

LEMMA NextInv == IInv /\ [Next]_vars => IInv'
<1> SUFFICES ASSUME IInv, [Next]_vars PROVE IInv'
  OBVIOUS
<1> USE DEF IInv
<1>1. ASSUME NEW t \in Task, NEW o \in {"inc", "dec"}, Load(t, o),
             status[t] = IF o = "inc" THEN "out" ELSE "in"
      PROVE  IInv'
  <2>1. TypeOK'
    BY <1>1, TaskAssumption DEF Load, Idle, TypeOK
  <2>2. Control'
    BY <1>1, TaskAssumption DEF Load, Idle, TypeOK, Control
  <2>3. CountExact'
    BY <1>1 DEF Load, CountExact, InLoop
  <2>4. NoEarlyRefusal'
    BY <1>1 DEF Load, TypeOK, NoEarlyRefusal
  <2> QED BY <2>1, <2>2, <2>3, <2>4
<1>2. ASSUME NEW t \in Task, CasSucceeds(t) PROVE IInv'
  <2>1. active \in Nat /\ ~Marked(active) /\ active = seen[t]
    BY <1>2 DEF CasSucceeds, SameWord, TypeOK
  <2>2. CASE op[t] = "inc"
    <3>1. active' = active + UNIT /\ status[t] = "out"
      BY <1>2, <2>1, <2>2 DEF CasSucceeds, Modified, Control
    <3>2. InLoop' = InLoop \cup {t} /\ t \notin InLoop
      BY <1>2, <2>2, <3>1 DEF CasSucceeds, InLoop, TypeOK
    <3>3. Cardinality(InLoop') = Cardinality(InLoop) + 1
      BY <3>2, TaskAssumption, FS_Subset, FS_AddElement DEF InLoop
    <3>4. CountExact'
      BY <2>1, <3>1, <3>3, Word DEF CountExact
    <3>5. TypeOK'
      BY <1>2, <2>1, <3>1, Word, TaskAssumption DEF CasSucceeds, TypeOK, UNIT
    <3>6. Control'
      BY <1>2, <2>1, <3>1, TaskAssumption, Word DEF CasSucceeds, TypeOK, Control
    <3>7. NoEarlyRefusal'
      BY <1>2, <2>1, <2>2, <3>1, Word DEF CasSucceeds, TypeOK, NoEarlyRefusal
    <3> QED BY <3>4, <3>5, <3>6, <3>7
  <2>3. CASE op[t] = "dec"
    <3>1. active' = active - UNIT /\ status[t] = "in"
      BY <1>2, <2>1, <2>3 DEF CasSucceeds, Modified, Control
    <3>2. CurrentActive(active) > 0
      BY <2>1, <3>1, Positive DEF CountExact
    <3>3. InLoop' = InLoop \ {t} /\ t \in InLoop
      BY <1>2, <2>3, <3>1 DEF CasSucceeds, InLoop, TypeOK
    <3>4. Cardinality(InLoop') = Cardinality(InLoop) - 1
      BY <3>3, TaskAssumption, FS_Subset, FS_RemoveElement DEF InLoop
    <3>5. CountExact'
      BY <2>1, <3>1, <3>2, <3>4, Word DEF CountExact
    <3>6. TypeOK'
      BY <1>2, <2>1, <3>1, <3>2, Word, TaskAssumption DEF CasSucceeds, TypeOK
    <3>7. Control'
      BY <1>2, <2>1, <3>1, <3>2, TaskAssumption, Word
      DEF CasSucceeds, TypeOK, Control
    <3>8. NoEarlyRefusal'
      BY <1>2, <2>1, <2>3, <3>1, <3>2, Word DEF CasSucceeds, TypeOK, NoEarlyRefusal
    <3> QED BY <3>5, <3>6, <3>7, <3>8
  <2> QED BY <2>2, <2>3 DEF TypeOK
<1>3. ASSUME NEW t \in Task, CasRetries(t) PROVE IInv'
  <2>1. TypeOK'
    BY <1>3, TaskAssumption DEF CasRetries, TypeOK
  <2>2. Control'
    BY <1>3 DEF CasRetries, TypeOK, Control
  <2>3. CountExact' /\ NoEarlyRefusal'
    BY <1>3 DEF CasRetries, TypeOK, CountExact, NoEarlyRefusal, InLoop
  <2> QED BY <2>1, <2>2, <2>3
<1>4. ASSUME NEW t \in Task, SeesMarker(t) PROVE IInv'
  <2>1. Marked(active) /\ active' = active
    BY <1>4 DEF SeesMarker, NoEarlyRefusal
  <2>2. TypeOK'
    BY <1>4, TaskAssumption DEF SeesMarker, TypeOK
  <2>3. Control'
    BY <1>4, <2>1, TaskAssumption DEF SeesMarker, TypeOK, Control
  <2> QED BY <2>1, <2>2, <2>3 DEF CountExact, NoEarlyRefusal
<1>5. ASSUME NEW t \in Task, NEW h \in Handler, PushCheck(t, h) PROVE IInv'
  <2>1. TypeOK'
    BY <1>5, TaskAssumption DEF PushCheck, TypeOK
  <2>2. Control'
    BY <1>5, TaskAssumption DEF PushCheck, Idle, TypeOK, Control
  <2>3. CountExact' /\ NoEarlyRefusal'
    BY <1>5 DEF PushCheck, CountExact, NoEarlyRefusal, InLoop
  <2> QED BY <2>1, <2>2, <2>3
<1>6. ASSUME NEW t \in Task, PushExtend(t) PROVE IInv'
  <2>1. TypeOK'
    BY <1>6, TaskAssumption DEF PushExtend, TypeOK, Control
  <2>2. Control'
    BY <1>6, TaskAssumption DEF PushExtend, TypeOK, Control
  <2>3. CountExact' /\ NoEarlyRefusal'
    BY <1>6 DEF PushExtend, CountExact, NoEarlyRefusal, InLoop
  <2> QED BY <2>1, <2>2, <2>3
<1>7. ASSUME NEW c \in Closer, SetMarker(c) PROVE IInv'
  <2>1. active' \in Nat /\ Marked(active')
    BY <1>7, Word DEF SetMarker, MarkerSet, TypeOK, MARKER
  <2>2. TypeOK'
    BY <1>7, <2>1, TaskAssumption DEF SetMarker, MarkerSet, TypeOK
  <2>3. Control'
    BY <1>7, <2>1, TaskAssumption DEF SetMarker, MarkerSet, TypeOK, Control
  <2> QED BY <2>1, <2>2, <2>3 DEF CountExact, NoEarlyRefusal
<1>8. ASSUME NEW c \in Closer, CancelAll(c) PROVE IInv'
  <2>1. TypeOK'
    BY <1>8, TaskAssumption DEF CancelAll, TypeOK
  <2>2. Control'
    BY <1>8, TaskAssumption DEF CancelAll, TypeOK, Control
  <2>3. CountExact' /\ NoEarlyRefusal'
    BY <1>8 DEF CancelAll, CountExact, NoEarlyRefusal, InLoop
  <2> QED BY <2>1, <2>2, <2>3
<1>9. CASE UNCHANGED vars
  BY <1>9 DEF vars, TypeOK, Control, CountExact, NoEarlyRefusal, InLoop
<1> QED
  BY <1>1, <1>2, <1>3, <1>4, <1>5, <1>6, <1>7, <1>8, <1>9
  DEF Next, IncActive, DecActive

\* actor.rs, ActorState: the invariant the following theorems rest on.
THEOREM Invariant == Spec => []IInv
  BY InitInv, NextInv, PTL DEF Spec

\* modify_active loses no update: until shutdown the count is the number of
\* tasks in their loop, for any number of tasks.
THEOREM CountIsExact == Spec => []CountExact
  BY Invariant, PTL DEF IInv

\* Before shutdown neither inc_active nor dec_active returns false.
THEOREM NothingRefusedEarly == Spec => []NoEarlyRefusal
  BY Invariant, PTL DEF IInv

------------------------------------------------------------------------------
(* The word implements the abstract counter.  Only the compare-and-swap and *)
(* the marker move it; Leave is enabled because a decrementing task is      *)
(* counted.                                                                 *)

LEMMA InitRefines == Init => Abstract!Init
  BY DEF Init, Abstract!Init, CurrentActive, Marked, MARKER

LEMMA NextRefines == IInv /\ [Next]_vars => [Abstract!Next]_Abstract!vars
<1> SUFFICES ASSUME IInv, [Next]_vars PROVE [Abstract!Next]_Abstract!vars
  OBVIOUS
<1> USE DEF IInv, Abstract!Next, Abstract!vars
<1>1. CASE UNCHANGED active
  BY <1>1
<1>2. ASSUME NEW t \in Task, CasSucceeds(t) PROVE Abstract!Next
  <2>1. active \in Nat /\ ~Marked(active)
    BY <1>2 DEF CasSucceeds, SameWord, TypeOK
  <2>2. CASE op[t] = "inc"
    <3>1. active' = active + UNIT
      BY <1>2, <2>2 DEF CasSucceeds, SameWord, Modified
    <3>2. Abstract!Enter
      BY <2>1, <3>1, Word DEF Abstract!Enter
    <3> QED BY <3>2
  <2>3. CASE op[t] = "dec"
    <3>1. active' = active - UNIT /\ status[t] = "in"
      BY <1>2, <2>3 DEF CasSucceeds, SameWord, Modified, Control
    <3>2. CurrentActive(active) > 0
      BY <2>1, <3>1, Positive DEF CountExact
    <3>3. Abstract!Leave
      BY <2>1, <3>1, <3>2, Word DEF Abstract!Leave
    <3> QED BY <3>3
  <2> QED BY <1>2, <2>2, <2>3 DEF TypeOK
<1>3. ASSUME NEW c \in Closer, SetMarker(c) PROVE Abstract!Next
  <2>1. /\ Marked(active')
        /\ CurrentActive(active') = CurrentActive(active)
    BY <1>3, Word DEF SetMarker, MarkerSet, TypeOK
  <2>2. Abstract!Close
    BY <2>1 DEF Abstract!Close
  <2> QED BY <2>2
<1>4. ASSUME NEW t \in Task, IncActive(t) \/ DecActive(t) PROVE UNCHANGED active
  BY <1>4 DEF IncActive, DecActive, Load
<1>5. ASSUME NEW t \in Task, CasRetries(t) \/ SeesMarker(t) PROVE UNCHANGED active
  BY <1>5 DEF CasRetries, SeesMarker
<1>6. ASSUME NEW t \in Task, PushExtend(t) PROVE UNCHANGED active
  BY <1>6 DEF PushExtend
<1>7. ASSUME NEW t \in Task, NEW h \in Handler, PushCheck(t, h)
      PROVE  UNCHANGED active
  BY <1>7 DEF PushCheck
<1>8. ASSUME NEW c \in Closer, CancelAll(c) PROVE UNCHANGED active
  BY <1>8 DEF CancelAll
<1> QED
  BY <1>1, <1>2, <1>3, <1>4, <1>5, <1>6, <1>7, <1>8 DEF Next, vars

\* modify_active, current_active and the fetch_or of shutdown, with all their
\* interleavings, behave as the one-step counter of ActiveCount.
THEOREM ImplementsCounter == Spec => ImplementsActiveCount
  BY InitRefines, NextRefines, Invariant, PTL
  DEF Spec, ImplementsActiveCount, Abstract!Spec

------------------------------------------------------------------------------
(* Handles that escape a shutdown.                                          *)

Extending == {t \in Task : pc[t] = "extend"}
Escaped == handlers \ cancelled

\* Each handle that slips in uses up one push that was past its check.
EInv == /\ IsFiniteSet(Escaped)
        /\ Closed => Cardinality(Escaped) + Cardinality(Extending)
                       <= Cardinality(Task)

LEMMA ExtendingBound ==
  /\ IsFiniteSet(Extending)
  /\ Cardinality(Extending) \in Nat
  /\ Cardinality(Task) \in Nat
  /\ Cardinality(Extending) <= Cardinality(Task)
  BY TaskAssumption, FS_Subset, FS_CardinalityType DEF Extending

LEMMA OneMore ==
  ASSUME NEW S, NEW x, IsFiniteSet(S)
  PROVE  /\ IsFiniteSet(S \cup {x})
         /\ Cardinality(S \cup {x}) <= Cardinality(S) + 1
<1>1. Cardinality(S) \in Nat
  BY FS_CardinalityType
<1>2. CASE x \in S
  <2>1. IsFiniteSet(S \cup {x}) /\ Cardinality(S \cup {x}) = Cardinality(S)
    BY <1>2, FS_AddElement
  <2> QED BY <1>1, <2>1
<1>3. CASE x \notin S
  <2>1. IsFiniteSet(S \cup {x}) /\ Cardinality(S \cup {x}) = Cardinality(S) + 1
    BY <1>3, FS_AddElement
  <2> QED BY <1>1, <2>1
<1> QED BY <1>2, <1>3

LEMMA EscapeStep == IInv /\ IInv' /\ EInv /\ [Next]_vars => EInv'
<1> SUFFICES ASSUME IInv, IInv', EInv, [Next]_vars PROVE EInv'
  OBVIOUS
<1> USE DEF IInv
<1>0. /\ TaskAssumption
      /\ Cardinality(Escaped) \in Nat
      /\ Closed => Marked(active)
  BY TaskAssumption, FS_CardinalityType DEF EInv, Closed, Control
<1>1. ASSUME UNCHANGED <<handlers, cancelled>>, Extending' = Extending,
             Closed' = Closed
      PROVE  EInv'
  BY <1>1 DEF EInv, Escaped
<1>2. ASSUME NEW t \in Task, IncActive(t) \/ DecActive(t) PROVE EInv'
  <2>1. Extending' = Extending /\ Closed' = Closed
    BY <1>2, TaskAssumption
    DEF IncActive, DecActive, Load, Idle, Extending, Closed, TypeOK
  <2> QED BY <1>1, <1>2, <2>1 DEF IncActive, DecActive, Load
<1>3. ASSUME NEW t \in Task, CasSucceeds(t) \/ SeesMarker(t) PROVE EInv'
  <2>1. Extending' = Extending /\ Closed' = Closed
    BY <1>3, TaskAssumption DEF CasSucceeds, SeesMarker, Extending, Closed, TypeOK
  <2> QED BY <1>1, <1>3, <2>1 DEF CasSucceeds, SeesMarker
<1>4. ASSUME NEW t \in Task, CasRetries(t) PROVE EInv'
  BY <1>1, <1>4 DEF CasRetries, Extending, Closed
<1>5. ASSUME NEW t \in Task, NEW h \in Handler, PushCheck(t, h) PROVE EInv'
  <2>1. ~Closed /\ Closed' = Closed
    BY <1>0, <1>5, TaskAssumption DEF PushCheck, IsRunning, Closed, TypeOK
  <2> QED BY <1>5, <2>1 DEF PushCheck, EInv, Escaped
<1>6. ASSUME NEW t \in Task, PushExtend(t) PROVE EInv'
  <2>1. Extending' = Extending \ {t} /\ t \in Extending
    BY <1>6 DEF PushExtend, Extending, TypeOK
  <2>2. Cardinality(Extending') = Cardinality(Extending) - 1
    BY <2>1, ExtendingBound, FS_RemoveElement
  <2>3. Escaped' \subseteq Escaped \cup {pushing[t]}
    BY <1>6 DEF PushExtend, Escaped
  <2>4. /\ IsFiniteSet(Escaped \cup {pushing[t]})
        /\ Cardinality(Escaped \cup {pushing[t]}) <= Cardinality(Escaped) + 1
    BY <1>0, OneMore DEF EInv
  <2>5. /\ IsFiniteSet(Escaped')
        /\ Cardinality(Escaped') <= Cardinality(Escaped) + 1
    BY <1>0, <2>3, <2>4, FS_Subset, FS_CardinalityType
  <2>6. Closed' = Closed
    BY <1>6, TaskAssumption DEF PushExtend, Closed, TypeOK
  <2>7. Cardinality(Escaped') \in Nat
    BY <2>5, FS_CardinalityType
  <2> QED BY <1>0, <2>2, <2>5, <2>6, <2>7, ExtendingBound DEF EInv
<1>7. ASSUME NEW c \in Closer, SetMarker(c) PROVE EInv'
  <2>1. Extending' = Extending /\ Closed' = Closed
    BY <1>7, TaskAssumption DEF SetMarker, MarkerSet, Idle, Extending, Closed, TypeOK
  <2> QED BY <1>1, <1>7, <2>1 DEF SetMarker, MarkerSet
<1>8. ASSUME NEW c \in Closer, CancelAll(c) PROVE EInv'
  <2>1. Escaped' = {} /\ Extending' = Extending
    BY <1>8, TaskAssumption DEF CancelAll, Escaped, Extending, TypeOK
  <2> QED BY <2>1, ExtendingBound, FS_EmptySet DEF EInv
<1>9. CASE UNCHANGED vars
  BY <1>1, <1>9 DEF vars, Extending, Closed
<1> QED
  BY <1>2, <1>3, <1>4, <1>5, <1>6, <1>7, <1>8, <1>9 DEF Next

LEMMA EscapeInit == Init => EInv
<1> SUFFICES ASSUME Init PROVE EInv
  OBVIOUS
<1>1. Escaped = {} /\ ~Closed
  BY DEF Init, Escaped, Closed
<1> QED BY <1>1, FS_EmptySet DEF EInv

\* push_handler against shutdown: however often the two race, at most one
\* handle per task survives a shutdown uncancelled.
THEOREM EscapesAreBounded == Spec => []EscapesBounded
<1>1. IInv /\ EInv => EscapesBounded
  <2> SUFFICES ASSUME EInv, Closed
               PROVE  Cardinality(handlers \ cancelled) <= Cardinality(Task)
    BY DEF EscapesBounded
  <2> QED BY ExtendingBound, FS_CardinalityType DEF EInv, Escaped
<1> QED BY <1>1, Invariant, EscapeInit, EscapeStep, PTL DEF Spec

=============================================================================
