-------------------------------- MODULE Queues --------------------------------
(***************************************************************************)
(* What a channel without duplicates contains after a send and a receive:  *)
(* the lemmas about sequences that the proofs about mailboxes share.       *)
(***************************************************************************)
EXTENDS Naturals, Sequences, FiniteSets, Functions, SequenceTheorems,
        FiniteSetTheorems, WellFoundedInduction, TLAPS

\* Sending a message that is not queued yet.
LEMMA AppendOne ==
  ASSUME NEW S, NEW q \in Seq(S), IsInjective(q), NEW x \in S, x \notin Range(q)
  PROVE  IsInjective(Append(q, x)) /\ Range(Append(q, x)) = Range(q) \cup {x}
<1> DEFINE p == Append(q, x)
<1>1. /\ p \in Seq(S) /\ Len(p) = Len(q) + 1 /\ Len(q) \in Nat
      /\ \A i \in 1 .. Len(q) : p[i] = q[i]
      /\ p[Len(q) + 1] = x
  BY AppendProperties
<1>2. DOMAIN p = 1 .. Len(q) + 1 /\ DOMAIN q = 1 .. Len(q)
  BY <1>1
<1>3. ASSUME NEW i \in DOMAIN p, NEW j \in DOMAIN p, p[i] = p[j] PROVE i = j
  <2>1. \A k \in 1 .. Len(q) : q[k] # x
    BY <1>2 DEF Range
  <2>2. CASE i \in 1 .. Len(q) /\ j \in 1 .. Len(q)
    BY <1>1, <1>2, <1>3, <2>2 DEF IsInjective
  <2>3. CASE i \notin 1 .. Len(q) \/ j \notin 1 .. Len(q)
    BY <1>1, <1>2, <1>3, <2>1, <2>3
  <2> QED BY <2>2, <2>3
<1>4. Range(p) = Range(q) \cup {x}
  <2>1. ASSUME NEW y \in Range(p) PROVE y \in Range(q) \cup {x}
    <3>1. PICK i \in 1 .. Len(q) + 1 : y = p[i]
      BY <1>2, <2>1 DEF Range
    <3>2. CASE i \in 1 .. Len(q)
      BY <1>1, <1>2, <3>1, <3>2 DEF Range
    <3>3. CASE i = Len(q) + 1
      BY <1>1, <3>1, <3>3
    <3> QED BY <1>1, <3>1, <3>2, <3>3
  <2>2. ASSUME NEW y \in Range(q) PROVE y \in Range(p)
    <3>1. PICK i \in 1 .. Len(q) : y = q[i]
      BY <1>2, <2>2 DEF Range
    <3>2. i \in 1 .. Len(q) + 1 /\ p[i] = y
      BY <1>1, <3>1
    <3> QED BY <1>2, <3>2 DEF Range
  <2>3. x \in Range(p)
    <3>1. Len(q) + 1 \in 1 .. Len(q) + 1 /\ p[Len(q) + 1] = x
      BY <1>1
    <3> QED BY <1>2, <3>1 DEF Range
  <2> QED BY <2>1, <2>2, <2>3
<1> QED BY <1>3, <1>4 DEF IsInjective

\* Receiving the oldest.
LEMMA TakeOne ==
  ASSUME NEW S, NEW q \in Seq(S), IsInjective(q), q # <<>>
  PROVE  /\ IsInjective(Tail(q)) /\ Range(Tail(q)) = Range(q) \ {Head(q)}
         /\ Head(q) \in Range(q)
<1> DEFINE p == Tail(q)
<1>1. /\ Len(q) \in Nat /\ Len(q) > 0 /\ Len(p) = Len(q) - 1
      /\ \A i \in 1 .. Len(p) : p[i] = q[i + 1]
      /\ Head(q) = q[1]
      /\ p \in Seq(S)
  BY HeadTailProperties
<1>2. DOMAIN q = 1 .. Len(q) /\ DOMAIN p = 1 .. Len(q) - 1
  BY <1>1
<1>3. ASSUME NEW i \in DOMAIN p, NEW j \in DOMAIN p, p[i] = p[j] PROVE i = j
  <2>1. q[i + 1] = q[j + 1] /\ i + 1 \in DOMAIN q /\ j + 1 \in DOMAIN q
    BY <1>1, <1>2, <1>3
  <2>2. i + 1 = j + 1
    BY <2>1 DEF IsInjective
  <2> QED BY <1>1, <1>2, <2>2
<1>4. Head(q) \in Range(q)
  BY <1>1, <1>2 DEF Range
<1>5. ASSUME NEW y \in Range(p) PROVE y \in Range(q) /\ y # Head(q)
  <2>1. PICK i \in 1 .. Len(q) - 1 : y = q[i + 1]
    BY <1>1, <1>2, <1>5 DEF Range
  <2>2. i + 1 \in DOMAIN q /\ 1 \in DOMAIN q /\ i + 1 # 1
    BY <1>1, <1>2, <2>1
  <2>3. q[i + 1] # q[1]
    BY <2>2 DEF IsInjective
  <2> QED BY <1>1, <2>1, <2>2, <2>3 DEF Range
<1>6. ASSUME NEW y \in Range(q), y # Head(q) PROVE y \in Range(p)
  <2>1. PICK i \in 1 .. Len(q) : y = q[i] /\ i # 1
    BY <1>1, <1>2, <1>6 DEF Range
  <2>2. i - 1 \in 1 .. Len(q) - 1 /\ p[i - 1] = y
    BY <1>1, <2>1
  <2> QED BY <1>2, <2>2 DEF Range
<1> QED BY <1>3, <1>4, <1>5, <1>6 DEF IsInjective

\* p is q without its k-th element.
WithoutPlace(q, k, p) ==
  /\ Len(p) = Len(q) - 1
  /\ \A i \in 1 .. Len(q) - 1 : p[i] = IF i < k THEN q[i] ELSE q[i + 1]

\* Leaving the queue from its k-th place.
LEMMA LeaveOne ==
  ASSUME NEW S, NEW q \in Seq(S), IsInjective(q), NEW k \in 1 .. Len(q),
         NEW p \in Seq(S), WithoutPlace(q, k, p)
  PROVE  /\ IsInjective(p)
         /\ Range(p) = Range(q) \ {q[k]}
         /\ k # 1 => Head(p) = Head(q)
<1>1. /\ Len(q) \in Nat /\ k \in Nat /\ k >= 1 /\ k <= Len(q)
      /\ DOMAIN q = 1 .. Len(q) /\ DOMAIN p = 1 .. Len(q) - 1
      /\ \A i \in 1 .. Len(q) - 1 : p[i] = IF i < k THEN q[i] ELSE q[i + 1]
  BY LenProperties DEF WithoutPlace
<1>2. ASSUME NEW i \in DOMAIN p, NEW j \in DOMAIN p, p[i] = p[j] PROVE i = j
  <2>1. PICK m \in DOMAIN q : p[i] = q[m] /\ m = IF i < k THEN i ELSE i + 1
    BY <1>1
  <2>2. PICK n \in DOMAIN q : p[j] = q[n] /\ n = IF j < k THEN j ELSE j + 1
    BY <1>1
  <2>3. m = n
    BY <1>2, <2>1, <2>2 DEF IsInjective
  <2> QED BY <1>1, <2>1, <2>2, <2>3
<1>3. ASSUME NEW y \in Range(p) PROVE y \in Range(q) /\ y # q[k]
  <2>1. PICK i \in 1 .. Len(q) - 1 : y = p[i]
    BY <1>1, <1>3 DEF Range
  <2>2. PICK j \in 1 .. Len(q) : y = q[j] /\ j # k
    BY <1>1, <2>1
  <2> QED BY <1>1, <2>2 DEF Range, IsInjective
<1>4. ASSUME NEW y \in Range(q), y # q[k] PROVE y \in Range(p)
  <2>1. PICK j \in 1 .. Len(q) : y = q[j] /\ j # k
    BY <1>1, <1>4 DEF Range
  <2>2. PICK i \in 1 .. Len(q) - 1 : p[i] = y
    <3>1. CASE j < k
      BY <1>1, <2>1, <3>1
    <3>2. CASE j > k
      <4>1. j - 1 \in 1 .. Len(q) - 1 /\ p[j - 1] = q[j]
        BY <1>1, <2>1, <3>2
      <4> QED BY <2>1, <4>1
    <3> QED BY <1>1, <2>1, <3>1, <3>2
  <2> QED BY <1>1, <2>2 DEF Range
<1>5. ASSUME k # 1 PROVE Head(p) = Head(q)
  <2>1. 1 \in 1 .. Len(q) - 1 /\ p[1] = q[1]
    BY <1>1, <1>5
  <2> QED BY <1>1, <2>1
<1> QED BY <1>2, <1>3, <1>4, <1>5 DEF IsInjective

------------------------------------------------------------------------------
(* Channels in which the same message may be queued more than once.         *)

Occurs(q, x) == \E i \in DOMAIN q : q[i] = x
Once(q, x) == \A i, j \in DOMAIN q : (q[i] = x /\ q[j] = x) => i = j
PositionsOf(q, x) == {i \in DOMAIN q : q[i] = x}

LEMMA AppendPlaces ==
  ASSUME NEW S, NEW q \in Seq(S), NEW x \in S
  PROVE  /\ \A y : Occurs(Append(q, x), y) <=> Occurs(q, y) \/ y = x
         /\ \A y : y # x => PositionsOf(Append(q, x), y) = PositionsOf(q, y)
         /\ \A y : Once(q, y) /\ (y = x => ~Occurs(q, y)) => Once(Append(q, x), y)
<1> DEFINE p == Append(q, x)
<1>1. /\ DOMAIN p = 1 .. Len(q) + 1 /\ DOMAIN q = 1 .. Len(q) /\ Len(q) \in Nat
      /\ \A i \in 1 .. Len(q) : p[i] = q[i]
      /\ p[Len(q) + 1] = x
  BY AppendProperties
<1>2. \A i \in DOMAIN p : i = Len(q) + 1 \/ (i \in DOMAIN q /\ p[i] = q[i])
  BY <1>1
<1>3. \A i \in DOMAIN q : i \in DOMAIN p /\ p[i] = q[i]
  BY <1>1
<1>4. Len(q) + 1 \in DOMAIN p /\ p[Len(q) + 1] = x
  BY <1>1
<1> HIDE DEF p
<1>5. ASSUME NEW y PROVE Occurs(p, y) <=> Occurs(q, y) \/ y = x
  BY <1>2, <1>3, <1>4 DEF Occurs
<1>6. ASSUME NEW y, y # x PROVE PositionsOf(p, y) = PositionsOf(q, y)
  BY <1>2, <1>3, <1>4, <1>6 DEF PositionsOf
<1>7. ASSUME NEW y, Once(q, y), y = x => ~Occurs(q, y) PROVE Once(p, y)
  BY <1>2, <1>4, <1>7 DEF Once, Occurs
<1> QED BY <1>5, <1>6, <1>7 DEF p

LEMMA TailPlaces ==
  ASSUME NEW S, NEW q \in Seq(S), q # <<>>
  PROVE  /\ Head(q) \in S /\ Tail(q) \in Seq(S)
         /\ \A y : Occurs(q, y) <=> y = Head(q) \/ Occurs(Tail(q), y)
         /\ \A y : Once(q, y) => Once(Tail(q), y)
         /\ Once(q, Head(q)) => ~Occurs(Tail(q), Head(q))
<1> DEFINE p == Tail(q)
<1>1. /\ Len(q) \in Nat /\ Len(q) > 0 /\ Len(p) = Len(q) - 1
      /\ \A i \in 1 .. Len(p) : p[i] = q[i + 1]
      /\ Head(q) = q[1] /\ Head(q) \in S
      /\ p \in Seq(S)
      /\ DOMAIN q = 1 .. Len(q)
  BY HeadTailProperties
<1>2. DOMAIN p = 1 .. Len(q) - 1
  BY <1>1
<1>3. \A i \in DOMAIN p : i + 1 \in DOMAIN q /\ p[i] = q[i + 1] /\ i \in Int
  BY <1>1, <1>2
<1>4. \A i \in DOMAIN q : i = 1 \/ (i - 1 \in DOMAIN p /\ q[i] = p[i - 1])
  BY <1>1, <1>2
<1>5. 1 \in DOMAIN q
  BY <1>1
<1> HIDE DEF p
<1>6. ASSUME NEW y PROVE Occurs(q, y) <=> y = Head(q) \/ Occurs(p, y)
  BY <1>1, <1>3, <1>4, <1>5 DEF Occurs
<1>7. ASSUME NEW y, Once(q, y) PROVE Once(p, y)
  <2> SUFFICES ASSUME NEW i \in DOMAIN p, NEW j \in DOMAIN p, p[i] = y, p[j] = y
               PROVE  i = j
    BY DEF Once
  <2>1. i + 1 = j + 1
    BY <1>3, <1>7 DEF Once
  <2> QED BY <1>3, <2>1
<1>8. ASSUME Once(q, Head(q)), Occurs(p, Head(q)) PROVE FALSE
  <2>1. PICK i \in DOMAIN p : p[i] = Head(q)
    BY <1>8 DEF Occurs
  <2>2. i + 1 = 1
    BY <1>1, <1>3, <1>5, <1>8, <2>1 DEF Once
  <2> QED BY <1>2, <2>2
<1> QED BY <1>1, <1>6, <1>7, <1>8 DEF p

\* No message is queued more often after a receive.
LEMMA TailCount ==
  ASSUME NEW S, NEW q \in Seq(S), q # <<>>, NEW y
  PROVE  Cardinality(PositionsOf(Tail(q), y)) <= Cardinality(PositionsOf(q, y))
<1> DEFINE p == Tail(q)
           shift == [i \in PositionsOf(p, y) |-> i + 1]
<1>1. /\ Len(q) \in Nat /\ Len(q) > 0 /\ Len(p) = Len(q) - 1
      /\ \A i \in 1 .. Len(p) : p[i] = q[i + 1]
      /\ DOMAIN q = 1 .. Len(q) /\ p \in Seq(S)
  BY HeadTailProperties
<1>2. DOMAIN p = 1 .. Len(q) - 1
  BY <1>1
<1>3. \A i \in PositionsOf(p, y) : i + 1 \in PositionsOf(q, y) /\ i \in Int
  BY <1>1, <1>2 DEF PositionsOf
<1>4. shift \in Injection(PositionsOf(p, y), PositionsOf(q, y))
  BY <1>3 DEF Injection, IsInjective
<1>5. IsFiniteSet(PositionsOf(q, y))
  <2>1. IsFiniteSet(1 .. Len(q))
    BY <1>1, FS_Interval
  <2> QED BY <1>1, <2>1, FS_Subset DEF PositionsOf
<1> HIDE DEF shift
<1> QED BY <1>4, <1>5, FS_Injection

\* A message that is sent again is queued once more.
LEMMA AppendCount ==
  ASSUME NEW S, NEW q \in Seq(S), NEW x \in S
  PROVE  /\ PositionsOf(Append(q, x), x) = PositionsOf(q, x) \cup {Len(q) + 1}
         /\ Cardinality(PositionsOf(q, x)) \in Nat
         /\ Cardinality(PositionsOf(Append(q, x), x)) = Cardinality(PositionsOf(q, x)) + 1
<1> DEFINE p == Append(q, x)
<1>1. /\ DOMAIN p = 1 .. Len(q) + 1 /\ DOMAIN q = 1 .. Len(q) /\ Len(q) \in Nat
      /\ \A i \in 1 .. Len(q) : p[i] = q[i]
      /\ p[Len(q) + 1] = x
  BY AppendProperties
<1>2. /\ DOMAIN p = DOMAIN q \cup {Len(q) + 1} /\ Len(q) + 1 \notin DOMAIN q
      /\ \A i \in DOMAIN q : p[i] = q[i]
  BY <1>1
<1>3. IsFiniteSet(PositionsOf(q, x))
  <2>1. IsFiniteSet(1 .. Len(q))
    BY <1>1, FS_Interval
  <2> QED BY <1>1, <2>1, FS_Subset DEF PositionsOf
<1> HIDE DEF p
<1>4. PositionsOf(p, x) = PositionsOf(q, x) \cup {Len(q) + 1}
  BY <1>1, <1>2 DEF PositionsOf
<1>5. Len(q) + 1 \notin PositionsOf(q, x)
  BY <1>2 DEF PositionsOf
<1>6. Cardinality(PositionsOf(p, x)) = Cardinality(PositionsOf(q, x)) + 1
  BY <1>3, <1>4, <1>5, FS_AddElement
<1> QED BY <1>3, <1>4, <1>6, FS_CardinalityType DEF p

------------------------------------------------------------------------------
(* The first and the last of some positions.                                *)

LEMMA Least ==
  ASSUME NEW T, T \subseteq Nat, T # {}
  PROVE  \E x \in T : \A y \in T : x <= y
<1> DEFINE R == {ss \in Nat \X Nat : ss[1] < ss[2]}
<1>1. IsWellFoundedOn(R, Nat)
  BY NatLessThanWellFounded DEF OpToRel
<1>2. \A x, y \in Nat : y < x => <<y, x>> \in R
  OBVIOUS
<1> HIDE DEF R
<1>3. PICK x \in T : \A y \in T : ~ (<<y, x>> \in R)
  BY <1>1, WFMin
<1>4. ASSUME NEW y \in T PROVE x <= y
  <2>1. x \in Nat /\ y \in Nat /\ ~(y < x)
    BY <1>2, <1>3
  <2> QED BY <2>1
<1> QED BY <1>4

LEMMA Greatest ==
  ASSUME NEW n \in Nat, NEW T, T \subseteq 1 .. n, T # {}
  PROVE  \E x \in T : \A y \in T : x >= y
<1> DEFINE U == {k \in 0 .. n : n - k \in T}
<1>1. \A y \in T : y \in Nat /\ n - y \in Nat /\ n - y \in U
  <2> SUFFICES ASSUME NEW y \in T PROVE y \in Nat /\ n - y \in Nat /\ n - y \in U
    OBVIOUS
  <2>1. y \in Nat /\ n - y \in 0 .. n /\ n - (n - y) = y
    OBVIOUS
  <2> QED BY <2>1
<1>2. U \subseteq Nat /\ U # {}
  <2>1. \A k \in 0 .. n : k \in Nat
    OBVIOUS
  <2>2. PICK y : y \in T
    OBVIOUS
  <2> QED BY <1>1, <2>1, <2>2
<1>3. PICK k \in U : \A j \in U : k <= j
  BY <1>2, Least
<1>4. n - k \in T /\ k \in Nat
  BY <1>2, <1>3
<1>5. ASSUME NEW y \in T PROVE n - k >= y
  <2>1. y \in Nat /\ k <= n - y
    BY <1>1, <1>3
  <2> QED BY <1>4, <2>1
<1> QED BY <1>4, <1>5
=============================================================================
