-------------------------- MODULE OccurrenceLemmas --------------------------
(***************************************************************************)
(* How often a thread occurs in a queue, as the queue grows at its rear    *)
(* and shrinks at its front.  The library never looks a thread up in a     *)
(* queue, so counting occurrences is how its bookkeeping is stated.        *)
(***************************************************************************)
EXTENDS Uthread, SequenceTheorems, FiniteSetTheorems, TLAPS

(* The positions of t in a queue are finitely many. *)
LEMMA OccurrencesType ==
  ASSUME NEW S, NEW q \in Seq(S), NEW t
  PROVE  /\ IsFiniteSet({i \in DOMAIN q : q[i] = t})
         /\ Occurrences(q, t) \in Nat
<1>1. DOMAIN q = 1 .. Len(q) /\ Len(q) \in Nat
  BY LenProperties
<1>2. IsFiniteSet(1 .. Len(q))
  BY <1>1, FS_Interval
<1>3. {i \in DOMAIN q : q[i] = t} \in SUBSET (1 .. Len(q))
  BY <1>1
<1>4. IsFiniteSet({i \in DOMAIN q : q[i] = t})
  BY <1>2, <1>3, FS_Subset
<1> QED
  BY <1>4, FS_CardinalityType DEF Occurrences

(* queue_enqueue() adds one occurrence of what it is given. *)
LEMMA OccurrencesAppend ==
  ASSUME NEW S, NEW q \in Seq(S), NEW x \in S, NEW t
  PROVE  Occurrences(Append(q, x), t)
           = Occurrences(q, t) + IF x = t THEN 1 ELSE 0
<1> DEFINE D == {i \in DOMAIN q : q[i] = t}
           E == {i \in DOMAIN Append(q, x) : Append(q, x)[i] = t}
           n == Len(q) + 1
<1>1. IsFiniteSet(D) /\ Cardinality(D) \in Nat
  BY OccurrencesType DEF Occurrences
<1>2. /\ Len(q) \in Nat
      /\ DOMAIN q = 1 .. Len(q)
      /\ DOMAIN Append(q, x) = 1 .. n
      /\ \A i \in 1 .. Len(q) : Append(q, x)[i] = q[i]
      /\ Append(q, x)[n] = x
  BY LenProperties
<1>3. CASE x = t
  <2>1. E = D \cup {n}
    BY <1>2, <1>3
  <2>2. n \notin D
    BY <1>2
  <2>3. Cardinality(D \cup {n}) = Cardinality(D) + 1
    BY <1>1, <2>2, FS_AddElement
  <2> QED
    BY <1>3, <2>1, <2>3 DEF Occurrences
<1>4. CASE x # t
  <2>1. E = D
    BY <1>2, <1>4
  <2>2. Occurrences(q, t) = Cardinality(D)
    BY DEF Occurrences
  <2>3. Occurrences(Append(q, x), t) = Cardinality(D)
    BY <2>1 DEF Occurrences
  <2> HIDE DEF D
  <2> QED
    BY <1>1, <1>4, <2>2, <2>3
<1> QED
  BY <1>3, <1>4

(* queue_dequeue() takes away one occurrence of what it returns. *)
LEMMA OccurrencesTail ==
  ASSUME NEW S, NEW q \in Seq(S), q # <<>>, NEW t
  PROVE  Occurrences(q, t)
           = Occurrences(Tail(q), t) + IF Head(q) = t THEN 1 ELSE 0
<1> DEFINE D == {i \in DOMAIN q : q[i] = t}
           E == {i \in DOMAIN Tail(q) : Tail(q)[i] = t}
           f == [i \in E |-> i + 1]
<1>1. Tail(q) \in Seq(S)
  BY HeadTailProperties
<1>2. /\ IsFiniteSet(D) /\ Cardinality(D) \in Nat
      /\ IsFiniteSet(E) /\ Cardinality(E) \in Nat
  BY <1>1, OccurrencesType DEF Occurrences
<1>3. /\ Len(q) \in Nat \ {0}
      /\ DOMAIN q = 1 .. Len(q)
      /\ DOMAIN Tail(q) = 1 .. (Len(q) - 1)
      /\ \A i \in 1 .. (Len(q) - 1) : Tail(q)[i] = q[i + 1]
      /\ Head(q) = q[1]
  BY <1>1, EmptySeq, LenProperties, HeadTailProperties
<1>4. f \in [E -> D \ {1}]
  BY <1>3
<1>5. \A i, j \in E : f[i] = f[j] => i = j
  BY <1>3
<1>6. \A j \in D \ {1} : \E i \in E : f[i] = j
  <2> SUFFICES ASSUME NEW j \in D \ {1}
               PROVE  \E i \in E : f[i] = j
    OBVIOUS
  <2>1. j - 1 \in E /\ f[j - 1] = j
    BY <1>3
  <2> QED
    BY <2>1
<1>7. ExistsBijection(E, D \ {1})
  BY <1>4, <1>5, <1>6, f \in Bijection(E, D \ {1})
     DEF ExistsBijection, Bijection, Injection, Surjection, IsInjective
<1>8. Cardinality(D \ {1}) = Cardinality(E)
  BY <1>2, <1>7, FS_Bijection
<1>9. Cardinality(D \ {1}) = IF 1 \in D THEN Cardinality(D) - 1
                                        ELSE Cardinality(D)
  BY <1>2, FS_RemoveElement
<1>10. 1 \in D <=> Head(q) = t
  BY <1>3
<1>11. Occurrences(q, t) = Cardinality(D) /\ Occurrences(Tail(q), t) = Cardinality(E)
  BY DEF Occurrences
<1> HIDE DEF D, E
<1> QED
  BY <1>2, <1>8, <1>9, <1>10, <1>11

(* What does not occur in a queue is at no position of it. *)
LEMMA OccurrencesNone ==
  ASSUME NEW S, NEW q \in Seq(S), NEW t
  PROVE  Occurrences(q, t) = 0 <=> \A i \in DOMAIN q : q[i] # t
<1>1. IsFiniteSet({i \in DOMAIN q : q[i] = t})
  BY OccurrencesType
<1>2. Occurrences(q, t) = 0 <=> {i \in DOMAIN q : q[i] = t} = {}
  BY <1>1, FS_EmptySet DEF Occurrences
<1> QED
  BY <1>2

(* The empty queue holds nothing. *)
LEMMA OccurrencesEmpty ==
  ASSUME NEW t
  PROVE  Occurrences(<<>>, t) = 0
<1>1. {i \in DOMAIN <<>> : <<>>[i] = t} = {}
  OBVIOUS
<1> QED
  BY <1>1, FS_EmptySet DEF Occurrences

(* Two entries in an empty queue. *)
LEMMA OccurrencesPair ==
  ASSUME NEW S, NEW x \in S, NEW y \in S, NEW t,
         NEW q, q = <<x, y>>
  PROVE  Occurrences(q, t)
           = (IF x = t THEN 1 ELSE 0) + (IF y = t THEN 1 ELSE 0)
<1>1. PICK e \in Seq(S) : e = <<>>
  BY EmptySeq
<1> DEFINE f == Append(e, x)
<1>2. f \in Seq(S)
  BY AppendProperties
<1>3. q = Append(f, y)
  BY <1>1
<1>4. Occurrences(f, t) = Occurrences(e, t) + IF x = t THEN 1 ELSE 0
  BY OccurrencesAppend
<1>5. Occurrences(f, t) = IF x = t THEN 1 ELSE 0
  <2>1. Occurrences(e, t) = 0
    BY <1>1, OccurrencesEmpty
  <2>2. CASE x = t
    BY <1>4, <2>1, <2>2
  <2>3. CASE x # t
    BY <1>4, <2>1, <2>3
  <2> QED
    BY <2>2, <2>3
<1> HIDE DEF f
<1>6. Occurrences(q, t) = Occurrences(f, t) + IF y = t THEN 1 ELSE 0
  <2>1. Occurrences(Append(f, y), t) = Occurrences(f, t) + IF y = t THEN 1 ELSE 0
    BY <1>2, OccurrencesAppend
  <2> QED
    BY <1>3, <2>1, Zenon
<1>7. CASE y = t
  BY <1>5, <1>6, <1>7
<1>8. CASE y # t
  BY <1>5, <1>6, <1>8
<1> QED
  BY <1>7, <1>8

-----------------------------------------------------------------------------
(* Where a thread can be found by the scheduler: in the ready queue, or on *)
(* the processor.                                                          *)
Tokens(t) == Copies(t) + IF cpu = t THEN 1 ELSE 0

(* A thread is found a natural number of times in the ready queue. *)
LEMMA CopiesType ==
  ASSUME ready \in Seq(Tcb), NEW t
  PROVE  Copies(t) \in Nat
BY OccurrencesType DEF Copies

(* A context switch hands out exactly the entries of the queue it is given. *)
LEMMA SwitchTokens ==
  ASSUME NEW prev, NEW q \in Seq(Tcb), q # <<>>, NEW at, NEW mask,
         Switch(prev, q, at, mask)
  PROVE  /\ ready' \in Seq(Tcb)
         /\ cpu' \in Tcb /\ current' = cpu'
         /\ \A t : Tokens(t)' = Occurrences(q, t)
<1>1. ready' = Tail(q) /\ cpu' = Head(q) /\ current' = cpu'
  BY DEF Switch, Dequeued
<1>2. Tail(q) \in Seq(Tcb) /\ Head(q) \in Tcb
  BY HeadTailProperties
<1>3. ASSUME NEW t PROVE Tokens(t)' = Occurrences(q, t)
  <2>1. Copies(t)' = Occurrences(Tail(q), t)
    BY <1>1 DEF Copies
  <2> QED
    BY <1>1, <2>1, OccurrencesTail DEF Tokens
<1> QED
  BY <1>1, <1>2, <1>3

(* Yielding: the running context goes to the rear, and one leaves the front. *)
LEMMA RequeueTokens ==
  ASSUME ready \in Seq(Tcb), cpu \in Tcb, NEW at, NEW mask,
         Switch(cpu, Append(ready, cpu), at, mask)
  PROVE  /\ ready' \in Seq(Tcb)
         /\ cpu' \in Tcb /\ current' = cpu'
         /\ \A t : Tokens(t)' = Tokens(t)
<1>1. Append(ready, cpu) \in Seq(Tcb) /\ Append(ready, cpu) # <<>>
  BY AppendProperties
<1>2. \A t : Occurrences(Append(ready, cpu), t) = Tokens(t)
  BY OccurrencesAppend DEF Tokens, Copies
<1> QED
  BY <1>1, <1>2, SwitchTokens
=============================================================================
