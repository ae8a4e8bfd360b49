--------------------------- MODULE InductionLemmas ---------------------------
(***************************************************************************)
(* Induction on the natural numbers, stated with sets and functions rather *)
(* than with predicates: what the components' proofs use for the recursive *)
(* functions of the models, such as what a pipeline writes and where the   *)
(* links of a list or the chain of a file's blocks lead.                   *)
(***************************************************************************)
EXTENDS Integers, Sequences, FiniteSets, SequenceTheorems, FiniteSetTheorems,
        WellFoundedInduction, TLAPS

(* Every set of natural numbers that is not empty has a least element. *)
LEMMA LeastElement ==
  ASSUME NEW T \in SUBSET Nat, T # {}
  PROVE  \E x \in T : \A y \in T : x <= y
<1>1. \A x, y \in Nat : y < x => <<y, x>> \in OpToRel(<, Nat)
  BY DEF OpToRel
<1>2. \E R : /\ IsWellFoundedOn(R, Nat)
             /\ \A x, y \in Nat : y < x => <<y, x>> \in R
  BY <1>1, NatLessThanWellFounded
<1>3. PICK R : /\ IsWellFoundedOn(R, Nat)
               /\ \A x, y \in Nat : y < x => <<y, x>> \in R
  BY <1>2
<1>4. \E x \in T : \A y \in T : ~ (<<y, x>> \in R)
  BY <1>3, WFMin
<1>5. PICK x \in T : \A y \in T : ~ (<<y, x>> \in R)
  BY <1>4
<1>6. ASSUME NEW y \in T PROVE x <= y
  <2>1. ~ (y < x)
    BY <1>3, <1>5
  <2> QED
    BY <2>1
<1> QED
  BY <1>6

(* A set that holds zero and, with each number, the next one holds them all. *)
LEMMA InductionOnSet ==
  ASSUME NEW S \in SUBSET Nat, 0 \in S, \A n \in S : n + 1 \in S
  PROVE  S = Nat
<1> SUFFICES ASSUME Nat \ S # {} PROVE FALSE
  OBVIOUS
<1>1. PICK x \in Nat \ S : \A y \in Nat \ S : x <= y
  BY LeastElement
<1>2. x # 0 /\ x - 1 \in Nat
  BY <1>1
<1>3. x - 1 \in S
  BY <1>1, <1>2
<1>4. x - 1 + 1 \in S
  BY <1>3
<1> QED
  BY <1>1, <1>4

(* f is defined by its value at zero and a step that gives each value from *)
(* the one before it.                                                      *)
DefinedBy(f, A, base, step) ==
  f \in [Nat -> A] /\ f[0] = base /\ \A n \in Nat : f[n + 1] = step[n][f[n]]

(* Such a function exists. *)
LEMMA RecursionExists ==
  ASSUME NEW A, NEW base \in A, NEW step \in [Nat -> [A -> A]]
  PROVE  \E f : DefinedBy(f, A, base, step)
<1> DEFINE G(n) == {g \in [0 .. n -> A] :
                      g[0] = base /\ \A i \in Nat : i < n => g[i + 1] = step[i][g[i]]}
           Reached == {n \in Nat : G(n) # {}}
           Agree == {i \in Nat : \A m, n \in Nat : \A g \in G(m), h \in G(n) :
                                   i <= m /\ i <= n => g[i] = h[i]}
           pick == [n \in Nat |-> CHOOSE g \in G(n) : TRUE]
           f == [n \in Nat |-> pick[n][n]]
<1>1. Reached = Nat
  <2>1. 0 \in Reached
    <3>1. [i \in 0 .. 0 |-> base] \in G(0)
      OBVIOUS
    <3> QED
      BY <3>1
  <2>2. ASSUME NEW n \in Reached PROVE n + 1 \in Reached
    <3>1. PICK g \in G(n) : TRUE
      OBVIOUS
    <3> DEFINE h == [i \in 0 .. n + 1 |-> IF i = n + 1 THEN step[n][g[n]] ELSE g[i]]
    <3>2. n \in Nat /\ g[n] \in A /\ step[n][g[n]] \in A
      OBVIOUS
    <3>3. h \in [0 .. n + 1 -> A] /\ h[0] = base
      BY <3>2
    <3>4. ASSUME NEW i \in Nat, i < n + 1 PROVE h[i + 1] = step[i][h[i]]
      <4>1. h[i] = g[i]
        BY <3>2, <3>4
      <4>2. CASE i = n
        BY <3>2, <4>1, <4>2
      <4>3. CASE i # n
        <5>1. i < n /\ h[i + 1] = g[i + 1]
          BY <3>2, <3>4, <4>3
        <5>2. g[i + 1] = step[i][g[i]]
          BY <5>1
        <5> QED
          BY <4>1, <5>1, <5>2
      <4> QED
        BY <4>2, <4>3
    <3> HIDE DEF h
    <3>5. h \in G(n + 1)
      BY <3>3, <3>4
    <3>6. n + 1 \in Nat
      BY <3>2
    <3> HIDE DEF G
    <3> QED
      BY <3>5, <3>6
  <2> HIDE DEF Reached
  <2>3. Reached \in SUBSET Nat
    BY DEF Reached
  <2> QED
    BY <2>1, <2>2, <2>3, InductionOnSet
<1>2. Agree = Nat
  <2>1. 0 \in Agree
    OBVIOUS
  <2>2. ASSUME NEW i \in Agree PROVE i + 1 \in Agree
    <3>1. ASSUME NEW m \in Nat, NEW n \in Nat, NEW g \in G(m), NEW h \in G(n),
                 i + 1 <= m, i + 1 <= n
          PROVE  g[i + 1] = h[i + 1]
      <4>1. i \in Nat /\ i <= m /\ i <= n /\ i < m /\ i < n
        BY <3>1
      <4>2. g[i] = h[i]
        BY <4>1
      <4>3. g[i + 1] = step[i][g[i]] /\ h[i + 1] = step[i][h[i]]
        BY <4>1
      <4> QED
        BY <4>2, <4>3
    <3>2. i + 1 \in Nat
      OBVIOUS
    <3> HIDE DEF G
    <3> QED
      BY <3>1, <3>2
  <2> HIDE DEF Agree
  <2>3. Agree \in SUBSET Nat
    BY DEF Agree
  <2> QED
    BY <2>1, <2>2, <2>3, InductionOnSet
<1>3. ASSUME NEW i \in Nat, NEW m \in Nat, NEW n \in Nat,
             NEW g \in G(m), NEW h \in G(n), i <= m, i <= n
      PROVE  g[i] = h[i]
  <2>1. i \in Agree
    BY <1>2
  <2> HIDE DEF G
  <2> QED
    BY <1>3, <2>1
<1>4. \A n \in Nat : pick[n] \in G(n)
  BY <1>1
<1> HIDE DEF pick
<1>5. ASSUME NEW n \in Nat PROVE f[n] \in A
  BY <1>4
<1>6. f[0] = base
  BY <1>4
<1>7. ASSUME NEW n \in Nat PROVE f[n + 1] = step[n][f[n]]
  <2>1. pick[n] \in G(n) /\ pick[n + 1] \in G(n + 1)
    BY <1>4
  <2>2. pick[n + 1][n + 1] = step[n][pick[n + 1][n]]
    BY <2>1
  <2>3. n + 1 \in Nat /\ n <= n /\ n <= n + 1
    OBVIOUS
  <2> HIDE DEF G
  <2>4. pick[n + 1][n] = pick[n][n]
    BY <1>3, <2>1, <2>3
  <2> QED
    BY <2>2, <2>4
<1>8. f \in [Nat -> A]
  BY <1>5
<1> QED
  BY <1>6, <1>7, <1>8 DEF DefinedBy

-----------------------------------------------------------------------------
(* Linked lists: the walk that gives the elements of a list in their order. *)

(* A function on 1 .. n is a sequence of length n. *)
LEMMA FunctionIsSeq ==
  ASSUME NEW S, NEW n \in Nat, NEW p \in [1 .. n -> S]
  PROVE  p \in Seq(S) /\ Len(p) = n
<1>1. p = [i \in 1 .. n |-> p[i]]
  OBVIOUS
<1> QED
  BY <1>1

(* The sequence p is what nx gives from its first element up to end. *)
Linked(p, nx, end) ==
  \A i \in DOMAIN p : nx[p[i]] = IF i = Len(p) THEN end ELSE p[i + 1]
FirstOf(p, end) == IF p = <<>> THEN end ELSE p[1]

(* The equation of a walk along nx of at most N rounds. *)
WalkStep(w, N, A, nx, end) ==
  [k \in 0 .. N |-> [a \in A \cup {end} |->
     IF k = 0 \/ a = end THEN <<>> ELSE <<a>> \o w[k - 1][nx[a]]]]

(* Such a walk exists. *)
LEMMA WalkExists ==
  ASSUME NEW N \in Nat, NEW A, NEW end, NEW nx \in [A -> A \cup {end}]
  PROVE  \E w : w = WalkStep(w, N, A, nx, end)
<1> DEFINE B == A \cup {end}
           R == [B -> Seq(A)]
           base == [a \in B |-> <<>>]
           step == [n \in Nat |-> [g \in R |->
                      [a \in B |-> IF a = end THEN <<>> ELSE <<a>> \o g[nx[a]]]]]
<1>1. base \in R
  BY EmptySeq
<1>2. step \in [Nat -> [R -> R]]
  <2>1. ASSUME NEW g \in R, NEW a \in B
        PROVE  (IF a = end THEN <<>> ELSE <<a>> \o g[nx[a]]) \in Seq(A)
    <3>1. CASE a = end
      BY <3>1, EmptySeq
    <3>2. CASE a # end
      <4>1. a \in A /\ nx[a] \in B
        BY <3>2
      <4>2. <<a>> \in Seq(A) /\ g[nx[a]] \in Seq(A)
        BY <4>1
      <4> QED
        BY <3>2, <4>2, ConcatProperties
    <3> QED
      BY <3>1, <3>2
  <2> QED
    BY <2>1
<1> HIDE DEF base, step, R
<1>3. PICK f : DefinedBy(f, R, base, step)
  BY <1>1, <1>2, RecursionExists
<1> DEFINE w == [k \in 0 .. N |-> f[k]]
<1>4. ASSUME NEW k \in 0 .. N
      PROVE  f[k] = [a \in B |-> IF k = 0 \/ a = end THEN <<>> ELSE <<a>> \o f[k - 1][nx[a]]]
  <2>1. CASE k = 0
    BY <1>3, <2>1 DEF DefinedBy, base
  <2>2. CASE k # 0
    <3>1. k - 1 \in Nat /\ k - 1 + 1 = k
      BY <2>2
    <3>2. f[k - 1] \in R /\ f[k] = step[k - 1][f[k - 1]]
      BY <1>3, <3>1 DEF DefinedBy
    <3>3. f[k] = [a \in B |-> IF a = end THEN <<>> ELSE <<a>> \o f[k - 1][nx[a]]]
      BY <3>1, <3>2 DEF step
    <3> QED
      BY <2>2, <3>3
  <2> QED
    BY <2>1, <2>2
<1>5. ASSUME NEW k \in 0 .. N
      PROVE  w[k] = [a \in B |-> IF k = 0 \/ a = end THEN <<>> ELSE <<a>> \o w[k - 1][nx[a]]]
  <2>1. CASE k = 0
    BY <1>4, <2>1
  <2>2. CASE k # 0
    <3>1. k - 1 \in 0 .. N
      BY <2>2
    <3> QED
      BY <1>4, <3>1
  <2> QED
    BY <2>1, <2>2
<1>6. w = WalkStep(w, N, A, nx, end)
  BY <1>5 DEF WalkStep
<1> QED
  BY <1>6

(* A sequence is its first element and the others.                         *)
LEMMA HeadThenTail ==
  ASSUME NEW S, NEW t \in Seq(S), t # <<>>
  PROVE  <<Head(t)>> \o Tail(t) = t
<1> DEFINE h == <<Head(t)>>
<1>1. /\ Head(t) \in S /\ Tail(t) \in Seq(S) /\ h \in Seq(S)
      /\ Len(t) \in Nat \ {0} /\ Len(Tail(t)) = Len(t) - 1 /\ Len(h) = 1
  BY HeadTailProperties, EmptySeq, LenProperties
<1>2. /\ h \o Tail(t) \in Seq(S) /\ Len(h \o Tail(t)) = Len(t)
      /\ \A i \in 1 .. Len(t) :
           (h \o Tail(t))[i] = IF i <= 1 THEN h[i] ELSE Tail(t)[i - 1]
  BY <1>1, ConcatProperties
<1>3. h[1] = t[1]
  BY <1>1
<1>4. ASSUME NEW i \in 1 .. Len(t), i # 1 PROVE Tail(t)[i - 1] = t[i]
  BY <1>1, <1>4, HeadTailProperties
<1>5. ASSUME NEW i \in 1 .. Len(t) PROVE (h \o Tail(t))[i] = t[i]
  <2>1. CASE i = 1
    BY ONLY <1>2, <1>3, <2>1, i \in 1 .. Len(t)
  <2>2. CASE i # 1
    <3>1. ~(i <= 1)
      BY ONLY <1>1, <2>2, i \in 1 .. Len(t)
    <3> QED
      BY ONLY <1>2, <1>4, <2>2, <3>1, i \in 1 .. Len(t)
  <2> QED
    BY ONLY <2>1, <2>2
<1> QED
  BY <1>2, <1>5, SeqEqual


(* The rest of a linked sequence is linked, and begins where the first     *)
(* element leads.                                                          *)
LEMMA TailLinked ==
  ASSUME NEW A, NEW end, NEW nx, NEW q \in Seq(A), q # <<>>, Linked(q, nx, end)
  PROVE  /\ Linked(Tail(q), nx, end)
         /\ nx[q[1]] = FirstOf(Tail(q), end)
         /\ Tail(q) \in Seq(A) /\ Len(Tail(q)) = Len(q) - 1
         /\ Len(q) \in Nat \ {0} /\ q[1] \in A
<1>1. /\ Len(q) \in Nat \ {0} /\ DOMAIN q = 1 .. Len(q) /\ q[1] \in A
  BY EmptySeq, LenProperties, ElementOfSeq
<1>2. PICK r \in Seq(A) : r = Tail(q)
  BY HeadTailProperties
<1>3. /\ Len(r) = Len(q) - 1 /\ DOMAIN r = 1 .. Len(r)
      /\ \A i \in 1 .. Len(r) : r[i] = q[i + 1]
  BY <1>2, HeadTailProperties, LenProperties
<1>4. ASSUME NEW i \in 1 .. Len(r)
      PROVE  nx[r[i]] = IF i = Len(r) THEN end ELSE r[i + 1]
  <2>1. i + 1 \in DOMAIN q /\ r[i] = q[i + 1] /\ (i + 1 = Len(q) <=> i = Len(r))
    BY <1>1, <1>3
  <2>2. nx[q[i + 1]] = IF i + 1 = Len(q) THEN end ELSE q[i + 1 + 1]
    BY <2>1 DEF Linked
  <2>3. CASE i = Len(r)
    BY <2>1, <2>2, <2>3
  <2>4. CASE i # Len(r)
    <3>1. i + 1 \in 1 .. Len(r)
      <4>1. Len(r) \in Nat
        BY ONLY <1>1, <1>3
      <4> QED
        BY ONLY <2>4, <4>1
    <3>2. r[i + 1] = q[i + 1 + 1]
      BY <1>3, <3>1
    <3> QED
      BY <2>1, <2>2, <2>4, <3>2
  <2> QED
    BY <2>3, <2>4
<1>5. nx[q[1]] = FirstOf(r, end)
  <2>1. nx[q[1]] = IF 1 = Len(q) THEN end ELSE q[2]
    BY <1>1 DEF Linked
  <2>2. CASE Len(q) = 1
    <3>1. r = <<>>
      BY <1>3, <2>2, EmptySeq
    <3> QED
      BY <2>1, <2>2, <3>1 DEF FirstOf
  <2>3. CASE Len(q) # 1
    <3>1. r # <<>> /\ r[1] = q[2]
      BY <1>1, <1>3, <2>3, EmptySeq
    <3> QED
      BY <2>1, <2>3, <3>1 DEF FirstOf
  <2> QED
    BY <2>2, <2>3
<1> QED
  BY <1>1, <1>2, <1>3, <1>4, <1>5 DEF Linked

(* What a walk gives is what its definition says. *)
LEMMA WalkUnfolds ==
  ASSUME NEW N \in Nat, NEW A, NEW end, NEW nx, NEW w, w = WalkStep(w, N, A, nx, end),
         NEW k \in 0 .. N, NEW a \in A \cup {end}
  PROVE  w[k][a] = IF k = 0 \/ a = end THEN <<>> ELSE <<a>> \o w[k - 1][nx[a]]
<1>1. w[k] = WalkStep(w, N, A, nx, end)[k]
  OBVIOUS
<1>2. WalkStep(w, N, A, nx, end)[k] = [b \in A \cup {end} |->
        IF k = 0 \/ b = end THEN <<>> ELSE <<b>> \o w[k - 1][nx[b]]]
  BY DEF WalkStep
<1>3. w[k] = [b \in A \cup {end} |->
        IF k = 0 \/ b = end THEN <<>> ELSE <<b>> \o w[k - 1][nx[b]]]
  BY ONLY <1>1, <1>2
<1> QED
  BY ONLY <1>3

(* It ends at end. *)
LEMMA WalkEnds ==
  ASSUME NEW N \in Nat, NEW A, NEW end, NEW nx, NEW w, w = WalkStep(w, N, A, nx, end),
         NEW k \in 0 .. N
  PROVE  w[k][end] = <<>>
<1>1. PICK e \in A \cup {end} : e = end
  OBVIOUS
<1>2. w[k][e] = IF k = 0 \/ e = end THEN <<>> ELSE <<e>> \o w[k - 1][nx[e]]
  BY WalkUnfolds
<1> QED
  BY <1>1, <1>2

(* One more round of a walk gives one more element of a linked sequence. *)
LEMMA WalkGoesOn ==
  ASSUME NEW N \in Nat, NEW A, NEW end, end \notin A, NEW nx,
         NEW w, w = WalkStep(w, N, A, nx, end),
         NEW k \in Nat, k + 1 <= N,
         \A q \in Seq(A) : Linked(q, nx, end) /\ Len(q) <= k => w[k][FirstOf(q, end)] = q,
         NEW q \in Seq(A), Linked(q, nx, end), Len(q) <= k + 1
  PROVE  w[k + 1][FirstOf(q, end)] = q
<1>1. k + 1 \in 0 .. N /\ k + 1 - 1 = k /\ k + 1 # 0
  OBVIOUS
<1>2. CASE q = <<>>
  <2>1. FirstOf(q, end) = end /\ end \in A \cup {end}
    BY <1>2 DEF FirstOf
  <2>2. w[k + 1][end] = <<>>
    BY ONLY <1>1, WalkEnds, N \in Nat, w = WalkStep(w, N, A, nx, end)
  <2> QED
    BY <1>2, <2>1, <2>2
<1>3. CASE q # <<>>
  <2>1. /\ Linked(Tail(q), nx, end) /\ nx[q[1]] = FirstOf(Tail(q), end)
        /\ Tail(q) \in Seq(A) /\ Len(Tail(q)) = Len(q) - 1
        /\ Len(q) \in Nat \ {0} /\ q[1] \in A
    BY <1>3, TailLinked
  <2>2. Len(Tail(q)) <= k
    BY <2>1
  <2>3. w[k][nx[q[1]]] = Tail(q)
    BY <2>1, <2>2
  <2>4. q[1] # end /\ q[1] \in A \cup {end}
    BY <2>1
  <2>5. w[k + 1][q[1]] = IF k + 1 = 0 \/ q[1] = end
                         THEN <<>> ELSE <<q[1]>> \o w[k + 1 - 1][nx[q[1]]]
    BY ONLY <1>1, <2>4, WalkUnfolds, N \in Nat, w = WalkStep(w, N, A, nx, end)
  <2>6. w[k + 1][q[1]] = <<q[1]>> \o Tail(q)
    BY <1>1, <2>3, <2>4, <2>5
  <2>7. <<q[1]>> \o Tail(q) = q
    BY <1>3, HeadThenTail
  <2> QED
    BY <1>3, <2>6, <2>7 DEF FirstOf
<1> QED
  BY <1>2, <1>3

(* The walk along nx from the first element of a linked sequence is the    *)
(* sequence.                                                               *)
LEMMA WalkIsPath ==
  ASSUME NEW N \in Nat, NEW A, NEW end, end \notin A, NEW nx,
         NEW w, w = WalkStep(w, N, A, nx, end),
         NEW p \in Seq(A), Linked(p, nx, end), Len(p) <= N
  PROVE  w[N][FirstOf(p, end)] = p
<1> DEFINE Walked(k) == \A q \in Seq(A) :
                          Linked(q, nx, end) /\ Len(q) <= k => w[k][FirstOf(q, end)] = q
           Right == {k \in Nat : k <= N => Walked(k)}
<1>1. 0 \in Right
  <2>1. ASSUME NEW q \in Seq(A), Len(q) <= 0 PROVE w[0][FirstOf(q, end)] = q
    <3>1. q = <<>>
      BY <2>1, EmptySeq
    <3>2. 0 \in 0 .. N /\ FirstOf(q, end) = end /\ end \in A \cup {end}
      BY <3>1 DEF FirstOf
    <3>3. w[0][end] = <<>>
      BY ONLY <3>2, WalkEnds, N \in Nat, w = WalkStep(w, N, A, nx, end)
    <3> QED
      BY <3>1, <3>2, <3>3
  <2> QED
    BY <2>1
<1>2. ASSUME NEW k \in Right PROVE k + 1 \in Right
  <2>1. k \in Nat
    OBVIOUS
  <2>2. SUFFICES ASSUME k + 1 <= N PROVE Walked(k + 1)
    BY <2>1
  <2>3. Walked(k)
    BY <2>1, <2>2
  <2> QED
    BY <2>1, <2>2, <2>3, WalkGoesOn
<1> HIDE DEF Right
<1>3. Right = Nat
  <2>1. Right \in SUBSET Nat
    BY DEF Right
  <2> QED
    BY <1>1, <1>2, <2>1, InductionOnSet
<1>4. N \in Right
  BY <1>3
<1> QED
  BY <1>4 DEF Right

(* A sequence without repetitions is no longer than its set is large. *)
LEMMA NoRepetitions ==
  ASSUME NEW A, IsFiniteSet(A), NEW p \in Seq(A),
         \A i, j \in DOMAIN p : p[i] = p[j] => i = j
  PROVE  Len(p) <= Cardinality(A)
<1>1. Len(p) \in Nat /\ p \in [1 .. Len(p) -> A] /\ DOMAIN p = 1 .. Len(p)
  BY LenProperties
<1>2. p \in Injection(1 .. Len(p), A)
  BY <1>1 DEF Injection, IsInjective
<1>3. Cardinality(1 .. Len(p)) <= Cardinality(A)
  BY <1>2, FS_Injection
<1>4. Cardinality(1 .. Len(p)) = Len(p)
  BY <1>1, FS_Interval
<1> QED
  BY <1>3, <1>4

(* No element occurs twice. *)
Distinct(p) == \A i, j \in DOMAIN p : p[i] = p[j] => i = j

(* A list with one more element at its end. *)
LEMMA AppendLinked ==
  ASSUME NEW A, NEW end, NEW nx, NEW ny, NEW p \in Seq(A), NEW a \in A,
         Distinct(p), Linked(p, nx, end), \A i \in DOMAIN p : p[i] # a,
         ny[a] = end, \A i \in DOMAIN p : ny[p[i]] = IF i = Len(p) THEN a ELSE nx[p[i]]
  PROVE  /\ Append(p, a) \in Seq(A) /\ Len(Append(p, a)) = Len(p) + 1
         /\ DOMAIN Append(p, a) = 1 .. Len(p) + 1 /\ Append(p, a) # <<>>
         /\ \A i \in 1 .. Len(p) : Append(p, a)[i] = p[i]
         /\ Append(p, a)[Len(p) + 1] = a
         /\ FirstOf(Append(p, a), end) = IF p = <<>> THEN a ELSE p[1]
         /\ Distinct(Append(p, a)) /\ Linked(Append(p, a), ny, end)
<1>1. Len(p) \in Nat /\ DOMAIN p = 1 .. Len(p)
  BY LenProperties
<1>2. PICK q \in Seq(A) : q = Append(p, a)
  <2>1. Append(p, a) \in Seq(A)
    BY ONLY a \in A, p \in Seq(A), AppendProperties
  <2> QED
    BY ONLY <2>1
<1>3. /\ Len(q) = Len(p) + 1 /\ DOMAIN q = 1 .. Len(p) + 1
      /\ \A i \in 1 .. Len(p) : q[i] = p[i]
      /\ q[Len(p) + 1] = a
  BY ONLY <1>1, <1>2
<1>4. Distinct(q)
  BY ONLY <1>1, <1>3, Distinct(p), \A i \in DOMAIN p : p[i] # a DEF Distinct
<1>5. ASSUME NEW i \in 1 .. Len(p) + 1
      PROVE  ny[q[i]] = IF i = Len(q) THEN end ELSE q[i + 1]
  <2>1. CASE i = Len(p) + 1
    BY <1>3, <2>1
  <2>2. CASE i # Len(p) + 1
    <3>1. i \in 1 .. Len(p) /\ q[i] = p[i] /\ i # Len(q) /\ i + 1 \in 1 .. Len(p) + 1
      BY <1>1, <1>3, <2>2
    <3>2. ny[p[i]] = IF i = Len(p) THEN a ELSE nx[p[i]]
      BY <1>1, <3>1
    <3>3. ASSUME i # Len(p) PROVE nx[p[i]] = p[i + 1] /\ q[i + 1] = p[i + 1]
      <4>1. i + 1 \in 1 .. Len(p)
        BY ONLY <1>1, <3>1, <3>3
      <4>2. q[i + 1] = p[i + 1]
        BY ONLY <1>3, <4>1
      <4>3. nx[p[i]] = p[i + 1]
        BY <1>1, <3>1, <3>3 DEF Linked
      <4> QED
        BY ONLY <4>2, <4>3
    <3> QED
      BY <1>3, <3>1, <3>2, <3>3
  <2> QED
    BY <2>1, <2>2
<1>6. Linked(q, ny, end)
  BY <1>3, <1>5 DEF Linked
<1>7. q # <<>> /\ q[1] = IF p = <<>> THEN a ELSE p[1]
  <2>1. CASE p = <<>>
    BY <1>1, <1>3, <2>1, EmptySeq
  <2>2. CASE p # <<>>
    BY <1>1, <1>3, <2>2, EmptySeq
  <2> QED
    BY <2>1, <2>2
<1> QED
  BY <1>2, <1>3, <1>4, <1>6, <1>7 DEF FirstOf

(* The list without its i-th element. *)
Without(p, i) == [k \in 1 .. Len(p) - 1 |-> IF k < i THEN p[k] ELSE p[k + 1]]

(* Its elements are those before and those after the i-th. *)
LEMMA WithoutType ==
  ASSUME NEW A, NEW p \in Seq(A), NEW i \in 1 .. Len(p)
  PROVE  /\ Without(p, i) \in Seq(A) /\ Len(Without(p, i)) = Len(p) - 1
         /\ DOMAIN Without(p, i) = 1 .. Len(p) - 1
         /\ \A k \in 1 .. Len(p) - 1 :
              Without(p, i)[k] = IF k < i THEN p[k] ELSE p[k + 1]
<1>1. Len(p) \in Nat /\ DOMAIN p = 1 .. Len(p) /\ Len(p) - 1 \in Nat
  BY LenProperties
<1>2. ASSUME NEW k \in 1 .. Len(p) - 1
      PROVE  (IF k < i THEN p[k] ELSE p[k + 1]) \in A
  <2>1. k \in 1 .. Len(p) /\ k + 1 \in 1 .. Len(p)
    BY <1>1
  <2> QED
    BY <2>1, ElementOfSeq
<1>3. Without(p, i) \in [1 .. Len(p) - 1 -> A]
  BY ONLY <1>2, Zenon DEF Without
<1>4. Without(p, i) \in Seq(A) /\ Len(Without(p, i)) = Len(p) - 1
  BY <1>1, <1>3, FunctionIsSeq
<1> QED
  BY <1>4 DEF Without

(* It is linked when the element before the i-th is linked to the one after. *)
Bypassed(ny, nx, p, i) ==
  \A k \in DOMAIN p : ny[p[k]] = IF k + 1 = i THEN nx[p[i]] ELSE nx[p[k]]

(* Then what is left is a list again. *)
LEMMA RemoveLinked ==
  ASSUME NEW A, NEW end, NEW nx, NEW ny, NEW p \in Seq(A), NEW i \in 1 .. Len(p),
         Distinct(p), Linked(p, nx, end), Bypassed(ny, nx, p, i)
  PROVE  /\ Distinct(Without(p, i)) /\ Linked(Without(p, i), ny, end)
         /\ FirstOf(Without(p, i), end) = IF i = 1 THEN nx[p[1]] ELSE p[1]
<1>0. \A k \in DOMAIN p : ny[p[k]] = IF k + 1 = i THEN nx[p[i]] ELSE nx[p[k]]
  BY DEF Bypassed
<1>1. Len(p) \in Nat /\ DOMAIN p = 1 .. Len(p)
  BY LenProperties
<1>2. PICK q \in Seq(A) : q = Without(p, i)
  BY WithoutType
<1>3. /\ Len(q) = Len(p) - 1 /\ DOMAIN q = 1 .. Len(p) - 1
      /\ \A k \in 1 .. Len(p) - 1 : q[k] = IF k < i THEN p[k] ELSE p[k + 1]
  BY <1>2, WithoutType
<1>4. Distinct(q)
  <2>1. ASSUME NEW k \in 1 .. Len(p) - 1, NEW l \in 1 .. Len(p) - 1, q[k] = q[l]
        PROVE  k = l
    <3>1. /\ k \in 1 .. Len(p) /\ k + 1 \in 1 .. Len(p)
          /\ l \in 1 .. Len(p) /\ l + 1 \in 1 .. Len(p)
      BY <1>1
    <3>2. \A x, y \in 1 .. Len(p) : p[x] = p[y] => x = y
      BY <1>1 DEF Distinct
    <3>3. /\ q[k] = IF k < i THEN p[k] ELSE p[k + 1]
          /\ q[l] = IF l < i THEN p[l] ELSE p[l + 1]
      BY ONLY <1>3, <2>1
    <3>4. k \in Nat /\ l \in Nat /\ i \in Nat
      BY ONLY <1>1
    <3>5. CASE k < i /\ l < i
      BY ONLY <2>1, <3>1, <3>2, <3>3, <3>5
    <3>6. CASE k < i /\ ~(l < i)
      <4>1. p[k] = p[l + 1]
        BY ONLY <2>1, <3>3, <3>6
      <4>2. k = l + 1
        BY ONLY <3>1, <3>2, <4>1
      <4> QED
        BY ONLY <3>4, <3>6, <4>2
    <3>7. CASE ~(k < i) /\ l < i
      <4>1. p[k + 1] = p[l]
        BY ONLY <2>1, <3>3, <3>7
      <4>2. k + 1 = l
        BY ONLY <3>1, <3>2, <4>1
      <4> QED
        BY ONLY <3>4, <3>7, <4>2
    <3>8. CASE ~(k < i) /\ ~(l < i)
      <4>1. p[k + 1] = p[l + 1]
        BY ONLY <2>1, <3>3, <3>8
      <4>2. k + 1 = l + 1
        BY ONLY <3>1, <3>2, <4>1
      <4> QED
        BY ONLY <3>4, <4>2
    <3> QED
      BY ONLY <3>5, <3>6, <3>7, <3>8
  <2> QED
    BY <1>3, <2>1 DEF Distinct
<1>m. Len(p) \in Nat /\ Len(q) = Len(p) - 1
  BY ONLY <1>1, <1>3
<1>q. \A k \in 1 .. Len(p) - 1 : q[k] = IF k < i THEN p[k] ELSE p[k + 1]
  BY ONLY <1>3
<1>n. \A k \in 1 .. Len(p) : nx[p[k]] = IF k = Len(p) THEN end ELSE p[k + 1]
  BY <1>1 DEF Linked
<1>5. ASSUME NEW k \in 1 .. Len(p) - 1
      PROVE  ny[q[k]] = IF k = Len(q) THEN end ELSE q[k + 1]
  <2>1. /\ k \in 1 .. Len(p) /\ k + 1 \in 1 .. Len(p)
        /\ k # Len(q) => k + 1 \in 1 .. Len(p) - 1
    BY ONLY <1>m
  <2>2. CASE k + 1 < i
    <3>1. q[k] = p[k] /\ k # Len(q) /\ q[k + 1] = p[k + 1]
      <4>1. k < i /\ k # Len(q) /\ k + 1 \in 1 .. Len(p) - 1
        BY ONLY <1>m, <2>2
      <4> QED
        BY ONLY <1>q, <2>2, <4>1
    <3>2. ny[p[k]] = nx[p[k]]
      BY <1>0, <1>1, <2>1, <2>2
    <3> QED
      BY <1>n, <2>1, <2>2, <3>1, <3>2
  <2>3. CASE k + 1 = i
    <3>1. q[k] = p[k] /\ ny[p[k]] = nx[p[i]]
      <4>1. k < i
        BY ONLY <1>m, <2>3
      <4> QED
        BY ONLY <1>0, <1>1, <1>q, <2>1, <2>3, <4>1
    <3>2. nx[p[i]] = IF i = Len(p) THEN end ELSE p[i + 1]
      BY <1>n
    <3>3. k = Len(q) <=> i = Len(p)
      BY ONLY <1>m, <2>3
    <3>4. ASSUME k # Len(q) PROVE q[k + 1] = p[i + 1]
      <4>1. k + 1 \in 1 .. Len(p) - 1
        BY ONLY <1>m, <3>4
      <4> QED
        BY ONLY <1>q, <2>3, <4>1
    <3> QED
      BY ONLY <3>1, <3>2, <3>3, <3>4
  <2>4. CASE k + 1 > i
    <3>1. q[k] = p[k + 1] /\ ny[p[k + 1]] = nx[p[k + 1]]
      <4>1. k \in Nat /\ i \in Nat /\ ~(k < i) /\ k + 1 + 1 # i
        BY ONLY <1>m, <2>4
      <4>2. q[k] = p[k + 1]
        BY ONLY <1>q, <4>1
      <4>3. ny[p[k + 1]] = nx[p[k + 1]]
        BY <1>0, <1>1, <2>1, <4>1
      <4> QED
        BY <4>2, <4>3
    <3>2. nx[p[k + 1]] = IF k + 1 = Len(p) THEN end ELSE p[k + 1 + 1]
      BY <1>n, <2>1
    <3>3. k + 1 = Len(p) <=> k = Len(q)
      BY ONLY <1>m
    <3>4. ASSUME k # Len(q) PROVE q[k + 1] = p[k + 1 + 1]
      <4>1. k + 1 \in 1 .. Len(p) - 1
        BY ONLY <1>m, <3>4
      <4>2. ~(k + 1 < i)
        BY ONLY <2>4
      <4> QED
        BY ONLY <1>q, <4>1, <4>2
    <3> QED
      BY ONLY <3>1, <3>2, <3>3, <3>4
  <2> QED
    BY <2>2, <2>3, <2>4
<1>6. Linked(q, ny, end)
  BY <1>3, <1>5 DEF Linked
<1>7. FirstOf(q, end) = IF i = 1 THEN nx[p[1]] ELSE p[1]
  <2>1. CASE Len(p) = 1
    <3>1. q = <<>> /\ i = 1
      BY <1>3, <2>1, EmptySeq
    <3> QED
      BY <1>n, <2>1, <3>1 DEF FirstOf
  <2>2. CASE Len(p) # 1
    <3>1. q # <<>> /\ q[1] = IF i = 1 THEN p[2] ELSE p[1]
      BY <1>1, <1>3, <2>2, EmptySeq
    <3>2. nx[p[1]] = p[2]
      BY ONLY <1>1, <1>n, <2>2, i \in 1 .. Len(p)
    <3> QED
      BY <3>1, <3>2 DEF FirstOf
  <2> QED
    BY <2>1, <2>2
<1> QED
  BY <1>2, <1>4, <1>6, <1>7

(* The part of a list from its j-th element on. *)
From(p, j) == [k \in 1 .. Len(p) - j + 1 |-> p[k + j - 1]]

(* It is linked as the whole list is. *)
LEMMA FromLinked ==
  ASSUME NEW A, NEW end, NEW nx, NEW p \in Seq(A), NEW j \in 1 .. Len(p), Linked(p, nx, end)
  PROVE  /\ From(p, j) \in Seq(A) /\ Len(From(p, j)) = Len(p) - j + 1
         /\ DOMAIN From(p, j) = 1 .. Len(p) - j + 1
         /\ \A k \in 1 .. Len(p) - j + 1 : From(p, j)[k] = p[k + j - 1]
         /\ Linked(From(p, j), nx, end) /\ FirstOf(From(p, j), end) = p[j]
<1>1. Len(p) \in Nat /\ DOMAIN p = 1 .. Len(p) /\ Len(p) - j + 1 \in Nat \ {0}
  BY LenProperties
<1>2. \A k \in 1 .. Len(p) - j + 1 : k + j - 1 \in 1 .. Len(p)
  BY <1>1
<1>3. From(p, j) \in [1 .. Len(p) - j + 1 -> A]
  BY <1>2, ElementOfSeq DEF From
<1>4. From(p, j) \in Seq(A) /\ Len(From(p, j)) = Len(p) - j + 1
  BY <1>1, <1>3, FunctionIsSeq
<1>5. PICK q \in Seq(A) : q = From(p, j)
  BY <1>4
<1>6. /\ Len(q) = Len(p) - j + 1 /\ DOMAIN q = 1 .. Len(p) - j + 1
      /\ \A k \in 1 .. Len(p) - j + 1 : q[k] = p[k + j - 1]
  BY <1>3, <1>4, <1>5 DEF From
<1>7. ASSUME NEW k \in 1 .. Len(p) - j + 1
      PROVE  nx[q[k]] = IF k = Len(q) THEN end ELSE q[k + 1]
  <2>1. q[k] = p[k + j - 1] /\ k + j - 1 \in 1 .. Len(p)
    BY <1>2, <1>6
  <2>2. nx[p[k + j - 1]] = IF k + j - 1 = Len(p) THEN end ELSE p[k + j - 1 + 1]
    BY <1>1, <2>1 DEF Linked
  <2>3. k + j - 1 = Len(p) <=> k = Len(q)
    BY <1>1, <1>6
  <2>4. ASSUME k # Len(q) PROVE q[k + 1] = p[k + 1 + j - 1]
    <3>1. k + 1 \in 1 .. Len(p) - j + 1
      <4>1. Len(p) \in Nat /\ Len(q) = Len(p) - j + 1
        BY ONLY <1>1, <1>6
      <4> QED
        BY ONLY <2>4, <4>1
    <3> QED
      BY ONLY <1>6, <3>1
  <2>5. k + 1 + j - 1 = k + j - 1 + 1
    BY <1>1
  <2> QED
    BY <2>1, <2>2, <2>3, <2>4, <2>5
<1>8. Linked(q, nx, end)
  BY <1>6, <1>7 DEF Linked
<1>9. q # <<>> /\ q[1] = p[j]
  BY <1>1, <1>6, EmptySeq
<1> QED
  BY <1>5, <1>6, <1>8, <1>9 DEF FirstOf

-----------------------------------------------------------------------------
(* Numbers. *)

(* Division: a number is a quotient and a remainder, in one way. *)
LEMMA QuotientIs ==
  ASSUME NEW q \in Nat, NEW b \in Nat \ {0}, NEW r \in 0 .. b - 1
  PROVE  (q * b + r) \div b = q /\ (q * b + r) % b = r
  OBVIOUS

(* Products with a factor that is not zero. *)
LEMMA ProductGrows ==
  ASSUME NEW m \in Nat, NEW n \in Nat, NEW b \in Nat \ {0}
  PROVE  /\ m * b \in Nat /\ (m + 1) * b = m * b + b
         /\ m <= n => m * b <= n * b
         /\ m * b < n * b => m < n
<1>1. m * b \in Nat /\ (m + 1) * b = m * b + b
  OBVIOUS
<1>2. m <= n => m * b <= n * b
  OBVIOUS
<1>3. m * b < n * b => m < n
  OBVIOUS
<1> QED
  BY <1>1, <1>2, <1>3

(* Every number has a quotient and a remainder. *)
LEMMA QuotientExists ==
  ASSUME NEW a \in Nat, NEW b \in Nat \ {0}
  PROVE  /\ a \div b \in Nat /\ a % b \in 0 .. b - 1
         /\ a = (a \div b) * b + (a % b)
  OBVIOUS

=============================================================================
