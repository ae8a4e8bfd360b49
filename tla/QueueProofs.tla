----------------------------- MODULE QueueProofs -----------------------------
(***************************************************************************)
(* The list of queue.c is a queue: proofs for every number of nodes and    *)
(* items, as long as clients do not delete the last of several items.      *)
(***************************************************************************)
EXTENDS LinkedQueue, InductionLemmas

(* p is the list: the nodes from front on, which are allocated and hold    *)
(* items, with rear at its end, and as many as the counter says.           *)
IsList(p) ==
  /\ p \in Seq(Node) /\ Distinct(p) /\ Linked(p, next, Null)
  /\ front = FirstOf(p, Null)
  /\ p # <<>> => rear = p[Len(p)]
  /\ cnt = Len(p)
  /\ \A i \in DOMAIN p : p[i] \in used /\ data[p[i]] \in Item

(* The iteration is at the j-th node of p, and has visited what was before *)
(* that node when it began.                                                *)
VisitsAt(p, j) ==
  /\ at = p[j]
  /\ Len(due) = Len(seen) + (Len(p) - j + 1)
  /\ \A k \in 1 .. Len(seen) : due[k] = seen[k]
  /\ \A k \in j .. Len(p) : due[Len(seen) + (k - j + 1)] = data[p[k]]
Visiting(p) == at # Null => \E j \in 1 .. Len(p) : VisitsAt(p, j)

QTypes == QueueTypeOK /\ seen \in Seq(Item) /\ due \in Seq(Item)
QueueIInv == QTypes /\ \E p : IsList(p) /\ Visiting(p)

(* The clients of the passing run. *)
Careful == "rear" \notin Uses

-----------------------------------------------------------------------------
(* What the walk from front gives. *)

PathIn(nx, p) ==
  LET walk[k \in 0 .. Cardinality(Node)] ==
        [a \in Address |->
           IF k = 0 \/ a = Null THEN <<>> ELSE <<a>> \o walk[k - 1][nx[a]]]
  IN  walk[Cardinality(Node)][p]

(* It gives the list. *)
LEMMA PathInList ==
  ASSUME NEW nx \in [Node -> Address], NEW p \in Seq(Node), Distinct(p), Linked(p, nx, Null)
  PROVE  PathIn(nx, FirstOf(p, Null)) = p /\ Len(p) <= Cardinality(Node)
<1>1. IsFiniteSet(Node) /\ Null \notin Node
  BY QueueAssumption
<1>2. Cardinality(Node) \in Nat
  BY <1>1, FS_CardinalityType
<1>3. Len(p) <= Cardinality(Node)
  BY ONLY <1>1, NoRepetitions, p \in Seq(Node), Distinct(p) DEF Distinct
<1> DEFINE walk == CHOOSE w : w = [k \in 0 .. Cardinality(Node) |->
                     [a \in Address |->
                        IF k = 0 \/ a = Null THEN <<>> ELSE <<a>> \o w[k - 1][nx[a]]]]
<1>4. walk = WalkStep(walk, Cardinality(Node), Node, nx, Null)
  <2>1. \E w : w = WalkStep(w, Cardinality(Node), Node, nx, Null)
    BY <1>2, WalkExists DEF Address
  <2> QED
    BY <2>1 DEF WalkStep, Address
<1>5. PathIn(nx, FirstOf(p, Null)) = walk[Cardinality(Node)][FirstOf(p, Null)]
  BY DEF PathIn
<1> HIDE DEF walk
<1>6. walk[Cardinality(Node)][FirstOf(p, Null)] = p
  BY <1>1, <1>2, <1>3, <1>4, WalkIsPath
<1> QED
  BY <1>3, <1>5, <1>6

DataOf(d, p) == [i \in DOMAIN p |-> d[p[i]]]

(* What PathFrom and DataFrom give of the list. *)
LEMMA PathOfList ==
  ASSUME QueueTypeOK, NEW p, IsList(p)
  PROVE  /\ PathFrom(front) = p /\ DataFrom(front) = DataOf(data, p)
         /\ Len(p) <= Cardinality(Node)
<1>1. PathIn(next, FirstOf(p, Null)) = p /\ Len(p) <= Cardinality(Node)
  BY PathInList DEF QueueTypeOK, IsList
<1>2. PathFrom(front) = PathIn(next, front)
  BY DEF PathFrom, PathIn
<1>3. PathFrom(front) = p
  BY <1>1, <1>2 DEF IsList
<1> QED
  BY <1>1, <1>3 DEF DataFrom, DataOf

(* And after a step. *)
LEMMA PathOfNewList ==
  ASSUME next' \in [Node -> Address], NEW p, IsList(p)'
  PROVE  DataFrom(front)' = DataOf(data', p)
<1>1. PathIn(next', FirstOf(p, Null)) = p
  BY PathInList DEF IsList
<1>2. PathFrom(front)' = PathIn(next', front')
  BY DEF PathFrom, PathIn
<1>3. PathFrom(front)' = p
  BY <1>1, <1>2 DEF IsList
<1> QED
  BY <1>3 DEF DataFrom, DataOf

(* The items of a list are a sequence. *)
LEMMA DataOfType ==
  ASSUME NEW p \in Seq(Node), NEW d \in [Node -> Item \cup {Null}]
  PROVE  /\ DataOf(d, p) \in Seq(Item \cup {Null}) /\ Len(DataOf(d, p)) = Len(p)
         /\ DOMAIN DataOf(d, p) = 1 .. Len(p)
         /\ \A i \in 1 .. Len(p) : DataOf(d, p)[i] = d[p[i]]
<1>1. Len(p) \in Nat /\ DOMAIN p = 1 .. Len(p) /\ \A i \in 1 .. Len(p) : p[i] \in Node
  BY LenProperties, ElementOfSeq
<1>2. DataOf(d, p) \in [1 .. Len(p) -> Item \cup {Null}]
  BY <1>1 DEF DataOf
<1>3. DataOf(d, p) \in Seq(Item \cup {Null}) /\ Len(DataOf(d, p)) = Len(p)
  BY <1>1, <1>2, FunctionIsSeq
<1> QED
  BY <1>1, <1>3 DEF DataOf

(* The list is empty when front is NULL. *)
LEMMA ListFacts ==
  ASSUME QTypes, NEW p, IsList(p)
  PROVE  /\ Len(p) \in Nat /\ DOMAIN p = 1 .. Len(p)
         /\ \A i \in 1 .. Len(p) : p[i] \in Node /\ p[i] \in used /\ data[p[i]] \in Item
         /\ front = Null => p = <<>> /\ Len(p) = 0
         /\ front # Null => /\ p # <<>> /\ Len(p) \in Nat \ {0} /\ front = p[1]
                            /\ rear = p[Len(p)]
<1>1. p \in Seq(Node) /\ front = FirstOf(p, Null) /\ Null \notin Node
  BY QueueAssumption DEF IsList
<1>2. Len(p) \in Nat /\ DOMAIN p = 1 .. Len(p) /\ \A i \in 1 .. Len(p) : p[i] \in Node
  BY <1>1, LenProperties, ElementOfSeq
<1>3. p = <<>> => front = Null /\ Len(p) = 0
  BY <1>1, EmptySeq DEF FirstOf
<1>4. p # <<>> => Len(p) \in Nat \ {0} /\ front = p[1] /\ front # Null
  <2>1. SUFFICES ASSUME p # <<>> PROVE Len(p) \in Nat \ {0} /\ front = p[1] /\ front # Null
    OBVIOUS
  <2>2. Len(p) \in Nat \ {0}
    BY <1>1, <2>1, EmptySeq
  <2>3. front = p[1]
    BY <1>1, <2>1 DEF FirstOf
  <2>4. p[1] \in Node
    BY <1>2, <2>2
  <2> QED
    BY <1>1, <2>2, <2>3, <2>4
<1> QED
  BY <1>2, <1>3, <1>4 DEF IsList

AbstractStep == [Fifo!FifoNext]_(Fifo!fifoVars)

-----------------------------------------------------------------------------
(* Every operation keeps the list, and is one of the FIFO queue. *)

(* queue_enqueue() (queue.c:52-76). *)
LEMMA EnqueueStep ==
  ASSUME QTypes, NEW p, IsList(p), NEW x \in Item, Enqueue(x)
  PROVE  QueueIInv' /\ AbstractStep
<1>1. PICK a \in Node \ used : Link(a, x)
  BY DEF Enqueue
<1>2. /\ at = Null /\ at' = Null /\ seen' = seen /\ due' = due /\ out' = out
      /\ used' = used \cup {a} /\ data' = [data EXCEPT ![a] = x]
      /\ rear' = a /\ cnt' = cnt + 1
      /\ front = Null => front' = a /\ next' = [next EXCEPT ![a] = Null]
      /\ front # Null => front' = front /\ next' = [next EXCEPT ![a] = Null, ![rear] = a]
  BY <1>1 DEF Enqueue, Link, Counted
<1>3. /\ p \in Seq(Node) /\ Distinct(p) /\ Linked(p, next, Null) /\ cnt = Len(p)
      /\ front = FirstOf(p, Null)
  BY DEF IsList
<1>4. next \in [Node -> Address] /\ data \in [Node -> Item \cup {Null}] /\ Null \notin Node
  BY QueueAssumption DEF QTypes, QueueTypeOK
<1>5. \A i \in DOMAIN p : p[i] # a
  BY <1>1, ListFacts
<1>6. next'[a] = Null
  <2>1. front # Null => rear # a
    BY <1>5, ListFacts
  <2> QED
    BY <1>1, <1>2, <1>4, <2>1
<1>7. ASSUME NEW i \in DOMAIN p
      PROVE  next'[p[i]] = IF i = Len(p) THEN a ELSE next[p[i]]
  <2>1. /\ Len(p) \in Nat /\ i \in 1 .. Len(p) /\ p[i] \in Node /\ front # Null
        /\ rear = p[Len(p)] /\ Len(p) \in DOMAIN p
    BY ListFacts
  <2>2. next' = [next EXCEPT ![a] = Null, ![rear] = a] /\ p[i] # a
    BY <1>2, <1>5, <2>1
  <2>3. p[i] = rear <=> i = Len(p)
    BY <1>3, <2>1 DEF Distinct
  <2> QED
    BY <1>4, <2>1, <2>2, <2>3
<1> DEFINE q == Append(p, a)
<1>8. /\ q \in Seq(Node) /\ Len(q) = Len(p) + 1
      /\ DOMAIN q = 1 .. Len(p) + 1 /\ q # <<>>
      /\ \A i \in 1 .. Len(p) : q[i] = p[i]
      /\ q[Len(p) + 1] = a
      /\ FirstOf(q, Null) = IF p = <<>> THEN a ELSE p[1]
      /\ Distinct(q) /\ Linked(q, next', Null)
  BY <1>3, <1>5, <1>6, <1>7, AppendLinked
<1> HIDE DEF q
<1>9. QTypes'
  BY <1>1, <1>2, <1>4 DEF QTypes, QueueTypeOK, Address
<1>10. IsList(q)'
  <2>1. front' = FirstOf(q, Null)
    BY <1>2, <1>8, ListFacts DEF FirstOf
  <2>2. rear' = q[Len(q)] /\ cnt' = Len(q)
    BY <1>2, <1>3, <1>8
  <2>3. ASSUME NEW i \in DOMAIN q PROVE q[i] \in used' /\ data'[q[i]] \in Item
    <3>1. CASE i = Len(p) + 1
      BY <1>1, <1>2, <1>4, <1>8, <3>1
    <3>2. CASE i # Len(p) + 1
      <4>1. i \in 1 .. Len(p)
        BY <1>8, <3>2, ListFacts
      <4>2. p[i] \in used /\ p[i] # a /\ p[i] \in Node /\ data[p[i]] \in Item /\ q[i] = p[i]
        BY <1>5, <1>8, <4>1, ListFacts
      <4> QED
        BY <1>2, <1>4, <4>2
    <3> QED
      BY <3>1, <3>2
  <2> QED
    BY <1>8, <2>1, <2>2, <2>3 DEF IsList
<1>11. QueueIInv'
  BY <1>2, <1>9, <1>10 DEF QueueIInv, Visiting
<1>12. DataFrom(front)' = Append(DataFrom(front), x)
  <2>1. DataFrom(front) = DataOf(data, p) /\ DataFrom(front)' = DataOf(data', q)
    BY <1>9, <1>10, PathOfList, PathOfNewList DEF QTypes, QueueTypeOK
  <2>2. data' \in [Node -> Item \cup {Null}]
    BY <1>2, <1>4
  <2>3. PICK d \in Seq(Item \cup {Null}) : d = DataOf(data, p)
    BY <1>3, <1>4, DataOfType
  <2>4. PICK e \in Seq(Item \cup {Null}) : e = DataOf(data', q)
    BY <1>8, <2>2, DataOfType
  <2>5. Len(d) = Len(p) /\ \A i \in 1 .. Len(p) : d[i] = data[p[i]]
    BY <1>3, <1>4, <2>3, DataOfType
  <2>6. Len(e) = Len(p) + 1 /\ \A i \in 1 .. Len(p) + 1 : e[i] = data'[q[i]]
    BY <1>8, <2>2, <2>4, DataOfType
  <2>7. \A i \in 1 .. Len(p) : e[i] = d[i]
    <3>1. SUFFICES ASSUME NEW i \in 1 .. Len(p) PROVE e[i] = d[i]
      OBVIOUS
    <3>2. i \in 1 .. Len(p) + 1 /\ q[i] = p[i] /\ p[i] # a /\ p[i] \in Node
      BY <1>5, <1>8, ListFacts
    <3>3. data'[p[i]] = data[p[i]]
      BY <1>2, <1>4, <3>2
    <3> QED
      BY <2>5, <2>6, <3>2, <3>3
  <2>8. e[Len(p) + 1] = x
    <3>1. Len(p) + 1 \in 1 .. Len(p) + 1
      BY ListFacts
    <3> QED
      BY <1>1, <1>2, <1>4, <1>8, <2>6, <3>1
  <2>9. Len(p) \in Nat
    BY ListFacts
  <2>10. /\ Append(d, x) \in Seq(Item \cup {Null}) /\ Len(Append(d, x)) = Len(d) + 1
         /\ \A i \in 1 .. Len(d) : Append(d, x)[i] = d[i]
         /\ Append(d, x)[Len(d) + 1] = x
    BY AppendProperties
  <2>11. e = Append(d, x)
    BY <2>5, <2>6, <2>7, <2>8, <2>9, <2>10, SeqEqual
  <2> QED
    BY <2>1, <2>3, <2>4, <2>11
<1>13. Fifo!Put(x)
  BY <1>2, <1>12 DEF Fifo!Put
<1> QED
  BY <1>11, <1>13 DEF AbstractStep, Fifo!FifoNext

(* What is left of a sequence without its i-th element. *)
LEMMA AroundElement ==
  ASSUME NEW S, NEW d \in Seq(S), NEW i \in 1 .. Len(d), NEW e \in Seq(S),
         Len(e) = Len(d) - 1,
         \A k \in 1 .. Len(d) - 1 : e[k] = IF k < i THEN d[k] ELSE d[k + 1]
  PROVE  e = SubSeq(d, 1, i - 1) \o SubSeq(d, i + 1, Len(d))
<1>1. Len(d) \in Nat /\ i \in Int /\ i - 1 \in Int /\ i + 1 \in Int
  BY LenProperties
<1>2. \A k \in 1 .. Len(d) : d[k] \in S
  BY ElementOfSeq
<1>3. PICK a \in Seq(S) : a = SubSeq(d, 1, i - 1)
  <2>1. \A k \in 1 .. i - 1 : d[k] \in S
    BY <1>1, <1>2
  <2>2. SubSeq(d, 1, i - 1) \in Seq(S)
    BY ONLY <1>1, <2>1, 1 \in Int, SubSeqProperties
  <2> QED
    BY ONLY <2>2
<1>4. PICK b \in Seq(S) : b = SubSeq(d, i + 1, Len(d))
  <2>1. \A k \in i + 1 .. Len(d) : d[k] \in S
    BY <1>1, <1>2
  <2>2. SubSeq(d, i + 1, Len(d)) \in Seq(S)
    BY ONLY <1>1, <2>1, SubSeqProperties
  <2> QED
    BY ONLY <2>2
<1>5. Len(a) = i - 1 /\ \A k \in 1 .. i - 1 : a[k] = d[k]
  BY <1>1, <1>2, <1>3, SubSeqProperties
<1>6. Len(b) = Len(d) - i /\ \A k \in 1 .. Len(d) - i : b[k] = d[k + i]
  BY ONLY <1>1, <1>2, <1>4, SubSeqProperties
<1>7. /\ a \o b \in Seq(S) /\ Len(a \o b) = Len(a) + Len(b)
      /\ \A k \in 1 .. Len(a) + Len(b) :
           (a \o b)[k] = IF k <= Len(a) THEN a[k] ELSE b[k - Len(a)]
  BY ONLY a \in Seq(S), b \in Seq(S), ConcatProperties
<1>8. ASSUME NEW k \in 1 .. Len(d) - 1 PROVE (a \o b)[k] = e[k]
  <2>1. k \in 1 .. Len(a) + Len(b)
    BY <1>1, <1>5, <1>6
  <2>2. CASE k < i
    <3>1. k \in 1 .. i - 1 /\ k <= Len(a)
      BY <1>1, <1>5, <2>2
    <3> QED
      BY <1>5, <1>7, <2>1, <2>2, <3>1
  <2>3. CASE ~(k < i)
    <3>1. k - Len(a) \in 1 .. Len(d) - i /\ ~(k <= Len(a)) /\ k - Len(a) + i = k + 1
      BY <1>1, <1>5, <2>3
    <3>2. b[k - Len(a)] = d[k + 1]
      BY <1>6, <3>1
    <3> QED
      BY <1>7, <2>1, <2>3, <3>1, <3>2
  <2> QED
    BY <2>2, <2>3
<1>9. Len(a \o b) = Len(e) /\ Len(e) = Len(d) - 1
  BY <1>1, <1>5, <1>6, <1>7
<1> QED
  BY <1>3, <1>4, <1>7, <1>8, <1>9, SeqEqual

(* queue_delete() of the first node that holds x (queue.c:98-133). *)
LEMMA UnlinkStep ==
  ASSUME QTypes, Careful, NEW p, IsList(p), NEW x \in Item, NEW i,
         Finds(x, i), Deletable(i), Unlink(i), out' = out
  PROVE  /\ i \in 1 .. Len(p) /\ data[p[i]] = x
         /\ \A j \in 1 .. i - 1 : data[p[j]] # x
         /\ IsList(Without(p, i))' /\ data' = data
         /\ front' \in Address /\ rear' \in Address /\ cnt' \in Nat
         /\ next' \in [Node -> Address] /\ used' \subseteq Node
         /\ Fifo!Remove(x)
<1>1. PathFrom(front) = p /\ DataFrom(front) = DataOf(data, p)
  BY PathOfList DEF QTypes
<1>2. /\ Len(p) \in Nat /\ DOMAIN p = 1 .. Len(p)
      /\ \A k \in 1 .. Len(p) : p[k] \in Node /\ p[k] \in used /\ data[p[k]] \in Item
  BY ListFacts
<1>3. /\ i \in 1 .. Len(p) /\ data[p[i]] = x /\ \A j \in 1 .. i - 1 : data[p[j]] # x
  BY <1>1, <1>2 DEF Finds, FirstHit
<1>4. /\ cnt' = cnt - 1 /\ used' = used \ {p[i]} /\ rear' = rear /\ data' = data
      /\ i = 1 => front' = next[front] /\ next' = next
      /\ i # 1 => front' = front /\ next' = [next EXCEPT ![p[i - 1]] = next[p[i]]]
  BY <1>1 DEF Unlink, Discounted, FrontMoves
<1>5. i = 1 \/ i < Len(p)
  BY <1>1 DEF Careful, Deletable
<1>6. /\ p \in Seq(Node) /\ Distinct(p) /\ Linked(p, next, Null) /\ cnt = Len(p)
  BY DEF IsList
<1>7. /\ next \in [Node -> Address] /\ data \in [Node -> Item \cup {Null}]
      /\ Null \notin Node /\ used \subseteq Node
      /\ front = p[1] /\ rear = p[Len(p)] /\ front \in Node /\ rear \in Node
  <2>1. Len(p) # 0
    BY <1>2, <1>3
  <2> QED
    BY <1>2, <2>1, ListFacts, QueueAssumption DEF QTypes, QueueTypeOK
<1>8. ASSUME NEW k \in DOMAIN p
      PROVE  next'[p[k]] = IF k + 1 = i THEN next[p[i]] ELSE next[p[k]]
  <2>1. CASE i = 1
    BY <1>2, <1>4, <2>1
  <2>2. CASE i # 1
    <3>1. i - 1 \in DOMAIN p /\ k \in 1 .. Len(p) /\ p[k] \in Node
      BY <1>2, <1>3, <2>2
    <3>2. p[k] = p[i - 1] <=> k = i - 1
      BY <1>6, <3>1 DEF Distinct
    <3>3. k = i - 1 <=> k + 1 = i
      BY <1>2, <1>3
    <3> QED
      BY <1>4, <1>7, <2>2, <3>1, <3>2, <3>3
  <2> QED
    BY <2>1, <2>2
<1> DEFINE q == Without(p, i)
<1>9. /\ q \in Seq(Node) /\ Len(q) = Len(p) - 1 /\ DOMAIN q = 1 .. Len(p) - 1
      /\ \A k \in 1 .. Len(p) - 1 : q[k] = IF k < i THEN p[k] ELSE p[k + 1]
  BY <1>3, <1>6, WithoutType
<1>10. /\ Distinct(q) /\ Linked(q, next', Null)
       /\ FirstOf(q, Null) = IF i = 1 THEN next[p[1]] ELSE p[1]
  <2>1. Bypassed(next', next, p, i)
    BY ONLY <1>8 DEF Bypassed
  <2>2. p \in Seq(Node) /\ i \in 1 .. Len(p) /\ Distinct(p) /\ Linked(p, next, Null)
    BY ONLY <1>3, <1>6
  <2>3. /\ Distinct(Without(p, i)) /\ Linked(Without(p, i), next', Null)
        /\ FirstOf(Without(p, i), Null) = IF i = 1 THEN next[p[1]] ELSE p[1]
    BY ONLY <2>1, <2>2, RemoveLinked
  <2> QED
    BY ONLY <2>3 DEF q
<1> HIDE DEF q
<1>11. ASSUME NEW k \in 1 .. Len(p) - 1
       PROVE  \E l \in 1 .. Len(p) : l # i /\ q[k] = p[l] /\ l = IF k < i THEN k ELSE k + 1
  <2>1. k \in 1 .. Len(p) /\ k + 1 \in 1 .. Len(p)
    BY <1>2
  <2>2. CASE k < i
    BY <1>2, <1>9, <2>1, <2>2
  <2>3. CASE ~(k < i)
    <3>1. k + 1 # i /\ q[k] = p[k + 1]
      BY <1>2, <1>3, <1>9, <2>3
    <3> QED
      BY <2>1, <2>3, <3>1
  <2> QED
    BY <2>2, <2>3
<1>12. IsList(q)'
  <2>1. front' = FirstOf(q, Null)
    BY <1>4, <1>7, <1>10
  <2>2. cnt' = Len(q)
    BY <1>4, <1>6, <1>9
  <2>3. q # <<>> => rear' = q[Len(q)]
    <3>1. SUFFICES ASSUME q # <<>> PROVE rear' = q[Len(q)]
      OBVIOUS
    <3>2. Len(q) \in Nat \ {0}
      BY <1>9, <3>1, EmptySeq
    <3>3. i < Len(p) /\ Len(q) \in 1 .. Len(p) - 1 /\ ~(Len(q) < i) /\ Len(q) + 1 = Len(p)
      BY <1>2, <1>3, <1>5, <1>9, <3>2
    <3>4. q[Len(q)] = p[Len(p)]
      BY <1>9, <3>3
    <3> QED
      BY <1>4, <1>7, <3>4
  <2>4. ASSUME NEW k \in DOMAIN q PROVE q[k] \in used' /\ data'[q[k]] \in Item
    <3>1. PICK l \in 1 .. Len(p) : l # i /\ q[k] = p[l]
      BY <1>9, <1>11
    <3>2. p[l] # p[i]
      BY <1>2, <1>3, <1>6, <3>1 DEF Distinct
    <3> QED
      BY <1>2, <1>4, <3>1, <3>2
  <2> QED
    BY <1>9, <1>10, <2>1, <2>2, <2>3, <2>4 DEF IsList
<1>13. next' \in [Node -> Address]
  BY <1>2, <1>3, <1>4, <1>7
<1>14. front' \in Address /\ rear' \in Address /\ cnt' \in Nat /\ used' \subseteq Node
  BY <1>2, <1>3, <1>4, <1>6, <1>7 DEF Address
<1>15. Fifo!Remove(x)
  <2>1. DataFrom(front)' = DataOf(data', q)
    BY <1>12, <1>13, PathOfNewList
  <2>2. PICK d \in Seq(Item \cup {Null}) : d = DataOf(data, p)
    BY <1>6, <1>7, DataOfType
  <2>3. PICK e \in Seq(Item \cup {Null}) : e = DataOf(data', q)
    BY <1>4, <1>7, <1>9, DataOfType
  <2>4. Len(d) = Len(p) /\ DOMAIN d = 1 .. Len(p) /\ \A k \in 1 .. Len(p) : d[k] = data[p[k]]
    BY <1>6, <1>7, <2>2, DataOfType
  <2>5. Len(e) = Len(p) - 1 /\ \A k \in 1 .. Len(p) - 1 : e[k] = data[q[k]]
    <3>1. data' \in [Node -> Item \cup {Null}]
      BY <1>4, <1>7
    <3>2. /\ Len(DataOf(data', q)) = Len(q)
          /\ \A k \in 1 .. Len(q) : DataOf(data', q)[k] = data'[q[k]]
      BY ONLY <1>9, <3>1, DataOfType
    <3> QED
      BY ONLY <1>4, <1>9, <2>3, <3>2
  <2>6. ASSUME NEW k \in 1 .. Len(d) - 1 PROVE e[k] = IF k < i THEN d[k] ELSE d[k + 1]
    <3>1. PICK l \in 1 .. Len(p) : q[k] = p[l] /\ l = IF k < i THEN k ELSE k + 1
      BY <1>11, <2>4
    <3>2. e[k] = data[p[l]] /\ d[l] = data[p[l]]
      BY <2>4, <2>5, <3>1
    <3> QED
      BY <3>1, <3>2
  <2>7. e = SubSeq(d, 1, i - 1) \o SubSeq(d, i + 1, Len(d))
    <3>1. i \in 1 .. Len(d) /\ Len(e) = Len(d) - 1
      BY ONLY <1>3, <2>4, <2>5
    <3> QED
      BY ONLY <2>6, <3>1, AroundElement
  <2>8. /\ i \in DOMAIN d /\ d[i] = x
        /\ \A j \in 1 .. i - 1 : d[j] # x
    <3>1. \A j \in 1 .. i - 1 : j \in 1 .. Len(p)
      BY <1>2, <1>3
    <3> QED
      BY <1>3, <2>4, <3>1
  <2> QED
    BY <1>1, <1>4, <2>1, <2>2, <2>3, <2>7, <2>8 DEF Fifo!Remove
<1> QED
  BY <1>3, <1>4, <1>12, <1>13, <1>14, <1>15 DEF q

(* queue_delete() as an operation of its own. *)
LEMMA DeleteStep ==
  ASSUME QTypes, Careful, NEW p, IsList(p), NEW x \in Item, Delete(x)
  PROVE  QueueIInv' /\ AbstractStep
<1>1. PICK i : Finds(x, i) /\ Deletable(i) /\ Unlink(i)
  BY DEF Delete
<1>2. at = Null /\ at' = at /\ out' = out /\ seen' = seen /\ due' = due
  BY DEF Delete
<1>3. /\ IsList(Without(p, i))' /\ data' = data
      /\ front' \in Address /\ rear' \in Address /\ cnt' \in Nat
      /\ next' \in [Node -> Address] /\ used' \subseteq Node
      /\ Fifo!Remove(x)
  BY <1>1, <1>2, UnlinkStep
<1>4. QTypes'
  BY <1>2, <1>3 DEF QTypes, QueueTypeOK
<1> QED
  BY <1>2, <1>3, <1>4 DEF QueueIInv, Visiting, AbstractStep, Fifo!FifoNext

(* queue_dequeue() (queue.c:78-96). *)
LEMMA DequeueStep ==
  ASSUME QTypes, NEW p, IsList(p), Dequeue
  PROVE  QueueIInv' /\ AbstractStep
<1>1. /\ at = Null /\ at' = at /\ seen' = seen /\ due' = due /\ front # Null
      /\ out' = data[front] /\ front' = next[front] /\ cnt' = cnt - 1
      /\ rear' = rear /\ next' = next /\ data' = data /\ used' = used
  BY DEF Dequeue
<1>2. /\ p \in Seq(Node) /\ Distinct(p) /\ Linked(p, next, Null) /\ cnt = Len(p)
  BY DEF IsList
<1>3. /\ Len(p) \in Nat \ {0} /\ p # <<>> /\ DOMAIN p = 1 .. Len(p)
      /\ front = p[1] /\ rear = p[Len(p)] /\ front \in Node /\ data[front] \in Item
      /\ \A i \in 1 .. Len(p) : p[i] \in used /\ data[p[i]] \in Item
  <2>1. Len(p) \in Nat \ {0} /\ p # <<>> /\ front = p[1] /\ rear = p[Len(p)]
    BY <1>1, ListFacts
  <2>2. 1 \in 1 .. Len(p)
    BY <2>1
  <2> QED
    BY <2>1, <2>2, ListFacts
<1>4. /\ next \in [Node -> Address] /\ data \in [Node -> Item \cup {Null}]
  BY DEF QTypes, QueueTypeOK
<1>5. /\ Linked(Tail(p), next, Null) /\ next[p[1]] = FirstOf(Tail(p), Null)
      /\ Tail(p) \in Seq(Node) /\ Len(Tail(p)) = Len(p) - 1
  <2>1. p \in Seq(Node) /\ p # <<>> /\ Linked(p, next, Null)
    BY <1>2, <1>3
  <2> QED
    BY ONLY <2>1, TailLinked
<1>6. PICK q \in Seq(Node) : q = Tail(p)
  BY <1>5
<1>7. /\ Len(q) = Len(p) - 1 /\ DOMAIN q = 1 .. Len(p) - 1
      /\ \A i \in 1 .. Len(q) : q[i] = p[i + 1]
  <2>1. \A i \in 1 .. Len(Tail(p)) : Tail(p)[i] = p[i + 1]
    BY ONLY <1>2, <1>3, HeadTailProperties
  <2> QED
    BY <1>5, <1>6, <2>1, LenProperties
<1>8. IsList(q)'
  <2>1. Distinct(q)
    <3>1. SUFFICES ASSUME NEW i \in DOMAIN q, NEW j \in DOMAIN q, q[i] = q[j] PROVE i = j
      BY DEF Distinct
    <3>2. i + 1 \in DOMAIN p /\ j + 1 \in DOMAIN p /\ q[i] = p[i + 1] /\ q[j] = p[j + 1]
      BY <1>3, <1>7
    <3>3. i + 1 = j + 1
      BY <1>2, <3>1, <3>2 DEF Distinct
    <3> QED
      BY <1>7, <3>3
  <2>2. q # <<>> => rear = q[Len(q)]
    <3>1. SUFFICES ASSUME q # <<>> PROVE rear = q[Len(q)]
      OBVIOUS
    <3>2. Len(q) \in Nat \ {0}
      BY <3>1, EmptySeq
    <3>3. Len(q) \in 1 .. Len(q) /\ Len(q) + 1 = Len(p)
      BY <1>3, <1>7, <3>2
    <3> QED
      BY <1>3, <1>7, <3>3
  <2>3. \A i \in DOMAIN q : q[i] \in used /\ data[q[i]] \in Item
    <3>1. SUFFICES ASSUME NEW i \in DOMAIN q PROVE q[i] \in used /\ data[q[i]] \in Item
      OBVIOUS
    <3>2. i + 1 \in 1 .. Len(p) /\ q[i] = p[i + 1]
      BY <1>3, <1>7
    <3> QED
      BY <1>3, <3>2
  <2>4. front' = FirstOf(q, Null) /\ cnt' = Len(q) /\ Linked(q, next, Null)
    BY <1>1, <1>2, <1>3, <1>5, <1>6, <1>7
  <2> QED
    BY <1>1, <2>1, <2>2, <2>3, <2>4 DEF IsList
<1>9. QTypes'
  <2>1. cnt' \in Nat /\ front' \in Address /\ out' \in Item \cup {Null}
    BY <1>1, <1>2, <1>3, <1>4
  <2> QED
    BY <1>1, <2>1 DEF QTypes, QueueTypeOK
<1>10. QueueIInv'
  BY <1>1, <1>8, <1>9 DEF QueueIInv, Visiting
<1>11. Fifo!Get
  <2>1. DataFrom(front) = DataOf(data, p) /\ DataFrom(front)' = DataOf(data, q)
    BY <1>1, <1>8, <1>9, PathOfList, PathOfNewList DEF QTypes, QueueTypeOK
  <2>2. PICK d \in Seq(Item \cup {Null}) : d = DataOf(data, p)
    BY <1>2, <1>4, DataOfType
  <2>3. PICK e \in Seq(Item \cup {Null}) : e = DataOf(data, q)
    BY <1>4, DataOfType
  <2>4. Len(d) = Len(p) /\ \A i \in 1 .. Len(p) : d[i] = data[p[i]]
    BY ONLY <1>2, <1>4, <2>2, DataOfType
  <2>5. Len(e) = Len(q) /\ \A i \in 1 .. Len(q) : e[i] = data[q[i]]
    BY ONLY <1>4, <2>3, DataOfType, q \in Seq(Node)
  <2>6. d # <<>> /\ d[1] = data[front]
    BY <1>3, <2>4, EmptySeq
  <2>7. /\ Head(d) = d[1] /\ Tail(d) \in Seq(Item \cup {Null}) /\ Len(Tail(d)) = Len(d) - 1
        /\ \A i \in 1 .. Len(Tail(d)) : Tail(d)[i] = d[i + 1]
    BY <2>6, HeadTailProperties
  <2>8. ASSUME NEW i \in 1 .. Len(e) PROVE e[i] = Tail(d)[i]
    <3>1. /\ i \in 1 .. Len(q) /\ i \in 1 .. Len(Tail(d)) /\ i + 1 \in 1 .. Len(p)
      BY ONLY <1>3, <1>7, <2>4, <2>5, <2>7, i \in 1 .. Len(e)
    <3>2. e[i] = data[q[i]] /\ q[i] = p[i + 1] /\ d[i + 1] = data[p[i + 1]]
      BY ONLY <1>7, <2>4, <2>5, <3>1
    <3> QED
      BY ONLY <2>7, <3>1, <3>2
  <2>9. Len(e) = Len(Tail(d))
    BY ONLY <1>7, <2>4, <2>5, <2>7
  <2>10. e = Tail(d)
    BY <2>7, <2>8, <2>9, SeqEqual
  <2> QED
    BY <1>1, <2>1, <2>2, <2>3, <2>6, <2>7, <2>10 DEF Fifo!Get
<1> QED
  BY <1>10, <1>11 DEF AbstractStep, Fifo!FifoNext

-----------------------------------------------------------------------------
(* The iteration (queue.c:135-151). *)

(* It begins at the first node, with everything still to be visited. *)
LEMMA IterateStartStep ==
  ASSUME QTypes, NEW p, IsList(p), IterateStart
  PROVE  QueueIInv' /\ AbstractStep
<1>1. /\ front # Null /\ at' = front /\ seen' = <<>> /\ due' = DataFrom(front)
      /\ front' = front /\ rear' = rear /\ cnt' = cnt /\ next' = next /\ data' = data
      /\ used' = used /\ out' = out
  BY DEF IterateStart
<1>2. /\ p \in Seq(Node) /\ Len(p) \in Nat \ {0} /\ front = p[1] /\ DOMAIN p = 1 .. Len(p)
      /\ \A i \in 1 .. Len(p) : data[p[i]] \in Item
  BY <1>1, ListFacts DEF IsList
<1>3. due' = DataOf(data, p)
  BY <1>1, PathOfList DEF QTypes
<1>4. /\ Len(due') = Len(p) /\ \A i \in 1 .. Len(p) : due'[i] = data[p[i]]
      /\ due' \in Seq(Item)
  <2>1. data \in [Node -> Item \cup {Null}]
    BY DEF QTypes, QueueTypeOK
  <2>2. /\ Len(DataOf(data, p)) = Len(p)
        /\ \A i \in 1 .. Len(p) : DataOf(data, p)[i] = data[p[i]]
    BY ONLY <1>2, <2>1, DataOfType
  <2>3. DataOf(data, p) \in [1 .. Len(p) -> Item]
    BY ONLY <1>2 DEF DataOf
  <2>4. DataOf(data, p) \in Seq(Item)
    BY ONLY <1>2, <2>3, FunctionIsSeq
  <2> QED
    BY ONLY <1>3, <2>2, <2>4
<1>5. QTypes'
  <2>1. seen' \in Seq(Item)
    BY <1>1, EmptySeq
  <2> QED
    BY <1>1, <1>4, <2>1 DEF QTypes, QueueTypeOK
<1>6. IsList(p)'
  BY <1>1 DEF IsList
<1>7. VisitsAt(p, 1)'
  <2>1. Len(seen') = 0
    BY <1>1, EmptySeq
  <2>2. Len(due') = Len(seen') + (Len(p) - 1 + 1)
    BY <1>2, <1>4, <2>1
  <2>3. \A k \in 1 .. Len(p) : due'[Len(seen') + (k - 1 + 1)] = data'[p[k]]
    BY <1>1, <1>4, <2>1
  <2> QED
    BY <1>1, <1>2, <2>1, <2>2, <2>3 DEF VisitsAt
<1>8. QueueIInv'
  <2>1. 1 \in 1 .. Len(p)
    BY <1>2
  <2> QED
    BY <1>5, <1>6, <1>7, <2>1 DEF QueueIInv, Visiting
<1>9. DataFrom(front)' = DataFrom(front)
  <2>1. front' = front /\ next' = next /\ data' = data
    BY <1>1
  <2> QED
    BY ONLY <2>1 DEF DataFrom, PathFrom
<1> QED
  BY <1>1, <1>8, <1>9 DEF AbstractStep, Fifo!fifoVars

(* It goes from the j-th node of p to the m-th of q, when what is left of  *)
(* q from there on is what is left of p after j.                           *)
LEMMA VisitAdvances ==
  ASSUME QTypes, NEW p \in Seq(Node), NEW j \in 1 .. Len(p), VisitsAt(p, j),
         NEW q \in Seq(Node), NEW m \in 1 .. Len(q), Len(q) - m = Len(p) - (j + 1),
         \A k \in m .. Len(q) : q[k] = p[k + ((j + 1) - m)],
         at' = q[m], seen' = Append(seen, data[at]), due' = due, data' = data,
         data[at] \in Item
  PROVE  VisitsAt(q, m)' /\ seen' \in Seq(Item)
<1>1. Len(p) \in Nat /\ Len(q) \in Nat /\ Len(seen) \in Nat /\ seen \in Seq(Item)
  BY LenProperties DEF QTypes
<1>2. /\ at = p[j] /\ Len(due) = Len(seen) + (Len(p) - j + 1)
      /\ \A k \in 1 .. Len(seen) : due[k] = seen[k]
      /\ \A k \in j .. Len(p) : due[Len(seen) + (k - j + 1)] = data[p[k]]
  BY DEF VisitsAt
<1>3. /\ seen' \in Seq(Item) /\ Len(seen') = Len(seen) + 1
      /\ \A k \in 1 .. Len(seen) : seen'[k] = seen[k]
      /\ seen'[Len(seen) + 1] = data[at]
  BY ONLY <1>1, seen' = Append(seen, data[at]), data[at] \in Item, AppendProperties
<1>4. Len(due') = Len(seen') + (Len(q) - m + 1)
  <2>1. /\ Len(due') = Len(due) /\ j \in Int /\ m \in Int
        /\ Len(p) \in Nat /\ Len(q) \in Nat /\ Len(seen) \in Nat
    BY <1>1
  <2>2. Len(due) = Len(seen) + (Len(p) - j + 1) /\ Len(seen') = Len(seen) + 1
    BY <1>2, <1>3
  <2> QED
    BY ONLY <2>1, <2>2, Len(q) - m = Len(p) - (j + 1)
<1>5. ASSUME NEW k \in 1 .. Len(seen') PROVE due'[k] = seen'[k]
  <2>1. CASE k = Len(seen) + 1
    <3>1. j \in j .. Len(p) /\ Len(seen) + (j - j + 1) = k
      BY <1>1, <2>1
    <3>2. due[Len(seen) + (j - j + 1)] = data[p[j]]
      BY ONLY <1>2, <3>1
    <3> QED
      BY <1>2, <1>3, <2>1, <3>1, <3>2
  <2>2. CASE k # Len(seen) + 1
    <3>1. k \in 1 .. Len(seen)
      BY <1>1, <1>3, <2>2
    <3> QED
      BY <1>2, <1>3, <3>1
  <2> QED
    BY <2>1, <2>2
<1>6. ASSUME NEW k \in m .. Len(q)
      PROVE  due'[Len(seen') + (k - m + 1)] = data'[q[k]]
  <2>1. /\ k + ((j + 1) - m) \in j .. Len(p)
        /\ Len(seen') + (k - m + 1) = Len(seen) + ((k + ((j + 1) - m)) - j + 1)
    <3>1. j \in Int /\ m \in Int /\ k \in Int /\ j <= Len(p) /\ m <= k /\ k <= Len(q)
      BY <1>1
    <3> QED
      BY ONLY <1>1, <1>3, <3>1, Len(q) - m = Len(p) - (j + 1)
  <2>2. due[Len(seen) + ((k + ((j + 1) - m)) - j + 1)] = data[p[k + ((j + 1) - m)]]
    BY ONLY <1>2, <2>1
  <2> QED
    BY <2>1, <2>2
<1> QED
  BY <1>3, <1>4, <1>5, <1>6 DEF VisitsAt

(* The node after the j-th. *)
LEMMA NextOf ==
  ASSUME QTypes, NEW p, IsList(p), NEW j \in 1 .. Len(p)
  PROVE  /\ next[p[j]] = IF j = Len(p) THEN Null ELSE p[j + 1]
         /\ j # Len(p) => j + 1 \in 1 .. Len(p) /\ p[j + 1] \in Node /\ p[j + 1] # Null
<1>1. Len(p) \in Nat /\ DOMAIN p = 1 .. Len(p) /\ \A i \in 1 .. Len(p) : p[i] \in Node
  BY ListFacts
<1>2. next[p[j]] = IF j = Len(p) THEN Null ELSE p[j + 1]
  BY <1>1 DEF IsList, Linked
<1>3. j # Len(p) => j + 1 \in 1 .. Len(p)
  <2>1. Len(p) \in Nat
    BY <1>1
  <2> QED
    BY ONLY <2>1, j \in 1 .. Len(p)
<1> QED
  BY <1>1, <1>2, <1>3, QueueAssumption

(* A round of the iteration, with a callback that deletes nothing or the   *)
(* first node that holds the item it was called for: that node is not      *)
(* after the one visited, so what is to be visited next is still there.    *)
LEMMA IterateVisitStep ==
  ASSUME QTypes, Careful, NEW p, IsList(p), Visiting(p), IterateVisit
  PROVE  QueueIInv' /\ AbstractStep
<1>1. PICK j \in 1 .. Len(p) : VisitsAt(p, j)
  BY DEF Visiting, IterateVisit
<1>2. /\ at = p[j] /\ at # Null /\ at' = next[at] /\ out' = out
      /\ at' = Null => seen' = <<>> /\ due' = <<>>
      /\ at' # Null => seen' = Append(seen, data[at]) /\ due' = due
  BY <1>1 DEF IterateVisit, Saved, VisitsAt
<1>3. /\ p \in Seq(Node) /\ Len(p) \in Nat /\ p[j] \in Node /\ data[at] \in Item
  BY <1>2, ListFacts DEF IsList
<1>4. /\ at' = IF j = Len(p) THEN Null ELSE p[j + 1]
      /\ j # Len(p) => j + 1 \in 1 .. Len(p) /\ at' \in Node /\ at' # Null
  BY <1>2, NextOf
<1>5. <<>> \in Seq(Item) /\ seen \in Seq(Item) /\ due \in Seq(Item)
  BY EmptySeq DEF QTypes
<1>6. CASE front' = front /\ rear' = rear /\ cnt' = cnt /\ next' = next /\ data' = data /\ used' = used
  <2>1. IsList(p)'
    BY <1>6 DEF IsList
  <2>2. j # Len(p) => VisitsAt(p, j + 1)' /\ seen' \in Seq(Item)
    <3>1. SUFFICES ASSUME j # Len(p) PROVE VisitsAt(p, j + 1)' /\ seen' \in Seq(Item)
      OBVIOUS
    <3>2. j + 1 \in 1 .. Len(p) /\ Len(p) - (j + 1) = Len(p) - (j + 1)
      BY <1>3, <1>4, <3>1
    <3>3. \A k \in j + 1 .. Len(p) : p[k] = p[k + ((j + 1) - (j + 1))]
      BY <1>3
    <3>4. at' = p[j + 1] /\ seen' = Append(seen, data[at]) /\ due' = due
      BY <1>2, <1>4, <3>1
    <3> QED
      BY ONLY QTypes, <1>1, <1>3, <1>6, <3>2, <3>3, <3>4, VisitAdvances
  <2>3. QTypes'
    BY <1>2, <1>4, <1>5, <1>6, <2>2 DEF QTypes, QueueTypeOK, Address
  <2>4. QueueIInv'
    BY <1>4, <2>1, <2>2, <2>3 DEF QueueIInv, Visiting
  <2>5. DataFrom(front)' = DataFrom(front)
    BY <1>6 DEF DataFrom, PathFrom
  <2> QED
    BY <1>2, <1>6, <2>4, <2>5 DEF AbstractStep, Fifo!fifoVars
<1>7. CASE CallbackDeletes
  <2>1. PICK i : Finds(data[at], i) /\ Deletable(i) /\ Unlink(i)
    BY <1>7 DEF CallbackDeletes
  <2>2. /\ i \in 1 .. Len(p) /\ \A l \in 1 .. i - 1 : data[p[l]] # data[at]
        /\ IsList(Without(p, i))' /\ data' = data
        /\ front' \in Address /\ rear' \in Address /\ cnt' \in Nat
        /\ next' \in [Node -> Address] /\ used' \subseteq Node
        /\ Fifo!Remove(data[at])
    BY <1>2, <1>3, <2>1, UnlinkStep
  <2>3. i <= j
    <3>1. ~(j \in 1 .. i - 1)
      BY <1>2, <2>2
    <3> QED
      BY <1>3, <2>2, <3>1
  <2>4. PICK q \in Seq(Node) : q = Without(p, i)
    BY <1>3, <2>2, WithoutType
  <2>5. /\ Len(q) = Len(p) - 1
        /\ \A k \in 1 .. Len(p) - 1 : q[k] = IF k < i THEN p[k] ELSE p[k + 1]
    BY ONLY <1>3, <2>2, <2>4, WithoutType
  <2>6. j # Len(p) => j \in 1 .. Len(q) /\ VisitsAt(q, j)' /\ seen' \in Seq(Item)
    <3>1. SUFFICES ASSUME j # Len(p)
                   PROVE  j \in 1 .. Len(q) /\ VisitsAt(q, j)' /\ seen' \in Seq(Item)
      OBVIOUS
    <3>2. j \in 1 .. Len(q) /\ Len(q) - j = Len(p) - (j + 1)
      BY <1>3, <2>5, <3>1
    <3>3. ASSUME NEW k \in j .. Len(q) PROVE q[k] = p[k + ((j + 1) - j)]
      <4>1. k \in 1 .. Len(p) - 1 /\ ~(k < i) /\ k + ((j + 1) - j) = k + 1
        BY <1>3, <2>2, <2>3, <2>5
      <4> QED
        BY <2>5, <4>1
    <3>4. at' = q[j] /\ seen' = Append(seen, data[at]) /\ due' = due
      <4>1. j \in j .. Len(q) /\ j + ((j + 1) - j) = j + 1
        BY <1>3, <3>2
      <4>2. q[j] = p[j + 1]
        BY <3>3, <4>1
      <4> QED
        BY <1>2, <1>4, <3>1, <4>2
    <3> QED
      BY ONLY QTypes, <1>1, <1>3, <2>2, <3>2, <3>3, <3>4, VisitAdvances, q \in Seq(Node)
  <2>7. QTypes'
    <3>1. at' \in Address /\ seen' \in Seq(Item) /\ due' \in Seq(Item)
      BY <1>2, <1>4, <1>5, <2>6 DEF Address
    <3>2. out' \in Item \cup {Null} /\ data' \in [Node -> Item \cup {Null}]
      BY <1>2, <2>2 DEF QTypes, QueueTypeOK
    <3> QED
      BY <2>2, <3>1, <3>2 DEF QTypes, QueueTypeOK
  <2>8. QueueIInv'
    BY <1>4, <2>2, <2>4, <2>6, <2>7 DEF QueueIInv, Visiting
  <2> QED
    BY <1>3, <2>2, <2>8 DEF AbstractStep, Fifo!FifoNext
<1> QED
  BY <1>6, <1>7 DEF IterateVisit

(* queue_destroy() and the next queue_create(): the list is empty. *)
LEMMA RecreateStep ==
  ASSUME QTypes, NEW p, IsList(p), Recreate
  PROVE  QueueIInv' /\ AbstractStep
<1>1. /\ at = Null /\ cnt = 0 /\ front' = Null /\ rear' = Null /\ cnt' = cnt /\ next' = next
      /\ data' = data /\ used' = used /\ out' = out /\ at' = at /\ seen' = seen /\ due' = due
  BY DEF Recreate
<1>2. p = <<>> /\ front = Null
  <2>1. p \in Seq(Node) /\ cnt = Len(p) /\ front = FirstOf(p, Null)
    BY DEF IsList
  <2>2. p = <<>>
    BY <1>1, <2>1, EmptySeq
  <2> QED
    BY <2>1, <2>2 DEF FirstOf
<1>3. IsList(p)'
  BY <1>1, <1>2 DEF IsList
<1>4. QTypes'
  BY <1>1 DEF QTypes, QueueTypeOK, Address
<1>5. DataFrom(front)' = DataFrom(front)
  <2>1. front' = front /\ next' = next /\ data' = data
    BY <1>1, <1>2
  <2> QED
    BY ONLY <2>1 DEF DataFrom, PathFrom
<1> QED
  BY <1>1, <1>3, <1>4, <1>5 DEF QueueIInv, Visiting, AbstractStep, Fifo!fifoVars

-----------------------------------------------------------------------------
(* The invariant holds of the empty queue. *)
LEMMA ListBegins == QueueInit => QueueIInv /\ Fifo!FifoInit
<1>1. SUFFICES ASSUME QueueInit PROVE QueueIInv /\ Fifo!FifoInit
  OBVIOUS
<1>2. /\ front = Null /\ rear = Null /\ cnt = 0 /\ at = Null /\ seen = <<>> /\ due = <<>>
      /\ next = [a \in Node |-> Null] /\ data = [a \in Node |-> Null] /\ used = {}
      /\ out = Null
  BY <1>1 DEF QueueInit
<1>3. QTypes
  BY <1>2, EmptySeq DEF QTypes, QueueTypeOK, Address
<1>4. PICK p \in Seq(Node) : p = <<>>
  BY EmptySeq
<1>5. Len(p) = 0 /\ DOMAIN p = {}
  BY <1>4, EmptySeq
<1>6. IsList(p)
  BY <1>2, <1>4, <1>5 DEF IsList, Distinct, Linked, FirstOf
<1>7. QueueIInv
  BY <1>2, <1>3, <1>6 DEF QueueIInv, Visiting
<1>8. DataFrom(front) = <<>>
  <2>1. DataFrom(front) = DataOf(data, p)
    BY <1>3, <1>6, PathOfList DEF QTypes
  <2>2. DataOf(data, p) = p
    BY <1>4, <1>5 DEF DataOf
  <2> QED
    BY <1>4, <2>1, <2>2
<1> QED
  BY <1>2, <1>7, <1>8 DEF Fifo!FifoInit

(* Every step keeps it, and is one of the FIFO queue or changes nothing of *)
(* what the clients see.                                                   *)
LEMMA ListStays ==
  ASSUME QueueIInv, Careful, [QueueNext]_queueVars
  PROVE  QueueIInv' /\ AbstractStep
<1>1. PICK p : IsList(p) /\ Visiting(p)
  BY DEF QueueIInv
<1>2. QTypes
  BY DEF QueueIInv
<1>3. ASSUME NEW x \in Item, Enqueue(x) PROVE QueueIInv' /\ AbstractStep
  BY <1>1, <1>2, <1>3, EnqueueStep
<1>4. ASSUME NEW x \in Item, Delete(x) PROVE QueueIInv' /\ AbstractStep
  BY <1>1, <1>2, <1>4, DeleteStep
<1>5. CASE Dequeue
  BY <1>1, <1>2, <1>5, DequeueStep
<1>6. CASE IterateStart
  BY <1>1, <1>2, <1>6, IterateStartStep
<1>7. CASE IterateVisit
  BY <1>1, <1>2, <1>7, IterateVisitStep
<1>8. CASE Recreate
  BY <1>1, <1>2, <1>8, RecreateStep
<1>9. CASE UNCHANGED queueVars
  <2>1. /\ front' = front /\ rear' = rear /\ cnt' = cnt /\ next' = next /\ data' = data
        /\ used' = used /\ out' = out /\ at' = at /\ seen' = seen /\ due' = due
    BY <1>9 DEF queueVars
  <2>2. QTypes'
    BY <1>2, <2>1 DEF QTypes, QueueTypeOK
  <2>3. IsList(p)'
    BY <1>1, <2>1 DEF IsList
  <2>4. Visiting(p)'
    BY <1>1, <2>1 DEF Visiting, VisitsAt
  <2>5. DataFrom(front)' = DataFrom(front)
    BY ONLY <2>1 DEF DataFrom, PathFrom
  <2> QED
    BY <2>1, <2>2, <2>3, <2>4, <2>5 DEF QueueIInv, AbstractStep, Fifo!fifoVars
<1> QED
  BY <1>3, <1>4, <1>5, <1>6, <1>7, <1>8, <1>9 DEF QueueNext

(* The linked list of queue.c is always one: the nodes from front on are   *)
(* allocated, no node is in it twice, it ends at rear, and the counter is  *)
(* its length; an iteration in progress is at one of its nodes, with as    *)
(* much to visit as is left from there.                                    *)
THEOREM ListInvariant == Careful => (QueueSpec => []QueueIInv)
<1>1. SUFFICES ASSUME Careful PROVE QueueSpec => []QueueIInv
  OBVIOUS
<1>2. QueueInit => QueueIInv
  BY ListBegins
<1>3. QueueIInv /\ [QueueNext]_queueVars => QueueIInv'
  BY <1>1, ListStays
<1> QED
  BY <1>2, <1>3, PTL DEF QueueSpec

-----------------------------------------------------------------------------
(* What it gives. *)

(* It includes the types. *)
LEMMA ListTyped == QueueIInv => QueueTypeOK
  BY DEF QueueIInv, QTypes

(* Every address the code will follow is allocated. *)
LEMMA ListAllocated == QueueIInv => NoDangling
<1>1. SUFFICES ASSUME QueueIInv PROVE NoDangling
  OBVIOUS
<1>2. PICK p : IsList(p) /\ Visiting(p)
  BY <1>1 DEF QueueIInv
<1>3. QTypes
  BY <1>1 DEF QueueIInv
<1>4. PathFrom(front) = p
  BY <1>2, <1>3, PathOfList DEF QTypes
<1>5. \A i \in DOMAIN p : p[i] \in used
  BY <1>2 DEF IsList
<1>6. front # Null => rear \in used
  <2>1. SUFFICES ASSUME front # Null PROVE rear \in used
    OBVIOUS
  <2>2. rear = p[Len(p)] /\ Len(p) \in Nat \ {0} /\ DOMAIN p = 1 .. Len(p)
    BY <1>2, <1>3, <2>1, ListFacts
  <2> QED
    BY <1>5, <2>2
<1>7. at # Null => at \in used
  <2>1. SUFFICES ASSUME at # Null PROVE at \in used
    OBVIOUS
  <2>2. PICK j \in 1 .. Len(p) : at = p[j]
    BY <1>2, <2>1 DEF Visiting, VisitsAt
  <2>3. DOMAIN p = 1 .. Len(p)
    BY <1>2, <1>3, ListFacts
  <2> QED
    BY <1>5, <2>2, <2>3
<1> QED
  BY <1>4, <1>5, <1>6, <1>7 DEF NoDangling

(* The counter and the pointers agree. *)
LEMMA ListShaped == QueueIInv => Shape
<1>1. SUFFICES ASSUME QueueIInv PROVE Shape
  OBVIOUS
<1>2. PICK p : IsList(p) /\ Visiting(p)
  BY <1>1 DEF QueueIInv
<1>3. QTypes
  BY <1>1 DEF QueueIInv
<1>4. PathFrom(front) = p /\ cnt = Len(p)
  BY <1>2, <1>3, PathOfList DEF QTypes, IsList
<1>5. front # Null => p[Len(p)] = rear /\ next[rear] = Null
  <2>1. SUFFICES ASSUME front # Null PROVE p[Len(p)] = rear /\ next[rear] = Null
    OBVIOUS
  <2>2. rear = p[Len(p)] /\ Len(p) \in Nat \ {0}
    BY <1>2, <1>3, <2>1, ListFacts
  <2>3. Len(p) \in 1 .. Len(p)
    BY <2>2
  <2> QED
    BY <1>2, <1>3, <2>2, <2>3, NextOf
<1> QED
  BY <1>4, <1>5 DEF Shape

(* The walk from the j-th node gives the nodes from there on, so what the  *)
(* iteration has visited and what it will visit are what was there.        *)
LEMMA ListVisited == QueueIInv => VisitsEach
<1>1. SUFFICES ASSUME QueueIInv, at # Null PROVE seen \o DataFrom(at) = due
  BY DEF VisitsEach
<1>2. PICK p : IsList(p) /\ Visiting(p)
  BY <1>1 DEF QueueIInv
<1>3. QTypes
  BY <1>1 DEF QueueIInv
<1>4. PICK j \in 1 .. Len(p) : VisitsAt(p, j)
  BY <1>1, <1>2 DEF Visiting
<1>5. p \in Seq(Node) /\ Distinct(p) /\ Linked(p, next, Null) /\ Len(p) \in Nat
  BY <1>2, <1>3, ListFacts DEF IsList
<1>6. next \in [Node -> Address] /\ data \in [Node -> Item \cup {Null}]
      /\ seen \in Seq(Item) /\ due \in Seq(Item)
  BY <1>3 DEF QTypes, QueueTypeOK
<1>7. /\ From(p, j) \in Seq(Node) /\ Len(From(p, j)) = Len(p) - j + 1
      /\ DOMAIN From(p, j) = 1 .. Len(p) - j + 1
      /\ \A k \in 1 .. Len(p) - j + 1 : From(p, j)[k] = p[k + j - 1]
      /\ Linked(From(p, j), next, Null) /\ FirstOf(From(p, j), Null) = p[j]
  <2>1. p \in Seq(Node) /\ j \in 1 .. Len(p) /\ Linked(p, next, Null)
    BY <1>5
  <2> QED
    BY ONLY <2>1, FromLinked
<1>8. PICK q \in Seq(Node) : q = From(p, j)
  BY <1>7
<1>9. Distinct(q)
  <2>1. SUFFICES ASSUME NEW k \in DOMAIN q, NEW l \in DOMAIN q, q[k] = q[l] PROVE k = l
    BY DEF Distinct
  <2>2. k \in 1 .. Len(p) - j + 1 /\ l \in 1 .. Len(p) - j + 1
    BY <1>7, <1>8
  <2>3. k + j - 1 \in DOMAIN p /\ l + j - 1 \in DOMAIN p
    <3>1. DOMAIN p = 1 .. Len(p) /\ Len(p) \in Nat
      BY <1>5, LenProperties
    <3>2. k + j - 1 \in 1 .. Len(p) /\ l + j - 1 \in 1 .. Len(p)
      BY ONLY <2>2, <3>1, j \in 1 .. Len(p)
    <3> QED
      BY ONLY <3>1, <3>2
  <2>4. q[k] = p[k + j - 1] /\ q[l] = p[l + j - 1]
    BY <1>7, <1>8, <2>2
  <2>5. k + j - 1 = l + j - 1
    BY <1>5, <2>1, <2>3, <2>4 DEF Distinct
  <2> QED
    BY <2>2, <2>5
<1>10. DataFrom(at) = DataOf(data, q)
  <2>1. PathIn(next, FirstOf(q, Null)) = q
    BY <1>6, <1>7, <1>8, <1>9, PathInList
  <2>2. PathFrom(at) = PathIn(next, at) /\ at = FirstOf(q, Null)
    BY <1>4, <1>7, <1>8 DEF PathFrom, PathIn, VisitsAt
  <2> QED
    BY <2>1, <2>2 DEF DataFrom, DataOf
<1>11. \A k \in 1 .. Len(q) : q[k] \in Node /\ data[q[k]] \in Item /\ q[k] = p[k + (j - 1)]
  <2>1. SUFFICES ASSUME NEW k \in 1 .. Len(q)
                 PROVE  q[k] \in Node /\ data[q[k]] \in Item /\ q[k] = p[k + (j - 1)]
    OBVIOUS
  <2>2. k \in 1 .. Len(p) - j + 1
    BY <1>7, <1>8
  <2>3. k + j - 1 \in 1 .. Len(p) /\ q[k] = p[k + j - 1] /\ k + (j - 1) = k + j - 1
    BY <1>5, <1>7, <1>8, <2>2
  <2> QED
    BY <1>2, <1>3, <2>3, ListFacts
<1>12. PICK d \in Seq(Item) : d = DataOf(data, q)
  <2>1. Len(q) \in Nat /\ DOMAIN q = 1 .. Len(q)
    BY LenProperties
  <2>2. DataOf(data, q) \in [1 .. Len(q) -> Item]
    BY <1>11, <2>1 DEF DataOf
  <2> QED
    BY <2>1, <2>2, FunctionIsSeq
<1>13. Len(d) = Len(q) /\ \A k \in 1 .. Len(q) : d[k] = data[q[k]]
  BY <1>6, <1>12, DataOfType
<1>14. /\ Len(due) = Len(seen) + (Len(p) - j + 1)
       /\ \A k \in 1 .. Len(seen) : due[k] = seen[k]
       /\ \A k \in j .. Len(p) : due[Len(seen) + (k - j + 1)] = data[p[k]]
  BY <1>4 DEF VisitsAt
<1>15. Len(seen) \in Nat /\ Len(q) \in Nat /\ Len(q) = Len(p) - j + 1
  BY <1>6, <1>7, <1>8, LenProperties
<1>16. /\ seen \o d \in Seq(Item) /\ Len(seen \o d) = Len(seen) + Len(d)
       /\ \A k \in 1 .. Len(seen) + Len(d) :
            (seen \o d)[k] = IF k <= Len(seen) THEN seen[k] ELSE d[k - Len(seen)]
  BY <1>6, ConcatProperties
<1>17. ASSUME NEW k \in 1 .. Len(due) PROVE (seen \o d)[k] = due[k]
  <2>1. k \in 1 .. Len(seen) + Len(d)
    BY <1>13, <1>14, <1>15
  <2>2. CASE k <= Len(seen)
    <3>1. k \in 1 .. Len(seen)
      BY <1>15, <2>1, <2>2
    <3> QED
      BY <1>14, <1>16, <2>1, <2>2, <3>1
  <2>3. CASE ~(k <= Len(seen))
    <3> DEFINE l == k - Len(seen)
    <3>1. l \in 1 .. Len(q)
      BY <1>13, <1>15, <2>1, <2>3
    <3>2. /\ l + (j - 1) \in j .. Len(p) /\ Len(seen) + ((l + (j - 1)) - j + 1) = k
      BY <1>5, <1>15, <2>1, <3>1
    <3>3. due[k] = data[p[l + (j - 1)]]
      BY <1>14, <3>2
    <3>4. d[l] = data[p[l + (j - 1)]]
      BY <1>11, <1>13, <3>1
    <3> QED
      BY <1>16, <2>1, <2>3, <3>3, <3>4
  <2> QED
    BY <2>2, <2>3
<1>18. Len(seen \o d) = Len(due)
  BY <1>13, <1>14, <1>15, <1>16
<1>19. seen \o d = due
  BY <1>6, <1>16, <1>17, <1>18, SeqEqual
<1> QED
  BY <1>10, <1>12, <1>19

-----------------------------------------------------------------------------
(* Every variable has its type: the counter, an int decremented without a  *)
(* test, is never negative.                                                *)
THEOREM QueueTypesCorrect == Careful => (QueueSpec => []QueueTypeOK)
  BY ListInvariant, ListTyped, PTL

(* No pointer the queue follows names a freed node: neither the list, nor  *)
(* rear when the next queue_enqueue() writes through it, nor the node that *)
(* queue_iterate() saved before the callback ran (queue.c:70, 143-147).    *)
THEOREM NothingDangles == Careful => (QueueSpec => []NoDangling)
  BY ListInvariant, ListAllocated, PTL

(* queue_length() is the number of nodes that can be reached, and rear is  *)
(* the last of a list that ends.                                           *)
THEOREM ListHasItsShape == Careful => (QueueSpec => []Shape)
  BY ListInvariant, ListShaped, PTL

(* queue_iterate() visits every item that was there when it began, once    *)
(* and in order, although the callback deletes what it visits.             *)
THEOREM IterationIsComplete == Careful => (QueueSpec => []VisitsEach)
  BY ListInvariant, ListVisited, PTL

(* The linked list is the queue of queue.h: every operation on the nodes   *)
(* is the one it promises on the sequence of the items.                    *)
THEOREM ListIsQueue == Careful => (QueueSpec => ImplementsFifo)
<1>1. SUFFICES ASSUME Careful PROVE QueueSpec => ImplementsFifo
  OBVIOUS
<1>2. QueueInit => Fifo!FifoInit
  BY ListBegins
<1>3. QueueIInv /\ [QueueNext]_queueVars => AbstractStep
  BY <1>1, ListStays
<1>4. QueueSpec => []QueueIInv
  BY <1>1, ListInvariant
<1> QED
  BY <1>2, <1>3, <1>4, PTL DEF QueueSpec, ImplementsFifo, Fifo!FifoSpec, AbstractStep

=============================================================================
