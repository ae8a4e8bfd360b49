---------------------------- MODULE LinkedQueue ----------------------------
(***************************************************************************)
(* The queue of queue.c: a singly linked list with pointers to its first   *)
(* and its last node, in a heap whose addresses malloc() hands out again   *)
(* after free().  queue_dequeue() does not free the node it removes.       *)
(***************************************************************************)
EXTENDS Integers, Sequences, FiniteSets

CONSTANTS
  Node,   \* the addresses malloc() can return for a node; bounds the enqueues
  Item,   \* the data pointers of the clients
  Null,   \* NULL
  Uses    \* what clients do beyond the plain operations: see below

(* "rear"   queue_delete() of the last of several items                    *)
ASSUME QueueAssumption ==
  /\ IsFiniteSet(Node)
  /\ Null \notin Node \cup Item
  /\ Uses \subseteq {"rear"}

VARIABLES
  front, rear, cnt,  \* the struct queue
  next, data,        \* the fields of each node
  used,              \* the nodes that are allocated
  out,               \* what the last queue_dequeue() gave its caller
  at,                \* the node queue_iterate() will visit, Null when none
  seen,              \* history: the items the iteration has visited
  due                \* history: the items in the queue when it began

queueVars == <<front, rear, cnt, next, data, used, out, at, seen, due>>

Address == Node \cup {Null}

(* The nodes reached from p; a walk longer than the heap is a cycle. *)
PathFrom(p) ==
  LET walk[k \in 0 .. Cardinality(Node)] ==
        [a \in Address |->
           IF k = 0 \/ a = Null THEN <<>> ELSE <<a>> \o walk[k - 1][next[a]]]
  IN  walk[Cardinality(Node)][p]

DataFrom(p) == LET path == PathFrom(p) IN [i \in DOMAIN path |-> data[path[i]]]

QueueInit ==
  /\ front = Null /\ rear = Null /\ cnt = 0
  /\ next = [a \in Node |-> Null]
  /\ data = [a \in Node |-> Null]
  /\ used = {}
  /\ out = Null
  /\ at = Null /\ seen = <<>> /\ due = <<>>

-----------------------------------------------------------------------------
(* What the operations read or write.  A definition with the name of a     *)
(* property beside it is a mistaken variant of the one that follows it: it *)
(* breaks that property, and no specification uses it.                     *)

(* The counter after an enqueue, and after a deletion. *)
Uncounted == cnt                                         \* QueueTypeOK
Counted == cnt + 1
StillCounted == cnt                                      \* Shape
Discounted == cnt - 1

(* front when its node is deleted. *)
FrontStays == front                                      \* NoDangling
FrontMoves == next[front]

(* Which of the nodes that hold x queue_delete() finds. *)
AnyHit(path, x, i) == TRUE                               \* ImplementsFifo
FirstHit(path, x, i) == \A j \in 1 .. (i - 1) : data[path[j]] # x

(* The node that queue_iterate() saves before it calls back. *)
OneFurther == IF next[at] = Null THEN Null ELSE next[next[at]]  \* VisitsEach
Saved == next[at]

-----------------------------------------------------------------------------
(* queue_enqueue(): the fields are set before the node is linked, and the  *)
(* link is written through rear, whatever rear points to.                  *)
Link(a, x) ==
  /\ used' = used \cup {a}
  /\ data' = [data EXCEPT ![a] = x]
  /\ rear' = a
  /\ cnt' = Counted
  /\ IF front = Null
     THEN /\ front' = a
          /\ next' = [next EXCEPT ![a] = Null]
     ELSE /\ next' = [next EXCEPT ![a] = Null, ![rear] = a]
          /\ UNCHANGED front

Enqueue(x) ==
  /\ at = Null
  /\ \E a \in Node \ used : Link(a, x)
  /\ UNCHANGED <<out, at, seen, due>>

(* queue_dequeue() *)
Dequeue ==
  /\ at = Null
  /\ front # Null /\ cnt # 0
  /\ out' = data[front]
  /\ front' = next[front]
  /\ cnt' = cnt - 1
  /\ UNCHANGED <<rear, next, data, used, at, seen, due>>

(* The node queue_delete() finds for x: the first of the path that holds   *)
(* it.  Its predecessor is linked to its successor; rear stays as it is.   *)
Finds(x, i) ==
  LET path == PathFrom(front)
  IN  /\ i \in DOMAIN path
      /\ data[path[i]] = x
      /\ FirstHit(path, x, i)

Unlink(i) ==
  LET path == PathFrom(front)
  IN  /\ cnt' = Discounted
      /\ used' = used \ {path[i]}
      /\ IF i = 1
         THEN front' = FrontMoves /\ UNCHANGED next
         ELSE next' = [next EXCEPT ![path[i - 1]] = next[path[i]]] /\ UNCHANGED front
      /\ UNCHANGED <<rear, data>>

Deletable(i) == "rear" \in Uses \/ i = 1 \/ i < Len(PathFrom(front))

Delete(x) ==
  /\ at = Null
  /\ \E i \in 1 .. Cardinality(Node) : Finds(x, i) /\ Deletable(i) /\ Unlink(i)
  /\ UNCHANGED <<out, at, seen, due>>

(* queue_iterate() of a queue that is not empty. *)
IterateStart ==
  /\ at = Null
  /\ front # Null
  /\ at' = front
  /\ seen' = <<>>
  /\ due' = DataFrom(front)
  /\ UNCHANGED <<front, rear, cnt, next, data, used, out>>

(* One round: next is saved before the callback, which may leave the queue *)
(* alone, or delete the item it was called for.                            *)
CallbackDeletes ==
  \E i \in 1 .. Cardinality(Node) : Finds(data[at], i) /\ Deletable(i) /\ Unlink(i)

IterateVisit ==
  /\ at # Null
  /\ at' = Saved
  /\ IF at' = Null
     THEN seen' = <<>> /\ due' = <<>>
     ELSE seen' = Append(seen, data[at]) /\ UNCHANGED due
  /\ \/ CallbackDeletes
     \/ UNCHANGED <<front, rear, cnt, next, data, used>>
  /\ UNCHANGED out

(* queue_destroy(), which refuses a queue that counts items, and the       *)
(* queue_create() of the next queue; dequeued nodes stay allocated.        *)
Recreate ==
  /\ at = Null
  /\ cnt = 0
  /\ front' = Null /\ rear' = Null
  /\ UNCHANGED <<cnt, next, data, used, out, at, seen, due>>

QueueNext ==
  \/ \E x \in Item : Enqueue(x) \/ Delete(x)
  \/ Dequeue \/ IterateStart \/ IterateVisit \/ Recreate

QueueSpec == QueueInit /\ [][QueueNext]_queueVars

-----------------------------------------------------------------------------
(* Every variable has its type. *)
QueueTypeOK ==
  /\ front \in Address /\ rear \in Address /\ at \in Address
  /\ cnt \in Nat
  /\ next \in [Node -> Address]
  /\ data \in [Node -> Item \cup {Null}]
  /\ used \subseteq Node
  /\ out \in Item \cup {Null}

(* No pointer the code will follow names a freed node: the list, rear when *)
(* the next enqueue writes through it, and the node the iteration saved    *)
(* before the callback ran (queue.c:70, 143-147).                          *)
NoDangling ==
  /\ \A i \in DOMAIN PathFrom(front) : PathFrom(front)[i] \in used
  /\ front # Null => rear \in used
  /\ at # Null => at \in used

(* queue_length() and the emptiness tests of uthread.c and sem.c rely on   *)
(* the counter, queue_enqueue() on the pointers: they agree, and rear is   *)
(* the last node of a list that ends.                                      *)
Shape ==
  LET path == PathFrom(front)
  IN  /\ cnt = Len(path)
      /\ front # Null => path[Len(path)] = rear /\ next[rear] = Null

(* The iteration visits every item that was in the queue when it began,    *)
(* once and in order, although the callback deletes what it visits         *)
(* (queue.h:88-93).                                                        *)
VisitsEach ==
  at # Null => seen \o DataFrom(at) = due

(* The linked list is the queue of queue.h. *)
Fifo == INSTANCE FifoQueue WITH items <- DataFrom(front), size <- cnt
ImplementsFifo == Fifo!FifoSpec
=============================================================================
