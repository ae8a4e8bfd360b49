----------------------------- MODULE FifoQueue -----------------------------
(* What queue.h promises: items leave in the order they arrived, except    *)
(* that the first item equal to a given one can be deleted.                *)
EXTENDS Sequences, Naturals

CONSTANTS Item, Null

VARIABLES
  items,  \* the items in the queue, oldest first
  size,   \* what queue_length() answers
  out     \* what the last queue_dequeue() gave its caller

fifoVars == <<items, size, out>>

FifoInit == items = <<>> /\ size = 0 /\ out = Null

Put(x) ==
  /\ items' = Append(items, x)
  /\ size' = size + 1
  /\ UNCHANGED out

Get ==
  /\ items # <<>>
  /\ out' = Head(items)
  /\ items' = Tail(items)
  /\ size' = size - 1

(* The first position that holds x goes. *)
Remove(x) ==
  /\ \E i \in DOMAIN items :
       /\ items[i] = x
       /\ \A j \in 1 .. (i - 1) : items[j] # x
       /\ items' = SubSeq(items, 1, i - 1) \o SubSeq(items, i + 1, Len(items))
  /\ size' = size - 1
  /\ UNCHANGED out

FifoNext == Get \/ \E x \in Item : Put(x) \/ Remove(x)

FifoSpec == FifoInit /\ [][FifoNext]_fifoVars
=============================================================================
