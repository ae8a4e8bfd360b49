---------------------------- MODULE AbstractSem ----------------------------
(***************************************************************************)
(* What sem.h promises: a counting semaphore whose operations are atomic.  *)
(* Taking an unavailable resource makes the caller wait; a released        *)
(* resource goes to the oldest waiting thread, or back to the semaphore    *)
(* when nobody waits.                                                      *)
(***************************************************************************)
EXTENDS Integers, Sequences

CONSTANTS Thread, Semaphore, InitCount

VARIABLES
  exists,   \* the semaphores that have been created and not destroyed
  value,    \* the resources each of them has
  waiting   \* the threads waiting for each of them, oldest first

absVars == <<exists, value, waiting>>

AbsInit ==
  /\ exists \subseteq Semaphore
  /\ value \in [Semaphore -> Nat]
  /\ waiting = [s \in Semaphore |-> <<>>]

Create(s) ==
  /\ s \notin exists
  /\ exists' = exists \cup {s}
  /\ value' = [value EXCEPT ![s] = InitCount[s]]
  /\ waiting' = [waiting EXCEPT ![s] = <<>>]

Destroy(s) ==
  /\ s \in exists
  /\ waiting[s] = <<>>
  /\ exists' = exists \ {s}
  /\ UNCHANGED <<value, waiting>>

Take(s) ==
  /\ s \in exists
  /\ value[s] > 0
  /\ value' = [value EXCEPT ![s] = @ - 1]
  /\ UNCHANGED <<exists, waiting>>

Wait(s) ==
  /\ s \in exists
  /\ value[s] = 0
  /\ \E t \in Thread : waiting' = [waiting EXCEPT ![s] = Append(@, t)]
  /\ UNCHANGED <<exists, value>>

Release(s) ==
  /\ s \in exists
  /\ waiting[s] = <<>>
  /\ value' = [value EXCEPT ![s] = @ + 1]
  /\ UNCHANGED <<exists, waiting>>

HandOver(s) ==
  /\ s \in exists
  /\ waiting[s] # <<>>
  /\ waiting' = [waiting EXCEPT ![s] = Tail(@)]
  /\ UNCHANGED <<exists, value>>

AbsNext ==
  \E s \in Semaphore :
    Create(s) \/ Destroy(s) \/ Take(s) \/ Wait(s) \/ Release(s) \/ HandOver(s)

AbsSpec == AbsInit /\ [][AbsNext]_absVars
=============================================================================
