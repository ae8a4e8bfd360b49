------------------------------ MODULE SemProofs ------------------------------
(***************************************************************************)
(* What the semaphores guarantee for every set of threads and semaphores,  *)
(* and all that the threads may call: with the timer, resources are        *)
(* conserved; without it sem.c is moreover what sem.h promises: no wake-up *)
(* is lost, no resource is taken twice, and each operation is one step of  *)
(* an atomic semaphore that serves its waiters in their order.             *)
(***************************************************************************)
EXTENDS Sem, OccurrenceLemmas

-----------------------------------------------------------------------------
(* What the programs must not do. *)

(* Where a thread is inside a call on a semaphore. *)
InWait == {"waited", "block", "blocked"}
InDown == {"d_wait", "d_take"} \cup InWait
InUp == {"u_check", "u_wake", "unblock"}

(* What sem_create() returns is not a semaphore that a thread is still in  *)
(* a call on: a program that destroyed it then is at fault.                *)
Fresh ==
  \A t, u \in Thread :
    Calls(t, "sem_create") /\ u # t /\ pc[u] \in InDown \cup InUp \cup {"free"}
      => Arg(u) # Arg(t)

(* With the timer, two sem_up() on one semaphore can both see one waiter   *)
(* and both dequeue (sem.c:79-86).  That takes two threads that release it *)
(* and a third that waits: it cannot happen when one thread is the only    *)
(* one to release the semaphore, nor when only two threads use it, as a    *)
(* mutex of two threads.  So it is in sem_simple.c, sem_count.c and        *)
(* sem_buffer.c; in sem_prime.c the sink and then the filter that it       *)
(* creates release a channel, one after the other.  Without the timer the  *)
(* programs may do as they like.                                           *)
Releases(p, t, s) == \E i \in DOMAIN p[t] : p[t][i] = [op |-> "sem_up", arg |-> s]
Acquires(p, t, s) == \E i \in DOMAIN p[t] : p[t][i] = [op |-> "sem_down", arg |-> s]
Uses(p, t, s) == Releases(p, t, s) \/ Acquires(p, t, s)
OneReleaser(p, s) ==
  \A t, u \in Thread : Releases(p, t, s) /\ Releases(p, u, s) => t = u
TwoUsers(p, s) ==
  \A t, u, v \in Thread :
    Uses(p, t, s) /\ Uses(p, u, s) /\ Uses(p, v, s) => t = u \/ t = v \/ u = v
Orderly(p) == \A s \in Semaphore : OneReleaser(p, s) \/ TwoUsers(p, s)
Disciplined == Preempts => \A p \in Programs : Orderly(p)

-----------------------------------------------------------------------------
(* The inductive invariant. *)

(* Which call a thread at a location has come to. *)
CallOf(t, op) == todo[t] # <<>> /\ Head(todo[t]).op = op
WellPlaced(t) ==
  /\ pc[t] \in {"none", "made", "boot", "run", "create", "yield", "exit", "dead", "free"}
                 \cup InDown \cup InUp
  /\ pc[t] \in InDown => CallOf(t, "sem_down")
  /\ pc[t] \in InUp => CallOf(t, "sem_up")
  /\ pc[t] = "free" => CallOf(t, "sem_destroy")
Places ==
  /\ pc[Idle] \in {"start", "loop", "yield", "drain", "returned"}
  /\ \A t \in Thread : WellPlaced(t)
  /\ pc[Idle] = "start" =>
       /\ cpu = Idle /\ ready = <<>> /\ ~armed
       /\ \A t \in Thread : pc[t] = "none"

(* The global current, and the prev that a call has read, name the thread  *)
(* that executes.                                                          *)
Running ==
  pc[Idle] # "start" =>
    /\ cpu \in Tcb /\ current = cpu
    /\ \A t \in Tcb : pc[t] \in {"yield", "exit", "block"} => local[t] = t

(* A TCB that is initialised but not enqueued belongs to one unfinished    *)
(* uthread_create().                                                       *)
Creation ==
  /\ \A t \in Thread :
       pc[t] = "create" => local[t] \in Thread /\ pc[local[t]] = "made"
  /\ \A t, u \in Thread :
       pc[t] = "create" /\ pc[u] = "create" /\ local[t] = local[u] => t = u
  /\ \A c \in Thread :
       pc[c] = "made" => \E t \in Thread : pc[t] = "create" /\ local[t] = c

(* How often the scheduler should find a thread: the idle thread twice.    *)
Unqueueable == {"none", "made", "dead", "blocked"}
Owed(t) == (IF pc[t] \in Unqueueable THEN 0 ELSE 1) + WakeSurplus(t)
Scheduled ==
  /\ \A t \in Thread : Tokens(t) = Owed(t)
  /\ Tokens(Idle) = IF pc[Idle] = "start" THEN 1 ELSE 2
  /\ pc[Idle] \in {"drain", "returned"} =>
       \A t \in Thread : Tokens(t) = 0 /\ pc[t] # "made"

(* A thread is in one wait queue at most, once, and only while it waits    *)
(* there; a sem_up() about to unblock a thread has taken it off its queue, *)
(* and no other sem_up() has.                                              *)
Waiting ==
  /\ \A s \in Semaphore, t \in Thread :
       /\ Occurrences(waitq[s], t) \in {0, 1}
       /\ Occurrences(waitq[s], t) = 1 => pc[t] \in InWait /\ Arg(t) = s
  /\ \A u \in Thread : pc[u] = "unblock" => local[u] \in Thread /\ Granted(local[u])
  /\ \A u, v \in Thread :
       pc[u] = "unblock" /\ pc[v] = "unblock" /\ local[u] = local[v] => u = v

(* A sem_up() that found a waiter still finds one when it dequeues.        *)
WakesSomeone == \A t \in Thread : pc[t] = "u_wake" => waitq[Arg(t)] # <<>>

(* Without the timer a thread in the middle of a call of the library is    *)
(* the one that executes; with it, what is left of the programs is orderly. *)
Between == {"none", "made", "boot", "run", "dead", "blocked", "start", "loop",
            "drain", "returned"}
Alone == ~Preempts => \A t \in Tcb : pc[t] \in Between \/ cpu = t
Discipline == Preempts => Orderly(todo)

SemIInv ==
  /\ SemTypeOK /\ Places /\ Running /\ Creation /\ Scheduled /\ Waiting
  /\ WakesSomeone /\ Alone /\ Discipline /\ TokenBalance

-----------------------------------------------------------------------------
(* Facts about single states. *)

USE ThreadAssumption
    DEF Tcb, Dequeued, NewTcb, Unblocked, OthersReady, Yielded, Preempted, Exited,
        NobodyWaits, SomeoneWaits, Waiter, AtRear, CountHanded, Blocked, Unblocking,
        InWait, InDown, InUp, Unqueueable

(* The surplus of a thread is none or one. *)
LEMMA SurplusType ==
  ASSUME NEW t
  PROVE  WakeSurplus(t) \in {0, 1} /\ Owed(t) \in Nat
BY DEF WakeSurplus, Owed

(* The scheduler finds the thread that executes; when it is not the idle   *)
(* thread, uthread_start() has not left its loop, and the idle thread is   *)
(* in the ready queue.                                                     *)
LEMMA Executing ==
  ASSUME SemTypeOK, Scheduled, NEW t \in Thread, cpu = t
  PROVE  /\ Copies(t) \in Nat /\ Owed(t) = Copies(t) + 1
         /\ pc[Idle] \notin {"drain", "returned"}
         /\ pc[Idle] # "start" => ready # <<>>
<1>1. ready \in Seq(Tcb) /\ \A u : Copies(u) \in Nat
  BY CopiesType DEF SemTypeOK
<1>2. Tokens(t) = Copies(t) + 1 /\ Tokens(Idle) = Copies(Idle)
  BY <1>1 DEF Tokens
<1>3. Owed(t) = Copies(t) + 1 /\ pc[Idle] \notin {"drain", "returned"}
  BY <1>1, <1>2 DEF Scheduled
<1>4. ASSUME pc[Idle] # "start" PROVE ready # <<>>
  <2>1. Copies(Idle) = 2
    BY <1>2, <1>4 DEF Scheduled
  <2> QED
    BY <2>1, OccurrencesEmpty DEF Copies
<1> QED
  BY <1>1, <1>3, <1>4

(* A thread at an intermediate point of a call is found by the scheduler. *)
LEMMA MidCallIsFound ==
  ASSUME SemTypeOK, Scheduled, NEW t \in Thread, pc[t] \notin Unqueueable
  PROVE  Tokens(t) # 0 /\ pc[Idle] \notin {"drain", "returned"}
<1>1. Owed(t) = 1 + WakeSurplus(t) /\ WakeSurplus(t) \in {0, 1}
  BY SurplusType DEF Owed
<1>2. Tokens(t) = Owed(t)
  BY DEF Scheduled
<1>3. Tokens(t) # 0
  BY <1>1, <1>2
<1> QED
  BY <1>3 DEF Scheduled

(* What the call at the front of a thread's program is. *)
LEMMA CallIsKnown ==
  ASSUME SemTypeOK, NEW t \in Thread, NEW op, CallOf(t, op)
  PROVE  /\ todo[t] \in Seq(AnyCall) /\ todo[t] # <<>>
         /\ Head(todo[t]) \in AnyCall /\ Head(todo[t]).op = op
         /\ Tail(todo[t]) \in Seq(AnyCall)
         /\ op \in {"sem_create", "sem_destroy", "sem_down", "sem_up"} =>
              Arg(t) \in Semaphore /\ Head(todo[t]) = [op |-> op, arg |-> Arg(t)]
         /\ op = "create" => Arg(t) \in Thread
<1>1. todo[t] \in Seq(AnyCall) /\ todo[t] # <<>> /\ Head(todo[t]).op = op
  BY DEF SemTypeOK, CallOf
<1>2. Head(todo[t]) \in AnyCall /\ Tail(todo[t]) \in Seq(AnyCall)
  BY <1>1, HeadTailProperties
<1>3. \A c \in AnyCall :
        /\ c.op \in {"sem_create", "sem_destroy", "sem_down", "sem_up"} =>
             c.arg \in Semaphore /\ c = [op |-> c.op, arg |-> c.arg]
        /\ c.op = "create" => c.arg \in Thread
  BY DEF AnyCall, LibraryCall
<1> QED
  BY <1>1, <1>2, <1>3 DEF Arg

(* A thread that is in a call uses the semaphore of the call. *)
LEMMA CallerUses ==
  ASSUME SemTypeOK, NEW t \in Thread, NEW op \in {"sem_up", "sem_down"}, CallOf(t, op)
  PROVE  /\ Arg(t) \in Semaphore /\ Uses(todo, t, Arg(t))
         /\ op = "sem_up" => Releases(todo, t, Arg(t))
<1>1. /\ todo[t] \in Seq(AnyCall) /\ todo[t] # <<>> /\ Arg(t) \in Semaphore
      /\ Head(todo[t]) = [op |-> op, arg |-> Arg(t)]
  BY CallIsKnown
<1>2. 1 \in DOMAIN todo[t] /\ todo[t][1] = [op |-> op, arg |-> Arg(t)]
  BY <1>1, EmptySeq, LenProperties
<1> QED
  BY <1>1, <1>2 DEF Uses, Releases, Acquires

(* Two sem_up() that have seen a waiter do not meet at one semaphore: with *)
(* the timer it has one releaser, or a thread is the waiter and only one   *)
(* other uses it; without the timer no thread is preempted in a call.      *)
LEMMA OneDequeues ==
  ASSUME SemIInv, NEW t \in Thread, NEW u \in Thread, cpu = t,
         pc[t] = "u_wake", pc[u] = "u_wake", Arg(t) = Arg(u)
  PROVE  t = u
<1>1. CallOf(t, "sem_up") /\ CallOf(u, "sem_up") /\ SemTypeOK
  BY DEF SemIInv, Places, WellPlaced
<1>2. CASE ~Preempts
  BY <1>2 DEF SemIInv, Alone, Between
<1>3. CASE Preempts
  <2> DEFINE s == Arg(t)
             v == Head(waitq[s])
  <2>1. /\ s \in Semaphore
        /\ Releases(todo, t, s) /\ Uses(todo, t, s)
        /\ Releases(todo, u, s) /\ Uses(todo, u, s)
    BY <1>1, CallerUses
  <2>2. OneReleaser(todo, s) \/ TwoUsers(todo, s)
    BY <1>3, <2>1 DEF SemIInv, Discipline, Orderly
  <2>3. waitq[s] \in Seq(Thread) /\ waitq[s] # <<>>
    BY <1>1, <2>1 DEF SemIInv, SemTypeOK, WakesSomeone
  <2>4. v \in Thread /\ Tail(waitq[s]) \in Seq(Thread)
    BY <2>3, HeadTailProperties
  <2>5. Occurrences(waitq[s], v) = 1
    <3>1. Occurrences(waitq[s], v) = Occurrences(Tail(waitq[s]), v) + 1
          /\ Occurrences(Tail(waitq[s]), v) \in Nat
      BY <2>3, <2>4, OccurrencesTail, OccurrencesType
    <3>2. Occurrences(waitq[s], v) \in {0, 1}
      BY <2>1, <2>4 DEF SemIInv, Waiting
    <3> QED
      BY <3>1, <3>2
  <2>6. pc[v] \in InWait /\ Arg(v) = s
    BY <2>1, <2>4, <2>5 DEF SemIInv, Waiting
  <2>7. Uses(todo, v, s) /\ v # t /\ v # u
    <3>1. CallOf(v, "sem_down")
      BY <2>4, <2>6 DEF SemIInv, Places, WellPlaced
    <3> QED
      BY <1>1, <2>4, <2>6, <3>1, CallerUses
  <2>8. CASE OneReleaser(todo, s)
    BY <2>1, <2>8 DEF OneReleaser
  <2>9. CASE TwoUsers(todo, s)
    BY <2>1, <2>4, <2>7, <2>9 DEF TwoUsers
  <2> QED
    BY <2>2, <2>8, <2>9
<1> QED
  BY <1>2, <1>3

-----------------------------------------------------------------------------
(* What a step keeps when it moves one thread only. *)

(* The thread t executes and only its own control moves; the processor may *)
(* be given to another thread.                                             *)
Moves(t) ==
  /\ cpu = t /\ pc[Idle] # "start" /\ pc'[Idle] # "start"
  /\ current' = cpu' /\ cpu' \in Tcb
  /\ pc' \in [Tcb -> SemLocation] /\ local' \in [Tcb -> Tcb \cup {Nil}]
  /\ todo' \in [Thread -> Seq(AnyCall)]
  /\ \A u \in Tcb \ {t} : pc'[u] = pc[u] /\ local'[u] = local[u]
  /\ \A u \in Thread \ {t} : todo'[u] = todo[u]
  /\ t \in Thread => todo'[t] = todo[t] \/ (todo[t] # <<>> /\ todo'[t] = Tail(todo[t]))

(* A program that gets shorter keeps its discipline. *)
LEMMA DisciplineKept ==
  ASSUME SemTypeOK, Discipline,
         \A t \in Thread :
           todo'[t] = todo[t] \/ (todo[t] # <<>> /\ todo'[t] = Tail(todo[t]))
  PROVE  Discipline'
<1>1. ASSUME NEW t \in Thread, NEW call, \E i \in DOMAIN todo'[t] : todo'[t][i] = call
      PROVE  \E i \in DOMAIN todo[t] : todo[t][i] = call
  <2>1. PICK i \in DOMAIN todo'[t] : todo'[t][i] = call
    BY <1>1
  <2>2. CASE todo'[t] = todo[t]
    BY <2>1, <2>2
  <2>3. CASE todo[t] # <<>> /\ todo'[t] = Tail(todo[t])
    <3>1. todo[t] \in Seq(AnyCall) /\ Len(todo[t]) \in Nat
          /\ DOMAIN todo[t] = 1 .. Len(todo[t])
      BY LenProperties DEF SemTypeOK
    <3>2. /\ DOMAIN todo'[t] = 1 .. (Len(todo[t]) - 1)
          /\ \A j \in 1 .. (Len(todo[t]) - 1) : todo'[t][j] = todo[t][j + 1]
      BY <2>3, <3>1, EmptySeq, LenProperties, HeadTailProperties
    <3>3. i + 1 \in DOMAIN todo[t] /\ todo[t][i + 1] = call
      BY <2>1, <3>1, <3>2
    <3> QED
      BY <3>3
  <2> QED
    BY <2>2, <2>3
<1>2. \A t \in Thread, s \in Semaphore :
        /\ Releases(todo', t, s) => Releases(todo, t, s)
        /\ Uses(todo', t, s) => Uses(todo, t, s)
  BY <1>1 DEF Releases, Acquires, Uses
<1>3. ASSUME NEW s \in Semaphore, OneReleaser(todo, s) \/ TwoUsers(todo, s)
      PROVE  OneReleaser(todo', s) \/ TwoUsers(todo', s)
  BY <1>2, <1>3 DEF OneReleaser, TwoUsers
<1> QED
  BY <1>3 DEF Discipline, Orderly

(* The parts of the invariant that are about control. *)
LEMMA ControlKept ==
  ASSUME SemIInv, NEW t \in Tcb, Moves(t),
         pc[t] \notin {"create", "made"}, pc'[t] \notin {"create", "made"},
         t = Idle => pc'[Idle] \in {"loop", "yield", "drain", "returned"},
         t \in Thread => WellPlaced(t)',
         pc'[t] \in {"yield", "exit", "block"} => local'[t] = t,
         ~Preempts => pc'[t] \in Between \/ cpu' = t
  PROVE  Places' /\ Running' /\ Creation' /\ Alone' /\ Discipline'
<1>1. pc'[Idle] # "start" /\ pc'[Idle] \in {"start", "loop", "yield", "drain", "returned"}
  BY DEF Moves, SemIInv, Places
<1>2. Places'
  <2>1. \A u \in Thread \ {t} : WellPlaced(u)'
    BY DEF Moves, SemIInv, Places, WellPlaced, CallOf
  <2> QED
    BY <1>1, <2>1 DEF Places
<1>3. Running'
  BY <1>1 DEF Moves, SemIInv, Running
<1>4. Creation'
  <2>1. \A u \in Thread : (pc'[u] = "create") = (pc[u] = "create")
                        /\ (pc'[u] = "made") = (pc[u] = "made")
    BY DEF Moves
  <2>2. \A u \in Thread : pc[u] = "create" => local'[u] = local[u]
    BY DEF Moves
  <2>3. Creation
    BY DEF SemIInv
  <2> QED
    BY <2>1, <2>2, <2>3 DEF Creation
<1>5. Alone'
  BY DEF Moves, SemIInv, Alone
<1>6. Discipline'
  BY DisciplineKept DEF Moves, SemIInv
<1> QED
  BY <1>2, <1>3, <1>4, <1>5, <1>6

(* The steps that leave the wait queues as they are and move one thread    *)
(* neither into nor out of a wait, nor an unblocking, and whose context    *)
(* the scheduler finds as often as before.                                 *)
Granting(t) == pc[t] \in InWait \cup {"unblock"}
Quiet(t) ==
  /\ Moves(t)
  /\ ready' \in Seq(Tcb)
  /\ \A u \in Tcb : Tokens(u)' = Tokens(u)
  /\ pc[t] \notin Unqueueable /\ pc'[t] \notin Unqueueable
  /\ Granting(t) \/ Granting(t)' =>
       pc[t] \in InWait /\ pc'[t] \in InWait /\ t \in Thread /\ todo'[t] = todo[t]
  /\ waitq' = waitq

GrantedOf(s) == {t \in Thread : Granted(t) /\ Arg(t) = s}

(* What they leave alone: who is granted what, and who is where. *)
LEMMA QuietGrants ==
  ASSUME SemIInv, NEW t \in Tcb, Quiet(t)
  PROVE  /\ \A u \in Thread : Granted(u)' = Granted(u) /\ WakeSurplus(u)' = WakeSurplus(u)
         /\ \A u \in Thread : Owed(u)' = Owed(u)
         /\ \A s : GrantedOf(s)' = GrantedOf(s)
         /\ \A u \in Thread : pc[u] \in InWait \/ pc'[u] \in InWait =>
              pc[u] \in InWait /\ pc'[u] \in InWait /\ Arg(u)' = Arg(u)
         /\ \A u \in Thread : pc[u] = "unblock" \/ pc'[u] = "unblock" =>
              pc'[u] = pc[u] /\ local'[u] = local[u]
<1>1. \A u \in Thread : pc[u] \in InWait \/ pc'[u] \in InWait =>
        pc[u] \in InWait /\ pc'[u] \in InWait /\ todo'[u] = todo[u]
  BY DEF Quiet, Moves, Granting
<1>2. \A u \in Thread : pc[u] = "unblock" \/ pc'[u] = "unblock" =>
        pc'[u] = pc[u] /\ local'[u] = local[u]
  BY DEF Quiet, Moves, Granting
<1>3. \A u \in Thread : todo'[u] = todo[u] => Arg(u)' = Arg(u)
  BY DEF Arg
<1>4. \A u \in Thread : Granted(u)' = Granted(u)
  BY <1>1, <1>3 DEF Quiet, Granted
<1>5. \A u \in Thread : WakeSurplus(u)' = WakeSurplus(u)
  BY <1>2, <1>4 DEF WakeSurplus
<1>6. \A u \in Thread : Owed(u)' = Owed(u)
  BY <1>5 DEF Owed, Quiet, Moves
<1>7. \A u \in Thread : Granted(u) => Arg(u)' = Arg(u)
  BY <1>1, <1>3 DEF Granted
<1>8. \A s : GrantedOf(s)' = GrantedOf(s)
  BY <1>4, <1>7 DEF GrantedOf
<1> QED
  BY <1>1, <1>2, <1>3, <1>4, <1>5, <1>6, <1>8

(* Such a step keeps the waits and the schedule. *)
LEMMA QuietKeeps ==
  ASSUME SemIInv, NEW t \in Tcb, Quiet(t),
         pc[Idle] \notin {"drain", "returned"} /\ pc'[Idle] \in {"drain", "returned"} =>
           \A u \in Thread : Tokens(u) = 0 /\ pc[u] # "made",
         t \in Thread /\ pc'[t] = "u_wake" => waitq[Arg(t)'] # <<>>
  PROVE  Scheduled' /\ Waiting' /\ WakesSomeone'
<1>0. pc[Idle] # "start" /\ pc'[Idle] # "start"
  BY DEF Quiet, Moves, SemIInv, Places
<1>1. Scheduled'
  <2>1. \A u \in Thread : Tokens(u)' = Tokens(u) /\ Owed(u)' = Owed(u)
                        /\ (pc'[u] = "made") = (pc[u] = "made")
    BY QuietGrants DEF Quiet, Moves
  <2>2. Tokens(Idle)' = Tokens(Idle) /\ Scheduled
    BY DEF Quiet, SemIInv
  <2> QED
    BY <1>0, <2>1, <2>2 DEF Scheduled
<1>2. Waiting'
  BY QuietGrants DEF SemIInv, Waiting, Quiet
<1>3. WakesSomeone'
  <2> SUFFICES ASSUME NEW u \in Thread, pc'[u] = "u_wake" PROVE waitq'[Arg(u)'] # <<>>
    BY DEF WakesSomeone
  <2>1. CASE u = t
    BY <2>1 DEF Quiet
  <2>2. CASE u # t
    BY <2>2 DEF Quiet, Moves, SemIInv, WakesSomeone, Arg
  <2> QED
    BY <2>1, <2>2
<1> QED
  BY <1>1, <1>2, <1>3

(* The threads that are granted a resource are finitely many. *)
LEMMA GrantedFinite ==
  ASSUME NEW s
  PROVE  IsFiniteSet(GrantedOf(s)) /\ Cardinality(GrantedOf(s)) \in Nat
<1>1. GrantedOf(s) \subseteq Thread /\ IsFiniteSet(Thread)
  BY SemAssumption DEF GrantedOf
<1> QED
  BY <1>1, FS_Subset, FS_CardinalityType

(* One thread fewer, or one more. *)
LEMMA OneFewer ==
  ASSUME NEW S, IsFiniteSet(S), NEW x
  PROVE  Cardinality(S \ {x}) = Cardinality(S) - IF x \in S THEN 1 ELSE 0
<1>1. Cardinality(S) \in Nat
  BY FS_CardinalityType
<1>2. CASE x \in S
  BY <1>1, <1>2, FS_RemoveElement
<1>3. CASE x \notin S
  <2>1. S \ {x} = S
    BY <1>3
  <2> QED
    BY <1>1, <1>3, <2>1
<1> QED
  BY <1>2, <1>3

(* Adding a new element to a finite set adds one. *)
LEMMA OneMore ==
  ASSUME NEW S, IsFiniteSet(S), NEW x, x \notin S
  PROVE  Cardinality(S \cup {x}) = Cardinality(S) + 1
BY FS_AddElement

(* The balance of a semaphore: what its count and the granted threads hold *)
(* against what was released and not taken.                                *)
LEMMA BalanceMeans ==
  TokenBalance <=> \A s \in Semaphore : count[s] + Cardinality(GrantedOf(s)) = tokens[s]
BY DEF TokenBalance, GrantedOf

(* A call that changes the count as it changes the resources balances. *)
LEMMA BalanceKept ==
  ASSUME SemTypeOK, SemTypeOK', TokenBalance,
         \A s \in Semaphore : GrantedOf(s)' = GrantedOf(s),
         \A s \in Semaphore : count'[s] - count[s] = tokens'[s] - tokens[s]
  PROVE  TokenBalance'
<1> SUFFICES ASSUME NEW s \in Semaphore
             PROVE  count'[s] + Cardinality(GrantedOf(s)') = tokens'[s]
  BY BalanceMeans DEF GrantedOf, TokenBalance
<1>1. count[s] + Cardinality(GrantedOf(s)) = tokens[s]
  BY BalanceMeans
<1>2. Cardinality(GrantedOf(s)) \in Nat /\ GrantedOf(s)' = GrantedOf(s)
  BY GrantedFinite
<1>3. count[s] \in Int /\ count'[s] \in Int /\ tokens[s] \in Int /\ tokens'[s] \in Int
  BY DEF SemTypeOK
<1> QED
  BY <1>1, <1>2, <1>3

(* A thread that executes an operation stays on the processor. *)
Keeps(t) ==
  /\ local' = local \/ local' = [local EXCEPT ![t] = current]
  /\ todo' = todo \/ (todo[t] # <<>> /\ todo' = Rest(t))

(* Such a step moves no token. *)
LEMMA StayMoves ==
  ASSUME SemIInv, NEW t \in Thread, cpu = t, NEW at \in SemLocation, at # "start",
         NEW mask \in BOOLEAN, Stay(t, at, mask),
         Keeps(t)
  PROVE  /\ Moves(t) /\ pc'[t] = at /\ masked' \in [Tcb -> BOOLEAN]
         /\ pc[Idle] # "start" /\ current = t
         /\ cpu' = t /\ current' = t
         /\ ready' = ready => \A u : Tokens(u)' = Tokens(u)
<1>1. pc[Idle] # "start" /\ current = t
  BY DEF SemIInv, Places, Running
<1>2. /\ pc' \in [Tcb -> SemLocation] /\ pc'[t] = at
      /\ \A u \in Tcb \ {t} : pc'[u] = pc[u]
      /\ masked' \in [Tcb -> BOOLEAN] /\ cpu' = t /\ current' = t
  BY <1>1 DEF Stay, SemIInv, SemTypeOK
<1>3. local' \in [Tcb -> Tcb \cup {Nil}] /\ \A u \in Tcb \ {t} : local'[u] = local[u]
  <2>1. local \in [Tcb -> Tcb \cup {Nil}]
    BY DEF SemIInv, SemTypeOK
  <2>2. CASE local' = local
    BY <2>1, <2>2
  <2>3. CASE local' = [local EXCEPT ![t] = current]
    BY <1>1, <2>1, <2>3
  <2> QED
    BY <2>2, <2>3 DEF Keeps
<1>4. /\ todo' \in [Thread -> Seq(AnyCall)]
      /\ \A u \in Thread \ {t} : todo'[u] = todo[u]
      /\ todo'[t] = todo[t] \/ (todo[t] # <<>> /\ todo'[t] = Tail(todo[t]))
  <2>1. todo \in [Thread -> Seq(AnyCall)]
    BY DEF SemIInv, SemTypeOK
  <2>2. todo[t] # <<>> => Tail(todo[t]) \in Seq(AnyCall)
    BY <2>1, HeadTailProperties
  <2> QED
    BY <2>1, <2>2 DEF Rest, Keeps
<1>5. pc'[Idle] # "start"
  BY <1>1, <1>2
<1>6. ready' = ready => \A u : Tokens(u)' = Tokens(u)
  BY <1>2 DEF Tokens, Copies
<1> QED
  BY <1>1, <1>2, <1>3, <1>4, <1>5, <1>6 DEF Moves

(* Those operations of a thread that are quiet, all but their effect on    *)
(* the count and the resources.                                            *)
Settled ==
  /\ Places' /\ Running' /\ Creation' /\ Alone' /\ Discipline'
  /\ Scheduled' /\ Waiting' /\ WakesSomeone'
Operates(t, at, mask) ==
  /\ cpu = t /\ ready' = ready /\ waitq' = waitq
  /\ pc[t] \in {"boot", "run", "free", "d_take", "u_check", "waited"}
  /\ at \in {"run", "yield", "exit", "free", "d_wait", "d_take", "u_check", "u_wake", "block"}
  /\ mask \in BOOLEAN
  /\ Stay(t, at, mask) /\ Keeps(t)
  /\ at \in {"yield", "exit", "block"} => local' = [local EXCEPT ![t] = current]
  /\ pc[t] = "waited" \/ at = "block" => pc[t] = "waited" /\ at = "block" /\ todo' = todo
  /\ at \in InDown => CallOf(t, "sem_down")'
  /\ at \in InUp => CallOf(t, "sem_up")'
  /\ at = "free" => CallOf(t, "sem_destroy")'
  /\ at = "u_wake" => waitq[Arg(t)'] # <<>>

(* It leaves the queues, what is granted and the types as they should be. *)
LEMMA QuietOperation ==
  ASSUME SemIInv, NEW t \in Thread, NEW at, NEW mask, Operates(t, at, mask)
  PROVE  /\ Settled
         /\ \A s : GrantedOf(s)' = GrantedOf(s)
         /\ pc' \in [Tcb -> SemLocation] /\ masked' \in [Tcb -> BOOLEAN]
         /\ local' \in [Tcb -> Tcb \cup {Nil}] /\ todo' \in [Thread -> Seq(AnyCall)]
         /\ cpu' \in Tcb /\ current' \in Tcb
<1>1. /\ Moves(t) /\ pc'[t] = at /\ masked' \in [Tcb -> BOOLEAN]
      /\ pc[Idle] # "start" /\ current = t
      /\ cpu' = t /\ current' = t
      /\ \A u : Tokens(u)' = Tokens(u)
  <2>1. at # "start" /\ at \in SemLocation
    BY DEF Operates, SemLocation, Location
  <2> QED
    BY <2>1, StayMoves DEF Operates
<1>2. Places' /\ Running' /\ Creation' /\ Alone' /\ Discipline'
  <2>1. at \in {"yield", "exit", "block"} => local'[t] = t
    BY <1>1 DEF SemIInv, SemTypeOK, Operates
  <2>2. WellPlaced(t)'
    BY <1>1 DEF WellPlaced, Operates
  <2> QED
    BY <1>1, <2>1, <2>2, ControlKept DEF Operates
<1>3. Quiet(t)
  BY <1>1 DEF Quiet, Granting, SemIInv, SemTypeOK, Operates
<1>4. pc'[Idle] = pc[Idle]
  BY <1>1 DEF Moves
<1>5. Scheduled' /\ Waiting' /\ WakesSomeone'
  BY <1>1, <1>3, <1>4, QuietKeeps DEF Operates
<1>6. \A s : GrantedOf(s)' = GrantedOf(s)
  BY <1>3, QuietGrants
<1> QED
  BY <1>1, <1>2, <1>5, <1>6 DEF Moves, Settled

-----------------------------------------------------------------------------
(* Every step preserves the invariant. *)

(* What remains to be shown of an operation that leaves ready as it is. *)
LEMMA OperationDone ==
  ASSUME SemIInv, Settled,
         pc' \in [Tcb -> SemLocation], masked' \in [Tcb -> BOOLEAN],
         local' \in [Tcb -> Tcb \cup {Nil}], todo' \in [Thread -> Seq(AnyCall)],
         cpu' \in Tcb, current' \in Tcb,
         ready' = ready, zombie' = zombie, armed' = armed, waitq' = waitq,
         count' \in [Semaphore -> Int], tokens' \in [Semaphore -> Int],
         alive' \in [Semaphore -> BOOLEAN],
         \A s \in Semaphore : count'[s] - count[s] = tokens'[s] - tokens[s],
         \A s \in Semaphore : GrantedOf(s)' = GrantedOf(s)
  PROVE  SemIInv'
<1>1. SemTypeOK'
  BY DEF SemIInv, SemTypeOK
<1>2. TokenBalance'
  BY <1>1, BalanceKept DEF SemIInv
<1> QED
  BY <1>1, <1>2 DEF Settled, SemIInv

(* The operations that leave the semaphores alone: Boot, the entries of    *)
(* uthread_yield(), uthread_exit() and uthread_block(), sem_destroy() but  *)
(* for its free(), and the tests of sem_down() and sem_up().               *)
LEMMA StepReads ==
  ASSUME SemIInv, NEW t \in Thread,
         \/ Boot(t) /\ UNCHANGED semVars
         \/ ProgramYields(t) \/ ProgramReturns(t) \/ EnterBlock(t)
         \/ SemDestroy(t) \/ SemDown(t) \/ UpChecks(t)
  PROVE  SemIInv'
<1>1. /\ cpu = t /\ ready' = ready /\ waitq' = waitq /\ zombie' = zombie
      /\ armed' = armed /\ count' = count /\ tokens' = tokens /\ alive' = alive
  BY DEF Boot, ProgramYields, ProgramReturns, EnterBlock, SemDestroy, SemDown, UpChecks,
         CallYield, CallExit, Enter, Calls, At, semVars
<1>2. masked[t] \in BOOLEAN
  BY DEF SemIInv, SemTypeOK
<1>3. \E at, mask : Operates(t, at, mask)
  <2>1. CASE Boot(t) /\ UNCHANGED semVars
    <3>1. Operates(t, "run", FALSE)
      BY <1>1, <2>1 DEF Boot, At, semVars, Keeps, Operates
    <3> QED
      BY <3>1
  <2>2. CASE ProgramYields(t)
    <3>1. Operates(t, "yield", masked[t])
      BY <1>1, <1>2, <2>2 DEF ProgramYields, CallYield, Enter, Calls, At, Keeps, Operates
    <3> QED
      BY <3>1
  <2>3. CASE ProgramReturns(t)
    <3>1. Operates(t, "exit", masked[t])
      BY <1>1, <1>2, <2>3 DEF ProgramReturns, CallExit, Enter, At, semVars, Keeps, Operates
    <3> QED
      BY <3>1
  <2>4. CASE EnterBlock(t)
    <3>1. CallOf(t, "sem_down")' /\ pc[t] = "waited"
      BY <2>4 DEF EnterBlock, At, semVars, CallOf, SemIInv, Places, WellPlaced
    <3>2. Operates(t, "block", masked[t])
      BY <1>1, <1>2, <2>4, <3>1 DEF EnterBlock, semVars, Keeps, Operates
    <3> QED
      BY <3>2
  <2>5. CASE SemDestroy(t)
    <3>1. Operates(t, "free", masked[t]) \/ Operates(t, "run", masked[t])
      BY <1>1, <1>2, <2>5 DEF SemDestroy, Calls, At, Keeps, CallOf, Operates
    <3> QED
      BY <3>1
  <2>6. CASE SemDown(t)
    <3>1. Operates(t, "d_wait", masked[t]) \/ Operates(t, "d_take", masked[t])
      BY <1>1, <1>2, <2>6 DEF SemDown, Calls, At, Keeps, CallOf, semVars, Operates
    <3> QED
      BY <3>1
  <2>7. CASE UpChecks(t)
    <3>1. CallOf(t, "sem_up")
      BY <2>7 DEF UpChecks, At, SemIInv, Places, WellPlaced
    <3>2. Operates(t, "u_wake", masked[t]) \/ Operates(t, "run", masked[t])
      BY <1>1, <1>2, <2>7, <3>1 DEF UpChecks, At, Keeps, CallOf, Arg, Operates
    <3> QED
      BY <3>2
  <2> QED
    BY <2>1, <2>2, <2>3, <2>4, <2>5, <2>6, <2>7
<1>4. PICK at, mask : Operates(t, at, mask)
  BY <1>3
<1>5. /\ Settled
      /\ \A s : GrantedOf(s)' = GrantedOf(s)
      /\ pc' \in [Tcb -> SemLocation] /\ masked' \in [Tcb -> BOOLEAN]
      /\ local' \in [Tcb -> Tcb \cup {Nil}] /\ todo' \in [Thread -> Seq(AnyCall)]
      /\ cpu' \in Tcb /\ current' \in Tcb
  BY <1>4, QuietOperation
<1>6. /\ count' \in [Semaphore -> Int] /\ tokens' \in [Semaphore -> Int]
      /\ alive' \in [Semaphore -> BOOLEAN]
      /\ \A s \in Semaphore : count'[s] - count[s] = tokens'[s] - tokens[s]
  BY <1>1 DEF SemIInv, SemTypeOK
<1> QED
  BY <1>1, <1>5, <1>6, OperationDone

(* The critical sections of sem_down() that takes, of the increment in     *)
(* sem_up(), and the free() of sem_destroy().                              *)
LEMMA StepCounts ==
  ASSUME SemIInv, NEW t \in Thread, DownTakes(t) \/ SemUp(t) \/ DoFree(t)
  PROVE  SemIInv'
<1>1. /\ cpu = t /\ ready' = ready /\ waitq' = waitq /\ zombie' = zombie /\ armed' = armed
  BY DEF DownTakes, SemUp, DoFree, Calls, At
<1>2. masked[t] \in BOOLEAN /\ count \in [Semaphore -> Int] /\ tokens \in [Semaphore -> Int]
      /\ alive \in [Semaphore -> BOOLEAN]
  BY DEF SemIInv, SemTypeOK
<1>3. Arg(t) \in Semaphore /\ todo[t] # <<>>
  <2>1. CallOf(t, "sem_down") \/ CallOf(t, "sem_up") \/ CallOf(t, "sem_destroy")
    BY DEF DownTakes, SemUp, DoFree, Calls, At, SemIInv, Places, WellPlaced, CallOf
  <2> QED
    BY <2>1, CallIsKnown DEF SemIInv
<1>4. \E at, mask : Operates(t, at, mask)
  <2>1. CASE DownTakes(t)
    <3>1. Operates(t, "run", FALSE)
      BY <1>1, <1>3, <2>1 DEF DownTakes, At, Keeps, Operates
    <3> QED
      BY <3>1
  <2>2. CASE SemUp(t)
    <3>1. Operates(t, "u_check", FALSE)
      BY <1>1, <2>2 DEF SemUp, Calls, At, Keeps, CallOf, Operates
    <3> QED
      BY <3>1
  <2>3. CASE DoFree(t)
    <3>1. Operates(t, "run", masked[t])
      BY <1>1, <1>2, <1>3, <2>3 DEF DoFree, At, Keeps, Operates
    <3> QED
      BY <3>1
  <2> QED
    BY <2>1, <2>2, <2>3
<1>5. PICK at, mask : Operates(t, at, mask)
  BY <1>4
<1>6. /\ Settled
      /\ \A s : GrantedOf(s)' = GrantedOf(s)
      /\ pc' \in [Tcb -> SemLocation] /\ masked' \in [Tcb -> BOOLEAN]
      /\ local' \in [Tcb -> Tcb \cup {Nil}] /\ todo' \in [Thread -> Seq(AnyCall)]
      /\ cpu' \in Tcb /\ current' \in Tcb
  BY <1>5, QuietOperation
<1>7. /\ count' \in [Semaphore -> Int] /\ tokens' \in [Semaphore -> Int]
      /\ alive' \in [Semaphore -> BOOLEAN]
      /\ \A s \in Semaphore : count'[s] - count[s] = tokens'[s] - tokens[s]
  <2>1. CASE DownTakes(t)
    BY <1>2, <1>3, <2>1 DEF DownTakes
  <2>2. CASE SemUp(t)
    BY <1>2, <1>3, <2>2 DEF SemUp
  <2>3. CASE DoFree(t)
    BY <1>2, <1>3, <2>3 DEF DoFree
  <2> QED
    BY <2>1, <2>2, <2>3
<1> QED
  BY <1>1, <1>6, <1>7, OperationDone

(* Nobody waits for, or is granted, a semaphore that sem_create() returns. *)
LEMMA FreshIsUnused ==
  ASSUME SemIInv, Fresh, NEW t \in Thread, Calls(t, "sem_create")
  PROVE  waitq[Arg(t)] = <<>> /\ GrantedOf(Arg(t)) = {}
<1>1. pc[t] = "run" /\ Arg(t) \in Semaphore
  BY CallIsKnown DEF Calls, At, CallOf, SemIInv
<1>2. \A u \in Thread : pc[u] \in InWait => Arg(u) # Arg(t)
  BY <1>1 DEF Fresh
<1>3. GrantedOf(Arg(t)) = {}
  BY <1>2 DEF GrantedOf, Granted
<1>4. waitq[Arg(t)] \in Seq(Thread)
  BY <1>1 DEF SemIInv, SemTypeOK
<1>5. \A u \in Thread : Occurrences(waitq[Arg(t)], u) = 0
  BY <1>1, <1>2 DEF SemIInv, Waiting
<1>6. \A u \in Thread : \A i \in DOMAIN waitq[Arg(t)] : waitq[Arg(t)][i] # u
  BY <1>4, <1>5, OccurrencesNone
<1>7. waitq[Arg(t)] = <<>>
  <2>1. SUFFICES ASSUME waitq[Arg(t)] # <<>> PROVE FALSE
    OBVIOUS
  <2>2. Len(waitq[Arg(t)]) \in Nat \ {0} /\ DOMAIN waitq[Arg(t)] = 1 .. Len(waitq[Arg(t)])
    BY <1>4, <2>1, EmptySeq, LenProperties
  <2>3. waitq[Arg(t)][1] \in Thread
    BY <1>4, <2>2, ElementOfSeq
  <2> QED
    BY <1>6, <2>2, <2>3
<1> QED
  BY <1>3, <1>7

(* sem_create() keeps the invariant (sem.c:16-30). *)
LEMMA StepSemCreate ==
  ASSUME SemIInv, Fresh, NEW t \in Thread, SemCreate(t)
  PROVE  SemIInv'
<1> DEFINE s == Arg(t)
<1>1. /\ Calls(t, "sem_create")
      /\ cpu = t /\ ready' = ready /\ zombie' = zombie /\ armed' = armed
      /\ count' = [count EXCEPT ![s] = InitCount[s]]
      /\ tokens' = [tokens EXCEPT ![s] = InitCount[s]]
      /\ alive' = [alive EXCEPT ![s] = TRUE]
      /\ waitq' = [waitq EXCEPT ![s] = <<>>]
  BY DEF SemCreate, Calls, At
<1>2. /\ count \in [Semaphore -> Int] /\ tokens \in [Semaphore -> Int]
      /\ alive \in [Semaphore -> BOOLEAN] /\ waitq \in [Semaphore -> Seq(Thread)]
  BY DEF SemIInv, SemTypeOK
<1>3. s \in Semaphore /\ InitCount[s] \in Nat
  BY <1>1, CallIsKnown, SemAssumption DEF Calls, CallOf, SemIInv
<1>4. waitq[s] = <<>> /\ GrantedOf(s) = {}
  BY <1>1, FreshIsUnused
<1>5. waitq' = waitq
  BY <1>1, <1>2, <1>3, <1>4
<1>6. Operates(t, "run", FALSE)
  BY <1>1, <1>5 DEF SemCreate, Calls, At, Keeps, Operates
<1>7. /\ Settled
      /\ \A r : GrantedOf(r)' = GrantedOf(r)
      /\ pc' \in [Tcb -> SemLocation] /\ masked' \in [Tcb -> BOOLEAN]
      /\ local' \in [Tcb -> Tcb \cup {Nil}] /\ todo' \in [Thread -> Seq(AnyCall)]
      /\ cpu' \in Tcb /\ current' \in Tcb
  BY <1>6, QuietOperation
<1>8. count[s] = tokens[s]
  <2>1. count[s] + Cardinality(GrantedOf(s)) = tokens[s]
    BY <1>3, BalanceMeans DEF SemIInv
  <2>2. Cardinality(GrantedOf(s)) = 0
    BY <1>4, FS_EmptySet
  <2> QED
    BY <1>2, <1>3, <2>1, <2>2
<1>9. /\ count' \in [Semaphore -> Int] /\ tokens' \in [Semaphore -> Int]
      /\ alive' \in [Semaphore -> BOOLEAN]
      /\ \A r \in Semaphore : count'[r] - count[r] = tokens'[r] - tokens[r]
  BY <1>1, <1>2, <1>3, <1>8
<1> QED
  BY <1>1, <1>5, <1>7, <1>9, OperationDone

(* What remains to be shown of a step of the scheduler, which leaves the   *)
(* semaphores and the programs alone.                                      *)
LEMMA ScheduleDone ==
  ASSUME SemIInv, Settled, UNCHANGED semVars,
         ready' \in Seq(Tcb), zombie' \subseteq {PrevOf(u) : u \in Thread}, armed' \in BOOLEAN,
         pc' \in [Tcb -> SemLocation], masked' \in [Tcb -> BOOLEAN],
         local' \in [Tcb -> Tcb \cup {Nil}],
         cpu' \in Tcb, current' \in Tcb,
         \A s \in Semaphore : GrantedOf(s)' = GrantedOf(s)
  PROVE  SemIInv'
<1>1. SemTypeOK'
  BY DEF SemIInv, SemTypeOK, semVars
<1>2. \A s \in Semaphore : count'[s] - count[s] = tokens'[s] - tokens[s]
  BY DEF SemIInv, SemTypeOK, semVars
<1>3. TokenBalance'
  BY <1>1, <1>2, BalanceKept DEF SemIInv
<1> QED
  BY <1>1, <1>3 DEF Settled, SemIInv

(* uthread_yield(): the thread goes to the rear of the ready queue. *)
LEMMA StepDoYield ==
  ASSUME SemIInv, UNCHANGED semVars, NEW t \in Tcb, DoYield(t)
  PROVE  SemIInv'
<1> DEFINE at == IF t = Idle THEN "loop" ELSE "run"
<1>1. /\ cpu = t /\ pc[t] = "yield" /\ pc[Idle] # "start" /\ current = t /\ local[t] = t
  BY DEF DoYield, At, SemIInv, Places, Running
<1>2. /\ ready \in Seq(Tcb) /\ pc \in [Tcb -> SemLocation] /\ masked \in [Tcb -> BOOLEAN]
      /\ local \in [Tcb -> Tcb \cup {Nil}] /\ todo \in [Thread -> Seq(AnyCall)]
      /\ zombie \subseteq {PrevOf(u) : u \in Thread} /\ armed \in BOOLEAN
  BY DEF SemIInv, SemTypeOK
<1>3. Switch(cpu, Append(ready, cpu), at, TRUE)
  BY <1>1 DEF DoYield
<1>4. zombie' = zombie /\ local' = local /\ armed' = armed /\ todo' = todo /\ waitq' = waitq
  BY DEF DoYield, semVars
<1>5. /\ ready' \in Seq(Tcb) /\ cpu' \in Tcb /\ current' = cpu'
      /\ \A u : Tokens(u)' = Tokens(u)
  BY <1>1, <1>2, <1>3, RequeueTokens
<1>6. /\ pc' \in [Tcb -> SemLocation] /\ pc'[t] = at
      /\ masked' \in [Tcb -> BOOLEAN]
      /\ \A u \in Tcb \ {t} : pc'[u] = pc[u]
  BY <1>1, <1>2, <1>3 DEF Switch, SemLocation, Location
<1>7. Moves(t)
  BY <1>1, <1>2, <1>4, <1>5, <1>6 DEF Moves
<1>8. Places' /\ Running' /\ Creation' /\ Alone' /\ Discipline'
  <2>1. t \in Thread => WellPlaced(t)'
    BY <1>6 DEF WellPlaced
  <2> QED
    BY <1>1, <1>6, <1>7, <2>1, ControlKept DEF Between
<1>9. Quiet(t)
  BY <1>1, <1>4, <1>5, <1>6, <1>7 DEF Quiet, Granting
<1>10. pc'[Idle] \in {"drain", "returned"} => pc[Idle] \in {"drain", "returned"}
  BY <1>6
<1>11. Scheduled' /\ Waiting' /\ WakesSomeone'
  BY <1>6, <1>9, <1>10, QuietKeeps
<1>12. \A s : GrantedOf(s)' = GrantedOf(s)
  BY <1>9, QuietGrants
<1> QED
  BY <1>2, <1>4, <1>5, <1>6, <1>8, <1>11, <1>12, ScheduleDone DEF Settled

(* The idle loop finds itself alone in the queue: no thread is left. *)
LEMMA AloneMeansDone ==
  ASSUME SemIInv, cpu = Idle, pc[Idle] = "loop", ~(Len(ready) > 1)
  PROVE  \A t \in Thread : Tokens(t) = 0 /\ pc[t] # "made"
<1>1. ready \in Seq(Tcb) /\ Len(ready) \in Nat /\ DOMAIN ready = 1 .. Len(ready)
  BY LenProperties DEF SemIInv, SemTypeOK
<1>2. Copies(Idle) = 1
  BY <1>1, CopiesType DEF SemIInv, Scheduled, Tokens
<1>3. \E i \in DOMAIN ready : ready[i] = Idle
  BY <1>1, <1>2, OccurrencesNone DEF Copies
<1>4. \A i \in DOMAIN ready : ready[i] = Idle
  BY <1>1, <1>3
<1>5. \A t \in Thread : Copies(t) = 0
  BY <1>1, <1>4, OccurrencesNone DEF Copies
<1>6. \A t \in Thread : Tokens(t) = 0
  BY <1>5 DEF Tokens
<1>7. \A t \in Thread : pc[t] # "create"
  BY <1>6, MidCallIsFound DEF SemIInv
<1> QED
  BY <1>6, <1>7 DEF SemIInv, Creation

(* The idle loop, and uthread_start() once it is over. *)
LEMMA StepIdle ==
  ASSUME SemIInv, UNCHANGED semVars, IdleLoop \/ IdleStop
  PROVE  SemIInv'
<1>1. /\ cpu = Idle /\ pc[Idle] \in {"loop", "drain"} /\ current = Idle
  BY DEF IdleLoop, IdleStop, At, SemIInv, Running
<1>2. /\ ready \in Seq(Tcb) /\ pc \in [Tcb -> SemLocation] /\ masked \in [Tcb -> BOOLEAN]
      /\ local \in [Tcb -> Tcb \cup {Nil}] /\ todo \in [Thread -> Seq(AnyCall)]
      /\ zombie \subseteq {PrevOf(u) : u \in Thread} /\ armed \in BOOLEAN
  BY DEF SemIInv, SemTypeOK
<1>3. PICK at \in {"yield", "drain", "returned"}, mask \in BOOLEAN :
        /\ Stay(Idle, at, mask)
        /\ at = "drain" => pc[Idle] = "loop" /\ ~(Len(ready) > 1)
        /\ at = "returned" => pc[Idle] = "drain"
        /\ local' = IF at = "yield" THEN [local EXCEPT ![Idle] = Idle] ELSE local
  BY <1>1, <1>2 DEF IdleLoop, IdleStop, At
<1>4. /\ zombie' = zombie /\ ready' = ready /\ todo' = todo /\ waitq' = waitq
      /\ armed' \in BOOLEAN
  BY <1>2 DEF IdleLoop, IdleStop, semVars
<1>5. /\ cpu' = Idle /\ current' = Idle /\ pc'[Idle] = at
      /\ pc' \in [Tcb -> SemLocation] /\ masked' \in [Tcb -> BOOLEAN]
      /\ local' \in [Tcb -> Tcb \cup {Nil}]
      /\ at = "yield" => local'[Idle] = Idle
      /\ \A u \in Tcb \ {Idle} : pc'[u] = pc[u] /\ local'[u] = local[u]
  BY <1>1, <1>2, <1>3 DEF Stay, SemLocation, Location
<1>6. \A u : Tokens(u)' = Tokens(u)
  BY <1>1, <1>4, <1>5 DEF Tokens, Copies
<1>7. Moves(Idle)
  BY <1>1, <1>2, <1>4, <1>5 DEF Moves
<1>8. Places' /\ Running' /\ Creation' /\ Alone' /\ Discipline'
  BY <1>1, <1>5, <1>7, ControlKept
<1>9. Quiet(Idle)
  BY <1>1, <1>2, <1>4, <1>5, <1>6, <1>7 DEF Quiet, Granting
<1>10. pc[Idle] \notin {"drain", "returned"} /\ pc'[Idle] \in {"drain", "returned"} =>
         \A u \in Thread : Tokens(u) = 0 /\ pc[u] # "made"
  BY <1>1, <1>3, <1>5, AloneMeansDone
<1>11. Scheduled' /\ Waiting' /\ WakesSomeone'
  BY <1>9, <1>10, QuietKeeps
<1>12. \A s : GrantedOf(s)' = GrantedOf(s)
  BY <1>9, QuietGrants
<1> QED
  BY <1>2, <1>4, <1>5, <1>8, <1>11, <1>12, ScheduleDone DEF Settled

(* A step that moves no thread: the timer, which resumes the interrupted   *)
(* thread later where it was, and the steps that change nothing.           *)
LEMMA StepStill ==
  ASSUME SemIInv, UNCHANGED semVars, Tick \/ UNCHANGED vars
  PROVE  SemIInv'
<1>1. /\ pc' = pc /\ masked' = masked /\ zombie' = zombie /\ local' = local /\ armed' = armed
      /\ ready' \in Seq(Tcb) /\ cpu' \in Tcb \cup {Nil} /\ current' \in Tcb \cup {Nil}
      /\ pc[Idle] # "start" => cpu' \in Tcb /\ current' = cpu'
      /\ pc[Idle] = "start" \/ ~Preempts => cpu' = cpu /\ ready' = ready
      /\ \A u : Tokens(u)' = Tokens(u)
  <2>1. CASE UNCHANGED vars
    <3>1. \A u : Tokens(u)' = Tokens(u)
      BY <2>1 DEF vars, Tokens, Copies
    <3> QED
      BY <2>1, <3>1 DEF vars, SemIInv, SemTypeOK, Running
  <2>2. CASE Tick
    <3>1. cpu \in Tcb /\ current = cpu /\ pc[Idle] # "start" /\ Preempts
      BY <2>2 DEF Tick, SemIInv, Places, Running
    <3>2. ready \in Seq(Tcb) /\ Switch(cpu, Append(ready, cpu), pc[cpu], masked[cpu])
      BY <2>2, <3>1 DEF Tick, SemIInv, SemTypeOK
    <3>3. /\ ready' \in Seq(Tcb) /\ cpu' \in Tcb /\ current' = cpu'
          /\ \A u : Tokens(u)' = Tokens(u)
      BY <3>1, <3>2, RequeueTokens
    <3>4. pc' = pc /\ masked' = masked
      BY <3>1, <3>2 DEF Switch, SemIInv, SemTypeOK
    <3> QED
      BY <2>2, <3>1, <3>3, <3>4 DEF Tick
  <2> QED
    BY <2>1, <2>2
<1>2. todo' = todo /\ waitq' = waitq
  BY DEF semVars
<1>3. \A u \in Thread : Arg(u)' = Arg(u) /\ Granted(u)' = Granted(u)
  BY <1>1, <1>2 DEF Arg, Granted
<1>4. \A u \in Thread : Owed(u)' = Owed(u)
  BY <1>1, <1>3 DEF Owed, WakeSurplus
<1>5. Scheduled'
  BY <1>1, <1>4 DEF SemIInv, Scheduled
<1>6. Places' /\ Discipline'
  BY <1>1, <1>2 DEF SemIInv, Places, WellPlaced, CallOf, Discipline
<1>7. Running' /\ Creation' /\ Alone'
  BY <1>1 DEF SemIInv, Running, Creation, Alone
<1>8. Waiting' /\ WakesSomeone'
  BY <1>1, <1>2, <1>3 DEF SemIInv, Waiting, WakesSomeone
<1>9. SemTypeOK'
  BY <1>1 DEF SemIInv, SemTypeOK, semVars
<1>10. TokenBalance'
  BY <1>3 DEF SemIInv, TokenBalance, semVars
<1> QED
  BY <1>5, <1>6, <1>7, <1>8, <1>9, <1>10 DEF SemIInv

(* When a thread executes, the schedule is kept by keeping each account.   *)
LEMMA ScheduleKept ==
  ASSUME SemIInv, NEW t \in Thread, Moves(t), Tokens(Idle)' = Tokens(Idle),
         \A u \in Thread : Tokens(u)' = Owed(u)'
  PROVE  Scheduled'
<1>1. pc'[Idle] = pc[Idle] /\ pc[Idle] \notin {"start", "drain", "returned"}
  BY Executing DEF Moves, SemIInv
<1> QED
  BY <1>1 DEF SemIInv, Scheduled

(* The semaphore of a thread that is in a call on it. *)
LEMMA ArgIsSemaphore ==
  ASSUME SemIInv, NEW t \in Thread, pc[t] \in InDown \cup InUp
  PROVE  /\ Arg(t) \in Semaphore /\ todo[t] # <<>>
         /\ waitq[Arg(t)] \in Seq(Thread)
         /\ pc[t] \in InDown => CallOf(t, "sem_down")
         /\ pc[t] \in InUp => CallOf(t, "sem_up")
<1>1. CallOf(t, "sem_down") \/ CallOf(t, "sem_up")
  BY DEF SemIInv, Places, WellPlaced
<1>2. Arg(t) \in Semaphore /\ todo[t] # <<>>
  BY <1>1, CallIsKnown DEF SemIInv
<1>3. waitq[Arg(t)] \in Seq(Thread)
  BY <1>2 DEF SemIInv, SemTypeOK
<1> QED
  BY <1>2, <1>3 DEF SemIInv, Places, WellPlaced

(* sem_down() enqueues the thread, which was in no wait queue. *)
LEMMA StepDownWaits ==
  ASSUME SemIInv, NEW t \in Thread, DownWaits(t)
  PROVE  SemIInv'
<1> DEFINE s == Arg(t)
<1>1. /\ cpu = t /\ pc[t] = "d_wait" /\ current = t /\ Stay(t, "waited", FALSE) /\ Keeps(t)
      /\ ready' = ready /\ zombie' = zombie /\ local' = local /\ armed' = armed
      /\ count' = count /\ alive' = alive /\ todo' = todo /\ tokens' = tokens
      /\ waitq' = [waitq EXCEPT ![s] = Append(@, t)]
  BY DEF DownWaits, At, Keeps, SemIInv, Places, Running
<1>2. /\ Moves(t) /\ pc'[t] = "waited" /\ masked' \in [Tcb -> BOOLEAN]
      /\ cpu' = t /\ current' = t /\ \A u : Tokens(u)' = Tokens(u)
  <2>1. "waited" \in SemLocation
    BY DEF SemLocation
  <2> QED
    BY <1>1, <2>1, StayMoves
<1>3. s \in Semaphore /\ CallOf(t, "sem_down")
  BY <1>1, ArgIsSemaphore
<1>4. Places' /\ Running' /\ Creation' /\ Alone' /\ Discipline'
  <2>1. WellPlaced(t)'
    BY <1>1, <1>2, <1>3 DEF WellPlaced, CallOf
  <2> QED
    BY <1>1, <1>2, <2>1, ControlKept
<1>5. waitq \in [Semaphore -> Seq(Thread)] /\ waitq' \in [Semaphore -> Seq(Thread)]
  <2>1. waitq \in [Semaphore -> Seq(Thread)]
    BY DEF SemIInv, SemTypeOK
  <2>2. Append(waitq[s], t) \in Seq(Thread)
    BY <1>3, <2>1, AppendProperties
  <2> QED
    BY <1>1, <2>1, <2>2
<1>6. SemTypeOK'
  BY <1>1, <1>2, <1>5 DEF SemIInv, SemTypeOK, Moves
<1>7. \A r \in Semaphore, u \in Thread :
        Occurrences(waitq'[r], u) = IF r = s /\ u = t THEN 1 ELSE Occurrences(waitq[r], u)
  <2>1. Occurrences(waitq[s], t) = 0
    BY <1>1, <1>3 DEF SemIInv, Waiting
  <2>2. \A u \in Thread :
          Occurrences(Append(waitq[s], t), u) = Occurrences(waitq[s], u) + IF t = u THEN 1 ELSE 0
    BY <1>3, <1>5, OccurrencesAppend
  <2>3. \A u \in Thread : Occurrences(waitq[s], u) \in Nat
    BY <1>3, <1>5, OccurrencesType
  <2>4. waitq'[s] = Append(waitq[s], t) /\ \A r \in Semaphore \ {s} : waitq'[r] = waitq[r]
    BY <1>1, <1>3, <1>5
  <2>5. \A u \in Thread : Occurrences(waitq'[s], u)
                            = IF u = t THEN 1 ELSE Occurrences(waitq[s], u)
    BY <2>1, <2>2, <2>3, <2>4
  <2> QED
    BY <2>4, <2>5
<1>8. \A u \in Thread : Arg(u)' = Arg(u)
  BY <1>1 DEF Arg
<1>9. \A u \in Thread : Granted(u)' = Granted(u)
  <2> SUFFICES ASSUME NEW u \in Thread PROVE Granted(u)' = Granted(u)
    OBVIOUS
  <2>1. CASE u = t
    BY <1>1, <1>2, <1>3, <1>7, <1>8, <2>1 DEF Granted
  <2>2. CASE u # t
    <3>1. pc'[u] = pc[u]
      BY <1>2, <2>2 DEF Moves
    <3>2. pc[u] \in InWait => Occurrences(waitq'[Arg(u)], u) = Occurrences(waitq[Arg(u)], u)
      BY <1>7, <2>2, ArgIsSemaphore
    <3> QED
      BY <1>8, <3>1, <3>2 DEF Granted
  <2> QED
    BY <2>1, <2>2
<1>10. \A u \in Thread : (pc'[u] = "unblock") = (pc[u] = "unblock")
                       /\ (pc'[u] \in Unqueueable) = (pc[u] \in Unqueueable)
  BY <1>1, <1>2 DEF Moves
<1>11. \A u \in Thread : Owed(u)' = Owed(u)
  BY <1>1, <1>9, <1>10 DEF Owed, WakeSurplus
<1>12. Scheduled'
  BY <1>2, <1>11, ScheduleKept DEF SemIInv, Scheduled
<1>13. Waiting'
  <2>1. \A r \in Semaphore, u \in Thread :
          /\ Occurrences(waitq'[r], u) \in {0, 1}
          /\ Occurrences(waitq'[r], u) = 1 => pc'[u] \in InWait /\ Arg(u)' = r
    BY <1>1, <1>2, <1>7, <1>8 DEF SemIInv, Waiting, Moves
  <2> QED
    BY <1>1, <1>9, <1>10, <2>1 DEF SemIInv, Waiting
<1>14. WakesSomeone'
  <2> SUFFICES ASSUME NEW u \in Thread, pc'[u] = "u_wake" PROVE waitq'[Arg(u)'] # <<>>
    BY DEF WakesSomeone
  <2>1. pc[u] = "u_wake" /\ waitq[Arg(u)] # <<>> /\ Arg(u) \in Semaphore
    BY <1>2, ArgIsSemaphore DEF Moves, SemIInv, WakesSomeone
  <2>2. Append(waitq[s], t) # <<>>
    BY <1>3, <1>5, AppendProperties
  <2> QED
    BY <1>1, <1>5, <1>8, <2>1, <2>2
<1>15. TokenBalance'
  <2>1. \A r : GrantedOf(r)' = GrantedOf(r)
    BY <1>8, <1>9 DEF GrantedOf
  <2>2. \A r \in Semaphore : count'[r] - count[r] = tokens'[r] - tokens[r]
    BY <1>1 DEF SemIInv, SemTypeOK
  <2> QED
    BY <1>6, <2>1, <2>2, BalanceKept DEF SemIInv
<1> QED
  BY <1>4, <1>6, <1>12, <1>13, <1>14, <1>15 DEF SemIInv

(* uthread_block() leaves the processor to a thread in the ready queue. *)
LEMMA LeavesTokens ==
  ASSUME SemIInv, NEW t \in Thread, cpu = t, NEW at, NEW mask, Switch(t, ready, at, mask)
  PROVE  /\ ready' \in Seq(Tcb) /\ cpu' \in Tcb /\ current' = cpu'
         /\ Tokens(Idle)' = Tokens(Idle)
         /\ \A u \in Thread : Tokens(u) = Owed(u) /\ Tokens(u) \in Nat
         /\ \A u \in Thread \ {t} : Tokens(u)' = Tokens(u)
         /\ Tokens(t)' = Tokens(t) - 1
<1>1. ready \in Seq(Tcb) /\ ready # <<>>
  BY Executing DEF SemIInv, Places, SemTypeOK
<1>2. /\ ready' \in Seq(Tcb) /\ cpu' \in Tcb /\ current' = cpu'
      /\ \A u : Tokens(u)' = Copies(u)
  BY <1>1, SwitchTokens DEF Copies
<1>3. \A u : Copies(u) \in Nat
  BY <1>1, CopiesType
<1>4. \A u \in Tcb \ {t} : Tokens(u) = Copies(u)
  BY <1>3 DEF Tokens
<1>5. Tokens(t) = Copies(t) + 1
  BY DEF Tokens
<1>6. \A u \in Thread : Tokens(u) = Owed(u) /\ Tokens(u) \in Nat
  BY SurplusType DEF SemIInv, Scheduled
<1>7. Tokens(t)' = Tokens(t) - 1
  BY <1>2, <1>3, <1>5
<1>8. Tokens(Idle)' = Tokens(Idle) /\ \A u \in Thread \ {t} : Tokens(u)' = Tokens(u)
  BY <1>2, <1>4
<1> QED
  BY <1>2, <1>6, <1>7, <1>8

(* The thread blocks: it is in the ready queue only if it has been woken   *)
(* since it entered the wait queue.  When it exits, it is nowhere.         *)
LEMMA StepLeaves ==
  ASSUME SemIInv, NEW t \in Thread, DoBlock(t) \/ (DoExit(t) /\ UNCHANGED semVars)
  PROVE  SemIInv'
<1>1. /\ cpu = t /\ current = t /\ local[t] = t /\ pc[Idle] # "start"
      /\ \/ pc[t] = "block" /\ Switch(t, ready, "blocked", TRUE) /\ zombie' = zombie
         \/ pc[t] = "exit" /\ Switch(t, ready, "dead", TRUE) /\ zombie' = zombie \cup {PrevOf(t)}
      /\ local' = local /\ armed' = armed /\ UNCHANGED semVars
  BY DEF DoBlock, DoExit, At, SemIInv, Places, Running
<1>2. PICK at \in {"blocked", "dead"} :
        Switch(t, ready, at, TRUE) /\ pc[t] = IF at = "blocked" THEN "block" ELSE "exit"
  BY <1>1
<1>3. /\ ready' \in Seq(Tcb) /\ cpu' \in Tcb /\ current' = cpu'
      /\ Tokens(Idle)' = Tokens(Idle)
      /\ \A u \in Thread : Tokens(u) = Owed(u) /\ Tokens(u) \in Nat
      /\ \A u \in Thread \ {t} : Tokens(u)' = Tokens(u)
      /\ Tokens(t)' = Tokens(t) - 1
  BY <1>1, <1>2, LeavesTokens
<1>4. /\ pc \in [Tcb -> SemLocation] /\ masked \in [Tcb -> BOOLEAN]
      /\ local \in [Tcb -> Tcb \cup {Nil}] /\ todo \in [Thread -> Seq(AnyCall)]
      /\ zombie \subseteq {PrevOf(u) : u \in Thread} /\ armed \in BOOLEAN
  BY DEF SemIInv, SemTypeOK
<1>5. /\ pc' \in [Tcb -> SemLocation] /\ pc'[t] = at
      /\ masked' \in [Tcb -> BOOLEAN]
      /\ \A u \in Tcb \ {t} : pc'[u] = pc[u]
  BY <1>2, <1>4 DEF Switch, SemLocation, Location
<1>6. todo' = todo /\ waitq' = waitq
  BY <1>1 DEF semVars
<1>7. Moves(t)
  BY <1>1, <1>3, <1>4, <1>5, <1>6 DEF Moves
<1>8. Places' /\ Running' /\ Creation' /\ Alone' /\ Discipline'
  <2>1. pc[t] = "block" => CallOf(t, "sem_down")
    BY DEF SemIInv, Places, WellPlaced
  <2>2. WellPlaced(t)'
    BY <1>2, <1>5, <1>6, <2>1 DEF WellPlaced, CallOf
  <2> QED
    BY <1>1, <1>2, <1>5, <1>7, <2>2, ControlKept DEF Between
<1>9. \A u \in Thread : /\ (pc'[u] \in InWait) = (pc[u] \in InWait)
                      /\ (pc'[u] = "unblock") = (pc[u] = "unblock")
  BY <1>2, <1>5
<1>10. \A u \in Thread : Arg(u)' = Arg(u) /\ Granted(u)' = Granted(u)
  BY <1>6, <1>9 DEF Arg, Granted
<1>11. \A u \in Thread : WakeSurplus(u)' = WakeSurplus(u)
  BY <1>1, <1>9, <1>10 DEF WakeSurplus
<1>12. Scheduled'
  <2>1. \A u \in Thread \ {t} : Owed(u)' = Owed(u)
    BY <1>5, <1>11 DEF Owed
  <2>2. Owed(t) = 1 + WakeSurplus(t) /\ Owed(t)' = WakeSurplus(t)
    BY <1>2, <1>5, <1>11, SurplusType DEF Owed
  <2>3. Tokens(t)' = Owed(t)'
    BY <1>3, <2>2, SurplusType
  <2> QED
    BY <1>3, <1>7, <2>1, <2>3, ScheduleKept
<1>13. Waiting'
  BY <1>1, <1>6, <1>9, <1>10 DEF SemIInv, Waiting
<1>14. WakesSomeone'
  BY <1>2, <1>5, <1>6, <1>10 DEF SemIInv, WakesSomeone
<1>15. \A s : GrantedOf(s)' = GrantedOf(s)
  BY <1>10 DEF GrantedOf
<1> QED
  BY <1>1, <1>3, <1>4, <1>5, <1>8, <1>12, <1>13, <1>14, <1>15, ScheduleDone DEF Settled

(* A thread that resumes from uthread_block() was granted the resource,    *)
(* and nobody is about to unblock it.                                      *)
LEMMA ResumedIsGranted ==
  ASSUME SemIInv, NEW t \in Thread, cpu = t, pc[t] = "blocked"
  PROVE  /\ Granted(t) /\ \A u \in Thread : ~(pc[u] = "unblock" /\ local[u] = t)
         /\ Copies(t) = 0
<1>1. Copies(t) \in Nat /\ Owed(t) = Copies(t) + 1
  BY Executing DEF SemIInv
<1>2. Owed(t) = WakeSurplus(t) /\ WakeSurplus(t) \in {0, 1}
  BY SurplusType DEF Owed
<1>3. WakeSurplus(t) = 1 /\ Copies(t) = 0
  BY <1>1, <1>2
<1> QED
  BY <1>3 DEF WakeSurplus

(* The blocked thread resumes, and holds what it was granted. *)
LEMMA StepDownResumes ==
  ASSUME SemIInv, NEW t \in Thread, DownResumes(t)
  PROVE  SemIInv'
<1> DEFINE s == Arg(t)
<1>1. /\ cpu = t /\ pc[t] = "blocked" /\ Stay(t, "run", masked[t])
      /\ ready' = ready /\ zombie' = zombie /\ local' = local /\ armed' = armed
      /\ count' = count /\ alive' = alive /\ waitq' = waitq /\ todo' = Rest(t)
      /\ tokens' = [tokens EXCEPT ![s] = @ - 1]
  BY DEF DownResumes, At
<1>2. s \in Semaphore /\ todo[t] # <<>>
  BY <1>1, ArgIsSemaphore
<1>3. /\ Moves(t) /\ pc'[t] = "run" /\ masked' \in [Tcb -> BOOLEAN]
      /\ cpu' = t /\ current' = t /\ \A u : Tokens(u)' = Tokens(u)
  <2>1. "run" \in SemLocation /\ masked[t] \in BOOLEAN /\ Keeps(t)
    BY <1>1, <1>2 DEF SemLocation, Location, SemIInv, SemTypeOK, Keeps
  <2> QED
    BY <1>1, <2>1, StayMoves
<1>4. Places' /\ Running' /\ Creation' /\ Alone' /\ Discipline'
  <2>1. WellPlaced(t)'
    BY <1>3 DEF WellPlaced
  <2> QED
    BY <1>1, <1>3, <2>1, ControlKept
<1>5. SemTypeOK'
  BY <1>1, <1>2, <1>3 DEF SemIInv, SemTypeOK, Moves
<1>6. /\ Granted(t) /\ ~Granted(t)'
      /\ \A u \in Thread : ~(pc[u] = "unblock" /\ local[u] = t)
  BY <1>1, <1>3, ResumedIsGranted DEF Granted
<1>7. \A u \in Thread \ {t} : Arg(u)' = Arg(u) /\ pc'[u] = pc[u] /\ Granted(u)' = Granted(u)
  BY <1>1, <1>3 DEF Arg, Granted, Moves
<1>8. \A u \in Thread : (pc'[u] = "unblock") = (pc[u] = "unblock")
  BY <1>1, <1>3, <1>7
<1>9. Scheduled'
  <2>1. \A u \in Thread \ {t} : Owed(u)' = Owed(u)
    BY <1>1, <1>7, <1>8 DEF Owed, WakeSurplus
  <2>2. Owed(t) = 0 + 1 /\ Owed(t)' = 1 + 0
    BY <1>1, <1>3, <1>6 DEF Owed, WakeSurplus
  <2>3. Owed(t)' = Owed(t)
    BY <2>2
  <2> QED
    BY <1>3, <2>1, <2>3, ScheduleKept DEF SemIInv, Scheduled
<1>10. Waiting'
  <2>1. \A r \in Semaphore : Occurrences(waitq[r], t) = 0
    <3> SUFFICES ASSUME NEW r \in Semaphore PROVE Occurrences(waitq[r], t) = 0
      OBVIOUS
    <3>1. r = s => Occurrences(waitq[r], t) = 0
      BY <1>6 DEF Granted
    <3>2. r # s => Occurrences(waitq[r], t) # 1
      BY DEF SemIInv, Waiting
    <3> QED
      BY <3>1, <3>2 DEF SemIInv, Waiting
  <2>2. \A r \in Semaphore, u \in Thread :
          /\ Occurrences(waitq'[r], u) \in {0, 1}
          /\ Occurrences(waitq'[r], u) = 1 => pc'[u] \in InWait /\ Arg(u)' = r
    BY <1>1, <1>7, <2>1 DEF SemIInv, Waiting
  <2>3. \A u \in Thread : pc'[u] = "unblock" => local'[u] \in Thread /\ Granted(local[u])'
    BY <1>1, <1>6, <1>7, <1>8 DEF SemIInv, Waiting
  <2> QED
    BY <1>1, <1>8, <2>2, <2>3 DEF SemIInv, Waiting
<1>11. WakesSomeone'
  BY <1>1, <1>3, <1>7 DEF SemIInv, WakesSomeone
<1>12. TokenBalance'
  <2> SUFFICES ASSUME NEW r \in Semaphore
               PROVE  count'[r] + Cardinality(GrantedOf(r)') = tokens'[r]
    BY BalanceMeans DEF GrantedOf, TokenBalance
  <2>1. GrantedOf(r)' = GrantedOf(r) \ {t}
    BY <1>6, <1>7 DEF GrantedOf
  <2>2. count[r] + Cardinality(GrantedOf(r)) = tokens[r]
    BY BalanceMeans DEF SemIInv
  <2>3. /\ IsFiniteSet(GrantedOf(r)) /\ Cardinality(GrantedOf(r)) \in Nat
        /\ (t \in GrantedOf(r)) = (r = s)
    BY <1>6, GrantedFinite DEF GrantedOf
  <2>4. Cardinality(GrantedOf(r)') = Cardinality(GrantedOf(r)) - IF r = s THEN 1 ELSE 0
    BY <2>1, <2>3, OneFewer
  <2>5. tokens'[r] = tokens[r] - IF r = s THEN 1 ELSE 0
    BY <1>1, <1>2 DEF SemIInv, SemTypeOK
  <2>6. tokens[r] \in Int /\ count[r] \in Int /\ count'[r] = count[r]
    BY <1>1 DEF SemIInv, SemTypeOK
  <2> QED
    BY <2>2, <2>3, <2>4, <2>5, <2>6
<1> QED
  BY <1>4, <1>5, <1>9, <1>10, <1>11, <1>12 DEF SemIInv

(* sem_up() takes the oldest waiter off the queue: it is granted the       *)
(* resource, and will be unblocked by this thread and no other.            *)
LEMMA HeadWaits ==
  ASSUME SemIInv, NEW s \in Semaphore, waitq[s] # <<>>
  PROVE  /\ Head(waitq[s]) \in Thread /\ Tail(waitq[s]) \in Seq(Thread)
         /\ Arg(Head(waitq[s])) = s /\ pc[Head(waitq[s])] \in InWait
         /\ Occurrences(waitq[s], Head(waitq[s])) = 1
         /\ \A u \in Thread :
              Occurrences(Tail(waitq[s]), u)
                = IF u = Head(waitq[s]) THEN 0 ELSE Occurrences(waitq[s], u)
<1>1. waitq[s] \in Seq(Thread)
  BY DEF SemIInv, SemTypeOK
<1>2. Head(waitq[s]) \in Thread /\ Tail(waitq[s]) \in Seq(Thread)
  BY <1>1, HeadTailProperties
<1>3. \A u \in Thread :
        /\ Occurrences(waitq[s], u)
             = Occurrences(Tail(waitq[s]), u) + IF Head(waitq[s]) = u THEN 1 ELSE 0
        /\ Occurrences(Tail(waitq[s]), u) \in Nat
  BY <1>1, <1>2, OccurrencesTail, OccurrencesType
<1>4. \A u \in Thread :
        /\ Occurrences(waitq[s], u) \in {0, 1}
        /\ Occurrences(waitq[s], u) = 1 => pc[u] \in InWait /\ Arg(u) = s
  BY DEF SemIInv, Waiting
<1>5. /\ Occurrences(waitq[s], Head(waitq[s])) = 1
      /\ Occurrences(Tail(waitq[s]), Head(waitq[s])) = 0
  BY <1>2, <1>3, <1>4
<1> QED
  BY <1>2, <1>3, <1>4, <1>5

(* sem_up() keeps it when it takes a thread off the wait queue, which is   *)
(* never empty then (sem.c:80-86).                                         *)
LEMMA StepUpWakes ==
  ASSUME SemIInv, NEW t \in Thread, UpWakes(t)
  PROVE  SemIInv'
<1> DEFINE s == Arg(t)
<1>1. /\ cpu = t /\ pc[t] = "u_wake" /\ current = t /\ Stay(t, "unblock", FALSE)
      /\ ready' = ready /\ zombie' = zombie /\ armed' = armed
      /\ alive' = alive /\ todo' = todo /\ tokens' = tokens
      /\ count' = [count EXCEPT ![s] = count[s] - 1]
  BY DEF UpWakes, At, SemIInv, Places, Running
<1>2. s \in Semaphore /\ CallOf(t, "sem_up") /\ waitq[s] # <<>>
  BY <1>1, ArgIsSemaphore DEF SemIInv, WakesSomeone
<1>0. PICK h \in Thread : h = Head(waitq[s])
  BY <1>2, HeadWaits
<1>3. waitq' = [waitq EXCEPT ![s] = Tail(@)] /\ local' = [local EXCEPT ![t] = h]
  BY <1>0, <1>2 DEF UpWakes
<1>4. /\ Tail(waitq[s]) \in Seq(Thread)
      /\ Arg(h) = s /\ pc[h] \in InWait /\ Occurrences(waitq[s], h) = 1
      /\ \A u \in Thread : Occurrences(Tail(waitq[s]), u)
                             = IF u = h THEN 0 ELSE Occurrences(waitq[s], u)
  BY <1>0, <1>2, HeadWaits
<1>5. /\ pc \in [Tcb -> SemLocation] /\ masked \in [Tcb -> BOOLEAN]
      /\ local \in [Tcb -> Tcb \cup {Nil}] /\ todo \in [Thread -> Seq(AnyCall)]
      /\ waitq \in [Semaphore -> Seq(Thread)] /\ count \in [Semaphore -> Int]
  BY DEF SemIInv, SemTypeOK
<1>6. /\ pc'[t] = "unblock" /\ pc' \in [Tcb -> SemLocation] /\ masked' \in [Tcb -> BOOLEAN]
      /\ cpu' = t /\ current' = t
      /\ local'[t] = h /\ local' \in [Tcb -> Tcb \cup {Nil}]
      /\ \A u \in Tcb \ {t} : pc'[u] = pc[u] /\ local'[u] = local[u]
  BY <1>1, <1>3, <1>4, <1>5 DEF Stay, SemLocation
<1>7. Moves(t)
  BY <1>1, <1>5, <1>6 DEF Moves, SemIInv, Places
<1>8. \A u : Tokens(u)' = Tokens(u)
  BY <1>1, <1>6 DEF Tokens, Copies
<1>9. Places' /\ Running' /\ Creation' /\ Alone' /\ Discipline'
  <2>1. WellPlaced(t)'
    BY <1>1, <1>2, <1>6 DEF WellPlaced, CallOf
  <2> QED
    BY <1>1, <1>6, <1>7, <2>1, ControlKept
<1>10. SemTypeOK'
  BY <1>1, <1>2, <1>3, <1>4, <1>5, <1>6 DEF SemIInv, SemTypeOK
<1>11. h # t /\ \A u \in Thread : Arg(u)' = Arg(u)
  BY <1>1, <1>4 DEF Arg
<1>12. /\ waitq'[s] = Tail(waitq[s])
       /\ \A r \in Semaphore \ {s} : waitq'[r] = waitq[r]
  BY <1>2, <1>3, <1>5
<1>13. \A r \in Semaphore, u \in Thread :
         Occurrences(waitq'[r], u) = IF r = s /\ u = h THEN 0 ELSE Occurrences(waitq[r], u)
  BY <1>4, <1>12
<1>14. ~Granted(h) /\ Granted(h)'
  <2>1. pc'[h] = pc[h] /\ Arg(h)' = s
    BY <1>4, <1>6, <1>11
  <2>2. Occurrences(waitq'[s], h) = 0
    BY <1>2, <1>4, <1>13
  <2> QED
    BY <1>4, <2>1, <2>2 DEF Granted
<1>15. \A u \in Thread \ {h} : Granted(u)' = Granted(u)
  <2> SUFFICES ASSUME NEW u \in Thread \ {h} PROVE Granted(u)' = Granted(u)
    OBVIOUS
  <2>1. CASE u = t
    BY <1>1, <1>6, <2>1 DEF Granted
  <2>2. CASE u # t
    <3>1. pc'[u] = pc[u]
      BY <1>6, <2>2
    <3>2. pc[u] \in InWait => Occurrences(waitq'[Arg(u)], u) = Occurrences(waitq[Arg(u)], u)
      BY <1>13, ArgIsSemaphore
    <3> QED
      BY <1>11, <3>1, <3>2 DEF Granted
  <2> QED
    BY <2>1, <2>2
<1>16. \A u \in Thread : pc[u] = "unblock" => local[u] # h
  BY <1>14 DEF SemIInv, Waiting
<1>17. \A u \in Thread \ {t} : /\ (pc'[u] = "unblock") = (pc[u] = "unblock")
                             /\ local'[u] = local[u]
  BY <1>6
<1>18. \A u \in Thread : (pc'[u] \in Unqueueable) = (pc[u] \in Unqueueable)
  BY <1>1, <1>6
<1>19. \A u \in Thread : WakeSurplus(u)' = WakeSurplus(u)
  <2>1. WakeSurplus(h) = 0
    BY <1>14 DEF WakeSurplus
  <2>2. WakeSurplus(h)' = 0
    BY <1>6 DEF WakeSurplus
  <2>3. ASSUME NEW u \in Thread \ {h} PROVE WakeSurplus(u)' = WakeSurplus(u)
    <3>1. \A v \in Thread : (pc'[v] = "unblock" /\ local'[v] = u)
                            = (pc[v] = "unblock" /\ local[v] = u)
      BY <1>1, <1>6, <1>17
    <3> QED
      BY <1>15, <3>1 DEF WakeSurplus
  <2> QED
    BY <2>1, <2>2, <2>3
<1>20. Scheduled'
  <2>1. \A u \in Thread : Owed(u)' = Owed(u)
    BY <1>18, <1>19 DEF Owed
  <2> QED
    BY <1>7, <1>8, <2>1, ScheduleKept DEF SemIInv, Scheduled
<1>21. Waiting'
  <2>1. \A r \in Semaphore, u \in Thread :
          /\ Occurrences(waitq'[r], u) \in {0, 1}
          /\ Occurrences(waitq'[r], u) = 1 => pc'[u] \in InWait /\ Arg(u)' = r
    <3>1. \A u \in Thread : pc[u] \in InWait => pc'[u] = pc[u]
      BY <1>1, <1>6
    <3> QED
      BY <1>11, <1>13, <3>1 DEF SemIInv, Waiting
  <2>2. \A v \in Thread : Granted(v) => Granted(v)'
    BY <1>14, <1>15
  <2>3. ASSUME NEW u \in Thread, pc'[u] = "unblock"
        PROVE  \E v \in Thread : local'[u] = v /\ Granted(v)'
    <3>1. CASE u = t
      BY <1>4, <1>6, <1>14, <3>1
    <3>2. CASE u # t
      BY <1>17, <2>2, <2>3, <3>2 DEF SemIInv, Waiting
    <3> QED
      BY <3>1, <3>2
  <2>4. \A u, v \in Thread :
          pc'[u] = "unblock" /\ pc'[v] = "unblock" /\ local'[u] = local'[v] => u = v
    BY <1>6, <1>16, <1>17 DEF SemIInv, Waiting
  <2> QED
    BY <2>1, <2>3, <2>4 DEF Waiting
<1>22. WakesSomeone'
  <2> SUFFICES ASSUME NEW u \in Thread, pc'[u] = "u_wake" PROVE waitq'[Arg(u)'] # <<>>
    BY DEF WakesSomeone
  <2>1. u # t /\ pc[u] = "u_wake"
    BY <1>6
  <2>2. Arg(u) # s
    BY <1>1, <2>1, OneDequeues
  <2>3. Arg(u) \in Semaphore /\ waitq[Arg(u)] # <<>>
    BY <2>1, ArgIsSemaphore DEF SemIInv, WakesSomeone
  <2> QED
    BY <1>11, <1>12, <2>2, <2>3
<1>23. TokenBalance'
  <2> SUFFICES ASSUME NEW r \in Semaphore
               PROVE  count'[r] + Cardinality(GrantedOf(r)') = tokens'[r]
    BY BalanceMeans DEF GrantedOf, TokenBalance
  <2>1. GrantedOf(r)' = IF r = s THEN GrantedOf(r) \cup {h} ELSE GrantedOf(r)
    BY <1>4, <1>11, <1>14, <1>15 DEF GrantedOf
  <2>2. count[r] + Cardinality(GrantedOf(r)) = tokens[r]
    BY BalanceMeans DEF SemIInv
  <2>3. /\ IsFiniteSet(GrantedOf(r)) /\ Cardinality(GrantedOf(r)) \in Nat
        /\ h \notin GrantedOf(r)
    BY <1>14, GrantedFinite DEF GrantedOf
  <2>4. Cardinality(GrantedOf(r)') = Cardinality(GrantedOf(r)) + IF r = s THEN 1 ELSE 0
    BY <2>1, <2>3, OneMore
  <2>5. count'[r] = count[r] - IF r = s THEN 1 ELSE 0
    BY <1>1, <1>2, <1>5
  <2>6. tokens[r] \in Int /\ count[r] \in Int /\ tokens'[r] = tokens[r]
    BY <1>1 DEF SemIInv, SemTypeOK
  <2> QED
    BY <2>2, <2>3, <2>4, <2>5, <2>6
<1> QED
  BY <1>9, <1>10, <1>20, <1>21, <1>22, <1>23 DEF SemIInv

(* uthread_unblock(): the thread is in the ready queue once more than it   *)
(* should when it has not blocked yet, and for the first time when it has. *)
LEMMA StepDoUnblock ==
  ASSUME SemIInv, NEW t \in Thread, DoUnblock(t)
  PROVE  SemIInv'
<1>1. /\ cpu = t /\ pc[t] = "unblock" /\ current = t /\ Stay(t, "run", FALSE)
      /\ zombie' = zombie /\ armed' = armed /\ local' = local /\ waitq' = waitq
      /\ count' = count /\ alive' = alive /\ todo' = Rest(t) /\ tokens' = tokens
      /\ ready' = Append(ready, local[t])
  BY DEF DoUnblock, At, SemIInv, Places, Running
<1>2. PICK h \in Thread : h = local[t] /\ Granted(h)
  BY <1>1 DEF SemIInv, Waiting
<1>3. h # t /\ todo[t] # <<>>
  BY <1>1, <1>2, ArgIsSemaphore DEF Granted
<1>4. /\ Moves(t) /\ pc'[t] = "run" /\ masked' \in [Tcb -> BOOLEAN]
      /\ cpu' = t /\ current' = t
  <2>1. "run" \in SemLocation /\ Keeps(t)
    BY <1>1, <1>3 DEF SemLocation, Location, Keeps
  <2> QED
    BY <1>1, <2>1, StayMoves
<1>5. Places' /\ Running' /\ Creation' /\ Alone' /\ Discipline'
  <2>1. WellPlaced(t)'
    BY <1>4 DEF WellPlaced
  <2> QED
    BY <1>1, <1>4, <2>1, ControlKept
<1>6. ready \in Seq(Tcb) /\ ready' \in Seq(Tcb)
  BY <1>1, <1>2, AppendProperties DEF SemIInv, SemTypeOK
<1>7. SemTypeOK'
  BY <1>1, <1>4, <1>6 DEF SemIInv, SemTypeOK, Moves
<1>8. \A u : Tokens(u)' = Tokens(u) + IF h = u THEN 1 ELSE 0
  <2>1. \A u : Copies(u)' = Copies(u) + IF h = u THEN 1 ELSE 0
    BY <1>1, <1>2, <1>6, OccurrencesAppend DEF Copies
  <2>2. \A u : Copies(u) \in Nat
    BY <1>6, CopiesType
  <2> QED
    BY <1>1, <1>4, <2>1, <2>2 DEF Tokens
<1>9. \A u \in Thread : pc[u] \in InWait \/ pc'[u] \in InWait => u # t
  BY <1>1, <1>4
<1>10. \A u \in Thread \ {t} : Arg(u)' = Arg(u) /\ pc'[u] = pc[u] /\ local'[u] = local[u]
  BY <1>4 DEF Arg, Moves
<1>11. \A u \in Thread : Granted(u)' = Granted(u)
  BY <1>1, <1>9, <1>10 DEF Granted
<1>12. \A u \in Thread : pc[u] = "unblock" /\ local[u] = h => u = t
  BY <1>1, <1>2 DEF SemIInv, Waiting
<1>13. Scheduled'
  <2>1. WakeSurplus(h) = 0 /\ WakeSurplus(h)' = 1
    BY <1>1, <1>2, <1>4, <1>10, <1>11, <1>12 DEF WakeSurplus
  <2>2. \A u \in Thread \ {h} : WakeSurplus(u)' = WakeSurplus(u)
    <3>1. \A u \in Thread \ {h}, v \in Thread :
            (pc'[v] = "unblock" /\ local'[v] = u) = (pc[v] = "unblock" /\ local[v] = u)
      BY <1>1, <1>2, <1>4, <1>10
    <3> QED
      BY <1>11, <3>1 DEF WakeSurplus
  <2>3. \A u \in Thread : (pc'[u] \in Unqueueable) = (pc[u] \in Unqueueable)
    BY <1>1, <1>4, <1>10
  <2>4. \A u \in Thread : Owed(u)' = Owed(u) + IF h = u THEN 1 ELSE 0
    <3> SUFFICES ASSUME NEW u \in Thread
                 PROVE  Owed(u)' = Owed(u) + IF h = u THEN 1 ELSE 0
      OBVIOUS
    <3>1. WakeSurplus(u)' = WakeSurplus(u) + IF h = u THEN 1 ELSE 0
      BY <2>1, <2>2, SurplusType
    <3>2. WakeSurplus(u) \in {0, 1}
      BY SurplusType
    <3> QED
      BY <2>3, <3>1, <3>2 DEF Owed
  <2>5. \A u \in Thread : Tokens(u)' = Owed(u)'
    BY <1>8, <2>4 DEF SemIInv, Scheduled
  <2>6. Tokens(Idle)' = Tokens(Idle)
    <3>1. Copies(Idle) \in Nat /\ h # Idle
      BY <1>6, CopiesType
    <3> QED
      BY <1>8, <3>1 DEF Tokens
  <2> QED
    BY <1>4, <2>5, <2>6, ScheduleKept
<1>14. Waiting'
  <2>1. \A r \in Semaphore, u \in Thread :
          /\ Occurrences(waitq'[r], u) \in {0, 1}
          /\ Occurrences(waitq'[r], u) = 1 => pc'[u] \in InWait /\ Arg(u)' = r
    BY <1>1, <1>9, <1>10 DEF SemIInv, Waiting
  <2>2. \A u \in Thread : pc'[u] = "unblock" => pc[u] = "unblock" /\ u # t
    BY <1>4, <1>10
  <2> QED
    BY <1>1, <1>11, <2>1, <2>2 DEF SemIInv, Waiting
<1>15. WakesSomeone'
  BY <1>1, <1>4, <1>10 DEF SemIInv, WakesSomeone
<1>16. TokenBalance'
  <2>1. \A s : GrantedOf(s)' = GrantedOf(s)
    <3>1. \A u \in Thread : Granted(u) => Arg(u)' = Arg(u)
      BY <1>9, <1>10 DEF Granted
    <3> QED
      BY <1>11, <3>1 DEF GrantedOf
  <2>2. \A s \in Semaphore : count'[s] - count[s] = tokens'[s] - tokens[s]
    BY <1>1 DEF SemIInv, SemTypeOK
  <2> QED
    BY <1>7, <2>1, <2>2, BalanceKept DEF SemIInv
<1> QED
  BY <1>5, <1>7, <1>13, <1>14, <1>15, <1>16 DEF SemIInv

(* What uthread_create() and uthread_start() leave of the semaphores: they *)
(* neither create nor start a thread that waits or unblocks.               *)
LEMMA WaitsUntouched ==
  ASSUME SemIInv, count' = count, tokens' = tokens, waitq' = waitq, SemTypeOK',
         \A u \in Thread : pc[u] \in InDown \cup InUp \/ pc'[u] \in InDown \cup InUp =>
           pc'[u] = pc[u] /\ local'[u] = local[u] /\ todo'[u] = todo[u]
  PROVE  /\ Waiting' /\ WakesSomeone' /\ TokenBalance'
         /\ \A u \in Thread : WakeSurplus(u)' = WakeSurplus(u)
<1>1. \A u \in Thread : pc[u] \in InDown \cup InUp \/ pc'[u] \in InDown \cup InUp =>
        pc'[u] = pc[u] /\ local'[u] = local[u] /\ Arg(u)' = Arg(u)
  BY DEF Arg
<1>2. \A u \in Thread : Granted(u)' = Granted(u)
  BY <1>1 DEF Granted
<1>3. \A u \in Thread : (pc'[u] = "unblock") = (pc[u] = "unblock")
                      /\ (pc[u] = "unblock" => local'[u] = local[u])
  BY <1>1
<1>4. \A u \in Thread : WakeSurplus(u)' = WakeSurplus(u)
  BY <1>2, <1>3 DEF WakeSurplus
<1>5. Waiting'
  <2>1. \A r \in Semaphore, u \in Thread :
          /\ Occurrences(waitq'[r], u) \in {0, 1}
          /\ Occurrences(waitq'[r], u) = 1 => pc'[u] \in InWait /\ Arg(u)' = r
    BY <1>1 DEF SemIInv, Waiting
  <2> QED
    BY <1>2, <1>3, <2>1 DEF SemIInv, Waiting
<1>6. WakesSomeone'
  BY <1>1 DEF SemIInv, WakesSomeone
<1>7. TokenBalance'
  <2>1. \A s : GrantedOf(s)' = GrantedOf(s)
    <3>1. \A u \in Thread : Granted(u) => Arg(u)' = Arg(u)
      BY <1>1 DEF Granted
    <3> QED
      BY <1>2, <3>1 DEF GrantedOf
  <2>2. \A s \in Semaphore : count'[s] - count[s] = tokens'[s] - tokens[s]
    BY DEF SemIInv, SemTypeOK
  <2> QED
    BY <2>1, <2>2, BalanceKept DEF SemIInv
<1> QED
  BY <1>4, <1>5, <1>6, <1>7

(* uthread_create() initialises a TCB, which no queue holds. *)
LEMMA StepCreates ==
  ASSUME SemIInv, NEW t \in Thread, ProgramCreates(t)
  PROVE  SemIInv'
<1>1. CallOf(t, "create") /\ cpu = t /\ pc[t] = "run" /\ todo[t] # <<>>
  BY DEF ProgramCreates, Calls, At, CallOf
<1>2. PICK c \in Thread : c = Arg(t)
  BY <1>1, CallIsKnown DEF SemIInv
<1>3. /\ pc[c] = "none" /\ c # t
      /\ pc' = [pc EXCEPT ![t] = "create", ![c] = "made"]
      /\ masked' = [masked EXCEPT ![c] = masked[t]]
      /\ local' = [local EXCEPT ![t] = c] /\ todo' = Rest(t)
      /\ ready' = ready /\ zombie' = zombie /\ current' = current /\ cpu' = cpu
      /\ armed' = armed /\ count' = count /\ waitq' = waitq /\ alive' = alive
      /\ tokens' = tokens
  BY <1>1, <1>2 DEF ProgramCreates, CallCreate
<1>4. /\ pc \in [Tcb -> SemLocation] /\ masked \in [Tcb -> BOOLEAN]
      /\ local \in [Tcb -> Tcb \cup {Nil}] /\ todo \in [Thread -> Seq(AnyCall)]
  BY DEF SemIInv, SemTypeOK
<1>5. /\ pc'[t] = "create" /\ pc'[c] = "made" /\ local'[t] = c
      /\ \A u \in Tcb \ {t, c} : pc'[u] = pc[u]
      /\ \A u \in Tcb \ {t} : local'[u] = local[u]
      /\ todo'[t] = Tail(todo[t]) /\ \A u \in Thread \ {t} : todo'[u] = todo[u]
  BY <1>3, <1>4 DEF Rest
<1>6. SemTypeOK'
  <2>1. pc' \in [Tcb -> SemLocation] /\ masked' \in [Tcb -> BOOLEAN]
        /\ local' \in [Tcb -> Tcb \cup {Nil}]
    BY <1>3, <1>4 DEF SemLocation, Location
  <2>2. Tail(todo[t]) \in Seq(AnyCall)
    BY <1>1, <1>4, HeadTailProperties
  <2>3. todo' \in [Thread -> Seq(AnyCall)]
    BY <1>3, <1>4, <2>2 DEF Rest
  <2> QED
    BY <1>3, <2>1, <2>3 DEF SemIInv, SemTypeOK
<1>7. pc'[Idle] = pc[Idle] /\ pc[Idle] \notin {"start", "drain", "returned"}
  BY <1>1, <1>5, Executing DEF SemIInv, Places
<1>8. Places'
  <2>1. \A u \in Thread \ {t, c} : WellPlaced(u)'
    BY <1>5 DEF SemIInv, Places, WellPlaced, CallOf
  <2>2. WellPlaced(t)' /\ WellPlaced(c)'
    BY <1>5 DEF WellPlaced
  <2> QED
    BY <1>7, <2>1, <2>2 DEF SemIInv, Places
<1>9. Running'
  BY <1>1, <1>3, <1>5, <1>7 DEF SemIInv, Running
<1>10. Creation'
  <2>1. \A u \in Thread : pc[u] = "create" => u # t /\ u # c /\ local[u] # c
                        /\ local[u] \in Thread /\ pc[local[u]] = "made"
    BY <1>1, <1>3 DEF SemIInv, Creation
  <2>2. \A u \in Thread : pc'[u] = "create" <=> u = t \/ pc[u] = "create"
    BY <1>3, <1>5
  <2>3. \A u \in Thread : pc'[u] = "made" <=> u = c \/ pc[u] = "made"
    BY <1>1, <1>3, <1>5
  <2>4. \A u \in Thread : pc'[u] = "create" => local'[u] \in Thread /\ pc'[local'[u]] = "made"
    BY <1>5, <2>1, <2>2, <2>3
  <2>5. \A u, v \in Thread :
          pc'[u] = "create" /\ pc'[v] = "create" /\ local'[u] = local'[v] => u = v
    BY <1>5, <2>1, <2>2 DEF SemIInv, Creation
  <2>6. \A d \in Thread : pc'[d] = "made" => \E u \in Thread : pc'[u] = "create" /\ local'[u] = d
    <3> SUFFICES ASSUME NEW d \in Thread, pc'[d] = "made"
                 PROVE  \E u \in Thread : pc'[u] = "create" /\ local'[u] = d
      OBVIOUS
    <3>1. CASE d = c
      BY <1>5, <3>1
    <3>2. CASE d # c
      <4>1. PICK u \in Thread : pc[u] = "create" /\ local[u] = d
        BY <2>3, <3>2 DEF SemIInv, Creation
      <4>2. pc'[u] = "create" /\ local'[u] = d
        BY <1>5, <2>1, <2>2, <4>1
      <4> QED
        BY <4>2
    <3> QED
      BY <3>1, <3>2
  <2> QED
    BY <2>4, <2>5, <2>6 DEF Creation
<1>11. Alone'
  BY <1>1, <1>3, <1>5 DEF SemIInv, Alone, Between
<1>12. Discipline'
  BY <1>1, <1>5, DisciplineKept DEF SemIInv
<1>13. /\ Waiting' /\ WakesSomeone' /\ TokenBalance'
       /\ \A u \in Thread : WakeSurplus(u)' = WakeSurplus(u)
  BY <1>1, <1>3, <1>5, <1>6, WaitsUntouched
<1>14. Scheduled'
  <2>1. \A u : Tokens(u)' = Tokens(u)
    BY <1>3 DEF Tokens, Copies
  <2>2. \A u \in Thread : (pc'[u] \in Unqueueable) = (pc[u] \in Unqueueable)
    <3>1. pc[t] \notin Unqueueable /\ pc'[t] \notin Unqueueable
      BY <1>1, <1>5
    <3>2. pc[c] \in Unqueueable /\ pc'[c] \in Unqueueable
      BY <1>3, <1>5
    <3>3. \A u \in Thread \ {t, c} : pc'[u] = pc[u]
      BY <1>5
    <3> QED
      BY <3>1, <3>2, <3>3
  <2>3. \A u \in Thread : Owed(u)' = Owed(u)
    BY <1>13, <2>2 DEF Owed
  <2> QED
    BY <1>7, <2>1, <2>3 DEF SemIInv, Scheduled
<1> QED
  BY <1>6, <1>8, <1>9, <1>10, <1>11, <1>12, <1>13, <1>14 DEF SemIInv

(* The rest of uthread_create(): the new thread enters the ready queue. *)
LEMMA StepDoCreate ==
  ASSUME SemIInv, UNCHANGED semVars, NEW t \in Thread, DoCreate(t)
  PROVE  SemIInv'
<1>1. cpu = t /\ pc[t] = "create"
  BY DEF DoCreate, At
<1>2. PICK c \in Thread : c = local[t] /\ pc[c] = "made"
  BY <1>1 DEF SemIInv, Creation
<1>3. /\ ready' = Append(ready, c) /\ c # t
      /\ pc' = [pc EXCEPT ![t] = "run", ![c] = "boot"]
      /\ masked' = [masked EXCEPT ![t] = FALSE]
      /\ zombie' = zombie /\ current' = current /\ cpu' = cpu /\ local' = local
      /\ armed' = armed
  BY <1>1, <1>2 DEF DoCreate
<1>4. /\ count' = count /\ waitq' = waitq /\ alive' = alive /\ todo' = todo /\ tokens' = tokens
  BY DEF semVars
<1>5. /\ ready \in Seq(Tcb) /\ pc \in [Tcb -> SemLocation] /\ masked \in [Tcb -> BOOLEAN]
  BY DEF SemIInv, SemTypeOK
<1>6. /\ pc'[t] = "run" /\ pc'[c] = "boot"
      /\ \A u \in Tcb \ {t, c} : pc'[u] = pc[u]
  BY <1>3, <1>5
<1>7. SemTypeOK'
  <2>1. pc' \in [Tcb -> SemLocation] /\ masked' \in [Tcb -> BOOLEAN]
    BY <1>3, <1>5 DEF SemLocation, Location
  <2>2. ready' \in Seq(Tcb)
    BY <1>3, <1>5, AppendProperties
  <2> QED
    BY <1>3, <1>4, <2>1, <2>2 DEF SemIInv, SemTypeOK
<1>8. pc'[Idle] = pc[Idle] /\ pc[Idle] \notin {"start", "drain", "returned"}
  BY <1>1, <1>6, Executing DEF SemIInv, Places
<1>9. Places'
  <2>1. \A u \in Thread \ {t, c} : WellPlaced(u)'
    BY <1>4, <1>6 DEF SemIInv, Places, WellPlaced, CallOf
  <2>2. WellPlaced(t)' /\ WellPlaced(c)'
    BY <1>6 DEF WellPlaced
  <2> QED
    BY <1>8, <2>1, <2>2 DEF SemIInv, Places
<1>10. Running'
  BY <1>1, <1>3, <1>6, <1>8 DEF SemIInv, Running
<1>11. Creation'
  <2>1. \A u \in Thread : (pc'[u] = "create") = (u # t /\ pc[u] = "create")
    BY <1>1, <1>2, <1>6
  <2>2. \A u \in Thread : (pc'[u] = "made") = (u # c /\ pc[u] = "made")
    BY <1>1, <1>2, <1>6
  <2>3. \A u \in Thread : pc[u] = "create" /\ u # t => local[u] # c
    BY <1>1, <1>2 DEF SemIInv, Creation
  <2>4. \A u \in Thread : pc[u] = "create" => local[u] \in Thread /\ pc[local[u]] = "made"
    BY DEF SemIInv, Creation
  <2>5. \A d \in Thread : pc'[d] = "made" => \E u \in Thread : pc'[u] = "create" /\ local'[u] = d
    <3> SUFFICES ASSUME NEW d \in Thread, pc'[d] = "made"
                 PROVE  \E u \in Thread : pc'[u] = "create" /\ local'[u] = d
      OBVIOUS
    <3>1. PICK u \in Thread : pc[u] = "create" /\ local[u] = d
      BY <2>2 DEF SemIInv, Creation
    <3>2. u # t
      BY <1>2, <2>2, <3>1
    <3> QED
      BY <1>3, <2>1, <3>1, <3>2
  <2>6. ASSUME NEW u \in Thread, pc'[u] = "create"
        PROVE  local'[u] \in Thread /\ pc'[local'[u]] = "made"
    <3>1. u # t /\ pc[u] = "create"
      BY ONLY <2>1, <2>6
    <3>2. local[u] # c /\ local[u] \in Thread /\ pc[local[u]] = "made"
      BY ONLY <2>3, <2>4, <3>1
    <3>3. local'[u] = local[u] /\ pc'[local[u]] = "made"
      BY <1>3, <2>2, <3>2
    <3> QED
      BY ONLY <3>2, <3>3
  <2>7. \A u, v \in Thread :
          pc'[u] = "create" /\ pc'[v] = "create" /\ local'[u] = local'[v] => u = v
    BY <1>3, <2>1 DEF SemIInv, Creation
  <2> QED
    BY <2>5, <2>6, <2>7 DEF Creation
<1>12. Alone' /\ Discipline'
  BY <1>1, <1>2, <1>3, <1>4, <1>6 DEF SemIInv, Alone, Between, Discipline
<1>13. /\ Waiting' /\ WakesSomeone' /\ TokenBalance'
       /\ \A u \in Thread : WakeSurplus(u)' = WakeSurplus(u)
  BY <1>1, <1>2, <1>3, <1>4, <1>6, <1>7, WaitsUntouched
<1>14. Scheduled'
  <2>1. \A u : Tokens(u)' = Tokens(u) + IF c = u THEN 1 ELSE 0
    <3>1. \A u : Copies(u)' = Copies(u) + IF c = u THEN 1 ELSE 0
      BY <1>3, <1>5, OccurrencesAppend DEF Copies
    <3>2. \A u : Copies(u) \in Nat
      BY <1>5, CopiesType
    <3> QED
      BY <1>3, <3>1, <3>2 DEF Tokens
  <2>2. \A u \in Thread \ {c} : (pc'[u] \in Unqueueable) = (pc[u] \in Unqueueable)
    BY <1>1, <1>6
  <2>3. pc[c] \in Unqueueable /\ pc'[c] \notin Unqueueable
    BY <1>2, <1>6
  <2>4. ASSUME NEW u \in Thread
        PROVE  Owed(u)' = Owed(u) + IF c = u THEN 1 ELSE 0
    <3>1. WakeSurplus(u)' = WakeSurplus(u) /\ WakeSurplus(u) \in {0, 1}
      BY <1>13, SurplusType
    <3> QED
      BY <2>2, <2>3, <3>1 DEF Owed
  <2>5. \A u \in Thread : Tokens(u)' = Owed(u)'
    BY <2>1, <2>4 DEF SemIInv, Scheduled
  <2>6. Tokens(Idle)' = Tokens(Idle)
    <3>1. Copies(Idle) \in Nat /\ c # Idle
      BY <1>5, CopiesType
    <3> QED
      BY <2>1, <3>1 DEF Tokens
  <2> QED
    BY <1>8, <2>5, <2>6 DEF SemIInv, Scheduled
<1> QED
  BY <1>7, <1>9, <1>10, <1>11, <1>12, <1>13, <1>14 DEF SemIInv

(* uthread_start(): the idle thread, twice, and the first one. *)
LEMMA StepUthreadStart ==
  ASSUME SemIInv, UNCHANGED semVars, UthreadStart
  PROVE  SemIInv'
<1>1. /\ cpu = Idle /\ pc[Idle] = "start" /\ \A u \in Thread : pc[u] = "none"
      /\ ready' = <<Idle, First>> /\ zombie' = {} /\ current' = Idle /\ cpu' = cpu
      /\ pc' = [pc EXCEPT ![Idle] = "loop", ![First] = "boot"]
      /\ masked' = [masked EXCEPT ![First] = masked[Idle]]
      /\ armed' = TRUE /\ local' = local
  BY DEF UthreadStart, At, SemIInv, Places
<1>2. /\ count' = count /\ waitq' = waitq /\ alive' = alive /\ todo' = todo /\ tokens' = tokens
  BY DEF semVars
<1>3. pc \in [Tcb -> SemLocation] /\ masked \in [Tcb -> BOOLEAN]
  BY DEF SemIInv, SemTypeOK
<1>4. /\ pc'[Idle] = "loop" /\ pc'[First] = "boot"
      /\ \A u \in Thread \ {First} : pc'[u] = "none"
  BY <1>1, <1>3
<1>5. SemTypeOK'
  <2>1. pc' \in [Tcb -> SemLocation] /\ masked' \in [Tcb -> BOOLEAN]
    BY <1>1, <1>3 DEF SemLocation, Location
  <2>2. ready' \in Seq(Tcb)
    BY <1>1
  <2> QED
    BY <1>1, <1>2, <2>1, <2>2 DEF SemIInv, SemTypeOK
<1>6. Places' /\ Running'
  BY <1>1, <1>2, <1>4 DEF SemIInv, Places, WellPlaced, Running
<1>7. Creation' /\ Alone' /\ Discipline'
  BY <1>1, <1>2, <1>4 DEF SemIInv, Creation, Alone, Between, Discipline
<1>8. /\ Waiting' /\ WakesSomeone' /\ TokenBalance'
      /\ \A u \in Thread : WakeSurplus(u)' = WakeSurplus(u)
  BY <1>1, <1>2, <1>4, <1>5, WaitsUntouched
<1>9. Scheduled'
  <2>1. \A t : Copies(t)' = (IF Idle = t THEN 1 ELSE 0) + (IF First = t THEN 1 ELSE 0)
    <3> SUFFICES ASSUME NEW t
                 PROVE  Occurrences(ready', t)
                          = (IF Idle = t THEN 1 ELSE 0) + (IF First = t THEN 1 ELSE 0)
      BY Zenon DEF Copies
    <3>1. Idle \in Tcb /\ First \in Tcb
      OBVIOUS
    <3> HIDE DEF Tcb
    <3> DEFINE q == ready'
    <3>2. q = <<Idle, First>>
      BY <1>1
    <3> HIDE DEF q
    <3>3. Occurrences(q, t) = (IF Idle = t THEN 1 ELSE 0) + (IF First = t THEN 1 ELSE 0)
      BY ONLY <3>1, <3>2, OccurrencesPair
    <3> QED
      BY <3>3 DEF q
  <2>2. Tokens(Idle)' = 2 /\ \A t \in Thread : Tokens(t)' = IF t = First THEN 1 ELSE 0
    BY <1>1, <2>1 DEF Tokens
  <2>3. \A t \in Thread : WakeSurplus(t)' = 0
    BY <1>1, <1>8 DEF WakeSurplus, Granted
  <2>4. \A t \in Thread : Owed(t)' = IF t = First THEN 1 ELSE 0
    BY <1>4, <2>3 DEF Owed
  <2> QED
    BY <1>4, <2>2, <2>4 DEF Scheduled
<1> QED
  BY <1>5, <1>6, <1>7, <1>8, <1>9 DEF SemIInv

(* The invariant holds initially, whatever the threads are to call. *)
LEMMA StartSemIInv ==
  ASSUME SemStart, todo \in [Thread -> Seq(AnyCall)], Discipline
  PROVE  SemIInv
<1> USE DEF SemStart, InitSched
<1>1. pc[Idle] = "start" /\ \A t \in Thread : pc[t] = "none"
  OBVIOUS
<1>2. SemTypeOK
  <2>1. pc \in [Tcb -> SemLocation] /\ masked \in [Tcb -> BOOLEAN]
        /\ local \in [Tcb -> Tcb \cup {Nil}]
    BY DEF SemLocation, Location
  <2>2. /\ count \in [Semaphore -> Int] /\ tokens \in [Semaphore -> Int]
        /\ waitq \in [Semaphore -> Seq(Thread)] /\ alive \in [Semaphore -> BOOLEAN]
    BY SemAssumption
  <2>3. ready \in Seq(Tcb)
    OBVIOUS
  <2>4. masked \in [Tcb -> BOOLEAN]
    OBVIOUS
  <2>5. /\ zombie \subseteq {PrevOf(u) : u \in Thread} /\ current \in Tcb \cup {Nil} /\ cpu \in Tcb \cup {Nil}
        /\ armed \in BOOLEAN
    OBVIOUS
  <2> HIDE DEF SemStart
  <2> QED
    BY <2>1, <2>2, <2>3, <2>4, <2>5 DEF SemTypeOK
<1>3. Places /\ Running /\ Creation /\ Alone
  BY <1>1 DEF Places, WellPlaced, Running, Creation, Alone, Between
<1>4. \A t \in Thread : ~Granted(t) /\ WakeSurplus(t) = 0
  BY <1>1 DEF Granted, WakeSurplus
<1>5. Scheduled
  <2>1. \A t : Copies(t) = 0
    BY OccurrencesEmpty DEF Copies
  <2> QED
    BY <1>1, <1>4, <2>1 DEF Scheduled, Tokens, Owed
<1>6. Waiting
  <2>1. \A s \in Semaphore : \A t \in Thread : Occurrences(waitq[s], t) = 0
    BY OccurrencesEmpty
  <2> QED
    BY <1>1, <2>1 DEF Waiting
<1>7. WakesSomeone
  BY <1>1 DEF WakesSomeone
<1>8. TokenBalance
  <2> SUFFICES ASSUME NEW s \in Semaphore
               PROVE  count[s] + Cardinality(GrantedOf(s)) = tokens[s]
    BY BalanceMeans
  <2>1. GrantedOf(s) = {}
    BY <1>4 DEF GrantedOf
  <2>2. Cardinality(GrantedOf(s)) = 0
    BY <2>1, FS_EmptySet
  <2>3. count[s] = tokens[s] /\ count[s] \in Nat
    BY SemAssumption
  <2> QED
    BY <2>2, <2>3
<1> QED
  BY <1>2, <1>3, <1>5, <1>6, <1>7, <1>8 DEF SemIInv

(* So it does when the programs are disciplined. *)
LEMMA InitSemIInv == Disciplined /\ SemInit => SemIInv
<1> SUFFICES ASSUME Disciplined, SemInit PROVE SemIInv
  OBVIOUS
<1>1. Seq(LibraryCall) \subseteq Seq(AnyCall)
  BY SeqMonotonic DEF AnyCall
<1>2. todo \in [Thread -> Seq(AnyCall)]
  BY <1>1, SemAssumption DEF SemInit
<1>3. Discipline
  BY DEF Disciplined, Discipline, SemInit
<1> QED
  BY <1>2, <1>3, StartSemIInv DEF SemInit

(* Every step keeps the invariant. *)
LEMMA NextSemIInv == SemIInv /\ Fresh /\ [SemNext]_allVars => SemIInv'
<1> SUFFICES ASSUME SemIInv, Fresh, [SemNext]_allVars PROVE SemIInv'
  OBVIOUS
<1>1. CASE UthreadStart /\ UNCHANGED semVars
  BY <1>1, StepUthreadStart
<1>2. CASE (IdleLoop \/ IdleStop) /\ UNCHANGED semVars
  BY <1>2, StepIdle
<1>3. ASSUME NEW t \in Tcb, DoYield(t) /\ UNCHANGED semVars PROVE SemIInv'
  BY <1>3, StepDoYield
<1>4. ASSUME NEW t \in Thread, Boot(t) /\ UNCHANGED semVars PROVE SemIInv'
  BY <1>4, StepReads
<1>5. ASSUME NEW t \in Thread, DoCreate(t) /\ UNCHANGED semVars PROVE SemIInv'
  BY <1>5, StepDoCreate
<1>6. ASSUME NEW t \in Thread, DoExit(t) /\ UNCHANGED semVars PROVE SemIInv'
  BY <1>6, StepLeaves
<1>7. CASE Tick /\ UNCHANGED semVars
  BY <1>7, StepStill
<1>8. CASE (Returned /\ UNCHANGED semVars) \/ UNCHANGED allVars
  BY <1>8, StepStill DEF Returned, allVars
<1>9. ASSUME NEW t \in Thread, ProgramStep(t) PROVE SemIInv'
  BY <1>9, StepReads, StepCreates DEF ProgramStep
<1>10. ASSUME NEW t \in Thread, SemStep(t) PROVE SemIInv'
  <2>1. CASE SemCreate(t)
    BY <2>1, StepSemCreate
  <2>2. CASE SemDestroy(t) \/ SemDown(t) \/ EnterBlock(t) \/ UpChecks(t)
    BY <2>2, StepReads
  <2>3. CASE DoFree(t) \/ DownTakes(t) \/ SemUp(t)
    BY <2>3, StepCounts
  <2>4. CASE DownWaits(t)
    BY <2>4, StepDownWaits
  <2>5. CASE DoBlock(t)
    BY <2>5, StepLeaves
  <2>6. CASE DownResumes(t)
    BY <2>6, StepDownResumes
  <2>7. CASE UpWakes(t)
    BY <2>7, StepUpWakes
  <2>8. CASE DoUnblock(t)
    BY <2>8, StepDoUnblock
  <2> QED
    BY <1>10, <2>1, <2>2, <2>3, <2>4, <2>5, <2>6, <2>7, <2>8 DEF SemStep
<1> QED
  BY <1>1, <1>2, <1>3, <1>4, <1>5, <1>6, <1>7, <1>8, <1>9, <1>10
     DEF SemNext, LibraryStep

-----------------------------------------------------------------------------
(* The theorems. *)

(* The invariant holds in every reachable state. *)
LEMMA SemInvariance == Disciplined => (SemSpec /\ []Fresh => []SemIInv)
<1> SUFFICES ASSUME Disciplined PROVE SemSpec /\ []Fresh => []SemIInv
  OBVIOUS
<1>1. SemInit => SemIInv
  BY InitSemIInv
<1> QED
  BY <1>1, NextSemIInv, PTL DEF SemSpec

(* The next four theorems are about all programs in which each semaphore   *)
(* has one thread that releases it or two that use it, when the timer      *)
(* runs: with more, two sem_up() can dequeue for one waiter.               *)

(* The variables have their types. *)
THEOREM SemTypesCorrect == Disciplined => (SemSpec /\ []Fresh => []SemTypeOK)
<1> SUFFICES ASSUME Disciplined PROVE SemSpec /\ []Fresh => []SemTypeOK
  OBVIOUS
<1>1. SemIInv => SemTypeOK
  BY DEF SemIInv
<1> QED
  BY <1>1, SemInvariance, PTL

(* The ready queue is never dequeued empty, and sem_up() never unblocks    *)
(* what an empty wait queue left in its pointer (sem.c:85-87).             *)
THEOREM NothingIsDequeuedEmpty == Disciplined => (SemSpec /\ []Fresh => []NoEmptyDequeue)
<1> SUFFICES ASSUME Disciplined PROVE SemSpec /\ []Fresh => []NoEmptyDequeue
  OBVIOUS
<1>1. SemIInv => NoEmptyDequeue
  BY DEF SemIInv, Running, WakesSomeone, NoEmptyDequeue
<1> QED
  BY <1>1, SemInvariance, PTL

(* No resource is lost between the count, the wait queue and the threads   *)
(* that are about to resume, wherever the timer interrupts sem.c: of such  *)
(* programs, and of all programs without the timer.                        *)
THEOREM NoTokenIsLost == Disciplined => (SemSpec /\ []Fresh => []TokenBalance)
<1> SUFFICES ASSUME Disciplined PROVE SemSpec /\ []Fresh => []TokenBalance
  OBVIOUS
<1>1. SemIInv => TokenBalance
  BY DEF SemIInv
<1> QED
  BY <1>1, SemInvariance, PTL

(* A thread that is woken between its enqueue in the wait queue and its    *)
(* block is in the ready queue once too often, and the block uses that up: *)
(* of such programs, and of all programs without the timer.                *)
THEOREM SurplusIsUsedUp == Disciplined => (SemSpec /\ []Fresh => []SemReadyTokens)
<1> SUFFICES ASSUME Disciplined PROVE SemSpec /\ []Fresh => []SemReadyTokens
  OBVIOUS
<1>1. SemIInv => SemReadyTokens
  BY DEF SemIInv, Scheduled, SemReadyTokens, Tokens, Owed
<1> QED
  BY <1>1, SemInvariance, PTL

-----------------------------------------------------------------------------
(* The programs call sem.c on allocated semaphores only, and malloc() does *)
(* not return one of these.                                                *)
Allocated ==
  \A t \in Thread :
    /\ Calls(t, "sem_create") => ~alive[Arg(t)]
    /\ (\E op \in {"sem_down", "sem_up", "sem_destroy"} : Calls(t, op)) => alive[Arg(t)]

(* Without the timer the count tells what the wait queue holds: a thread   *)
(* waits only while nothing is available, but for what a sem_up() that is  *)
(* under way is handing over; and what an operation tested still holds     *)
(* when it acts on it.                                                     *)
Exact ==
  /\ \A s \in Semaphore :
       count[s] >= 0 /\ (waitq[s] # <<>> => count[s] = IF Upping(s) THEN 1 ELSE 0)
  /\ \A t \in Thread : /\ pc[t] = "d_wait" => count[Arg(t)] = 0
                       /\ pc[t] = "d_take" => count[Arg(t)] > 0
                       /\ pc[t] = "free" => waitq[Arg(t)] = <<>>

(* Where a thread has read the semaphore, or will write it. *)
Mid == {"d_wait", "d_take", "free", "u_check", "u_wake"}

-----------------------------------------------------------------------------
(* Which thread can be in the middle of an operation. *)

USE ThreadAssumption
    DEF Tcb, NobodyWaits, SomeoneWaits, Waiter, AtRear, CountHanded, InWait, InDown, InUp

(* The abstract semaphores. *)
Exists == {s \in Semaphore : alive[s]}
Value == [s \in Semaphore |-> IF HandingOver(s) THEN count[s] - 1 ELSE count[s]]
Line == [s \in Semaphore |-> IF HandingOver(s) THEN Tail(waitq[s]) ELSE waitq[s]]

(* A step that neither moves a thread in or out of the middle of an        *)
(* operation nor writes a semaphore changes nothing of the abstract one.   *)
LEMMA NothingAtomic ==
  ASSUME SemTypeOK, count' = count, waitq' = waitq, alive' = alive,
         \A u \in Thread : pc[u] \in Mid \/ pc'[u] \in Mid =>
           pc'[u] = pc[u] /\ todo'[u] = todo[u]
  PROVE  /\ Exact => Exact'
         /\ NoUseAfterFree => NoUseAfterFree'
         /\ Value' = Value /\ Line' = Line
<1>1. \A u \in Thread : pc[u] \in Mid \/ pc'[u] \in Mid => pc'[u] = pc[u] /\ Arg(u)' = Arg(u)
  BY DEF Arg
<1>2. \A s : Upping(s)' = Upping(s)
  BY <1>1 DEF Upping, Mid
<1>3. \A s : HandingOver(s)' = HandingOver(s)
  BY <1>2 DEF HandingOver
<1>4. Exact => Exact'
  BY <1>1, <1>2 DEF Exact, Mid
<1>5. NoUseAfterFree => NoUseAfterFree'
  BY <1>1 DEF NoUseAfterFree, Mid
<1>6. Value' = Value /\ Line' = Line
  BY <1>3 DEF Value, Line
<1> QED
  BY <1>4, <1>5, <1>6

(* The thread that executes is the only one in the middle of an operation, *)
(* before its step and after it.                                           *)
LEMMA OnlyOneMid ==
  ASSUME SemIInv, ~Preempts, NEW t \in Thread, cpu = t, Moves(t)
  PROVE  /\ \A u \in Thread \ {t} : pc[u] \notin Mid /\ pc'[u] \notin Mid
         /\ \A s : Upping(s) = (pc[t] \in {"u_check", "u_wake"} /\ Arg(t) = s)
         /\ \A s : Upping(s)' = (pc'[t] \in {"u_check", "u_wake"} /\ Arg(t)' = s)
<1>1. \A u \in Thread \ {t} : pc[u] \notin Mid /\ pc'[u] = pc[u]
  BY DEF SemIInv, Alone, Between, Mid, Moves
<1> QED
  BY <1>1 DEF Upping, Mid

-----------------------------------------------------------------------------
(* The steps that write a semaphore, or test one. *)

(* What the steps of the abstract semaphore are. *)
LEMMA AbstractSteps ==
  ASSUME NEW s \in Semaphore
  PROVE  /\ Abstract!Create(s) <=>
              /\ s \notin Exists /\ Exists' = Exists \cup {s}
              /\ Value' = [Value EXCEPT ![s] = InitCount[s]]
              /\ Line' = [Line EXCEPT ![s] = <<>>]
         /\ Abstract!Destroy(s) <=>
              /\ s \in Exists /\ Line[s] = <<>> /\ Exists' = Exists \ {s}
              /\ Value' = Value /\ Line' = Line
         /\ Abstract!Take(s) <=>
              /\ s \in Exists /\ Value[s] > 0 /\ Value' = [Value EXCEPT ![s] = @ - 1]
              /\ Exists' = Exists /\ Line' = Line
         /\ Abstract!Wait(s) <=>
              /\ s \in Exists /\ Value[s] = 0
              /\ \E t \in Thread : Line' = [Line EXCEPT ![s] = Append(@, t)]
              /\ Exists' = Exists /\ Value' = Value
         /\ Abstract!Release(s) <=>
              /\ s \in Exists /\ Line[s] = <<>> /\ Value' = [Value EXCEPT ![s] = @ + 1]
              /\ Exists' = Exists /\ Line' = Line
         /\ Abstract!HandOver(s) <=>
              /\ s \in Exists /\ Line[s] # <<>> /\ Line' = [Line EXCEPT ![s] = Tail(@)]
              /\ Exists' = Exists /\ Value' = Value
<1>1. Abstract!Create(s) <=> /\ s \notin Exists /\ Exists' = Exists \cup {s}
                            /\ Value' = [Value EXCEPT ![s] = InitCount[s]]
                            /\ Line' = [Line EXCEPT ![s] = <<>>]
  BY DEF Abstract!Create, Exists, Value, Line
<1>2. Abstract!Destroy(s) <=> /\ s \in Exists /\ Line[s] = <<>> /\ Exists' = Exists \ {s}
                             /\ Value' = Value /\ Line' = Line
  BY DEF Abstract!Destroy, Exists, Value, Line
<1>3. Abstract!Take(s) <=>
        /\ s \in Exists /\ Value[s] > 0 /\ Value' = [Value EXCEPT ![s] = @ - 1]
        /\ Exists' = Exists /\ Line' = Line
  BY DEF Abstract!Take, Exists, Value, Line
<1>4. Abstract!Wait(s) <=>
        /\ s \in Exists /\ Value[s] = 0
        /\ \E t \in Thread : Line' = [Line EXCEPT ![s] = Append(@, t)]
        /\ Exists' = Exists /\ Value' = Value
  BY DEF Abstract!Wait, Exists, Value, Line
<1>5. Abstract!Release(s) <=>
        /\ s \in Exists /\ Line[s] = <<>> /\ Value' = [Value EXCEPT ![s] = @ + 1]
        /\ Exists' = Exists /\ Line' = Line
  BY DEF Abstract!Release, Exists, Value, Line
<1>6. Abstract!HandOver(s) <=>
        /\ s \in Exists /\ Line[s] # <<>> /\ Line' = [Line EXCEPT ![s] = Tail(@)]
        /\ Exists' = Exists /\ Value' = Value
  BY DEF Abstract!HandOver, Exists, Value, Line
<1> QED
  BY <1>1, <1>2, <1>3, <1>4, <1>5, <1>6

AbstractStep == [Abstract!AbsNext]_(Abstract!absVars)

(* A step that changes nothing of the atomic semaphore is one of its steps. *)
LEMMA AbstractStutter ==
  ASSUME Exists' = Exists, Value' = Value, Line' = Line
  PROVE  AbstractStep
BY DEF AbstractStep, Abstract!absVars, Exists, Value, Line

(* A thread that runs sem.c moves alone, and no other is in the middle of  *)
(* an operation.                                                           *)
LEMMA SemStepMoves ==
  ASSUME SemIInv, NEW t \in Thread, cpu = t, NEW at \in Mid \cup {"run", "waited", "unblock"},
         NEW mask \in BOOLEAN, Stay(t, at, mask),
         local' = local \/ \E x \in Tcb \cup {Nil} : local' = [local EXCEPT ![t] = x],
         todo' = todo \/ (todo[t] # <<>> /\ todo' = Rest(t))
  PROVE  Moves(t) /\ pc'[t] = at
<1>1. /\ pc \in [Tcb -> SemLocation] /\ local \in [Tcb -> Tcb \cup {Nil}]
      /\ todo \in [Thread -> Seq(AnyCall)]
      /\ pc[Idle] # "start" /\ current = t
  BY DEF SemIInv, SemTypeOK, Places, Running
<1>2. /\ pc' \in [Tcb -> SemLocation] /\ pc'[t] = at /\ pc'[Idle] # "start"
      /\ cpu' = t /\ current' = t /\ \A u \in Tcb \ {t} : pc'[u] = pc[u]
  BY <1>1 DEF Stay, SemLocation, Location, Mid
<1>3. local' \in [Tcb -> Tcb \cup {Nil}] /\ \A u \in Tcb \ {t} : local'[u] = local[u]
  BY <1>1
<1>4. /\ todo' \in [Thread -> Seq(AnyCall)]
      /\ \A u \in Thread \ {t} : todo'[u] = todo[u]
      /\ todo'[t] = todo[t] \/ (todo[t] # <<>> /\ todo'[t] = Tail(todo[t]))
  <2>1. CASE todo' = todo
    BY <1>1, <2>1
  <2>2. CASE todo[t] # <<>> /\ todo' = Rest(t)
    <3>1. Tail(todo[t]) \in Seq(AnyCall)
      BY <1>1, <2>2, HeadTailProperties
    <3> QED
      BY <1>1, <2>2, <3>1 DEF Rest
  <2> QED
    BY <2>1, <2>2
<1> QED
  BY <1>1, <1>2, <1>3, <1>4 DEF Moves

(* When no release is under way the abstract semaphores are the real ones. *)
LEMMA NoneUpping ==
  ASSUME SemTypeOK, \A s \in Semaphore : ~Upping(s)
  PROVE  Value = [s \in Semaphore |-> count[s]] /\ Value = count /\ Line = waitq
BY DEF HandingOver, Value, Line, SemTypeOK

(* The tests of sem_down() and sem_destroy(): nothing of the abstract      *)
(* semaphore changes, and the result still holds when it is used.          *)
LEMMA AtomicTests ==
  ASSUME SemIInv, Exact, ~Preempts, NEW t \in Thread, SemDown(t) \/ SemDestroy(t)
  PROVE  Exact' /\ (NoUseAfterFree /\ Allocated => NoUseAfterFree' /\ AbstractStep)
<1>1. /\ cpu = t /\ pc[t] = "run" /\ todo[t] # <<>> /\ masked[t] \in BOOLEAN
      /\ count' = count /\ waitq' = waitq /\ alive' = alive
  BY DEF SemDown, SemDestroy, Calls, At, semVars, SemIInv, SemTypeOK
<1>2. PICK at \in {"d_wait", "d_take", "free", "run"} :
        /\ Stay(t, at, masked[t]) /\ local' = local
        /\ at = "d_wait" => count[Arg(t)] = 0
        /\ at = "d_take" => count[Arg(t)] # 0
        /\ at \in {"d_wait", "d_take"} => Calls(t, "sem_down")
        /\ at = "free" => Calls(t, "sem_destroy") /\ waitq[Arg(t)] = <<>>
        /\ at # "run" => todo' = todo
        /\ at = "run" => todo' = Rest(t)
  BY <1>1 DEF SemDown, SemDestroy, semVars
<1>3. Moves(t) /\ pc'[t] = at
  <2>1. at \in Mid \cup {"run", "waited", "unblock"}
    BY DEF Mid
  <2> QED
    BY <1>1, <1>2, <2>1, SemStepMoves
<1>4. /\ \A u \in Thread \ {t} : pc[u] \notin Mid /\ pc'[u] \notin Mid
      /\ \A s : ~Upping(s) /\ ~Upping(s)'
  BY <1>1, <1>3, OnlyOneMid
<1>5. at # "run" => Arg(t)' = Arg(t) /\ Arg(t) \in Semaphore
  <2>1. at # "run" => CallOf(t, "sem_down") \/ CallOf(t, "sem_destroy")
    BY <1>2 DEF Calls, CallOf
  <2>2. at # "run" => Arg(t) \in Semaphore
    BY <2>1, CallIsKnown DEF SemIInv
  <2> QED
    BY <1>2, <2>2 DEF Arg
<1>6. Exact'
  <2>1. \A s \in Semaphore : count'[s] >= 0 /\ (waitq'[s] # <<>> => count'[s] = 0)
    BY <1>1, <1>4 DEF Exact
  <2>2. /\ pc'[t] = "d_wait" => count'[Arg(t)'] = 0
        /\ pc'[t] = "d_take" => count'[Arg(t)'] > 0
        /\ pc'[t] = "free" => waitq'[Arg(t)'] = <<>>
    <3>1. at = "d_take" => count[Arg(t)] \in Int /\ count[Arg(t)] >= 0
      BY <1>5 DEF Exact, SemIInv, SemTypeOK
    <3> QED
      BY <1>1, <1>2, <1>3, <1>5, <3>1
  <2>3. \A u \in Thread \ {t} : pc'[u] \notin {"d_wait", "d_take", "free"}
    BY <1>4 DEF Mid
  <2> QED
    BY <1>4, <2>1, <2>2, <2>3 DEF Exact
<1>7. NoUseAfterFree /\ Allocated => NoUseAfterFree'
  <2>1. Allocated /\ at # "run" => alive'[Arg(t)']
    BY <1>1, <1>2, <1>5 DEF Allocated
  <2> QED
    BY <1>3, <1>4, <2>1 DEF NoUseAfterFree, Mid
<1>8. AbstractStep
  <2>1. Exists' = Exists
    BY <1>1 DEF Exists
  <2>2. Value' = Value /\ Line' = Line
    BY <1>1, <1>4 DEF Value, Line, HandingOver
  <2> QED
    BY <2>1, <2>2, AbstractStutter
<1> QED
  BY <1>6, <1>7, <1>8

(* sem_down() takes what it found available. *)
LEMMA AtomicTake ==
  ASSUME SemIInv, Exact, ~Preempts, NEW t \in Thread, DownTakes(t)
  PROVE  Exact' /\ (NoUseAfterFree => NoUseAfterFree' /\ AbstractStep)
<1>0. PICK s \in Semaphore : s = Arg(t) /\ todo[t] # <<>>
  BY ArgIsSemaphore DEF DownTakes, At
<1>1. /\ cpu = t /\ pc[t] = "d_take" /\ Stay(t, "run", FALSE) /\ local' = local
      /\ count' = [count EXCEPT ![s] = @ - 1] /\ todo' = Rest(t)
      /\ waitq' = waitq /\ alive' = alive
  BY <1>0 DEF DownTakes, At
<1>3. Moves(t) /\ pc'[t] = "run"
  BY <1>0, <1>1, SemStepMoves
<1>4. /\ \A u \in Thread \ {t} : pc[u] \notin Mid /\ pc'[u] \notin Mid
      /\ \A r : ~Upping(r) /\ ~Upping(r)'
  BY <1>1, <1>3, OnlyOneMid
<1>5. /\ count \in [Semaphore -> Int] /\ count[s] > 0 /\ waitq[s] = <<>>
      /\ \A r \in Semaphore : count[r] >= 0 /\ (waitq[r] # <<>> => count[r] = 0)
  BY <1>0, <1>1, <1>4 DEF SemIInv, SemTypeOK, Exact
<1>6. Exact'
  <2>1. \A r \in Semaphore : count'[r] >= 0 /\ (waitq'[r] # <<>> => count'[r] = 0)
    BY <1>1, <1>5
  <2> QED
    BY <1>3, <1>4, <2>1 DEF Exact, Mid
<1>7. NoUseAfterFree'
  BY <1>3, <1>4 DEF NoUseAfterFree, Mid
<1>8. NoUseAfterFree => AbstractStep
  <2>1. Value = count /\ Line = waitq
    BY <1>4, NoneUpping DEF SemIInv
  <2>2. Value' = count' /\ Line' = waitq'
    BY <1>1, <1>4, <1>5 DEF Value, Line, HandingOver, SemIInv, SemTypeOK
  <2>3. NoUseAfterFree => s \in Exists
    BY <1>0, <1>1 DEF NoUseAfterFree, Exists
  <2>4. Exists' = Exists
    BY <1>1 DEF Exists
  <2>5. NoUseAfterFree => Abstract!Take(s)
    BY <1>1, <1>5, <2>1, <2>2, <2>3, <2>4, AbstractSteps
  <2> QED
    BY <2>5 DEF AbstractStep, Abstract!AbsNext
<1> QED
  BY <1>6, <1>7, <1>8

(* sem_down() waits when nothing is available. *)
LEMMA AtomicWait ==
  ASSUME SemIInv, Exact, ~Preempts, NEW t \in Thread, DownWaits(t)
  PROVE  Exact' /\ (NoUseAfterFree => NoUseAfterFree' /\ AbstractStep)
<1>0. PICK s \in Semaphore : s = Arg(t)
  BY ArgIsSemaphore DEF DownWaits, At
<1>1. /\ cpu = t /\ pc[t] = "d_wait" /\ Stay(t, "waited", FALSE) /\ local' = local
      /\ count' = count /\ todo' = todo /\ alive' = alive
      /\ waitq' = [waitq EXCEPT ![s] = Append(@, t)]
  BY <1>0 DEF DownWaits, At, SemIInv, Places, Running
<1>2. waitq \in [Semaphore -> Seq(Thread)] /\ count \in [Semaphore -> Int]
  BY DEF SemIInv, SemTypeOK
<1>3. Moves(t) /\ pc'[t] = "waited"
  BY <1>1, SemStepMoves
<1>4. /\ \A u \in Thread \ {t} : pc[u] \notin Mid /\ pc'[u] \notin Mid
      /\ \A r : ~Upping(r) /\ ~Upping(r)'
  BY <1>1, <1>3, OnlyOneMid
<1>5. /\ count[s] = 0
      /\ \A r \in Semaphore : count[r] >= 0 /\ (waitq[r] # <<>> => count[r] = 0)
  BY <1>0, <1>1, <1>2, <1>4 DEF Exact
<1>6. Exact'
  <2>1. \A r \in Semaphore : count'[r] >= 0 /\ (waitq'[r] # <<>> => count'[r] = 0)
    BY <1>1, <1>2, <1>5
  <2> QED
    BY <1>3, <1>4, <2>1 DEF Exact, Mid
<1>7. NoUseAfterFree'
  BY <1>3, <1>4 DEF NoUseAfterFree, Mid
<1>8. NoUseAfterFree => AbstractStep
  <2>1. Value = count /\ Line = waitq
    BY <1>4, NoneUpping DEF SemIInv
  <2>2. Value' = count' /\ Line' = waitq'
    BY <1>1, <1>2, <1>4 DEF Value, Line, HandingOver
  <2>3. NoUseAfterFree => s \in Exists
    BY <1>0, <1>1 DEF NoUseAfterFree, Exists
  <2>4. Exists' = Exists
    BY <1>1 DEF Exists
  <2>5. Line' = [Line EXCEPT ![s] = Append(@, t)] /\ Value[s] = 0 /\ Value' = Value
    BY <1>1, <1>5, <2>1, <2>2
  <2>6. NoUseAfterFree => Abstract!Wait(s)
    BY <1>2, <2>3, <2>4, <2>5, AbstractSteps
  <2> QED
    BY <1>2, <2>6 DEF AbstractStep, Abstract!AbsNext
<1> QED
  BY <1>6, <1>7, <1>8

(* sem_up(): the resource is at once the oldest waiter's, or available.    *)
LEMMA AtomicUp ==
  ASSUME SemIInv, Exact, ~Preempts, NEW t \in Thread, SemUp(t)
  PROVE  Exact' /\ (NoUseAfterFree /\ Allocated => NoUseAfterFree' /\ AbstractStep)
<1>0. PICK s \in Semaphore : s = Arg(t)
  BY CallIsKnown DEF SemUp, Calls, CallOf, SemIInv
<1>1. /\ cpu = t /\ pc[t] = "run" /\ Stay(t, "u_check", FALSE) /\ local' = local
      /\ count' = [count EXCEPT ![s] = @ + 1] /\ todo' = todo
      /\ waitq' = waitq /\ alive' = alive
  BY <1>0 DEF SemUp, Calls, At
<1>2. waitq \in [Semaphore -> Seq(Thread)] /\ count \in [Semaphore -> Int]
  BY DEF SemIInv, SemTypeOK
<1>3. Moves(t) /\ pc'[t] = "u_check" /\ Arg(t)' = s
  <2>1. "u_check" \in Mid /\ Arg(t)' = s
    BY <1>0, <1>1 DEF Mid, Arg
  <2> QED
    BY <1>1, <2>1, SemStepMoves
<1>4. /\ \A u \in Thread \ {t} : pc[u] \notin Mid /\ pc'[u] \notin Mid
      /\ \A r : ~Upping(r) /\ Upping(r)' = (r = s)
  BY <1>1, <1>3, OnlyOneMid
<1>5. \A r \in Semaphore : count[r] >= 0 /\ (waitq[r] # <<>> => count[r] = 0)
  BY <1>4 DEF Exact
<1>6. Exact'
  <2>1. \A r \in Semaphore : count'[r] >= 0
                          /\ (waitq'[r] # <<>> => count'[r] = IF r = s THEN 1 ELSE 0)
    BY <1>1, <1>2, <1>5
  <2> QED
    BY <1>3, <1>4, <2>1 DEF Exact, Mid
<1>7. NoUseAfterFree /\ Allocated => NoUseAfterFree' /\ s \in Exists
  <2>1. Allocated => alive[s]
    BY <1>0 DEF Allocated, SemUp
  <2> QED
    BY <1>1, <1>3, <1>4, <2>1 DEF NoUseAfterFree, Mid, Exists
<1>8. Allocated => AbstractStep
  <2>1. Value = count /\ Line = waitq
    BY <1>4, NoneUpping DEF SemIInv
  <2>2. Exists' = Exists /\ (Allocated => s \in Exists)
    BY <1>0, <1>1 DEF Exists, Allocated, SemUp
  <2>3. \A r : HandingOver(r)' = (r = s /\ waitq[r] # <<>>)
    BY <1>1, <1>4 DEF HandingOver
  <2>4. CASE waitq[s] = <<>>
    <3>1. Value' = [Value EXCEPT ![s] = @ + 1] /\ Line' = Line
      <4>1. \A r : ~HandingOver(r)'
        BY <2>3, <2>4
      <4> QED
        BY <1>1, <1>2, <2>1, <4>1 DEF Value, Line
    <3>2. Allocated => Abstract!Release(s)
      BY <2>1, <2>2, <2>4, <3>1, AbstractSteps
    <3> QED
      BY <3>2 DEF AbstractStep, Abstract!AbsNext
  <2>5. CASE waitq[s] # <<>>
    <3>1. \A r : HandingOver(r)' = (r = s)
      BY <2>3, <2>5
    <3>2. Value' = Value
      <4>1. \A r \in Semaphore : count[r] = IF r = s THEN count'[r] - 1 ELSE count'[r]
        BY <1>1, <1>2
      <4>2. Value' = [r \in Semaphore |-> count[r]]
        BY <3>1, <4>1 DEF Value
      <4> QED
        BY <1>2, <2>1, <4>2
    <3>3. Line' = [Line EXCEPT ![s] = Tail(@)]
      BY <1>1, <1>2, <2>1, <3>1 DEF Line
    <3>4. Allocated => Abstract!HandOver(s)
      BY <2>1, <2>2, <2>5, <3>2, <3>3, AbstractSteps
    <3> QED
      BY <3>4 DEF AbstractStep, Abstract!AbsNext
  <2> QED
    BY <2>4, <2>5
<1> QED
  BY <1>6, <1>7, <1>8

(* The rest of sem_up() only catches up with that. *)
LEMMA AtomicUpEnds ==
  ASSUME SemIInv, Exact, ~Preempts, NEW t \in Thread, UpChecks(t) \/ UpWakes(t)
  PROVE  Exact' /\ (NoUseAfterFree => NoUseAfterFree' /\ AbstractStep)
<1>0. PICK s \in Semaphore : s = Arg(t) /\ todo[t] # <<>>
  BY ArgIsSemaphore DEF UpChecks, UpWakes, At
<1>1. cpu = t /\ pc[t] \in {"u_check", "u_wake"} /\ alive' = alive
  BY DEF UpChecks, UpWakes, At
<1>2. /\ waitq \in [Semaphore -> Seq(Thread)] /\ count \in [Semaphore -> Int]
      /\ masked[t] \in BOOLEAN
  BY DEF SemIInv, SemTypeOK
<1>3. \A u \in Thread \ {t} : pc[u] \notin Mid
  BY <1>1 DEF SemIInv, Alone, Between, Mid
<1>4. \A r : Upping(r) = (r = s)
  BY <1>0, <1>1, <1>3 DEF Upping, Mid
<1>5. /\ \A r \in Semaphore : count[r] >= 0
      /\ \A r \in Semaphore \ {s} : waitq[r] # <<>> => count[r] = 0
      /\ waitq[s] # <<>> => count[s] = 1
  BY <1>4 DEF Exact
<1>6. CASE UpChecks(t) /\ waitq[s] # <<>>
  <2>1. /\ Stay(t, "u_wake", masked[t]) /\ local' = local /\ todo' = todo
        /\ count' = count /\ waitq' = waitq
    BY <1>0, <1>6 DEF UpChecks
  <2>2. Moves(t) /\ pc'[t] = "u_wake" /\ Arg(t)' = s
    <3>1. "u_wake" \in Mid /\ Arg(t)' = s
      BY <1>0, <2>1 DEF Mid, Arg
    <3> QED
      BY <1>1, <1>2, <2>1, <3>1, SemStepMoves
  <2>3. /\ \A u \in Thread \ {t} : pc'[u] \notin Mid
        /\ \A r : Upping(r)' = (r = s)
    BY <1>1, <2>2, OnlyOneMid
  <2>4. Exact'
    BY <1>5, <2>1, <2>2, <2>3 DEF Exact, Mid
  <2>5. NoUseAfterFree => NoUseAfterFree'
    BY <1>0, <1>1, <2>2, <2>3 DEF NoUseAfterFree, Mid
  <2>6. Exists' = Exists /\ Value' = Value /\ Line' = Line
    BY <1>1, <1>4, <2>1, <2>3 DEF Exists, Value, Line, HandingOver
  <2> QED
    BY <2>4, <2>5, <2>6, AbstractStutter
<1>7. CASE UpChecks(t) /\ waitq[s] = <<>>
  <2>1. /\ Stay(t, "run", masked[t]) /\ local' = local /\ todo' = Rest(t)
        /\ count' = count /\ waitq' = waitq
    BY <1>0, <1>7 DEF UpChecks
  <2>2. Moves(t) /\ pc'[t] = "run"
    BY <1>0, <1>1, <1>2, <2>1, SemStepMoves
  <2>3. /\ \A u \in Thread \ {t} : pc'[u] \notin Mid
        /\ \A r : ~Upping(r)'
    BY <1>1, <2>2, OnlyOneMid
  <2>4. Exact'
    <3>1. \A r \in Semaphore : count'[r] >= 0 /\ (waitq'[r] # <<>> => count'[r] = 0)
      <4>1. \A r \in Semaphore : waitq[r] # <<>> => r # s
        BY <1>7
      <4> QED
        BY <1>5, <2>1, <4>1
    <3> QED
      BY <2>2, <2>3, <3>1 DEF Exact, Mid
  <2>5. NoUseAfterFree'
    BY <2>2, <2>3 DEF NoUseAfterFree, Mid
  <2>6. Exists' = Exists /\ Value' = Value /\ Line' = Line
    <3>1. \A r : ~HandingOver(r) /\ ~HandingOver(r)'
      BY <1>4, <1>7, <2>3 DEF HandingOver
    <3> QED
      BY <1>1, <2>1, <3>1 DEF Exists, Value, Line
  <2> QED
    BY <2>4, <2>5, <2>6, AbstractStutter
<1>8. CASE UpWakes(t)
  <2>1. waitq[s] # <<>> /\ pc[t] = "u_wake" /\ todo' = todo
    BY <1>0, <1>8 DEF UpWakes, At, SemIInv, WakesSomeone
  <2>2. PICK h \in Thread : h = Head(waitq[s])
    BY <2>1, HeadWaits
  <2>3. /\ Stay(t, "unblock", FALSE) /\ local' = [local EXCEPT ![t] = h]
        /\ count' = [count EXCEPT ![s] = count[s] - 1]
        /\ waitq' = [waitq EXCEPT ![s] = Tail(@)]
    BY <1>0, <1>8, <2>1, <2>2 DEF UpWakes
  <2>4. Moves(t) /\ pc'[t] = "unblock"
    BY <1>1, <2>1, <2>3, SemStepMoves
  <2>5. /\ \A u \in Thread \ {t} : pc'[u] \notin Mid
        /\ \A r : ~Upping(r)'
    BY <1>1, <2>4, OnlyOneMid
  <2>6. Exact'
    <3>1. \A r \in Semaphore : count'[r] >= 0 /\ (waitq'[r] # <<>> => count'[r] = 0)
      <4>1. count[s] = 1 /\ count'[s] = 0
        BY <1>2, <1>5, <2>1, <2>3
      <4>2. \A r \in Semaphore \ {s} : count'[r] = count[r] /\ waitq'[r] = waitq[r]
        BY <1>2, <2>3
      <4> QED
        BY <1>5, <4>1, <4>2
    <3> QED
      BY <2>4, <2>5, <3>1 DEF Exact, Mid
  <2>7. NoUseAfterFree'
    BY <2>4, <2>5 DEF NoUseAfterFree, Mid
  <2>8. Exists' = Exists /\ Value' = Value /\ Line' = Line
    <3>1. \A r : HandingOver(r) = (r = s /\ waitq[r] # <<>>) /\ ~HandingOver(r)'
      BY <1>4, <2>5 DEF HandingOver
    <3>2. \A r \in Semaphore : count'[r] = IF HandingOver(r) THEN count[r] - 1 ELSE count[r]
      BY <1>2, <2>1, <2>3, <3>1
    <3>3. \A r \in Semaphore : waitq'[r] = IF HandingOver(r) THEN Tail(waitq[r]) ELSE waitq[r]
      BY <1>2, <2>1, <2>3, <3>1
    <3> QED
      BY <1>1, <3>1, <3>2, <3>3 DEF Exists, Value, Line
  <2> QED
    BY <2>6, <2>7, <2>8, AbstractStutter
<1> QED
  BY <1>6, <1>7, <1>8

(* sem_create() returns a new semaphore, and the free() of sem_destroy()   *)
(* takes away one that nobody waits for.                                   *)
LEMMA AtomicLifetime ==
  ASSUME SemIInv, Fresh, Exact, ~Preempts, NEW t \in Thread, SemCreate(t) \/ DoFree(t)
  PROVE  Exact' /\ (NoUseAfterFree /\ Allocated => NoUseAfterFree' /\ AbstractStep)
<1>0. PICK s \in Semaphore : s = Arg(t) /\ todo[t] # <<>>
  <2>1. CallOf(t, "sem_create") \/ CallOf(t, "sem_destroy")
    BY DEF SemCreate, DoFree, Calls, At, CallOf, SemIInv, Places, WellPlaced
  <2> QED
    BY <2>1, CallIsKnown DEF SemIInv
<1>1. /\ cpu = t /\ todo' = Rest(t) /\ local' = local /\ pc[t] \in {"run", "free"}
  BY DEF SemCreate, DoFree, Calls, At
<1>2. /\ waitq \in [Semaphore -> Seq(Thread)] /\ count \in [Semaphore -> Int]
      /\ alive \in [Semaphore -> BOOLEAN] /\ masked[t] \in BOOLEAN /\ InitCount[s] \in Nat
  BY SemAssumption DEF SemIInv, SemTypeOK
<1>3. Moves(t) /\ pc'[t] = "run"
  <2>1. PICK mask \in BOOLEAN : Stay(t, "run", mask)
    BY <1>2 DEF SemCreate, DoFree
  <2> QED
    BY <1>0, <1>1, <2>1, SemStepMoves
<1>4. /\ \A u \in Thread \ {t} : pc[u] \notin Mid /\ pc'[u] \notin Mid
      /\ \A r : ~Upping(r) /\ ~Upping(r)'
  BY <1>1, <1>3, OnlyOneMid
<1>5. \A r \in Semaphore : count[r] >= 0 /\ (waitq[r] # <<>> => count[r] = 0)
  BY <1>4 DEF Exact
<1>6. NoUseAfterFree'
  BY <1>3, <1>4 DEF NoUseAfterFree, Mid
<1>7. Value = count /\ Line = waitq
  BY <1>4, NoneUpping DEF SemIInv
<1>8. CASE SemCreate(t)
  <2>1. /\ count' = [count EXCEPT ![s] = InitCount[s]] /\ waitq' = [waitq EXCEPT ![s] = <<>>]
        /\ alive' = [alive EXCEPT ![s] = TRUE]
    BY <1>0, <1>8 DEF SemCreate
  <2>2. Exact'
    <3>1. \A r \in Semaphore : count'[r] >= 0 /\ (waitq'[r] # <<>> => count'[r] = 0)
      BY <1>2, <1>5, <2>1
    <3> QED
      BY <1>3, <1>4, <3>1 DEF Exact, Mid
  <2>3. Value' = count' /\ Line' = waitq'
    BY <1>2, <1>4, <2>1 DEF Value, Line, HandingOver
  <2>4. Exists' = Exists \cup {s} /\ (Allocated => s \notin Exists)
    BY <1>0, <1>2, <1>8, <2>1 DEF Exists, Allocated, SemCreate
  <2>5. Allocated => Abstract!Create(s)
    BY <1>7, <2>1, <2>3, <2>4, AbstractSteps
  <2>6. Allocated => AbstractStep
    BY <2>5 DEF AbstractStep, Abstract!AbsNext
  <2> QED
    BY <1>6, <2>2, <2>6
<1>9. CASE DoFree(t)
  <2>1. /\ count' = count /\ waitq' = waitq /\ alive' = [alive EXCEPT ![s] = FALSE]
        /\ pc[t] = "free"
    BY <1>0, <1>9 DEF DoFree, At
  <2>2. waitq[s] = <<>>
    BY <1>0, <2>1 DEF Exact
  <2>3. Exact'
    BY <1>3, <1>4, <1>5, <2>1 DEF Exact, Mid
  <2>4. Value' = count' /\ Line' = waitq'
    BY <1>2, <1>4, <2>1 DEF Value, Line, HandingOver
  <2>5. Exists' = Exists \ {s} /\ (NoUseAfterFree => s \in Exists)
    BY <1>0, <1>2, <2>1 DEF Exists, NoUseAfterFree
  <2>6. NoUseAfterFree => Abstract!Destroy(s)
    BY <1>7, <2>1, <2>2, <2>4, <2>5, AbstractSteps
  <2>7. NoUseAfterFree => AbstractStep
    BY <2>6 DEF AbstractStep, Abstract!AbsNext
  <2> QED
    BY <1>6, <2>3, <2>7
<1> QED
  BY <1>8, <1>9

(* The other steps touch no semaphore: those of the scheduler, the waiting *)
(* itself, and the calls of uthread.h.                                     *)
LEMMA AtomicOthers ==
  ASSUME SemIInv, Exact,
         \/ UNCHANGED semVars /\ (LibraryStep \/ Tick \/ UNCHANGED vars)
         \/ \E t \in Thread : \/ EnterBlock(t) \/ DoBlock(t) \/ DownResumes(t)
                             \/ DoUnblock(t) \/ ProgramStep(t)
  PROVE  Exact' /\ AbstractStep /\ (NoUseAfterFree => NoUseAfterFree')
<1>1. count' = count /\ waitq' = waitq /\ alive' = alive
  BY DEF semVars, EnterBlock, DoBlock, DownResumes, DoUnblock, ProgramStep, ProgramCreates,
         ProgramYields, ProgramReturns
<1>2. /\ pc \in [Tcb -> SemLocation] /\ todo \in [Thread -> Seq(AnyCall)]
      /\ local \in [Tcb -> Tcb \cup {Nil}]
  BY DEF SemIInv, SemTypeOK
<1>3. \A u \in Thread : pc[u] \in Mid \/ pc'[u] \in Mid => pc'[u] = pc[u] /\ todo'[u] = todo[u]
  <2>1. CASE UNCHANGED semVars /\ LibraryStep
    <3>1. todo' = todo
      BY <2>1 DEF semVars
    <3>2. CASE UthreadStart
      BY <1>2, <3>1, <3>2 DEF UthreadStart, At, Mid, SemIInv, Places
    <3>3. CASE IdleLoop \/ IdleStop
      BY <1>2, <3>1, <3>3 DEF IdleLoop, IdleStop, Stay
    <3>4. ASSUME NEW t \in Tcb, DoYield(t)
          PROVE  \A u \in Thread : pc[u] \in Mid \/ pc'[u] \in Mid => pc'[u] = pc[u]
      <4>1. local[t] = t /\ pc[t] = "yield"
        BY <3>4 DEF DoYield, At, SemIInv, Running, Places
      <4> QED
        BY <1>2, <3>4, <4>1 DEF DoYield, Switch, Mid
    <3>5. ASSUME NEW t \in Thread, Boot(t)
          PROVE  \A u \in Thread : pc[u] \in Mid \/ pc'[u] \in Mid => pc'[u] = pc[u]
      BY <1>2, <3>5 DEF Boot, Stay, At, Mid
    <3>6. ASSUME NEW t \in Thread, DoCreate(t)
          PROVE  \A u \in Thread : pc[u] \in Mid \/ pc'[u] \in Mid => pc'[u] = pc[u]
      <4>1. local[t] \in Thread /\ pc[local[t]] = "made" /\ pc[t] = "create"
        BY <3>6 DEF DoCreate, At, SemIInv, Creation
      <4> QED
        BY <1>2, <3>6, <4>1 DEF DoCreate, Mid
    <3>7. ASSUME NEW t \in Thread, DoExit(t)
          PROVE  \A u \in Thread : pc[u] \in Mid \/ pc'[u] \in Mid => pc'[u] = pc[u]
      <4>1. local[t] = t /\ pc[t] = "exit"
        BY <3>7 DEF DoExit, At, SemIInv, Running, Places
      <4> QED
        BY <1>2, <3>7, <4>1 DEF DoExit, Switch, Mid
    <3> QED
      BY <2>1, <3>1, <3>2, <3>3, <3>4, <3>5, <3>6, <3>7 DEF LibraryStep
  <2>2. CASE UNCHANGED semVars /\ (Tick \/ UNCHANGED vars)
    <3>1. Tick => cpu \in Tcb /\ current = cpu
      BY DEF Tick, SemIInv, Running, Places
    <3> QED
      BY <1>2, <2>2, <3>1 DEF semVars, vars, Tick, Switch
  <2>3. ASSUME NEW t \in Thread, EnterBlock(t) \/ DownResumes(t) \/ DoUnblock(t)
        PROVE  \A u \in Thread : pc[u] \in Mid \/ pc'[u] \in Mid =>
                 pc'[u] = pc[u] /\ todo'[u] = todo[u]
    <3>1. pc[t] \notin Mid /\ pc'[t] \notin Mid /\ \A u \in Tcb \ {t} : pc'[u] = pc[u]
      BY <1>2, <2>3 DEF EnterBlock, DownResumes, DoUnblock, At, Stay, Mid
    <3>2. \A u \in Thread \ {t} : todo'[u] = todo[u]
      BY <1>2, <2>3 DEF EnterBlock, DownResumes, DoUnblock, Rest, semVars
    <3> QED
      BY <3>1, <3>2
  <2>4. ASSUME NEW t \in Thread, DoBlock(t)
        PROVE  \A u \in Thread : pc[u] \in Mid \/ pc'[u] \in Mid =>
                 pc'[u] = pc[u] /\ todo'[u] = todo[u]
    <3>1. local[t] = t /\ pc[t] = "block" /\ todo' = todo
      BY <2>4 DEF DoBlock, At, SemIInv, Running, Places, semVars
    <3> QED
      BY <1>2, <2>4, <3>1 DEF DoBlock, Switch, Mid
  <2>5. ASSUME NEW t \in Thread, ProgramStep(t)
        PROVE  \A u \in Thread : pc[u] \in Mid \/ pc'[u] \in Mid =>
                 pc'[u] = pc[u] /\ todo'[u] = todo[u]
    <3>1. pc[t] \notin Mid /\ pc'[t] \notin Mid
      BY <1>2, <2>5 DEF ProgramStep, ProgramCreates, ProgramYields, ProgramReturns,
                        CallCreate, CallYield, CallExit, Enter, Stay, At, Mid, Calls
    <3>2. \A u \in Thread \ {t} : todo'[u] = todo[u]
      BY <1>2, <2>5 DEF ProgramStep, ProgramCreates, ProgramYields, ProgramReturns, Rest, semVars
    <3>3. \A u \in Thread \ {t} : pc[u] \in Mid \/ pc'[u] \in Mid => pc'[u] = pc[u]
      <4>1. CASE ProgramCreates(t)
        BY <1>2, <4>1 DEF ProgramCreates, CallCreate, Mid
      <4>2. CASE ProgramYields(t) \/ ProgramReturns(t)
        BY <1>2, <4>2 DEF ProgramYields, ProgramReturns, CallYield, CallExit, Enter, Stay
      <4> QED
        BY <2>5, <4>1, <4>2 DEF ProgramStep
    <3> QED
      BY <3>1, <3>2, <3>3
  <2> QED
    BY <2>1, <2>2, <2>3, <2>4, <2>5
<1>4. /\ Exact' /\ (NoUseAfterFree => NoUseAfterFree')
      /\ Value' = Value /\ Line' = Line
  BY <1>1, <1>3, NothingAtomic DEF SemIInv
<1>5. AbstractStep
  <2>1. Exists' = Exists
    BY <1>1 DEF Exists
  <2> QED
    BY <1>4, <2>1, AbstractStutter
<1> QED
  BY <1>4, <1>5

-----------------------------------------------------------------------------
(* Every step, and the initial states. *)

(* Every step keeps the account exact and is a step of the atomic semaphore. *)
LEMMA NextExact ==
  ASSUME SemIInv, Fresh, Exact, ~Preempts, [SemNext]_allVars
  PROVE  Exact' /\ (NoUseAfterFree /\ Allocated => NoUseAfterFree' /\ AbstractStep)
<1>1. CASE (LibraryStep \/ Tick \/ Returned) /\ UNCHANGED semVars
  BY <1>1, AtomicOthers DEF Returned
<1>2. CASE UNCHANGED allVars
  BY <1>2, AtomicOthers DEF allVars
<1>3. ASSUME NEW t \in Thread, SemStep(t) \/ ProgramStep(t)
      PROVE  Exact' /\ (NoUseAfterFree /\ Allocated => NoUseAfterFree' /\ AbstractStep)
  <2>1. CASE SemDown(t) \/ SemDestroy(t)
    BY <2>1, AtomicTests
  <2>2. CASE DownTakes(t)
    BY <2>2, AtomicTake
  <2>3. CASE DownWaits(t)
    BY <2>3, AtomicWait
  <2>4. CASE SemUp(t)
    BY <2>4, AtomicUp
  <2>5. CASE UpChecks(t) \/ UpWakes(t)
    BY <2>5, AtomicUpEnds
  <2>6. CASE SemCreate(t) \/ DoFree(t)
    BY <2>6, AtomicLifetime
  <2>7. CASE EnterBlock(t) \/ DoBlock(t) \/ DownResumes(t) \/ DoUnblock(t) \/ ProgramStep(t)
    BY <2>7, AtomicOthers
  <2> QED
    BY <1>3, <2>1, <2>2, <2>3, <2>4, <2>5, <2>6, <2>7 DEF SemStep
<1> QED
  BY <1>1, <1>2, <1>3 DEF SemNext

(* So do the initial states. *)
LEMMA InitExact == SemStart => Exact /\ NoUseAfterFree /\ Abstract!AbsInit
<1> SUFFICES ASSUME SemStart PROVE Exact /\ NoUseAfterFree /\ Abstract!AbsInit
  OBVIOUS
<1>1. /\ \A t \in Thread : pc[t] = "none"
      /\ count = InitCount /\ waitq = [s \in Semaphore |-> <<>>]
      /\ InitCount \in [Semaphore -> Nat]
  BY SemAssumption DEF SemStart, InitSched
<1>2. \A s : ~Upping(s)
  BY <1>1 DEF Upping
<1>3. Exact /\ NoUseAfterFree
  BY <1>1, <1>2 DEF Exact, NoUseAfterFree
<1>4. Value = count /\ Line = waitq
  BY <1>1, <1>2 DEF Value, Line, HandingOver
<1>5. Abstract!AbsInit
  <2>1. Value \in [Semaphore -> Nat] /\ Line = [s \in Semaphore |-> <<>>]
    BY <1>1, <1>4
  <2> QED
    BY <2>1 DEF Abstract!AbsInit, Value, Line
<1> QED
  BY <1>3, <1>5

(* Without the timer the account is exact in every reachable state. *)
LEMMA AlwaysExact == ~Preempts => (SemSpec /\ []Fresh => [](SemIInv /\ Exact))
<1> SUFFICES ASSUME ~Preempts PROVE SemSpec /\ []Fresh => [](SemIInv /\ Exact)
  OBVIOUS
<1>1. SemInit => SemIInv /\ Exact
  BY InitExact, InitSemIInv DEF Disciplined, SemInit
<1>2. SemIInv /\ Exact /\ Fresh /\ [SemNext]_allVars => (SemIInv /\ Exact)'
  BY NextExact, NextSemIInv
<1> QED
  BY <1>1, <1>2, PTL DEF SemSpec

-----------------------------------------------------------------------------
(* The theorems. *)

(* Then no resource is taken that is not there. *)
LEMMA ExactCovers ==
  ASSUME SemIInv, Exact
  PROVE  NoOvertake
<1> SUFFICES ASSUME NEW s \in Semaphore PROVE tokens[s] >= 0
  BY DEF NoOvertake
<1>1. count[s] + Cardinality(GrantedOf(s)) = tokens[s] /\ Cardinality(GrantedOf(s)) \in Nat
  BY BalanceMeans, GrantedFinite DEF SemIInv
<1>2. count[s] >= 0 /\ count[s] \in Int
  BY DEF Exact, SemIInv, SemTypeOK
<1> QED
  BY <1>1, <1>2

(* When uthread_start() has returned, no thread is about to resume, and    *)
(* one that is blocked waits for a semaphore that has nothing to give.     *)
LEMMA AllAtRest ==
  ASSUME SemIInv, Exact, pc[Idle] = "returned"
  PROVE  \A t \in Thread :
           /\ pc[t] \in {"none", "dead", "blocked"} /\ ~Granted(t)
           /\ pc[t] = "blocked" => count[Arg(t)] = 0
<1>1. \A u \in Thread : pc[u] \in Unqueueable
  BY MidCallIsFound DEF SemIInv
<1>2. \A u \in Thread : Tokens(u) = 0 /\ Tokens(u) = Owed(u) /\ pc[u] # "made"
  BY DEF SemIInv, Scheduled
<1> SUFFICES ASSUME NEW t \in Thread
             PROVE  /\ pc[t] \in {"none", "dead", "blocked"} /\ ~Granted(t)
                    /\ pc[t] = "blocked" => count[Arg(t)] = 0
  OBVIOUS
<1>3. ~Granted(t)
  <2>1. WakeSurplus(t) = 0
    BY <1>1, <1>2 DEF Owed, Unqueueable, WakeSurplus
  <2> QED
    BY <1>1, <2>1 DEF WakeSurplus, Unqueueable
<1>4. ASSUME pc[t] = "blocked" PROVE count[Arg(t)] = 0
  <2>1. Arg(t) \in Semaphore /\ waitq[Arg(t)] \in Seq(Thread)
    BY <1>4, ArgIsSemaphore
  <2>2. waitq[Arg(t)] # <<>>
    BY <1>3, <1>4, OccurrencesEmpty DEF Granted
  <2>3. ~Upping(Arg(t))
    BY <1>1 DEF Upping, Unqueueable
  <2> QED
    BY <2>1, <2>2, <2>3 DEF Exact
<1> QED
  BY <1>1, <1>2, <1>3, <1>4 DEF Unqueueable

(* Without the timer, sem.c takes no resource that is not there. *)
THEOREM NothingIsOvertaken == ~Preempts => (SemSpec /\ []Fresh => []NoOvertake)
<1> SUFFICES ASSUME ~Preempts PROVE SemSpec /\ []Fresh => []NoOvertake
  OBVIOUS
<1>1. SemIInv /\ Exact => NoOvertake
  BY ExactCovers
<1> QED
  BY <1>1, AlwaysExact, PTL

(* Without the timer, no thread that has not been granted the resource is  *)
(* blocked while the semaphore has one, but for the one that a sem_up() is *)
(* handing over; and none at all when uthread_start() has returned.        *)
THEOREM NoWakeupIsLost == ~Preempts => (SemSpec /\ []Fresh => []NoLostWakeup)
<1> SUFFICES ASSUME ~Preempts PROVE SemSpec /\ []Fresh => []NoLostWakeup
  OBVIOUS
<1>1. SemIInv /\ Exact => NoLostWakeup
  <2> SUFFICES ASSUME SemIInv, Exact, NEW t \in Thread, pc[t] = "blocked", ~Granted(t)
               PROVE  count[Arg(t)] <= 0 \/ (Upping(Arg(t)) /\ pc[Idle] # "returned")
    BY DEF NoLostWakeup
  <2>1. CASE pc[Idle] = "returned"
    BY <2>1, AllAtRest
  <2>2. Arg(t) \in Semaphore
    BY ArgIsSemaphore
  <2>3. waitq[Arg(t)] # <<>>
    BY OccurrencesEmpty DEF Granted
  <2>4. ~Upping(Arg(t)) => count[Arg(t)] = 0
    BY <2>2, <2>3 DEF Exact
  <2> QED
    BY <2>1, <2>4
<1> QED
  BY <1>1, AlwaysExact, PTL

(* Nothing freed is touched, and each step is one of the atomic semaphore. *)
LEMMA AlwaysAtomic ==
  ~Preempts => (SemSpec /\ []Fresh /\ []Allocated
                  => [](SemIInv /\ Exact /\ NoUseAfterFree) /\ AtomicSemaphore)
<1> SUFFICES ASSUME ~Preempts
             PROVE  SemSpec /\ []Fresh /\ []Allocated
                      => [](SemIInv /\ Exact /\ NoUseAfterFree) /\ AtomicSemaphore
  OBVIOUS
<1>1. SemInit => SemIInv /\ Exact /\ NoUseAfterFree /\ Abstract!AbsInit
  BY InitExact, InitSemIInv DEF Disciplined, SemInit
<1>2. SemIInv /\ Exact /\ NoUseAfterFree /\ Fresh /\ Allocated /\ [SemNext]_allVars
        => (SemIInv /\ Exact /\ NoUseAfterFree)' /\ [Abstract!AbsNext]_(Abstract!absVars)
  BY NextExact, NextSemIInv DEF AbstractStep
<1> QED
  BY <1>1, <1>2, PTL DEF SemSpec, AtomicSemaphore, Abstract!AbsSpec

(* Without the timer, sem.c does not touch a semaphore that was destroyed  *)
(* while one of its operations is under way, if no call starts on one.     *)
THEOREM DestroyedIsUntouched ==
  ~Preempts => (SemSpec /\ []Fresh /\ []Allocated => []NoUseAfterFree)
<1> SUFFICES ASSUME ~Preempts
             PROVE  SemSpec /\ []Fresh /\ []Allocated => []NoUseAfterFree
  OBVIOUS
<1> QED
  BY AlwaysAtomic, PTL

(* Without the timer, sem.c implements the semaphore of sem.h, each of     *)
(* whose operations is one step, and which serves the oldest waiter first. *)
THEOREM SemIsAtomic ==
  ~Preempts => (SemSpec /\ []Fresh /\ []Allocated => AtomicSemaphore)
<1> SUFFICES ASSUME ~Preempts
             PROVE  SemSpec /\ []Fresh /\ []Allocated => AtomicSemaphore
  OBVIOUS
<1> QED
  BY AlwaysAtomic, PTL
=============================================================================
