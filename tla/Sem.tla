-------------------------------- MODULE Sem --------------------------------
(***************************************************************************)
(* The counting semaphores of sem.c on top of the scheduler of uthread.c.  *)
(* Each thread runs a program: a sequence of calls of the library.  sem.c  *)
(* disables preemption around each access it writes, and not around its    *)
(* tests: the timer can separate a test from what depends on it.           *)
(***************************************************************************)
EXTENDS Uthread, Integers

CONSTANTS
  Semaphore,  \* the semaphores sem_create() can allocate
  Static,     \* those that main() creates before uthread_start()
  InitCount,  \* the count each semaphore is created with
  Programs    \* what the threads may do: each thread's sequence of calls

LibraryCall ==
  [op : {"sem_create", "sem_destroy", "sem_down", "sem_up"}, arg : Semaphore]
    \cup [op : {"create"}, arg : Thread] \cup [op : {"yield"}, arg : {Nil}]

(* There is memory for finitely many TCBs. *)
ASSUME SemAssumption ==
  /\ IsFiniteSet(Thread)
  /\ Static \subseteq Semaphore
  /\ InitCount \in [Semaphore -> Nat]
  /\ Programs \subseteq [Thread -> Seq(LibraryCall)]

VARIABLES
  count,    \* sem->count
  waitq,    \* sem->wait_queue
  alive,    \* whether the semaphore is allocated
  todo,     \* what is left of each thread's program
  tokens    \* history: the resources released and not taken since

semVars == <<count, waitq, alive, todo, tokens>>
allVars == <<vars, semVars>>

SemLocation == Location \cup
  {"d_wait", "d_take",            \* in sem_down(), after it tested the count
   "waited", "block", "blocked",  \* in the uthread_block() of sem_down()
   "u_check", "u_wake",           \* in sem_up(), around its test of the queue
   "unblock",                     \* in the uthread_unblock() of sem_up()
   "free"}                        \* in sem_destroy(), after its test

(* The call a thread has come to in its own function. *)
Calls(t, op) == At(t, "run") /\ todo[t] # <<>> /\ Head(todo[t]).op = op
Arg(t) == Head(todo[t]).arg
Rest(t) == [todo EXCEPT ![t] = Tail(@)]

SemStart ==
  /\ InitSched
  /\ count = InitCount
  /\ waitq = [s \in Semaphore |-> <<>>]
  /\ alive = [s \in Semaphore |-> s \in Static]
  /\ tokens = InitCount

SemInit == SemStart /\ todo \in Programs

-----------------------------------------------------------------------------
(* What the operations read or write, with the mistaken variants of it and *)
(* the properties that these break, as in Uthread.                         *)

(* Whether sem_destroy() succeeds, and sem_up() looks for a waiter. *)
NotLookedAt(s) == TRUE                                   \* NoUseAfterFree
NobodyWaits(s) == waitq[s] = <<>>
TwoWait(s) == Len(waitq[s]) > 1                          \* NoLostWakeup
AlwaysWakes(s) == TRUE                                   \* NoEmptyDequeue
SomeoneWaits(s) == waitq[s] # <<>>

(* The pointer that sem_down() enqueues, and where. *)
LocalPointer(t) == local[t]                              \* SemTypeOK
Waiter(t) == current
AtFront(q, t) == <<t>> \o q                              \* AtomicSemaphore
AtRear(q, t) == Append(q, t)

(* The count once sem_up() hands the resource over. *)
CountKept(s) == count[s]                                 \* TokenBalance
CountHanded(s) == count[s] - 1

(* The ready queue after a thread blocks, and after t is unblocked. *)
RequeuedBlock(t) == Append(ready, t)                     \* SemReadyTokens
Blocked(t) == ready
NotUnblocked(t) == ready                                 \* GrantedResumes
Unblocking(t) == Append(ready, t)

-----------------------------------------------------------------------------
(* sem_create(): one critical section. *)
SemCreate(t) ==
  /\ Calls(t, "sem_create")
  /\ LET s == Arg(t) IN
       /\ count' = [count EXCEPT ![s] = InitCount[s]]
       /\ waitq' = [waitq EXCEPT ![s] = <<>>]
       /\ alive' = [alive EXCEPT ![s] = TRUE]
       /\ tokens' = [tokens EXCEPT ![s] = InitCount[s]]
  /\ todo' = Rest(t)
  /\ Stay(t, "run", FALSE)
  /\ UNCHANGED <<ready, zombie, local, armed>>

(* sem_destroy() fails when threads wait, and frees the semaphore otherwise. *)
SemDestroy(t) ==
  /\ Calls(t, "sem_destroy")
  /\ IF NobodyWaits(Arg(t))
     THEN Stay(t, "free", masked[t]) /\ UNCHANGED todo
     ELSE Stay(t, "run", masked[t]) /\ todo' = Rest(t)
  /\ UNCHANGED <<ready, zombie, local, armed, count, waitq, alive, tokens>>

DoFree(t) ==
  /\ At(t, "free")
  /\ alive' = [alive EXCEPT ![Arg(t)] = FALSE]
  /\ todo' = Rest(t)
  /\ Stay(t, "run", masked[t])
  /\ UNCHANGED <<ready, zombie, local, armed, count, waitq, tokens>>

(* sem_down() tests the count before it disables preemption. *)
SemDown(t) ==
  /\ Calls(t, "sem_down")
  /\ Stay(t, IF count[Arg(t)] = 0 THEN "d_wait" ELSE "d_take", masked[t])
  /\ UNCHANGED <<ready, zombie, local, armed, semVars>>

DownTakes(t) ==
  /\ At(t, "d_take")
  /\ count' = [count EXCEPT ![Arg(t)] = @ - 1]
  /\ tokens' = [tokens EXCEPT ![Arg(t)] = @ - 1]
  /\ todo' = Rest(t)
  /\ Stay(t, "run", FALSE)
  /\ UNCHANGED <<ready, zombie, local, armed, waitq, alive>>

DownWaits(t) ==
  /\ At(t, "d_wait")
  /\ waitq' = [waitq EXCEPT ![Arg(t)] = AtRear(@, Waiter(t))]
  /\ Stay(t, "waited", FALSE)
  /\ UNCHANGED <<ready, zombie, local, armed, count, alive, todo, tokens>>

(* uthread_block(): like uthread_yield(), without the enqueue. *)
EnterBlock(t) ==
  /\ At(t, "waited")
  /\ local' = [local EXCEPT ![t] = current]
  /\ Stay(t, "block", masked[t])
  /\ UNCHANGED <<ready, zombie, armed, semVars>>

DoBlock(t) ==
  /\ At(t, "block")
  /\ Switch(local[t], Blocked(local[t]), "blocked", TRUE)
  /\ UNCHANGED <<zombie, local, armed, semVars>>

(* The blocked context is switched to: uthread_block() and sem_down() return. *)
DownResumes(t) ==
  /\ At(t, "blocked")
  /\ tokens' = [tokens EXCEPT ![Arg(t)] = @ - 1]
  /\ todo' = Rest(t)
  /\ Stay(t, "run", masked[t])
  /\ UNCHANGED <<ready, zombie, local, armed, count, waitq, alive>>

(* sem_up() increments the count, then looks at the wait queue unlocked. *)
SemUp(t) ==
  /\ Calls(t, "sem_up")
  /\ count' = [count EXCEPT ![Arg(t)] = @ + 1]
  /\ tokens' = [tokens EXCEPT ![Arg(t)] = @ + 1]
  /\ Stay(t, "u_check", FALSE)
  /\ UNCHANGED <<ready, zombie, local, armed, waitq, alive, todo>>

UpChecks(t) ==
  /\ At(t, "u_check")
  /\ IF SomeoneWaits(Arg(t))
     THEN Stay(t, "u_wake", masked[t]) /\ UNCHANGED todo
     ELSE Stay(t, "run", masked[t]) /\ todo' = Rest(t)
  /\ UNCHANGED <<ready, zombie, local, armed, count, waitq, alive, tokens>>

(* queue_dequeue() of an empty wait queue leaves next as it was: any value. *)
UpWakes(t) ==
  /\ At(t, "u_wake")
  /\ LET s == Arg(t) IN
       /\ count' = [count EXCEPT ![s] = CountHanded(s)]
       /\ \/ /\ waitq[s] # <<>>
             /\ waitq' = [waitq EXCEPT ![s] = Tail(@)]
             /\ local' = [local EXCEPT ![t] = Head(waitq[s])]
          \/ /\ waitq[s] = <<>>
             /\ \E wild \in Tcb \cup {Nil} : local' = [local EXCEPT ![t] = wild]
             /\ UNCHANGED waitq
  /\ Stay(t, "unblock", FALSE)
  /\ UNCHANGED <<ready, zombie, armed, alive, todo, tokens>>

(* uthread_unblock(): one critical section; then sem_up() returns. *)
DoUnblock(t) ==
  /\ At(t, "unblock")
  /\ ready' = Unblocking(local[t])
  /\ todo' = Rest(t)
  /\ Stay(t, "run", FALSE)
  /\ UNCHANGED <<zombie, local, armed, count, waitq, alive, tokens>>

-----------------------------------------------------------------------------
(* The calls of uthread.h in a program. *)
ProgramCreates(t) ==
  /\ Calls(t, "create")
  /\ CallCreate(t, Arg(t))
  /\ todo' = Rest(t)
  /\ UNCHANGED <<count, waitq, alive, tokens>>

ProgramYields(t) ==
  /\ Calls(t, "yield")
  /\ CallYield(t)
  /\ todo' = Rest(t)
  /\ UNCHANGED <<count, waitq, alive, tokens>>

ProgramReturns(t) ==
  /\ todo[t] = <<>>
  /\ CallExit(t)
  /\ UNCHANGED semVars

SemStep(t) ==
  \/ SemCreate(t) \/ SemDestroy(t) \/ DoFree(t)
  \/ SemDown(t) \/ DownTakes(t) \/ DownWaits(t)
  \/ EnterBlock(t) \/ DoBlock(t) \/ DownResumes(t)
  \/ SemUp(t) \/ UpChecks(t) \/ UpWakes(t) \/ DoUnblock(t)

ProgramStep(t) == ProgramCreates(t) \/ ProgramYields(t) \/ ProgramReturns(t)

SemNext ==
  \/ (LibraryStep \/ Tick \/ Returned) /\ UNCHANGED semVars
  \/ \E t \in Thread : SemStep(t) \/ ProgramStep(t)

SemSpec == SemInit /\ [][SemNext]_allVars

(* Between two calls a thread computes only for a while: its next step is  *)
(* taken whenever the processor is given to it.                            *)
SemFairSpec == SemSpec /\ WF_allVars(SemNext)

-----------------------------------------------------------------------------
(* What a program consists of: calls of the library, and what prints a     *)
(* number, which the programs of Apps do and which moves no thread.        *)
AnyCall == LibraryCall \cup [op : {"print"}, arg : Nat]

(* Every variable has its type: the ready queue and the wait queues hold   *)
(* TCB pointers, the zombie queue none (see TypeOK in Uthread).            *)
SemTypeOK ==
  /\ ready \in Seq(Tcb)
  /\ zombie \subseteq {PrevOf(t) : t \in Thread}
  /\ current \in Tcb \cup {Nil}
  /\ cpu \in Tcb \cup {Nil}
  /\ pc \in [Tcb -> SemLocation]
  /\ masked \in [Tcb -> BOOLEAN]
  /\ local \in [Tcb -> Tcb \cup {Nil}]
  /\ armed \in BOOLEAN
  /\ count \in [Semaphore -> Int]
  /\ waitq \in [Semaphore -> Seq(Thread)]
  /\ alive \in [Semaphore -> BOOLEAN]
  /\ todo \in [Thread -> Seq(AnyCall)]
  /\ tokens \in [Semaphore -> Int]

(* Neither dequeue finds its queue empty: a context switch goes to a TCB,  *)
(* which `current` names, and from the prev that the call read before it   *)
(* disabled preemption (uthread.c:114-120); and a sem_up() that saw a      *)
(* waiter still finds one when it dequeues (sem.c:79-85), so that          *)
(* uthread_unblock() is not handed an uninitialised pointer.               *)
NoEmptyDequeue ==
  /\ pc[Idle] # "start" =>
       /\ cpu \in Tcb /\ current = cpu
       /\ \A t \in Tcb : pc[t] \in {"yield", "exit", "block"} => local[t] = t
  /\ \A t \in Thread : pc[t] = "u_wake" => waitq[Arg(t)] # <<>>

(* sem_up() took the thread off the wait queue and it has not resumed yet. *)
Granted(t) ==
  /\ pc[t] \in {"waited", "block", "blocked"}
  /\ Occurrences(waitq[Arg(t)], t) = 0

(* Nothing is lost between count, wait queue and the threads that are      *)
(* about to resume: together they hold what was released and not taken     *)
(* (sem.c:57, 60-62, 75-87).                                               *)
TokenBalance ==
  \A s \in Semaphore :
    count[s] + Cardinality({t \in Thread : Granted(t) /\ Arg(t) = s}) = tokens[s]

(* A resource can be shared only a certain number of times (sem.h:11-12):  *)
(* no more are taken than the semaphore had and was given.                 *)
NoOvertake == \A s \in Semaphore : tokens[s] >= 0

(* A woken thread that has not reached uthread_block() yet is in the ready *)
(* queue once more than it should; the surplus is exactly what the block   *)
(* that follows uses up (uthread.c:111-134).                               *)
WakeSurplus(t) ==
  IF Granted(t) /\ \A u \in Thread : ~(pc[u] = "unblock" /\ local[u] = t)
  THEN 1 ELSE 0

SemReadyTokens ==
  \A t \in Thread :
    Copies(t) + (IF cpu = t THEN 1 ELSE 0)
      = (IF pc[t] \in {"none", "made", "dead", "blocked"} THEN 0 ELSE 1)
          + WakeSurplus(t)

(* While a sem_up() is between its increment and its dequeue, the resource *)
(* is already the oldest waiter's.                                         *)
Upping(s) == \E t \in Thread : pc[t] \in {"u_check", "u_wake"} /\ Arg(t) = s
HandingOver(s) == waitq[s] # <<>> /\ Upping(s)

(* A thread blocks until the semaphore becomes available (sem.h:46-47):    *)
(* while one that nobody has granted the resource to is blocked, there is  *)
(* none, or the sem_up() that will hand it over is under way.  When        *)
(* uthread_start() has returned none is, and no thread is left behind.     *)
NoLostWakeup ==
  \A t \in Thread :
    pc[t] = "blocked" /\ ~Granted(t) =>
      count[Arg(t)] <= 0 \/ (Upping(Arg(t)) /\ pc[Idle] # "returned")

(* sem.c never touches a semaphore that was destroyed, when the program    *)
(* destroys it only after its last call on it returned or was granted.     *)
NoUseAfterFree ==
  \A t \in Thread :
    pc[t] \in {"d_wait", "d_take", "u_check", "u_wake", "free"} => alive[Arg(t)]

(* A thread that sem_up() granted the resource to resumes. *)
GrantedResumes ==
  \A t \in Thread : (Granted(t) /\ pc[t] = "blocked") ~> (pc[t] # "blocked")

Abstract == INSTANCE AbstractSem WITH
  exists <- {s \in Semaphore : alive[s]},
  value <- [s \in Semaphore |-> IF HandingOver(s) THEN count[s] - 1 ELSE count[s]],
  waiting <- [s \in Semaphore |-> IF HandingOver(s) THEN Tail(waitq[s]) ELSE waitq[s]]

(* Without the timer, sem.c is the atomic semaphore of sem.h: the oldest   *)
(* waiting thread gets what is released, and nobody overtakes it.          *)
AtomicSemaphore == Abstract!AbsSpec
=============================================================================
