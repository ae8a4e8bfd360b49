------------------------------ MODULE Uthread ------------------------------
(***************************************************************************)
(* The scheduler of libuthread: uthread.c with the preemption of preempt.c *)
(* and the contexts of context.c.  One processor executes one context at a *)
(* time; the other contexts advance only after a swapcontext().  A step is *)
(* what runs between two places where the timer signal can be delivered:   *)
(* code between preempt_disable() and the next unblocked instruction is    *)
(* one step, and the windows in which SIGVTALRM is unblocked are between   *)
(* the steps.                                                              *)
(***************************************************************************)
EXTENDS Naturals, Sequences, FiniteSets

CONSTANTS
  Thread,    \* the TCBs uthread_create() can allocate
  Idle,      \* the TCB `parent` of the thread that called uthread_start()
  First,     \* the thread uthread_start() creates for its argument func
  Nil,       \* a pointer to no TCB: NULL, or memory nobody initialised
  Yielders,  \* the threads whose code calls uthread_yield() itself
  Preempts   \* whether the timer expires while threads run

ASSUME ThreadAssumption ==
  /\ Idle \notin Thread
  /\ First \in Thread
  /\ Nil \notin Thread \cup {Idle}
  /\ Yielders \subseteq Thread
  /\ Preempts \in BOOLEAN

Tcb == Thread \cup {Idle}

VARIABLES
  ready,    \* ready_queue
  zombie,   \* the entries of zombie_queue
  current,  \* the global `current`
  cpu,      \* the TCB whose context the processor executes
  pc,       \* where each context is, or will resume
  masked,   \* whether SIGVTALRM is blocked in each context
  local,    \* the TCB pointer the library call of each context holds
  armed     \* whether the interval timer runs

vars == <<ready, zombie, current, cpu, pc, masked, local, armed>>

(***************************************************************************)
(* "none"   not created          "made"   TCB initialised, not enqueued    *)
(* "boot"   will enter uthread_ctx_bootstrap()                             *)
(* "run"    in the thread's own function                                   *)
(* "create" "yield" "exit" "block": in that call, before preempt_disable() *)
(* "dead"   switched out by uthread_exit()                                 *)
(* "start" "loop" "drain" "returned": the calling thread in uthread_start  *)
(***************************************************************************)
Location == {"none", "made", "boot", "run", "create", "yield", "exit",
             "dead", "start", "loop", "drain", "returned"}

InitSched ==
  /\ ready = <<>>
  /\ zombie = {}
  /\ current = Nil
  /\ cpu = Idle
  /\ pc = [t \in Tcb |-> IF t = Idle THEN "start" ELSE "none"]
  /\ masked = [t \in Tcb |-> FALSE]
  /\ local = [t \in Tcb |-> Nil]
  /\ armed = FALSE

Init == InitSched

(***************************************************************************)
(* What the steps below read or write.  A definition with the name of a    *)
(* property beside it is a mistaken variant of the one that follows it: it *)
(* breaks that property, and no specification uses it.                     *)
(***************************************************************************)
(* What `current` is when `next` is switched to. *)
NotSet(next) == current                                  \* CurrentIsRunning
Dequeued(next) == next

(* The pointer that uthread_create() keeps to the TCB it initialised. *)
Forgotten(c) == Nil                                      \* TypeOK
NewTcb(c) == c

(* The signal mask that a thread's function starts with. *)
Inherited(t) == masked[t]                                \* Preemptible
Unblocked(t) == FALSE

(* Whether the idle loop goes on. *)
ManyReady == Len(ready) > 2                              \* ReturnsAfterAll
AnyReady == Len(ready) > 0                               \* ReturnsEventually
OthersReady == Len(ready) > 1

(* The ready queue after the thread t yields, is preempted, and exits. *)
Unqueued(t) == ready                                     \* ReadyTokens
Yielded(t) == Append(ready, t)
InFront(t) == <<t>> \o ready                             \* NoStarvation
Preempted(t) == Append(ready, t)
AsYielded(t) == Append(ready, t)                         \* ExitIsFinal
Exited(t) == ready

(* What uthread_exit() enqueues in zombie_queue: not prev but &prev, the   *)
(* address of that local on the stack of the thread that exits.            *)
PrevOf(t) == <<"prev", t>>

(***************************************************************************)
(* The step that a context leaves the processor by: queue_dequeue() from   *)
(* the ready queue q, `current = next`, swapcontext(&prev->context, ...).  *)
(* The executing context is saved in prev, to resume at `at` with the      *)
(* signal mask `mask`.  queue_dequeue() of an empty queue fails and leaves *)
(* next pointing to uninitialised memory.                                  *)
(***************************************************************************)
Switch(prev, q, at, mask) ==
  LET next == IF q = <<>> THEN Nil ELSE Head(q)
  IN  /\ ready' = IF q = <<>> THEN q ELSE Tail(q)
      /\ current' = Dequeued(next)
      /\ cpu' = next
      /\ pc' = [pc EXCEPT ![prev] = at]
      /\ masked' = [masked EXCEPT ![prev] = mask]

(* A context that stays on the processor: only its own control moves. *)
Stay(t, at, mask) ==
  /\ pc' = [pc EXCEPT ![t] = at]
  /\ masked' = [masked EXCEPT ![t] = mask]
  /\ UNCHANGED <<current, cpu>>

At(t, loc) == cpu = t /\ pc[t] = loc

-----------------------------------------------------------------------------
(* uthread_start() up to its idle loop.  No signal can arrive before       *)
(* setitimer(), the last call of preempt_start(); block_alarm is still     *)
(* empty, so that the preempt_enable() of uthread_create() does nothing.   *)
(* uthread_ctx_init() copies the caller's signal mask with getcontext().   *)
UthreadStart ==
  /\ At(Idle, "start")
  /\ ready' = <<Idle, First>>
  /\ zombie' = {}
  /\ current' = Idle
  /\ pc' = [pc EXCEPT ![Idle] = "loop", ![First] = "boot"]
  /\ masked' = [masked EXCEPT ![First] = masked[Idle]]
  /\ armed' = TRUE
  /\ UNCHANGED <<cpu, local>>

(* One test of the idle loop; when it goes on, preempt_enable() and the    *)
(* entry of uthread_yield(), which reads uthread_current().                *)
IdleLoop ==
  /\ At(Idle, "loop")
  /\ IF OthersReady
     THEN /\ local' = [local EXCEPT ![Idle] = current]
          /\ Stay(Idle, "yield", FALSE)
     ELSE /\ Stay(Idle, "drain", masked[Idle])
          /\ UNCHANGED local
  /\ UNCHANGED <<ready, zombie, armed>>

(* queue_destroy(zombie_queue) frees an empty queue only and ignores any   *)
(* other; preempt_stop() restores the timer, not the signal's action.      *)
IdleStop ==
  /\ At(Idle, "drain")
  /\ Stay(Idle, "returned", masked[Idle])
  /\ armed' = FALSE
  /\ UNCHANGED <<ready, zombie, local>>

(* uthread_ctx_bootstrap() before it calls the thread's function. *)
Boot(t) ==
  /\ At(t, "boot")
  /\ Stay(t, "run", Unblocked(t))
  /\ UNCHANGED <<ready, zombie, local, armed>>

(* uthread_create(): the new TCB is allocated and its context initialised  *)
(* before preempt_disable().                                               *)
CallCreate(t, c) ==
  /\ At(t, "run")
  /\ pc[c] = "none"
  /\ pc' = [pc EXCEPT ![t] = "create", ![c] = "made"]
  /\ masked' = [masked EXCEPT ![c] = masked[t]]
  /\ local' = [local EXCEPT ![t] = NewTcb(c)]
  /\ UNCHANGED <<ready, zombie, current, cpu, armed>>

(* The rest of uthread_create(): the enqueue, then preempt_enable(). *)
DoCreate(t) ==
  /\ At(t, "create")
  /\ ready' = Append(ready, local[t])
  /\ pc' = [pc EXCEPT ![t] = "run", ![local[t]] = "boot"]
  /\ masked' = [masked EXCEPT ![t] = FALSE]
  /\ UNCHANGED <<zombie, current, cpu, local, armed>>

(* The entries of uthread_yield() and uthread_exit(): prev is read while   *)
(* the signal may still be unblocked.                                      *)
Enter(t, loc) ==
  /\ At(t, "run")
  /\ local' = [local EXCEPT ![t] = current]
  /\ Stay(t, loc, masked[t])
  /\ UNCHANGED <<ready, zombie, armed>>

CallYield(t) == t \in Yielders /\ Enter(t, "yield")
CallExit(t) == Enter(t, "exit")

(* uthread_yield() from preempt_disable() on.  The context is saved with   *)
(* the signal blocked and nothing unblocks it when the context resumes.    *)
DoYield(t) ==
  /\ At(t, "yield")
  /\ Switch(local[t], Yielded(local[t]),
            IF t = Idle THEN "loop" ELSE "run", TRUE)
  /\ UNCHANGED <<zombie, local, armed>>

(* uthread_exit() from preempt_disable() on. *)
DoExit(t) ==
  /\ At(t, "exit")
  /\ zombie' = zombie \cup {PrevOf(t)}
  /\ Switch(local[t], Exited(local[t]), "dead", TRUE)
  /\ UNCHANGED <<local, armed>>

(* SIGVTALRM is delivered: its handler is uthread_yield().  The context is *)
(* saved inside the handler; when it resumes, the return from the handler  *)
(* restores the mask it was interrupted with.                              *)
Tick ==
  /\ Preempts /\ armed
  /\ cpu \in Tcb /\ ~masked[cpu]
  /\ Switch(current, Preempted(current), pc[cpu], masked[cpu])
  /\ UNCHANGED <<zombie, local, armed>>

(* uthread_start() has returned: nothing of the library runs any more. *)
Returned ==
  /\ pc[Idle] = "returned"
  /\ UNCHANGED vars

(* The steps the library takes by itself once it is called. *)
LibraryStep ==
  \/ UthreadStart \/ IdleLoop \/ IdleStop
  \/ \E t \in Tcb : DoYield(t)
  \/ \E t \in Thread : Boot(t) \/ DoCreate(t) \/ DoExit(t)

Next ==
  \/ LibraryStep
  \/ Tick
  \/ Returned
  \/ \E t \in Thread : CallYield(t) \/ CallExit(t)
  \/ \E t, c \in Thread : CallCreate(t, c)

Spec == Init /\ [][Next]_vars

(***************************************************************************)
(* The processor executes what it is at (library steps happen) and the     *)
(* interval timer keeps expiring.  Nothing forces a thread's own function  *)
(* to call the library: it may compute for ever.                           *)
(***************************************************************************)
FairSpec == Spec /\ WF_vars(LibraryStep) /\ WF_vars(Tick)

-----------------------------------------------------------------------------
(* How many entries of the queue q are t; of the ready queue in particular. *)
Occurrences(q, t) == Cardinality({i \in DOMAIN q : q[i] = t})
Copies(t) == Occurrences(ready, t)

(* Every variable has its type: the ready queue holds TCB pointers, the    *)
(* zombie queue holds none, but addresses of locals on the stacks of the   *)
(* threads that exited (uthread.c:60).                                     *)
TypeOK ==
  /\ ready \in Seq(Tcb)
  /\ zombie \subseteq {PrevOf(t) : t \in Thread}
  /\ current \in Tcb \cup {Nil}
  /\ cpu \in Tcb \cup {Nil}
  /\ pc \in [Tcb -> Location]
  /\ masked \in [Tcb -> BOOLEAN]
  /\ local \in [Tcb -> Tcb \cup {Nil}]
  /\ armed \in BOOLEAN

(* The processor never enters a context that is not a TCB's: no            *)
(* queue_dequeue() of the ready queue finds it empty, the global current   *)
(* names the executing thread, and the prev that a call read before it     *)
(* disabled preemption (uthread.c:37, 54) is still the thread itself.      *)
CurrentIsRunning ==
  pc[Idle] # "start" =>
    /\ cpu \in Tcb
    /\ current = cpu
    /\ \A t \in Tcb : pc[t] \in {"yield", "exit"} => local[t] = t

Live(t) == pc[t] \in {"boot", "run", "create", "yield", "exit"}

(* The scheduler neither loses nor duplicates a thread: a live thread is   *)
(* on the processor or in the ready queue exactly once, any other never,   *)
(* and the idle thread, which uthread_start() enqueues while it is         *)
(* running, counts twice for ever (uthread.c:93).                          *)
ReadyTokens ==
  /\ \A t \in Thread :
       Copies(t) + (IF cpu = t THEN 1 ELSE 0) = IF Live(t) THEN 1 ELSE 0
  /\ Copies(Idle) + (IF cpu = Idle THEN 1 ELSE 0)
       = IF pc[Idle] = "start" THEN 1 ELSE 2

(* uthread_exit() never returns (uthread.h:51): a thread whose exit has    *)
(* its entry in the zombie queue is not scheduled again, whoever yields or *)
(* is preempted.                                                           *)
ExitIsFinal ==
  \A t \in Thread : PrevOf(t) \in zombie => cpu # t /\ Copies(t) = 0

(* uthread_start() returns once all the threads have finished running      *)
(* (uthread.h:17), though it looks at the length of a queue that holds     *)
(* the idle thread itself once or twice.                                   *)
ReturnsAfterAll ==
  pc[Idle] \in {"drain", "returned"} =>
    \A t \in Thread : pc[t] \in {"none", "dead"}

(* A thread that never calls uthread_yield() itself runs its own code with *)
(* the timer signal unblocked, whatever other library calls it made and    *)
(* whichever thread created it: the timer can always take the processor    *)
(* back from it.                                                           *)
Preemptible ==
  \A t \in Thread \ Yielders : pc[t] = "run" => ~masked[t]

(* A thread in the ready queue gets the processor, even when the threads   *)
(* before it compute for ever (REPORT.md:189-198, test_preempt.c).         *)
NoStarvation ==
  \A t \in Thread : (Copies(t) > 0) ~> (cpu = t)

(* The idle loop notices: when no thread is left, uthread_start() returns. *)
ReturnsEventually ==
  (pc[Idle] # "start" /\ \A t \in Thread : pc[t] \in {"none", "dead"})
    ~> pc[Idle] = "returned"
=============================================================================
