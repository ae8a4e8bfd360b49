------------------------------ MODULE AppProofs ------------------------------
(***************************************************************************)
(* What the programs of P2/apps print, for every number they count to and  *)
(* every size of the buffer, without the timer.                            *)
(***************************************************************************)
EXTENDS SemProofs, Apps

-----------------------------------------------------------------------------
(* What a step of the library is to the program above it. *)

USE ThreadAssumption
    DEF Tcb, Dequeued, NewTcb, Unblocked, OthersReady, Yielded, Exited, NobodyWaits,
        SomeoneWaits, Waiter, AtRear, CountHanded, Blocked, Unblocking,
        InWait, InDown, InUp, Unqueueable

(* The calls of a thread that have had no effect on a resource yet: a      *)
(* sem_up() has it at its beginning, a sem_down() at its end.              *)
Ahead(t) == IF pc[t] \in InUp THEN Tail(todo[t]) ELSE todo[t]

(* Before and behind a thread's own function. *)
Unstarted == {"none", "made", "boot"}
Over == {"exit", "dead"}

(* No thread waits in its own function for the processor: the programs     *)
(* never call uthread_yield().                                             *)
Undisturbed == \A t \in Thread : pc[t] # "yield" /\ (pc[t] = "run" => cpu = t)
NeverYields == \A t \in Thread : ~Calls(t, "yield")

(* What no step takes back, and which threads it ends. *)
Forward(ended) ==
  \A u \in Thread :
    /\ pc'[u] = "none" => pc[u] = "none"
    /\ pc'[u] \in Unstarted => pc[u] \in Unstarted
    /\ pc'[u] \in Over => pc[u] \in Over \/ u \in ended

(* A step that does nothing the program can see. *)
Silent ==
  /\ tokens' = tokens
  /\ \A u \in Thread : Ahead(u)' = Ahead(u)
  /\ \A u \in Thread \ {First} : pc[u] = "none" => pc'[u] = "none"

(* A step by which the next call c of the thread t takes effect. *)
Changes(c) ==
  /\ c.op = "sem_up" => tokens' = [tokens EXCEPT ![c.arg] = @ + 1]
  /\ c.op = "sem_down" => tokens' = [tokens EXCEPT ![c.arg] = @ - 1]
  /\ c.op = "sem_create" => tokens' = [tokens EXCEPT ![c.arg] = InitCount[c.arg]]
  /\ c.op \in {"create", "yield", "sem_destroy", "print"} => tokens' = tokens
Makes(t, c) ==
  /\ cpu = t /\ Ahead(t) \in Seq(AnyCall) /\ Ahead(t) # <<>> /\ c = Head(Ahead(t))
  /\ Ahead(t)' = Tail(Ahead(t))
  /\ \A u \in Thread \ {t} : Ahead(u)' = Ahead(u)
  /\ Changes(c)
  /\ \A u \in Thread \ {First} :
       pc[u] = "none" => (pc'[u] = "none" <=> ~(c.op = "create" /\ c.arg = u))

(* The step of one context t. *)
LEMMA OneMoves ==
  ASSUME SemIInv, NEW t \in Tcb, cpu = t, NEW at, pc' = [pc EXCEPT ![t] = at],
         \A u \in Thread \ {t} : todo'[u] = todo[u]
  PROVE  /\ pc'[t] = at
         /\ \A u \in Thread \ {t} : pc'[u] = pc[u] /\ Ahead(u)' = Ahead(u)
         /\ at \notin Unstarted => \A u \in Thread : pc'[u] = "none" => pc[u] = "none"
         /\ Undisturbed /\ at # "yield" /\ (at = "run" => cpu' = t) => Undisturbed'
<1>1. pc \in [Tcb -> SemLocation]
  BY DEF SemIInv, SemTypeOK
<1>2. pc'[t] = at /\ \A u \in Tcb \ {t} : pc'[u] = pc[u]
  BY <1>1
<1>3. \A u \in Thread \ {t} : pc'[u] = pc[u] /\ Ahead(u)' = Ahead(u)
  BY <1>2 DEF Ahead
<1>4. at \notin Unstarted => \A u \in Thread : pc'[u] = "none" => pc[u] = "none"
  BY <1>2 DEF Unstarted
<1>5. ASSUME Undisturbed, at # "yield", at = "run" => cpu' = t
      PROVE  Undisturbed'
  BY <1>2, <1>5 DEF Undisturbed
<1> QED
  BY <1>2, <1>3, <1>4, <1>5

(* The step is silent when neither the next calls of the thread nor the    *)
(* resources change, and makes the next call when one goes.                *)
LEMMA StepEffect ==
  ASSUME SemIInv, Undisturbed, NEW t \in Thread, cpu = t, NEW at,
         pc' = [pc EXCEPT ![t] = at], pc[t] \notin Unstarted \cup Over,
         at \notin Unstarted \cup Over \cup {"yield"}, at = "run" => cpu' = t,
         \A u \in Thread \ {t} : todo'[u] = todo[u],
         \/ tokens' = tokens /\ Ahead(t)' = Ahead(t)
         \/ \E c \in AnyCall :
              /\ c.op \notin {"create", "print"} /\ Ahead(t) \in Seq(AnyCall) /\ Ahead(t) # <<>>
              /\ c = Head(Ahead(t)) /\ Ahead(t)' = Tail(Ahead(t)) /\ Changes(c)
  PROVE  /\ Forward({}) /\ Undisturbed'
         /\ Silent \/ \E c \in AnyCall : c.op # "print" /\ Makes(t, c)
<1>1. /\ pc'[t] = at /\ Undisturbed'
      /\ \A u \in Thread \ {t} : pc'[u] = pc[u] /\ Ahead(u)' = Ahead(u)
  BY OneMoves
<1>2. Forward({})
  BY <1>1 DEF Forward, Unstarted, Over
<1>3. \A u \in Thread : pc[u] = "none" <=> pc'[u] = "none"
  BY <1>1 DEF Unstarted
<1>4. CASE tokens' = tokens /\ Ahead(t)' = Ahead(t)
  BY <1>1, <1>2, <1>3, <1>4 DEF Silent
<1>5. ASSUME NEW c \in AnyCall,
             c.op \notin {"create", "print"}, Ahead(t) \in Seq(AnyCall), Ahead(t) # <<>>,
             c = Head(Ahead(t)), Ahead(t)' = Tail(Ahead(t)), Changes(c)
      PROVE  c.op # "print" /\ Makes(t, c)
  BY <1>1, <1>3, <1>5 DEF Makes
<1> QED
  BY <1>1, <1>2, <1>4, <1>5

(* Where a call that is under way is, with what it has left. *)
LEMMA CallAhead ==
  ASSUME SemIInv, NEW t \in Thread, todo[t] # <<>>
  PROVE  /\ Head(todo[t]) \in AnyCall /\ todo[t] \in Seq(AnyCall)
         /\ todo[t] = <<Head(todo[t])>> \o Tail(todo[t])
         /\ Rest(t)[t] = Tail(todo[t]) /\ \A u \in Thread \ {t} : Rest(t)[u] = todo[u]
<1>1. todo \in [Thread -> Seq(AnyCall)]
  BY DEF SemIInv, SemTypeOK
<1>2. Rest(t)[t] = Tail(todo[t]) /\ \A u \in Thread \ {t} : Rest(t)[u] = todo[u]
  BY <1>1 DEF Rest
<1> QED
  BY <1>1, <1>2, HeadTailProperties

(* A thread that executes an operation of sem.c. *)
LEMMA SemEffect ==
  ASSUME SemIInv, ~Preempts, Undisturbed, NEW t \in Thread, SemStep(t)
  PROVE  /\ Forward({}) /\ Undisturbed'
         /\ Silent \/ \E c \in AnyCall : c.op # "print" /\ Makes(t, c)
<1>1. cpu = t
  BY DEF SemStep, SemCreate, SemDestroy, DoFree, SemDown, DownTakes, DownWaits, EnterBlock,
         DoBlock, DownResumes, SemUp, UpChecks, UpWakes, DoUnblock, Calls, At
<1>2. /\ todo \in [Thread -> Seq(AnyCall)] /\ current = t
      /\ pc[t] \in {"d_wait", "d_take"} \cup InWait => CallOf(t, "sem_down")
      /\ pc[t] \in InUp => CallOf(t, "sem_up")
      /\ pc[t] = "free" => CallOf(t, "sem_destroy")
      /\ pc[t] = "block" => local[t] = t
  BY <1>1 DEF SemIInv, SemTypeOK, Places, WellPlaced, Running
<1> DEFINE Goes(at) ==
      /\ pc' = [pc EXCEPT ![t] = at] /\ pc[t] \notin Unstarted \cup Over
      /\ at \notin Unstarted \cup Over \cup {"yield"} /\ (at = "run" => cpu' = t)
<1>3. CASE SemDown(t) \/ DownWaits(t) \/ EnterBlock(t) \/ UpWakes(t)
  <2>1. PICK at \in {"d_wait", "d_take", "waited", "block", "unblock"} :
          Goes(at) /\ (pc[t] \in InUp <=> at = "unblock")
    BY <1>3 DEF SemDown, DownWaits, EnterBlock, UpWakes, Stay, Calls, At, Unstarted, Over
  <2>2. todo' = todo /\ tokens' = tokens /\ pc'[t] = at
    BY <1>3, <2>1 DEF SemDown, DownWaits, EnterBlock, UpWakes, semVars, SemIInv, SemTypeOK
  <2>3. Ahead(t)' = Ahead(t)
    BY <2>1, <2>2 DEF Ahead
  <2> QED
    BY <1>1, <2>1, <2>2, <2>3, StepEffect
<1>4. CASE DoBlock(t)
  <2>1. Goes("blocked") /\ pc[t] \notin InUp
    BY <1>2, <1>4 DEF DoBlock, Switch, At, Unstarted, Over
  <2>2. todo' = todo /\ tokens' = tokens /\ pc'[t] = "blocked"
    BY <1>4, <2>1 DEF DoBlock, semVars, SemIInv, SemTypeOK
  <2>3. Ahead(t)' = Ahead(t)
    BY <2>1, <2>2 DEF Ahead
  <2> QED
    BY <1>1, <2>1, <2>2, <2>3, StepEffect
<1>5. CASE UpChecks(t) \/ DoUnblock(t)
  <2>1. PICK at \in {"u_wake", "run"} :
          Goes(at) /\ pc[t] \in InUp /\ (IF at = "run" THEN todo' = Rest(t) ELSE todo' = todo)
    BY <1>1, <1>5 DEF UpChecks, DoUnblock, Stay, At, Unstarted, Over
  <2>2. tokens' = tokens /\ pc'[t] = at
    BY <1>5, <2>1 DEF UpChecks, DoUnblock, SemIInv, SemTypeOK
  <2>3. /\ Ahead(t)' = Ahead(t) /\ \A u \in Thread \ {t} : todo'[u] = todo[u]
    <3>1. /\ todo[t] # <<>> /\ Rest(t)[t] = Tail(todo[t])
          /\ \A u \in Thread \ {t} : Rest(t)[u] = todo[u]
      BY <1>2, <2>1, CallAhead DEF CallOf
    <3>2. CASE at = "run"
      BY <2>1, <2>2, <3>1, <3>2 DEF Ahead
    <3>3. CASE at = "u_wake"
      BY <2>1, <2>2, <3>3 DEF Ahead
    <3> QED
      BY <2>1, <3>2, <3>3
  <2> QED
    BY <1>1, <2>1, <2>2, <2>3, StepEffect
<1>6. CASE SemUp(t)
  <2>1. Goes("u_check") /\ pc[t] \notin InUp /\ todo' = todo
    BY <1>6 DEF SemUp, Stay, Calls, At, Unstarted, Over
  <2>2. pc'[t] = "u_check"
    BY <2>1 DEF SemIInv, SemTypeOK
  <2>3. /\ Ahead(t) = todo[t] /\ Ahead(t)' = Tail(todo[t])
        /\ todo[t] # <<>> /\ Head(todo[t]).op = "sem_up"
    BY <1>6, <2>1, <2>2 DEF Ahead, SemUp, Calls
  <2>4. Changes(Head(todo[t]))
    BY <1>6, <2>3 DEF Changes, SemUp, Arg
  <2>5. Head(todo[t]) \in AnyCall /\ todo[t] \in Seq(AnyCall)
    BY <2>3, CallAhead
  <2> QED
    BY <1>1, <2>1, <2>3, <2>4, <2>5, StepEffect
<1>7. CASE SemDestroy(t)
  <2>1. PICK at \in {"free", "run"} :
          Goes(at) /\ pc[t] \notin InUp /\ (IF at = "run" THEN todo' = Rest(t) ELSE todo' = todo)
    BY <1>1, <1>7 DEF SemDestroy, Stay, Calls, At, Unstarted, Over
  <2>2. /\ tokens' = tokens /\ pc'[t] = at
        /\ todo[t] # <<>> /\ Head(todo[t]).op = "sem_destroy"
    BY <1>7, <2>1 DEF SemDestroy, Calls, SemIInv, SemTypeOK
  <2>3. /\ Head(todo[t]) \in AnyCall /\ todo[t] \in Seq(AnyCall)
        /\ \A u \in Thread \ {t} : todo'[u] = todo[u]
        /\ at = "run" => todo'[t] = Tail(todo[t])
    BY <2>1, <2>2, CallAhead
  <2>4. CASE at = "free"
    <3>1. Ahead(t)' = Ahead(t)
      BY <2>1, <2>2, <2>4 DEF Ahead
    <3> QED
      BY <1>1, <2>1, <2>2, <2>3, <3>1, StepEffect
  <2>5. CASE at = "run"
    <3>1. Ahead(t)' = Tail(Ahead(t)) /\ Ahead(t) = todo[t]
      BY <2>1, <2>2, <2>3, <2>5 DEF Ahead
    <3>2. Changes(Head(todo[t]))
      BY <2>2 DEF Changes
    <3> QED
      BY <1>1, <2>1, <2>2, <2>3, <3>1, <3>2, StepEffect
  <2> QED
    BY <2>4, <2>5
<1>8. CASE SemCreate(t) \/ DoFree(t) \/ DownTakes(t) \/ DownResumes(t)
  <2>1. /\ Goes("run") /\ pc[t] \notin InUp /\ todo' = Rest(t)
        /\ todo[t] # <<>> /\ Head(todo[t]).op \in {"sem_create", "sem_destroy", "sem_down"}
    BY <1>1, <1>2, <1>8 DEF SemCreate, DoFree, DownTakes, DownResumes, Stay, Calls, At,
                            Unstarted, Over, CallOf
  <2>2. pc'[t] = "run"
    BY <2>1 DEF SemIInv, SemTypeOK
  <2>3. /\ Head(todo[t]) \in AnyCall /\ todo[t] \in Seq(AnyCall)
        /\ \A u \in Thread \ {t} : todo'[u] = todo[u] /\ todo'[t] = Tail(todo[t])
        /\ todo'[t] = Tail(todo[t])
    BY <2>1, CallAhead
  <2>4. Ahead(t)' = Tail(Ahead(t)) /\ Ahead(t) = todo[t]
    BY <2>1, <2>2, <2>3 DEF Ahead
  <2>5. Changes(Head(todo[t]))
    <3>1. CASE SemCreate(t)
      BY <3>1 DEF Changes, SemCreate, Calls, Arg
    <3>2. CASE DoFree(t)
      BY <1>2, <3>2 DEF Changes, DoFree, At, CallOf
    <3>3. CASE DownTakes(t) \/ DownResumes(t)
      BY <1>2, <3>3 DEF Changes, DownTakes, DownResumes, At, CallOf, Arg
    <3> QED
      BY <1>8, <3>1, <3>2, <3>3
  <2> QED
    BY <1>1, <2>1, <2>3, <2>4, <2>5, StepEffect
<1> QED
  BY <1>3, <1>4, <1>5, <1>6, <1>7, <1>8 DEF SemStep

(* The steps of the scheduler and of a program's calls of it. *)
LEMMA SchedulerEffect ==
  ASSUME SemIInv, ~Preempts, Undisturbed,
         (LibraryStep \/ Tick \/ Returned) /\ UNCHANGED semVars
  PROVE  Forward({}) /\ Undisturbed' /\ Silent
<1>1. /\ pc \in [Tcb -> SemLocation] /\ todo' = todo /\ tokens' = tokens
      /\ \A t \in Thread : pc[t] = "create" => local[t] \in Thread /\ pc[local[t]] = "made"
      /\ \A t \in Tcb : pc[Idle] # "start" /\ pc[t] \in {"yield", "exit"} => local[t] = t
      /\ pc[Idle] \notin Unstarted \cup Over \cup InUp
      /\ pc[Idle] = "start" => \A t \in Thread : pc[t] = "none"
  BY DEF SemIInv, SemTypeOK, Creation, Running, Places, semVars, Unstarted, Over
<1>2. ASSUME NEW t \in Thread, Boot(t) \/ DoExit(t)
      PROVE  Forward({}) /\ Undisturbed' /\ Silent
  <2>1. PICK at \in {"run", "dead"} :
          /\ cpu = t /\ pc' = [pc EXCEPT ![t] = at] /\ (at = "run" => cpu' = t)
          /\ pc[t] = IF at = "run" THEN "boot" ELSE "exit"
    <3>1. DoExit(t) => pc[Idle] # "start"
      BY <1>1 DEF DoExit, At
    <3> QED
      BY <1>1, <1>2, <3>1 DEF Boot, DoExit, Stay, Switch, At
  <2>2. /\ pc'[t] = at /\ Undisturbed'
        /\ \A u \in Thread \ {t} : pc'[u] = pc[u] /\ Ahead(u)' = Ahead(u)
    BY <1>1, <2>1, OneMoves
  <2>3. Ahead(t)' = Ahead(t)
    BY <1>1, <2>1, <2>2 DEF Ahead
  <2> QED
    BY <1>1, <2>1, <2>2, <2>3 DEF Forward, Silent, Unstarted, Over
<1>3. ASSUME NEW t \in Thread, DoCreate(t)
      PROVE  Forward({}) /\ Undisturbed' /\ Silent
  <2>1. PICK c \in Thread : c = local[t] /\ pc[c] = "made"
    BY <1>1, <1>3 DEF DoCreate, At
  <2>2. /\ cpu = t /\ cpu' = t /\ pc[t] = "create" /\ c # t
        /\ pc'[t] = "run" /\ pc'[c] = "boot" /\ \A u \in Tcb \ {t, c} : pc'[u] = pc[u]
    BY <1>1, <1>3, <2>1 DEF DoCreate, At
  <2>3. \A u \in Thread : Ahead(u)' = Ahead(u)
    BY <1>1, <2>1, <2>2 DEF Ahead
  <2>4. Forward({})
    BY <2>1, <2>2 DEF Forward, Unstarted, Over
  <2>5. Undisturbed'
    BY <2>2 DEF Undisturbed
  <2>6. Silent
    BY <1>1, <2>1, <2>2, <2>3 DEF Silent
  <2> QED
    BY <2>4, <2>5, <2>6
<1>4. CASE UthreadStart
  <2>1. /\ cpu = Idle /\ \A t \in Thread : pc[t] = "none"
        /\ \A u \in Thread \ {First} : pc'[u] = pc[u]
        /\ pc'[First] = "boot"
    BY <1>1, <1>4 DEF UthreadStart, At
  <2>2. \A u \in Thread : Ahead(u)' = Ahead(u)
    BY <1>1, <2>1 DEF Ahead
  <2> QED
    BY <1>1, <2>1, <2>2 DEF Forward, Undisturbed, Silent, Unstarted, Over
<1>5. ASSUME NEW t \in Tcb, IdleLoop \/ IdleStop \/ DoYield(t)
      PROVE  Forward({}) /\ Undisturbed' /\ Silent
  <2>1. DoYield(t) => t = Idle /\ local[t] = t
    BY <1>1, <1>5 DEF Undisturbed, DoYield, At
  <2>2. PICK at \in {"yield", "drain", "returned", "loop"} :
          cpu = Idle /\ pc' = [pc EXCEPT ![Idle] = at]
    BY <1>5, <2>1 DEF IdleLoop, IdleStop, DoYield, Stay, Switch, At
  <2>3. \A u \in Thread : pc'[u] = pc[u] /\ Ahead(u)' = Ahead(u)
    BY <1>1, <2>2 DEF Ahead
  <2>4. Undisturbed'
    BY <2>2, <2>3 DEF Undisturbed
  <2> QED
    BY <1>1, <2>3, <2>4 DEF Forward, Silent, Unstarted, Over
<1>6. CASE Returned
  <2>1. /\ pc' = pc /\ cpu' = cpu
    BY <1>6 DEF Returned, vars
  <2> QED
    BY <1>1, <2>1 DEF Forward, Undisturbed, Silent, Unstarted, Over, Ahead
<1>7. ~Tick
  BY DEF Tick
<1> QED
  BY <1>2, <1>3, <1>4, <1>5, <1>6, <1>7 DEF LibraryStep

(* A thread that creates another, and one whose function returns. *)
LEMMA CreateEffect ==
  ASSUME SemIInv, Undisturbed, NEW t \in Thread, ProgramCreates(t)
  PROVE  /\ Forward({}) /\ Undisturbed'
         /\ \E c \in AnyCall : c.op = "create" /\ Makes(t, c)
<1>1. PICK c \in AnyCall : c = Head(todo[t]) /\ c.op = "create" /\ todo[t] # <<>>
  BY CallAhead DEF ProgramCreates, Calls
<1>2. PICK d \in Thread : d = c.arg /\ d = Arg(t)
  BY <1>1, CallIsKnown DEF CallOf, Arg, SemIInv
<1>3. /\ cpu = t /\ cpu' = t /\ pc[t] = "run" /\ pc[d] = "none" /\ d # t
      /\ pc'[t] = "create" /\ pc'[d] = "made"
      /\ \A u \in Tcb \ {t, d} : pc'[u] = pc[u]
      /\ todo' = Rest(t) /\ tokens' = tokens
  BY <1>2 DEF ProgramCreates, CallCreate, Calls, At, SemIInv, SemTypeOK
<1>4. /\ todo'[t] = Tail(todo[t]) /\ todo[t] \in Seq(AnyCall)
      /\ \A u \in Thread \ {t} : todo'[u] = todo[u]
  BY <1>1, <1>3, CallAhead
<1>5. /\ Ahead(t) = todo[t] /\ Ahead(t)' = Tail(todo[t])
      /\ \A u \in Thread \ {t} : Ahead(u)' = Ahead(u)
  BY <1>3, <1>4 DEF Ahead
<1>6. Makes(t, c)
  <2>1. Changes(c)
    BY <1>1, <1>3 DEF Changes
  <2>2. \A u \in Thread \ {First} :
          pc[u] = "none" => (pc'[u] = "none" <=> ~(c.op = "create" /\ c.arg = u))
    BY <1>1, <1>2, <1>3
  <2> QED
    BY <1>1, <1>3, <1>4, <1>5, <2>1, <2>2 DEF Makes
<1>7. Forward({})
  BY <1>3 DEF Forward, Unstarted, Over
<1>8. Undisturbed'
  BY <1>3 DEF Undisturbed
<1> QED
  BY <1>1, <1>6, <1>7, <1>8

(* A thread whose function returns is over. *)
LEMMA ReturnEffect ==
  ASSUME SemIInv, Undisturbed, NEW t \in Thread, ProgramReturns(t)
  PROVE  Forward({t}) /\ Undisturbed' /\ Silent /\ todo[t] = <<>>
<1>1. /\ cpu = t /\ cpu' = t /\ pc[t] = "run" /\ pc' = [pc EXCEPT ![t] = "exit"]
      /\ todo[t] = <<>> /\ todo' = todo /\ tokens' = tokens
  BY DEF ProgramReturns, CallExit, Enter, Stay, At, semVars
<1>2. /\ pc'[t] = "exit" /\ Undisturbed'
      /\ \A u \in Thread \ {t} : pc'[u] = pc[u] /\ Ahead(u)' = Ahead(u)
  BY <1>1, OneMoves
<1>3. Ahead(t)' = Ahead(t)
  BY <1>1, <1>2 DEF Ahead
<1> QED
  BY <1>1, <1>2, <1>3 DEF Forward, Silent, Unstarted, Over

-----------------------------------------------------------------------------
(* What a thread computes between two calls. *)

(* The thread t, in its own function, has called what it was to call, and  *)
(* nothing of the library changes.                                         *)
Computes(t) ==
  /\ cpu = t /\ pc[t] = "run"
  /\ UNCHANGED <<vars, count, waitq, alive, tokens>>
  /\ \A u \in Thread \ {t} : todo'[u] = todo[u]

(* This disturbs nobody. *)
LEMMA ComputesKeeps ==
  ASSUME SemIInv, ~Preempts, NEW t \in Thread, Computes(t),
         todo' \in [Thread -> Seq(AnyCall)]
  PROVE  SemIInv' /\ (Exact => Exact')
<1>1. /\ ready' = ready /\ zombie' = zombie /\ current' = current /\ cpu' = cpu /\ pc' = pc
      /\ masked' = masked /\ local' = local /\ armed' = armed
      /\ count' = count /\ waitq' = waitq /\ alive' = alive /\ tokens' = tokens
  BY DEF Computes, vars
<1>2. \A u \in Thread : pc[u] # "run" => todo'[u] = todo[u]
  BY DEF Computes
<1>3. /\ \A u \in Thread : pc[u] # "run" => Arg(u)' = Arg(u)
      /\ \A u \in Thread : \A op : pc[u] # "run" => CallOf(u, op)' = CallOf(u, op)
  BY <1>2 DEF Arg, CallOf
<1>4. \A u \in Thread : Granted(u)' = Granted(u)
  BY <1>1, <1>3 DEF Granted
<1>5. \A u \in Thread : WakeSurplus(u)' = WakeSurplus(u) /\ Owed(u)' = Owed(u)
  BY <1>1, <1>4 DEF WakeSurplus, Owed
<1>6. \A u : Tokens(u)' = Tokens(u)
  BY <1>1 DEF Tokens, Copies
<1>7. SemTypeOK' /\ Running' /\ Creation' /\ Alone' /\ Discipline'
  BY <1>1 DEF SemIInv, SemTypeOK, Running, Creation, Alone, Discipline
<1>8. Places'
  <2>1. \A u \in Thread : WellPlaced(u)'
    BY <1>1, <1>3 DEF SemIInv, Places, WellPlaced
  <2> QED
    BY <1>1, <2>1 DEF SemIInv, Places
<1>9. Scheduled'
  BY <1>1, <1>5, <1>6 DEF SemIInv, Scheduled
<1>10. Waiting' /\ WakesSomeone'
  <2>1. Waiting'
    BY <1>1, <1>3, <1>4 DEF SemIInv, Waiting
  <2>2. WakesSomeone'
    BY <1>1, <1>3 DEF SemIInv, WakesSomeone
  <2> QED
    BY <2>1, <2>2
<1>11. TokenBalance'
  <2>1. \A s : {u \in Thread : Granted(u) /\ Arg(u) = s}'
                 = {u \in Thread : Granted(u) /\ Arg(u) = s}
    BY <1>1, <1>3, <1>4 DEF Granted
  <2> QED
    BY <1>1, <2>1 DEF SemIInv, TokenBalance
<1>12. ASSUME Exact PROVE Exact'
  <2>1. \A s : Upping(s)' = Upping(s)
    BY <1>1, <1>3 DEF Upping
  <2> QED
    BY <1>1, <1>3, <1>12, <2>1 DEF Exact
<1> QED
  BY <1>7, <1>8, <1>9, <1>10, <1>11, <1>12 DEF SemIInv

(* What the program sees of it. *)
Segments(t) ==
  /\ cpu = t /\ cpu' = cpu /\ pc[t] = "run" /\ pc' = pc /\ tokens' = tokens
  /\ Ahead(t) = <<>> /\ Ahead(t)' = todo'[t]
  /\ \A u \in Thread \ {t} : Ahead(u)' = Ahead(u)
Passes == Silent /\ UNCHANGED appVars
Serves(t, c) ==
  /\ Makes(t, c) /\ UNCHANGED <<app, max, data, code>>
  /\ out' = IF c.op = "print" THEN Append(out, c.arg) ELSE out

(* What can be said of a thread whatever it runs: it exists once           *)
(* uthread_start() has created it, and when it is over its function is.    *)
Stages ==
  /\ pc[Idle] # "start" => pc[First] # "none"
  /\ \A t \in Thread : pc[t] \in Over => Ahead(t) = <<>> /\ code[t].at = "end"

(* A step of a program's thread in its own function. *)
Programmed(t) ==
  \/ app = "count" /\ CountStep(t)
  \/ app = "buffer" /\ (ProducerStep(t) \/ ConsumerStep(t))
  \/ app = "prime" /\ (SourceStep(t) \/ FilterStep(t) \/ SinkStep(t))

(* Each moves nothing else. *)
LEMMA ProgrammedComputes ==
  ASSUME SemIInv, NEW t \in Thread, Programmed(t),
         UNCHANGED <<vars, count, waitq, alive, tokens, app, max>>
  PROVE  Computes(t) /\ Segments(t) /\ \E calls : todo' = [todo EXCEPT ![t] = calls]
<1>1. /\ cpu = t /\ pc[t] = "run" /\ todo[t] = <<>>
      /\ \E calls : todo' = [todo EXCEPT ![t] = calls]
  <2>1. CASE app = "count" /\ CountStep(t)
    BY <2>1 DEF CountStep, InCode, At, Segment, Creating, Prints
  <2>2. CASE app = "buffer" /\ ProducerStep(t)
    BY <2>2 DEF ProducerStep, InCode, At, Segment, Creating
  <2>3. CASE app = "buffer" /\ ConsumerStep(t)
    BY <2>3 DEF ConsumerStep, InCode, At, Segment, Creating
  <2>4. CASE app = "prime" /\ (SourceStep(t) \/ FilterStep(t) \/ SinkStep(t))
    BY <2>4 DEF SourceStep, FilterStep, SinkStep, Receive, InCode, At, Segment, Creating
  <2> QED
    BY <2>1, <2>2, <2>3, <2>4 DEF Programmed
<1>2. \A u \in Thread \ {t} : todo'[u] = todo[u]
  BY <1>1 DEF SemIInv, SemTypeOK
<1>3. Computes(t)
  BY <1>1, <1>2 DEF Computes
<1>4. Segments(t)
  BY <1>1, <1>2 DEF Segments, Ahead, vars
<1> QED
  BY <1>1, <1>3, <1>4

(* uthread_start() creates the first thread. *)
LEMMA BeginsWithFirst ==
  ASSUME SemIInv, ~Preempts, LibraryStep \/ Tick \/ Returned, pc[Idle] = "start"
  PROVE  pc'[Idle] # "start" => pc'[First] # "none"
<1>1. cpu = Idle /\ pc \in [Tcb -> SemLocation] /\ First \in Tcb \ {Idle}
  BY DEF SemIInv, Places, SemTypeOK
<1>2. CASE UthreadStart
  BY <1>1, <1>2 DEF UthreadStart
<1>3. CASE Returned
  BY <1>3 DEF Returned, vars
<1>4. ~(IdleLoop \/ IdleStop \/ \E t \in Tcb : DoYield(t))
  BY <1>1 DEF IdleLoop, IdleStop, DoYield, At
<1>5. ~\E t \in Thread : Boot(t) \/ DoCreate(t) \/ DoExit(t)
  BY <1>1 DEF Boot, DoCreate, DoExit, At
<1> QED
  BY <1>2, <1>3, <1>4, <1>5 DEF LibraryStep, Tick

(* What can be said of each thread stays true. *)
LEMMA StagesKept ==
  ASSUME Stages, NEW S, Forward(S),
         pc[Idle] = "start" /\ pc'[Idle] # "start" => pc'[First] # "none",
         \A u \in Thread : pc[u] \in Over \/ u \in S =>
           Ahead(u) = <<>> /\ Ahead(u)' = <<>> /\ code'[u].at = "end"
  PROVE  Stages'
BY DEF Stages, Forward

(* Every step of a program is silent, a call that takes effect, or what a  *)
(* thread computes.                                                        *)
LEMMA AppEffect ==
  ASSUME SemIInv, ~Preempts, Undisturbed, NeverYields, Stages, [AppNext]_everyVar
  PROVE  /\ \E S : Forward(S)
         /\ Undisturbed'
         /\ \/ Passes /\ Stages'
            \/ Stages' /\ \E t \in Thread, c \in AnyCall : Serves(t, c)
            \/ \E t \in Thread :
                 /\ Segments(t) /\ Computes(t) /\ Programmed(t) /\ UNCHANGED <<app, max>>
                 /\ \E calls : todo' = [todo EXCEPT ![t] = calls]
<1>1. CASE (LibraryStep \/ Tick \/ Returned) /\ UNCHANGED <<semVars, appVars>>
  <2>1. Forward({}) /\ Undisturbed' /\ Silent
    BY <1>1, SchedulerEffect
  <2>2. Stages'
    <3>1. pc[Idle] = "start" /\ pc'[Idle] # "start" => pc'[First] # "none"
      BY <1>1, BeginsWithFirst
    <3>2. \A u \in Thread : pc[u] \in Over \/ u \in {} =>
            Ahead(u) = <<>> /\ Ahead(u)' = <<>> /\ code'[u].at = "end"
      BY <1>1, <2>1 DEF Stages, Silent, appVars
    <3> QED
      BY <2>1, <3>1, <3>2, StagesKept
  <2> QED
    BY <1>1, <2>1, <2>2 DEF Passes
<1>2. ASSUME UNCHANGED everyVar PROVE Passes /\ Stages' /\ Forward({}) /\ Undisturbed'
  <2>1. /\ pc' = pc /\ cpu' = cpu /\ todo' = todo /\ tokens' = tokens
        /\ UNCHANGED appVars
    BY <1>2 DEF everyVar, allVars, vars, semVars
  <2>2. \A u \in Thread : Ahead(u)' = Ahead(u)
    BY <2>1 DEF Ahead
  <2> QED
    BY <2>1, <2>2
       DEF Passes, Silent, Stages, Forward, Undisturbed, appVars
<1>3. ASSUME NEW t \in Thread, cpu = t
      PROVE  pc[Idle] = "start" /\ pc'[Idle] # "start" => pc'[First] # "none"
  BY <1>3 DEF SemIInv, Places
<1>4. ASSUME NEW t \in Thread, NEW c \in AnyCall, Makes(t, c), Forward({}), code' = code
      PROVE  Stages'
  <2>1. pc[t] \notin Over
    BY <1>4 DEF Stages, Makes
  <2>2. \A u \in Thread : pc[u] \in Over \/ u \in {} =>
          Ahead(u) = <<>> /\ Ahead(u)' = <<>> /\ code'[u].at = "end"
    BY <1>4, <2>1 DEF Stages, Makes
  <2>3. cpu = t
    BY <1>4 DEF Makes
  <2> QED
    BY <1>3, <1>4, <2>2, <2>3, StagesKept
<1>5. ASSUME NEW t \in Thread, SemStep(t) /\ UNCHANGED appVars
      PROVE  /\ Forward({}) /\ Undisturbed' /\ Stages'
             /\ Passes \/ \E c \in AnyCall : Serves(t, c)
  <2>1. /\ Forward({}) /\ Undisturbed'
        /\ Silent \/ \E c \in AnyCall : c.op # "print" /\ Makes(t, c)
    BY <1>5, SemEffect
  <2>2. cpu = t
    BY <1>5 DEF SemStep, SemCreate, SemDestroy, DoFree, SemDown, DownTakes, DownWaits,
                EnterBlock, DoBlock, DownResumes, SemUp, UpChecks, UpWakes, DoUnblock,
                Calls, At
  <2>3. CASE Silent
    <3>1. \A u \in Thread : pc[u] \in Over \/ u \in {} =>
            Ahead(u) = <<>> /\ Ahead(u)' = <<>> /\ code'[u].at = "end"
      BY <1>5, <2>3 DEF Stages, Silent, appVars
    <3> QED
      BY <1>3, <1>5, <2>1, <2>2, <2>3, <3>1, StagesKept DEF Passes
  <2>4. ASSUME NEW c \in AnyCall, c.op # "print", Makes(t, c)
        PROVE  Stages' /\ Serves(t, c)
    BY <1>4, <1>5, <2>1, <2>4 DEF Serves, appVars
  <2> QED
    BY <2>1, <2>3, <2>4
<1>6. ASSUME NEW t \in Thread, ProgramCreates(t) /\ UNCHANGED appVars
      PROVE  /\ Forward({}) /\ Undisturbed' /\ Stages'
             /\ \E c \in AnyCall : Serves(t, c)
  <2>1. /\ Forward({}) /\ Undisturbed'
        /\ \E c \in AnyCall : c.op = "create" /\ Makes(t, c)
    BY <1>6, CreateEffect
  <2> QED
    BY <1>4, <1>6, <2>1 DEF Serves, appVars
<1>7. ASSUME NEW t \in Thread,
             code[t].at = "end" /\ ProgramReturns(t) /\ UNCHANGED appVars
      PROVE  Forward({t}) /\ Undisturbed' /\ Stages' /\ Passes
  <2>1. Forward({t}) /\ Undisturbed' /\ Silent /\ todo[t] = <<>>
    BY <1>7, ReturnEffect
  <2>2. cpu = t /\ pc[t] = "run"
    BY <1>7 DEF ProgramReturns, CallExit, Enter, At
  <2>3. \A u \in Thread : pc[u] \in Over \/ u \in {t} =>
          Ahead(u) = <<>> /\ Ahead(u)' = <<>> /\ code'[u].at = "end"
    BY <1>7, <2>1, <2>2 DEF Stages, Silent, Ahead, appVars
  <2> QED
    BY <1>3, <1>7, <2>1, <2>2, <2>3, StagesKept DEF Passes
<1>8. \A t \in Thread : ~ProgramYields(t)
  BY DEF NeverYields, ProgramYields
<1>9. ASSUME NEW t \in Thread, AppPrints(t),
             UNCHANGED <<vars, count, waitq, alive, tokens, app, max>>
      PROVE  /\ Forward({}) /\ Undisturbed' /\ Stages'
             /\ \E c \in AnyCall : Serves(t, c)
  <2>1. /\ cpu = t /\ cpu' = cpu /\ pc[t] = "run" /\ pc' = pc /\ tokens' = tokens
        /\ todo[t] # <<>> /\ todo' = Rest(t) /\ code' = code /\ data' = data
        /\ out' = Append(out, Arg(t)) /\ Head(todo[t]).op = "print"
    BY <1>9 DEF AppPrints, Calls, At, vars
  <2>2. PICK c \in AnyCall : c = Head(todo[t])
    BY <2>1, CallAhead
  <2>3. /\ todo[t] \in Seq(AnyCall) /\ todo'[t] = Tail(todo[t])
        /\ \A u \in Thread \ {t} : todo'[u] = todo[u]
    BY <2>1, CallAhead
  <2>4. /\ Ahead(t) = todo[t] /\ Ahead(t)' = Tail(todo[t])
        /\ \A u \in Thread \ {t} : Ahead(u)' = Ahead(u)
    BY <2>1, <2>3 DEF Ahead
  <2>5. Makes(t, c)
    BY <2>1, <2>2, <2>3, <2>4 DEF Makes, Changes
  <2>6. Forward({}) /\ Undisturbed'
    BY <2>1 DEF Forward, Undisturbed
  <2>7. Serves(t, c)
    BY <1>9, <2>1, <2>2, <2>5 DEF Serves, Arg
  <2> QED
    BY <1>4, <2>1, <2>5, <2>6, <2>7
<1>10. ASSUME NEW t \in Thread, Programmed(t),
              UNCHANGED <<vars, count, waitq, alive, tokens, app, max>>
       PROVE  /\ Forward({}) /\ Undisturbed'
              /\ Segments(t) /\ Computes(t) /\ UNCHANGED <<app, max>>
              /\ \E calls : todo' = [todo EXCEPT ![t] = calls]
  <2>1. /\ Computes(t) /\ Segments(t) /\ \E calls : todo' = [todo EXCEPT ![t] = calls]
    BY <1>10, ProgrammedComputes
  <2>2. pc' = pc /\ cpu' = cpu
    BY <2>1 DEF Segments
  <2> QED
    BY <1>10, <2>1, <2>2 DEF Forward, Undisturbed
<1>11. ASSUME AppNext PROVE
         \/ (LibraryStep \/ Tick \/ Returned) /\ UNCHANGED <<semVars, appVars>>
         \/ \E t \in Thread :
              \/ SemStep(t) /\ UNCHANGED appVars
              \/ ProgramCreates(t) /\ UNCHANGED appVars
              \/ code[t].at = "end" /\ ProgramReturns(t) /\ UNCHANGED appVars
              \/ /\ AppPrints(t) \/ Programmed(t)
                 /\ UNCHANGED <<vars, count, waitq, alive, tokens, app, max>>
  BY <1>8, <1>11 DEF AppNext, AppStep, Programmed
<1> QED
  BY <1>1, <1>2, <1>5, <1>6, <1>7, <1>9, <1>10, <1>11

-----------------------------------------------------------------------------
(* What a program relies on. *)

(* The semaphores stay exact under a program that creates none in use. *)
LEMMA AppKeeps ==
  ASSUME SemIInv, Exact, ~Preempts, Fresh, [AppNext]_everyVar,
         ASSUME NEW t \in Thread, Programmed(t),
                UNCHANGED <<vars, count, waitq, alive, tokens, app, max>>
         PROVE  todo' \in [Thread -> Seq(AnyCall)]
  PROVE  SemIInv' /\ Exact'
<1>1. CASE [SemNext]_allVars
  BY <1>1, NextSemIInv, NextExact
<1>2. ASSUME NEW t \in Thread, Computes(t), todo' \in [Thread -> Seq(AnyCall)]
      PROVE  SemIInv' /\ Exact'
  BY <1>2, ComputesKeeps
<1>3. ASSUME NEW t \in Thread, AppPrints(t),
             UNCHANGED <<vars, count, waitq, alive, tokens, app, max>>
      PROVE  SemIInv' /\ Exact'
  <2>1. /\ cpu = t /\ pc[t] = "run" /\ todo[t] # <<>> /\ todo' = Rest(t)
    BY <1>3 DEF AppPrints, Calls, At
  <2>2. todo \in [Thread -> Seq(AnyCall)]
    BY DEF SemIInv, SemTypeOK
  <2>3. Tail(todo[t]) \in Seq(AnyCall)
    BY <2>1, <2>2, HeadTailProperties
  <2>4. todo' \in [Thread -> Seq(AnyCall)] /\ \A u \in Thread \ {t} : todo'[u] = todo[u]
    BY <2>1, <2>2, <2>3 DEF Rest
  <2> QED
    BY <1>2, <1>3, <2>1, <2>4 DEF Computes
<1>4. ASSUME NEW t \in Thread, Programmed(t),
             UNCHANGED <<vars, count, waitq, alive, tokens, app, max>>
      PROVE  SemIInv' /\ Exact'
  BY <1>2, <1>4, ProgrammedComputes
<1>5. \/ [SemNext]_allVars
      \/ \E t \in Thread :
           /\ AppPrints(t) \/ Programmed(t)
           /\ UNCHANGED <<vars, count, waitq, alive, tokens, app, max>>
  BY DEF AppNext, AppStep, Programmed, SemNext, ProgramStep, everyVar
<1> QED
  BY <1>1, <1>3, <1>4, <1>5

(* A thread that has begun and does not execute is over, or in a           *)
(* sem_down() that waits: that is where the processor goes to another.     *)
LEMMA OffCpu ==
  ASSUME SemIInv, ~Preempts, Undisturbed, NEW t \in Thread, cpu # t,
         pc[t] \notin Unstarted \cup Over
  PROVE  Ahead(t) # <<>> /\ Head(Ahead(t)).op = "sem_down"
<1>1. pc[t] = "blocked"
  <2>1. pc[t] \in Between /\ pc[t] # "run"
    BY DEF SemIInv, Alone, Undisturbed
  <2>2. WellPlaced(t)
    BY DEF SemIInv, Places
  <2> QED
    BY <2>1, <2>2 DEF Between, WellPlaced, Unstarted, Over
<1>2. CallOf(t, "sem_down")
  BY <1>1 DEF SemIInv, Places, WellPlaced
<1> QED
  BY <1>1, <1>2 DEF Ahead, CallOf

(* When uthread_start() has returned, a thread that was created is over,   *)
(* or waits in a sem_down() for what is not there.                         *)
LEMMA AtReturn ==
  ASSUME SemIInv, Exact, Stages, pc[Idle] = "returned", NEW t \in Thread, pc[t] # "none"
  PROVE  \/ Ahead(t) = <<>> /\ code[t].at = "end"
         \/ /\ Ahead(t) # <<>> /\ Head(Ahead(t)).op = "sem_down"
            /\ tokens[Head(Ahead(t)).arg] = 0
<1>1. /\ pc[t] \in {"dead", "blocked"} /\ \A u \in Thread : ~Granted(u)
      /\ pc[t] = "blocked" => count[Arg(t)] = 0
  BY AllAtRest
<1>2. CASE pc[t] = "dead"
  BY <1>2 DEF Stages, Over
<1>3. CASE pc[t] = "blocked"
  <2>1. CallOf(t, "sem_down") /\ Arg(t) \in Semaphore
    BY <1>3, ArgIsSemaphore
  <2>2. Ahead(t) = todo[t]
    BY <1>3 DEF Ahead
  <2>3. GrantedOf(Arg(t)) = {}
    BY <1>1 DEF GrantedOf
  <2>4. Cardinality(GrantedOf(Arg(t))) = 0
    BY <2>3, FS_EmptySet
  <2>5. count[Arg(t)] + Cardinality(GrantedOf(Arg(t))) = tokens[Arg(t)]
    BY <2>1, BalanceMeans DEF SemIInv
  <2>6. tokens[Arg(t)] = 0
    BY <1>1, <1>3, <2>4, <2>5
  <2> QED
    BY <2>1, <2>2, <2>6 DEF CallOf, Arg
<1> QED
  BY <1>1, <1>2, <1>3

-----------------------------------------------------------------------------
(* sem_count.c: the two threads take turns. *)

Second == Pool[2]
Sem1 == <<"sem", 1>>
Sem2 == <<"sem", 2>>

(* The last call of a segment. *)
Waits1 == <<Down(Sem1)>>
Waits2 == <<Down(Sem2)>>
Wakes2 == <<Up(Sem2)>>
Creates == <<Do("create", Second)>>

CountLabels == {"thread1 start", "thread1", "thread1 woken", "thread2", "end"}

(* Where the two threads are and what they are to call next, and what has  *)
(* been released to the first and to the second.                           *)
FirstAt(label, calls) == code[First].at = label /\ Ahead(First) = calls
SecondAt(label, calls) == code[Second].at = label /\ Ahead(Second) = calls
Released(n, m) == tokens[Sem1] = n /\ tokens[Sem2] = m
Parity == data % 2

(* The first thread has found that there is more to count, and waits for   *)
(* its turn; or it has found that there is not.                            *)
FirstPassed ==
  \/ FirstAt("thread1 woken", Waits1) /\ data < max
  \/ FirstAt("end", <<>>) /\ data >= max

BeforeCreation ==
  /\ pc[Second] = "none" /\ SecondAt(IF code[First].at = "thread1 start" THEN "end" ELSE "thread2", <<>>)
  /\ Released(0, 0) /\ data = 0
  /\ \/ FirstAt("thread1 start", <<>>)
     \/ FirstAt("thread1", Creates) /\ pc[First] \notin Unstarted
FirstTests ==
  FirstAt("thread1", <<>>) /\ SecondAt("thread2", <<>>) /\ Released(0, 0) /\ data = 0
SecondsTurn ==
  FirstPassed /\ SecondAt("thread2", <<>>) /\ Released(0, 0) /\ Parity = 0

(* The second thread has printed: it wakes the first, which prints without *)
(* another test, and wakes the second.                                     *)
SecondReleases ==
  /\ FirstAt("thread1 woken", Waits1) /\ SecondAt("thread2", Handover)
  /\ Released(0, 0) /\ Parity = 1 /\ data <= max
FirstsTurn ==
  /\ \/ FirstAt("thread1 woken", Waits1) /\ Released(1, 0)
     \/ FirstAt("thread1 woken", <<>>) /\ Released(0, 0)
  /\ SecondAt("thread2", Waits2) /\ Parity = 1 /\ data <= max
FirstReleases ==
  /\ \/ FirstAt("thread1", Wakes2) /\ Released(0, 0)
     \/ (FirstAt("thread1", <<>>) \/ FirstPassed) /\ Released(0, 1)
  /\ SecondAt("thread2", Waits2) /\ Parity = 0
Finished ==
  FirstAt("end", <<>>) /\ SecondAt("end", <<>>) /\ Released(0, 0) /\ Parity = 0 /\ data >= max

CountTurns ==
  \/ BeforeCreation
  \/ /\ pc[First] \notin Unstarted /\ pc[Second] # "none"
     /\ \/ FirstTests \/ SecondsTurn \/ SecondReleases \/ FirstsTurn \/ FirstReleases
        \/ Finished
CountIInv ==
  /\ app = "count" /\ max \in Nat /\ data \in Nat
  /\ out = Numbers(data) /\ data <= max + (max % 2)
  /\ code \in [Thread -> [at : CountLabels]]
  /\ \A t \in Thread \ {First, Second} : Ahead(t) = <<>> /\ code[t].at = "end"
  /\ CountTurns
AppBase == SemIInv /\ Exact /\ Undisturbed /\ Stages

(* The threads and the semaphores of the program are there, and differ. *)
LEMMA PoolBegins ==
  /\ First \in Thread /\ Second \in Thread /\ First # Second
  /\ Pool[1] = First /\ Pool[3] \in Thread /\ Pool[3] \notin {First, Second}
<1>1. Pool \in Seq(Thread) /\ Len(Pool) >= 3 /\ Len(Pool) \in Nat /\ DOMAIN Pool = 1 .. Len(Pool)
  BY AppAssumption
<1>2. 1 \in DOMAIN Pool /\ 2 \in DOMAIN Pool /\ 3 \in DOMAIN Pool
  BY <1>1
<1>3. Pool[1] = First /\ Pool[2] \in Thread /\ Pool[3] \in Thread
  BY <1>1, <1>2, AppAssumption
<1>4. Pool[1] # Pool[2] /\ Pool[1] # Pool[3] /\ Pool[2] # Pool[3]
  BY ONLY <1>2, AppAssumption DEF AppAssumption
<1> QED
  BY <1>3, <1>4 DEF Second

(* What is left of one call, and of two. *)
LEMMA OneCall ==
  ASSUME NEW c
  PROVE  <<c>> # <<>> /\ Head(<<c>>) = c /\ Tail(<<c>>) = <<>>
OBVIOUS

(* As above. *)
LEMMA TwoCalls ==
  ASSUME NEW c, NEW d
  PROVE  <<c, d>> # <<>> /\ Head(<<c, d>>) = c /\ Tail(<<c, d>>) = <<d>>
OBVIOUS

(* The calls of a program that use a semaphore. *)
LEMMA SemCalls ==
  ASSUME NEW s \in Semaphore
  PROVE  /\ Up(s) \in AnyCall /\ Up(s).op = "sem_up" /\ Up(s).arg = s
         /\ Down(s) \in AnyCall /\ Down(s).op = "sem_down" /\ Down(s).arg = s
BY DEF Up, Down, Do, AnyCall, LibraryCall

(* The numbers printed so far, and one more. *)
LEMMA OneMoreNumber ==
  ASSUME NEW n \in Nat
  PROVE  Append(Numbers(n), n) = Numbers(n + 1)
<1>1. Numbers(n) \in Seq(Nat) /\ Len(Numbers(n)) = n
  BY DEF Numbers
<1> QED
  BY <1>1 DEF Numbers

(* The first of the numbers. *)
LEMMA FirstNumbers ==
  ASSUME NEW n \in Nat, NEW m \in Nat, n <= m
  PROVE  Len(Numbers(n)) = n /\ Numbers(n) = SubSeq(Numbers(m), 1, n)
<1>1. /\ Numbers(n) \in Seq(Nat) /\ Len(Numbers(n)) = n
      /\ Numbers(m) \in Seq(Nat) /\ Len(Numbers(m)) = m
  BY DEF Numbers
<1> QED
  BY <1>1 DEF Numbers

(* The first thread, once it has begun, goes off the processor only in a   *)
(* sem_down() or at its end.                                               *)
LEMMA FirstAway ==
  ASSUME AppBase, ~Preempts, pc[First] \notin Unstarted, cpu # First
  PROVE  \/ Ahead(First) = <<>> /\ code[First].at = "end"
         \/ Ahead(First) # <<>> /\ Head(Ahead(First)).op = "sem_down"
<1>1. First \in Thread
  BY PoolBegins
<1>2. CASE pc[First] \in Over
  BY <1>1, <1>2 DEF AppBase, Stages
<1>3. CASE pc[First] \notin Over
  BY <1>1, <1>3, OffCpu DEF AppBase
<1> QED
  BY <1>2, <1>3

(* What the calls of sem_count.c are. *)
CountCalls ==
  LET c == Do("create", Second)
  IN  /\ Sem1 \in Semaphore /\ Sem2 \in Semaphore /\ Sem1 # Sem2
      /\ Up(Sem1).op = "sem_up" /\ Up(Sem1).arg = Sem1
      /\ Up(Sem2).op = "sem_up" /\ Up(Sem2).arg = Sem2
      /\ Down(Sem1).op = "sem_down" /\ Down(Sem1).arg = Sem1
      /\ Down(Sem2).op = "sem_down" /\ Down(Sem2).arg = Sem2
      /\ c.op = "create" /\ c.arg = Second
      /\ {Up(Sem1), Up(Sem2), Down(Sem1), Down(Sem2), c} \subseteq AnyCall
LastCalls ==
  LET c == Do("create", Second)
  IN  /\ Wakes2 # <<>> /\ Head(Wakes2) = Up(Sem2) /\ Tail(Wakes2) = <<>>
      /\ Waits1 # <<>> /\ Head(Waits1) = Down(Sem1)
      /\ Tail(Waits1) = <<>>
      /\ Waits2 # <<>> /\ Head(Waits2) = Down(Sem2)
      /\ Tail(Waits2) = <<>>
      /\ Creates # <<>> /\ Head(Creates) = c /\ Tail(Creates) = <<>>
      /\ Handover # <<>> /\ Head(Handover) = Up(Sem1) /\ Tail(Handover) = Waits2

(* They are so. *)
LEMMA CountCallsAre == CountCalls /\ LastCalls
<1>1. Sem1 \in Semaphore /\ Sem2 \in Semaphore /\ Sem1 # Sem2
  BY MainAssumption, SemAssumption DEF Sem1, Sem2
<1>2. LET c == Do("create", Second)
      IN  c \in AnyCall /\ c.op = "create" /\ c.arg = Second
  BY PoolBegins DEF Do, AnyCall, LibraryCall
<1>3. CountCalls
  BY <1>1, <1>2, SemCalls DEF CountCalls
<1>4. Handover # <<>> /\ Head(Handover) = Up(Sem1) /\ Tail(Handover) = Waits2
  BY TwoCalls DEF Handover, Sem1, Sem2, Waits2
<1>5. LastCalls
  BY <1>4, OneCall DEF LastCalls, Waits1, Waits2, Wakes2, Creates
<1> QED
  BY <1>3, <1>5

(* What a call does to the two semaphores. *)
CountEffect(c) ==
  /\ c = Up(Sem1) => tokens'[Sem1] = tokens[Sem1] + 1 /\ tokens'[Sem2] = tokens[Sem2]
  /\ c = Up(Sem2) => tokens'[Sem2] = tokens[Sem2] + 1 /\ tokens'[Sem1] = tokens[Sem1]
  /\ c = Down(Sem1) => tokens'[Sem1] = tokens[Sem1] - 1 /\ tokens'[Sem2] = tokens[Sem2]
  /\ c = Down(Sem2) => tokens'[Sem2] = tokens[Sem2] - 1 /\ tokens'[Sem1] = tokens[Sem1]
  /\ c.op = "create" => tokens' = tokens

(* It is so. *)
LEMMA CountEffectIs ==
  ASSUME SemIInv, NEW c, Changes(c)
  PROVE  CountEffect(c)
<1>1. tokens \in [Semaphore -> Int] /\ CountCalls
  BY CountCallsAre DEF SemIInv, SemTypeOK
<1>2. /\ c = Up(Sem1) => tokens'[Sem1] = tokens[Sem1] + 1 /\ tokens'[Sem2] = tokens[Sem2]
      /\ c = Up(Sem2) => tokens'[Sem2] = tokens[Sem2] + 1 /\ tokens'[Sem1] = tokens[Sem1]
  BY <1>1 DEF Changes, CountCalls
<1>3. /\ c = Down(Sem1) => tokens'[Sem1] = tokens[Sem1] - 1 /\ tokens'[Sem2] = tokens[Sem2]
      /\ c = Down(Sem2) => tokens'[Sem2] = tokens[Sem2] - 1 /\ tokens'[Sem1] = tokens[Sem1]
  BY <1>1 DEF Changes, CountCalls
<1>4. c.op = "create" => tokens' = tokens
  BY DEF Changes
<1> QED
  BY <1>2, <1>3, <1>4 DEF CountEffect

(* Where nothing that the program sees changes, its turns do not. *)
LEMMA CountPasses ==
  ASSUME CountIInv, Passes, NEW S, Forward(S)
  PROVE  CountIInv'
<1>1. First \in Thread /\ Second \in Thread /\ First # Second
  BY PoolBegins
<1>2. /\ \A t \in Thread : Ahead(t)' = Ahead(t)
      /\ tokens' = tokens /\ app' = app /\ max' = max /\ data' = data
      /\ code' = code /\ out' = out
  BY DEF Passes, Silent, appVars
<1>3. /\ pc[First] \notin Unstarted => pc'[First] \notin Unstarted
      /\ pc[Second] = "none" <=> pc'[Second] = "none"
  BY <1>1 DEF Passes, Silent, Forward
<1>4. CountTurns'
  BY ONLY CountIInv, <1>1, <1>2, <1>3
     DEF CountIInv, CountTurns, BeforeCreation, FirstTests, SecondsTurn, SecondReleases,
         FirstsTurn, FirstReleases, Finished, FirstPassed, FirstAt, SecondAt, Released, Parity
<1> QED
  BY ONLY CountIInv, <1>2, <1>4 DEF CountIInv, Numbers

(* A call that takes effect moves the turns on: the processor is not with  *)
(* the second thread when the first could go on, and no thread goes on     *)
(* without a resource.                                                     *)
LEMMA CountServes ==
  ASSUME AppBase, ~Preempts, CountIInv, NEW t \in Thread, NEW c \in AnyCall, Serves(t, c),
         NEW S, Forward(S), NoOvertake'
  PROVE  CountIInv'
<1>1. First \in Thread /\ Second \in Thread /\ First # Second /\ CountCalls /\ LastCalls
  BY PoolBegins, CountCallsAre
<1>2. /\ cpu = t /\ Ahead(t) # <<>> /\ c = Head(Ahead(t)) /\ Ahead(t)' = Tail(Ahead(t))
      /\ \A u \in Thread \ {t} : Ahead(u)' = Ahead(u)
      /\ app' = app /\ max' = max /\ data' = data /\ code' = code
      /\ c.op # "print" => out' = out
  BY DEF Serves, Makes
<1>3. /\ pc[First] \notin Unstarted => pc'[First] \notin Unstarted
      /\ pc[Second] # "none" => pc'[Second] # "none"
      /\ pc[Second] = "none" => (pc'[Second] = "none" <=> ~(c.op = "create" /\ c.arg = Second))
  BY <1>1 DEF Serves, Makes, Forward
<1>4. /\ CountEffect(c) /\ tokens'[Sem1] >= 0 /\ tokens'[Sem2] >= 0
      /\ tokens[Sem1] \in Int /\ tokens[Sem2] \in Int
  BY <1>1, CountEffectIs DEF AppBase, SemIInv, SemTypeOK, Serves, Makes, NoOvertake, CountCalls
<1>5. t \in {First, Second} /\ Parity' = Parity
  BY <1>2 DEF CountIInv, Parity
<1>6. /\ t = First => Ahead(First)' = Tail(Ahead(First)) /\ Ahead(Second)' = Ahead(Second)
      /\ t = Second => Ahead(Second)' = Tail(Ahead(Second)) /\ Ahead(First)' = Ahead(First)
  BY ONLY <1>1, <1>2
<1> DEFINE Effect(left) == Tail(Ahead(t)) = left /\ c.op # "print"
<1>7. Ahead(t) = Waits1 =>
        Effect(<<>>) /\ tokens[Sem1] # 0 /\ (Released(1, 0) => Released(0, 0)')
  BY ONLY <1>1, <1>2, <1>4 DEF LastCalls, CountCalls, CountEffect, Released
<1>8. Ahead(t) = Waits2 =>
        Effect(<<>>) /\ tokens[Sem2] # 0 /\ (Released(0, 1) => Released(0, 0)')
  BY ONLY <1>1, <1>2, <1>4 DEF LastCalls, CountCalls, CountEffect, Released
<1>9. Ahead(t) = Wakes2 => Effect(<<>>) /\ (Released(0, 0) => Released(0, 1)')
  BY ONLY <1>1, <1>2, <1>4 DEF LastCalls, CountCalls, CountEffect, Released
<1>10. Ahead(t) = Handover => Effect(Waits2) /\ (Released(0, 0) => Released(1, 0)')
  BY ONLY <1>1, <1>2, <1>4 DEF LastCalls, CountCalls, CountEffect, Released
<1>11. Ahead(t) = Creates =>
         Effect(<<>>) /\ c.op = "create" /\ c.arg = Second /\ (Released(0, 0) => Released(0, 0)')
  BY ONLY <1>1, <1>2, <1>4 DEF LastCalls, CountCalls, CountEffect, Released
<1>12. CASE BeforeCreation
  <2>1. t = First /\ Ahead(First) = Creates /\ Ahead(t) = Creates /\ Released(0, 0)'
    BY ONLY <1>2, <1>5, <1>11, <1>12 DEF BeforeCreation, FirstAt, SecondAt
  <2>2. Ahead(First)' = <<>> /\ Ahead(Second)' = Ahead(Second)
    BY ONLY <1>6, <1>11, <2>1
  <2>3. FirstTests'
    BY ONLY <1>2, <1>12, <2>1, <2>2 DEF BeforeCreation, FirstTests, FirstAt, SecondAt
  <2> QED
    BY ONLY CountIInv, <1>1, <1>2, <1>3, <1>11, <1>12, <2>1, <2>3
       DEF CountIInv, CountTurns, Numbers, BeforeCreation, FirstAt
<1>13. ASSUME pc[First] \notin Unstarted, pc[Second] # "none", c.op # "print",
              SecondsTurn' \/ FirstsTurn' \/ FirstReleases'
       PROVE  CountIInv'
  BY ONLY CountIInv, <1>1, <1>2, <1>3, <1>5, <1>13 DEF CountIInv, CountTurns, Numbers
<1>14. CASE pc[First] \notin Unstarted /\ pc[Second] # "none" /\ SecondReleases
  <2>1. t = Second /\ Ahead(t) = Handover /\ Released(1, 0)'
    BY ONLY <1>2, <1>5, <1>7, <1>10, <1>14 DEF SecondReleases, FirstAt, SecondAt, Released
  <2>2. Ahead(First)' = Ahead(First) /\ Ahead(Second)' = Waits2
    BY ONLY <1>6, <1>10, <2>1
  <2>3. FirstsTurn'
    BY ONLY <1>2, <1>5, <1>14, <2>1, <2>2 DEF SecondReleases, FirstsTurn, FirstAt, SecondAt
  <2> QED
    BY <1>10, <1>13, <1>14, <2>1, <2>3
<1>15. CASE pc[First] \notin Unstarted /\ pc[Second] # "none" /\ FirstsTurn
  <2>1. t = First /\ Ahead(t) = Waits1
    BY ONLY <1>2, <1>5, <1>8, <1>15 DEF FirstsTurn, FirstAt, SecondAt, Released
  <2>2. code[First].at = "thread1 woken" /\ Released(0, 0)'
    BY ONLY <1>2, <1>7, <1>15, <2>1 DEF FirstsTurn, FirstAt
  <2>3. Ahead(First)' = <<>> /\ Ahead(Second)' = Ahead(Second)
    BY ONLY <1>6, <1>7, <2>1
  <2>4. FirstsTurn'
    BY ONLY <1>2, <1>5, <1>15, <2>2, <2>3 DEF FirstsTurn, FirstAt, SecondAt
  <2> QED
    BY <1>7, <1>13, <1>15, <2>1, <2>4
<1>16. CASE pc[First] \notin Unstarted /\ pc[Second] # "none" /\ FirstReleases /\ t = First
  <2>1. /\ code[First].at = "thread1" /\ Ahead(First) = Wakes2 /\ Ahead(t) = Wakes2
        /\ Released(0, 1)'
    BY ONLY <1>2, <1>7, <1>9, <1>16 DEF FirstReleases, FirstPassed, FirstAt, Released
  <2>2. Ahead(First)' = <<>> /\ Ahead(Second)' = Ahead(Second)
    BY ONLY <1>6, <1>9, <1>16, <2>1
  <2>3. FirstReleases'
    BY ONLY <1>2, <1>5, <1>16, <2>1, <2>2 DEF FirstReleases, FirstAt, SecondAt
  <2> QED
    BY <1>9, <1>13, <1>16, <2>1, <2>3
<1>17. CASE pc[First] \notin Unstarted /\ pc[Second] # "none" /\ FirstReleases /\ t = Second
  <2>1. ~FirstAt("thread1", <<>>)
    BY <1>1, <1>2, <1>17, FirstAway DEF FirstAt
  <2>2. Ahead(t) = Waits2 /\ FirstPassed /\ Released(0, 0)'
    BY ONLY <1>8, <1>17, <2>1 DEF FirstReleases, SecondAt, Released
  <2>3. Ahead(First)' = Ahead(First) /\ Ahead(Second)' = <<>>
    BY ONLY <1>6, <1>8, <1>17, <2>2
  <2>4. SecondsTurn'
    BY ONLY <1>2, <1>5, <1>17, <2>2, <2>3
       DEF FirstReleases, SecondsTurn, FirstPassed, FirstAt, SecondAt
  <2> QED
    BY <1>8, <1>13, <1>17, <2>2, <2>4
<1>18. ~FirstTests /\ ~SecondsTurn /\ ~Finished
  BY ONLY <1>2, <1>5, <1>7
     DEF FirstTests, SecondsTurn, Finished, FirstPassed, FirstAt, SecondAt, Released
<1> QED
  BY <1>5, <1>12, <1>14, <1>15, <1>16, <1>17, <1>18 DEF CountIInv, CountTurns

(* Every second number is odd. *)
LEMMA OneMoreParity ==
  ASSUME NEW n \in Nat
  PROVE  n % 2 \in {0, 1} /\ (n + 1) % 2 = 1 - (n % 2)
OBVIOUS

(* What a thread of sem_count.c computes: its code and its calls. *)
CountMove(t) ==
  \/ /\ code[t].at = "thread1 start" /\ code'[t].at = "thread1"
     /\ code'[Second].at = "thread2" /\ \A u \in Thread \ {t, Second} : code'[u] = code[u]
     /\ Ahead(t)' = Creates /\ data' = data /\ out' = out
  \/ /\ \A u \in Thread \ {t} : code'[u] = code[u]
     /\ \/ /\ code[t].at = "thread1" /\ data < max
           /\ code'[t].at = "thread1 woken" /\ Ahead(t)' = Waits1
           /\ data' = data /\ out' = out
        \/ /\ code[t].at = "thread1 woken"
           /\ code'[t].at = "thread1" /\ Ahead(t)' = Wakes2
           /\ data' = data + 1 /\ out' = Append(out, data)
        \/ /\ code[t].at = "thread2" /\ data < max
           /\ code'[t].at = "thread2" /\ Ahead(t)' = Handover
           /\ data' = data + 1 /\ out' = Append(out, data)
        \/ /\ code[t].at \in {"thread1", "thread2"} /\ data >= max
           /\ code'[t].at = "end" /\ Ahead(t)' = <<>>
           /\ data' = data /\ out' = out

(* A segment is one of these. *)
LEMMA CountCode ==
  ASSUME AppBase, CountIInv, NEW t \in Thread, CountStep(t), Segments(t)
  PROVE  /\ code' \in [Thread -> [at : CountLabels]]
         /\ CountMove(t)
<1>1. /\ code \in [Thread -> [at : CountLabels]] /\ todo \in [Thread -> Seq(AnyCall)]
      /\ Ahead(t)' = todo'[t] /\ Second \in Thread
  BY PoolBegins DEF AppBase, SemIInv, SemTypeOK, CountIInv, Segments
<1>2. \A l \in CountLabels : To(t, l) = [at |-> l]
  BY <1>1 DEF To
<1>3. ASSUME NEW l \in CountLabels, NEW calls, Segment(t, To(t, l), calls)
      PROVE  /\ code' \in [Thread -> [at : CountLabels]] /\ code'[t].at = l
             /\ \A u \in Thread \ {t} : code'[u] = code[u]
             /\ Ahead(t)' = calls
  BY <1>1, <1>2, <1>3 DEF Segment
<1>4. CASE InCode(t, "thread1 start") /\ UNCHANGED <<data, out>>
           /\ Creating(t, To(t, "thread1"), <<>>, Pool[2], [at |-> "thread2"])
  <2>1. /\ code' = [code EXCEPT ![t] = [at |-> "thread1"], ![Second] = [at |-> "thread2"]]
        /\ todo'[t] = Append(<<>>, Do("create", Second))
    BY <1>1, <1>2, <1>4 DEF Creating, CountLabels, Second
  <2>2. Second # t
    BY <1>4, PoolBegins
       DEF CountIInv, CountTurns, BeforeCreation, FirstTests, SecondsTurn, SecondReleases,
           FirstsTurn, FirstReleases, Finished, SecondAt, InCode
  <2>3. Append(<<>>, Do("create", Second)) = Creates
    BY DEF Creates
  <2> QED
    BY <1>1, <1>4, <2>1, <2>2, <2>3 DEF InCode, CountLabels, CountMove
<1>5. CASE InCode(t, "thread1") /\ data < max /\ UNCHANGED <<data, out>>
           /\ Segment(t, To(t, "thread1 woken"), <<Down(<<"sem", 1>>)>>)
  BY <1>3, <1>5 DEF InCode, CountLabels, Waits1, Sem1, CountMove
<1>6. CASE InCode(t, "thread1 woken") /\ Prints(t, To(t, "thread1"), <<Up(<<"sem", 2>>)>>)
  BY <1>3, <1>6 DEF InCode, CountLabels, Wakes2, Sem2, Prints, CountMove
<1>7. CASE InCode(t, "thread2") /\ data < max /\ Prints(t, To(t, "thread2"), Handover)
  BY <1>3, <1>7 DEF InCode, CountLabels, Prints, CountMove
<1>8. CASE /\ InCode(t, "thread1") \/ InCode(t, "thread2")
           /\ data >= max
           /\ Segment(t, End, <<>>) /\ UNCHANGED <<data, out>>
  <2>1. End = To(t, "end")
    BY <1>2 DEF End, CountLabels
  <2> QED
    BY <1>3, <1>8, <2>1 DEF InCode, CountLabels, CountMove
<1> QED
  BY <1>4, <1>5, <1>6, <1>7, <1>8 DEF CountStep

(* A segment moves the turns on. *)
LEMMA CountSegment ==
  ASSUME AppBase, ~Preempts, CountIInv, NEW t \in Thread, CountStep(t), Segments(t),
         UNCHANGED <<app, max>>
  PROVE  CountIInv'
<1>1. First \in Thread /\ Second \in Thread /\ First # Second /\ LastCalls
  BY PoolBegins, CountCallsAre
<1>2. /\ cpu = t /\ pc[t] = "run" /\ pc' = pc /\ tokens' = tokens /\ app' = app /\ max' = max
      /\ Ahead(t) = <<>> /\ \A u \in Thread \ {t} : Ahead(u)' = Ahead(u)
  BY DEF Segments
<1>3. /\ code' \in [Thread -> [at : CountLabels]] /\ CountMove(t)
      /\ t = First => Ahead(Second)' = Ahead(Second)
      /\ t = Second => Ahead(First)' = Ahead(First)
  BY <1>1, <1>2, CountCode
<1>4. /\ Parity \in {0, 1} /\ (data' = data => Parity' = Parity)
      /\ (data' = data + 1 => Parity' = 1 - Parity)
  BY OneMoreParity DEF CountIInv, Parity
<1>5. /\ data \in Nat /\ max \in Nat /\ data <= max + (max % 2) /\ out = Numbers(data)
      /\ \A u \in Thread \ {First, Second} : Ahead(u) = <<>> /\ code[u].at = "end"
      /\ app = "count" /\ Parity = data % 2
  BY DEF CountIInv, Parity
<1>6. \/ data' = data /\ out' = out
      \/ data' = data + 1 /\ out' = Append(out, data)
  BY ONLY <1>3 DEF CountMove
<1>7. data' \in Nat /\ out' = Numbers(data')
  <2>1. Append(out, data) = Numbers(data + 1)
    BY <1>5, OneMoreNumber
  <2> QED
    BY ONLY <1>5, <1>6, <2>1
<1>8. pc[t] \notin Unstarted /\ pc[t] # "none"
  BY <1>2 DEF Unstarted
<1>13. code[Second].at \in {"thread2", "end"} /\ code[First].at # "thread2"
  BY ONLY CountIInv
     DEF CountIInv, CountTurns, BeforeCreation, FirstTests, SecondsTurn, SecondReleases,
         FirstsTurn, FirstReleases, Finished, FirstPassed, FirstAt, SecondAt
<1>9. CASE code[t].at = "thread1 start"
  <2>1. t = First /\ BeforeCreation /\ code[First].at = "thread1 start"
    <3>1. t = First
      BY <1>5, <1>9, <1>13
    <3> QED
      BY ONLY <1>9, <3>1, CountIInv
         DEF CountIInv, CountTurns, FirstTests, SecondsTurn, SecondReleases,
             FirstsTurn, FirstReleases, Finished, FirstPassed, FirstAt
  <2>2. /\ code'[First].at = "thread1" /\ code'[Second].at = "thread2"
        /\ \A u \in Thread \ {t, Second} : code'[u] = code[u]
        /\ Ahead(t)' = Creates /\ data' = data
    BY ONLY <1>3, <1>9, <2>1 DEF CountMove
  <2>3. Ahead(First)' = Creates /\ Ahead(Second)' = Ahead(Second)
    BY <1>3, <2>1, <2>2
  <2>4. BeforeCreation'
    BY ONLY <1>2, <1>8, <2>1, <2>2, <2>3 DEF BeforeCreation, FirstAt, SecondAt, Released
  <2>5. \A u \in (Thread \ {First, Second})' : Ahead(u)' = <<>> /\ code'[u].at = "end"
    BY ONLY <1>1, <1>2, <1>5, <2>1, <2>2 DEF Second
  <2> QED
    BY ONLY <1>2, <1>3, <1>5, <1>7, <2>2, <2>4, <2>5 DEF CountIInv, CountTurns, Numbers
<1>10. ASSUME t \in {First, Second}, pc[First] \notin Unstarted, pc[Second] # "none",
              \A u \in Thread \ {t} : code'[u] = code[u],
              data' <= max + (max % 2),
              SecondsTurn' \/ SecondReleases' \/ FirstReleases' \/ Finished'
      PROVE  CountIInv'
  <2>1. \A u \in (Thread \ {First, Second})' : Ahead(u)' = <<>> /\ code'[u].at = "end"
    BY <1>1, <1>2, <1>5, <1>10 DEF Second
  <2> QED
    BY ONLY <1>2, <1>3, <1>5, <1>7, <1>10, <2>1 DEF CountIInv, CountTurns, Numbers
<1>11. CASE code[t].at \in {"thread1", "thread1 woken"}
  <2>1. t = First
    BY <1>5, <1>11, <1>13
  <2>2. /\ \A u \in Thread \ {t} : code'[u] = code[u]
        /\ \/ /\ code[First].at = "thread1" /\ data < max
              /\ code'[First].at = "thread1 woken" /\ Ahead(t)' = Waits1 /\ data' = data
           \/ /\ code[First].at = "thread1 woken"
              /\ code'[First].at = "thread1" /\ Ahead(t)' = Wakes2 /\ data' = data + 1
           \/ /\ code[First].at = "thread1" /\ data >= max
              /\ code'[First].at = "end" /\ Ahead(t)' = <<>> /\ data' = data
    BY ONLY <1>3, <1>11, <2>1 DEF CountMove
  <2>3. code'[Second] = code[Second] /\ Ahead(Second)' = Ahead(Second)
    BY <1>1, <1>3, <2>1, <2>2
  <2>4. CASE code[First].at = "thread1 woken"
    <3>1. FirstsTurn /\ Released(0, 0) /\ pc[First] \notin Unstarted /\ pc[Second] # "none"
      BY ONLY CountIInv, <1>1, <1>2, <2>1, <2>4
         DEF CountIInv, CountTurns, BeforeCreation, FirstTests, SecondsTurn, SecondReleases,
             FirstsTurn, FirstReleases, Finished, FirstPassed, FirstAt, LastCalls
    <3>2. Parity = 1 /\ data <= max
      BY <3>1 DEF FirstsTurn
    <3>3. data' = data + 1 /\ Parity' = 0 /\ Ahead(First)' = Wakes2 /\ code'[First].at = "thread1"
      <4>1. data' = data + 1 /\ Ahead(t)' = Wakes2 /\ code'[First].at = "thread1"
        BY ONLY <2>2, <2>4
      <4> QED
        BY ONLY <1>4, <2>1, <3>2, <4>1
    <3>4. FirstReleases'
      BY ONLY <1>2, <2>3, <3>1, <3>3 DEF FirstsTurn, FirstReleases, FirstAt, SecondAt, Released
    <3>5. data' <= max + (max % 2)
      BY ONLY <1>5, <3>2, <3>3
    <3> QED
      BY ONLY <1>10, <2>1, <2>2, <3>1, <3>4, <3>5
  <2>5. CASE code[First].at = "thread1"
    <3>1. data' = data /\ Parity' = Parity /\ data' <= max + (max % 2)
      BY <1>4, <1>5, <2>2, <2>5
    <3>2. FirstPassed'
      BY ONLY <1>2, <2>1, <2>2, <2>5, <3>1 DEF FirstPassed, FirstAt
    <3>3. /\ pc[First] \notin Unstarted /\ pc[Second] # "none"
          /\ FirstTests \/ (FirstReleases /\ Released(0, 1))
      BY ONLY CountIInv, <1>1, <1>2, <2>1, <2>5
         DEF CountIInv, CountTurns, BeforeCreation, FirstTests, SecondsTurn, SecondReleases,
             FirstsTurn, FirstReleases, Finished, FirstPassed, FirstAt, LastCalls
    <3>4. FirstTests => Parity = 0
      BY DEF FirstTests, Parity
    <3>5. SecondsTurn' \/ FirstReleases'
      BY ONLY <1>2, <2>3, <3>1, <3>2, <3>3, <3>4
         DEF FirstTests, SecondsTurn, FirstReleases, SecondAt, Released
    <3> QED
      BY ONLY <1>10, <2>1, <2>2, <3>1, <3>3, <3>5
  <2> QED
    BY <1>11, <2>1, <2>4, <2>5
<1>12. CASE code[t].at = "thread2"
  <2>1. t = Second /\ cpu # First
    BY <1>1, <1>2, <1>5, <1>12, <1>13
  <2>2. SecondsTurn /\ pc[First] \notin Unstarted /\ pc[Second] # "none"
    <3>1. ~(FirstTests /\ pc[First] \notin Unstarted)
      BY <2>1, FirstAway DEF FirstTests, FirstAt
    <3> QED
      BY ONLY CountIInv, <1>1, <1>2, <1>8, <1>12, <2>1, <3>1
         DEF CountIInv, CountTurns, BeforeCreation, SecondsTurn, SecondReleases,
             FirstsTurn, FirstReleases, Finished, SecondAt, LastCalls
  <2>3. /\ \A u \in Thread \ {t} : code'[u] = code[u]
        /\ \/ /\ data < max /\ code'[Second].at = "thread2" /\ Ahead(t)' = Handover
              /\ data' = data + 1
           \/ data >= max /\ code'[Second].at = "end" /\ Ahead(t)' = <<>> /\ data' = data
    BY ONLY <1>3, <1>12, <2>1 DEF CountMove
  <2>4. code'[First] = code[First] /\ Ahead(First)' = Ahead(First)
    BY <1>1, <1>3, <2>1, <2>3
  <2>5. CASE data < max
    <3>1. data' = data + 1 /\ data' <= max /\ Parity' = 1 /\ data' <= max + (max % 2)
      BY <1>4, <1>5, <2>2, <2>3, <2>5 DEF SecondsTurn
    <3>2. Ahead(Second)' = Handover /\ code'[Second].at = "thread2"
      BY <1>5, <2>1, <2>3, <2>5
    <3>5. ~(data >= max)
      BY ONLY <1>5, <2>5
    <3>4. FirstAt("thread1 woken", Waits1) /\ Released(0, 0)
      BY ONLY <2>2, <3>5 DEF SecondsTurn, FirstPassed
    <3>3. SecondReleases'
      BY ONLY <1>2, <2>4, <3>1, <3>2, <3>4
         DEF SecondReleases, FirstAt, SecondAt, Released
    <3> QED
      BY ONLY <1>10, <2>1, <2>2, <2>3, <3>1, <3>3
  <2>6. CASE data >= max
    <3>1. data' = data /\ Parity' = Parity /\ data' <= max + (max % 2)
      BY <1>4, <1>5, <2>3, <2>6
    <3>2. Ahead(Second)' = <<>> /\ code'[Second].at = "end"
      BY <1>5, <2>1, <2>3, <2>6
    <3>5. ~(data < max)
      BY ONLY <1>5, <2>6
    <3>4. FirstAt("end", <<>>) /\ Released(0, 0) /\ Parity = 0
      BY ONLY <2>2, <3>5 DEF SecondsTurn, FirstPassed
    <3>3. Finished'
      BY ONLY <1>2, <2>4, <2>6, <3>1, <3>2, <3>4
         DEF Finished, FirstAt, SecondAt, Released
    <3> QED
      BY ONLY <1>10, <2>1, <2>2, <2>3, <3>1, <3>3
  <2> QED
    BY <1>5, <2>5, <2>6
<1> QED
  BY ONLY <1>3, <1>9, <1>11, <1>12 DEF CountMove

-----------------------------------------------------------------------------
(* What holds of each program whatever it computes. *)

(* A program that neither gives up the processor nor creates semaphores. *)
Plain ==
  \A t \in Thread : Ahead(t) # <<>> => Head(Ahead(t)).op \notin {"yield", "sem_create"}

(* It cannot break the discipline of the semaphores. *)
LEMMA PlainIsFresh ==
  ASSUME Plain
  PROVE  NeverYields /\ Fresh
<1>1. ASSUME NEW t \in Thread, NEW op, Calls(t, op)
      PROVE  Ahead(t) # <<>> /\ Head(Ahead(t)).op = op
  BY <1>1 DEF Calls, At, Ahead
<1> QED
  BY <1>1 DEF Plain, NeverYields, Fresh

(* In the next state too, no more is taken than was released. *)
LEMMA NextCovers == SemIInv' /\ Exact' => NoOvertake'
<1>1. SemIInv /\ Exact => NoOvertake
  BY ExactCovers
<1> QED
  BY <1>1, PTL

(* A segment of a thread keeps what can be said of every thread. *)
LEMMA SegmentStages ==
  ASSUME AppBase, NEW t \in Thread, Segments(t),
         \A u \in Thread \ {t} : pc[u] \in Over => code'[u].at = code[u].at
  PROVE  Stages'
<1>1. /\ pc' = pc /\ pc[t] \notin Over /\ \A u \in Thread \ {t} : Ahead(u)' = Ahead(u)
  BY DEF Segments, Over
<1>2. \A u \in Thread : pc[u] \in Over => Ahead(u)' = <<>> /\ code'[u].at = "end"
  BY <1>1 DEF AppBase, Stages
<1>3. pc'[Idle] # "start" => pc'[First] # "none"
  BY <1>1 DEF AppBase, Stages
<1> QED
  BY ONLY <1>1, <1>2, <1>3 DEF Stages

(* The programs begin so. *)
LEMMA AppBegins ==
  ASSUME AppInit, ~Preempts, todo \in [Thread -> Seq(AnyCall)]
  PROVE  AppBase
<1>1. SemStart /\ SemIInv /\ Exact
  BY StartSemIInv, InitExact DEF AppInit, Discipline
<1>2. pc[Idle] = "start" /\ \A t \in Thread : pc[t] = "none"
  BY <1>1 DEF SemStart, InitSched
<1> QED
  BY <1>1, <1>2 DEF AppBase, Undisturbed, Stages, Over

-----------------------------------------------------------------------------
(* The output of sem_count.c. *)

(* It makes no other calls. *)
LEMMA CountPlain ==
  ASSUME CountIInv
  PROVE  Plain
<1>1. CountCalls /\ LastCalls
  BY CountCallsAre
<1>2. Ahead(First) \in {<<>>, Waits1, Wakes2, Creates}
  BY ONLY CountIInv
     DEF CountIInv, CountTurns, BeforeCreation, FirstTests, SecondsTurn, SecondReleases,
         FirstsTurn, FirstReleases, Finished, FirstPassed, FirstAt, SecondAt
<1>3. Ahead(Second) \in {<<>>, Waits2, Handover}
  BY ONLY CountIInv
     DEF CountIInv, CountTurns, BeforeCreation, FirstTests, SecondsTurn, SecondReleases,
         FirstsTurn, FirstReleases, Finished, FirstPassed, FirstAt, SecondAt
<1>4. \A t \in Thread : Ahead(t) \in {<<>>, Waits1, Wakes2, Creates, Waits2, Handover}
  BY <1>2, <1>3 DEF CountIInv
<1> QED
  BY ONLY <1>1, <1>4 DEF Plain, CountCalls, LastCalls

(* The invariant holds when the program begins. *)
LEMMA CountBegins ==
  ASSUME AppInit, app = "count", ~Preempts
  PROVE  AppBase /\ CountIInv
<1>1. First \in Thread /\ Second \in Thread /\ First # Second /\ CountCalls
  BY PoolBegins, CountCallsAre
<1>2. todo = [t \in Thread |-> <<>>]
  BY DEF AppInit, Straight
<1>3. todo \in [Thread -> Seq(AnyCall)]
  BY <1>2
<1>4. AppBase
  BY <1>3, AppBegins
<1>5. /\ max \in Nat /\ data = 0 /\ out = <<>>
      /\ code = [t \in Thread |-> [at |-> IF t = First THEN "thread1 start" ELSE "end"]]
  BY AppAssumption DEF AppInit, Shared, Main
<1>6. /\ \A t \in Thread : pc[t] = "none"
      /\ tokens = InitCount
  BY DEF AppInit, SemStart, InitSched
<1>7. InitCount[Sem1] = 0 /\ InitCount[Sem2] = 0
  BY MainAssumption DEF Sem1, Sem2
<1>8. \A t \in Thread : Ahead(t) = <<>>
  BY <1>2, <1>6 DEF Ahead
<1>9. BeforeCreation
  BY ONLY <1>1, <1>5, <1>6, <1>7, <1>8 DEF BeforeCreation, FirstAt, SecondAt, Released
<1>10. Numbers(0) = <<>>
  BY DEF Numbers
<1>11. code \in [Thread -> [at : CountLabels]]
  BY <1>5 DEF CountLabels
<1>12. \A t \in Thread \ {First, Second} : Ahead(t) = <<>> /\ code[t].at = "end"
  BY <1>5, <1>8
<1>13. 0 <= max + (max % 2)
  <2>1. max \in Nat
    BY <1>5
  <2>2. max % 2 \in {0, 1}
    BY ONLY <2>1, OneMoreParity
  <2> QED
    BY ONLY <2>1, <2>2
<1> QED
  BY ONLY <1>4, <1>5, <1>9, <1>10, <1>11, <1>12, <1>13, app = "count" DEF CountIInv, CountTurns

(* Each step of the program keeps it. *)
LEMMA CountNext ==
  ASSUME AppBase, CountIInv, ~Preempts, [AppNext]_everyVar
  PROVE  AppBase' /\ CountIInv'
<1>1. NeverYields /\ Fresh /\ app = "count"
  BY CountPlain, PlainIsFresh DEF CountIInv
<1>2. ASSUME NEW t \in Thread, Programmed(t)
      PROVE  CountStep(t)
  BY <1>1, <1>2 DEF Programmed
<1>3. ASSUME NEW t \in Thread, Programmed(t),
             UNCHANGED <<vars, count, waitq, alive, tokens, app, max>>
      PROVE  todo' \in [Thread -> Seq(AnyCall)]
  <2>1. Segments(t) /\ \E calls : todo' = [todo EXCEPT ![t] = calls]
    BY <1>3, ProgrammedComputes DEF AppBase
  <2>2. CountMove(t) /\ CountCalls
    BY <1>2, <1>3, <2>1, CountCode, CountCallsAre
  <2>3. todo'[t] \in {Creates, Waits1, Wakes2, Handover, <<>>}
    BY ONLY <2>1, <2>2 DEF CountMove, Segments
  <2>4. {Creates, Waits1, Wakes2, Handover, <<>>} \subseteq Seq(AnyCall)
    BY ONLY <2>2 DEF CountCalls, Creates, Waits1, Wakes2, Handover, Sem1, Sem2
  <2>5. todo \in [Thread -> Seq(AnyCall)]
    BY DEF AppBase, SemIInv, SemTypeOK
  <2> QED
    BY ONLY <2>1, <2>3, <2>4, <2>5, t \in Thread
<1>4. SemIInv' /\ Exact' /\ NoOvertake'
  BY <1>1, <1>3, AppKeeps, NextCovers DEF AppBase
<1>5. /\ \E S : Forward(S)
      /\ Undisturbed'
      /\ \/ Passes /\ Stages'
         \/ Stages' /\ \E t \in Thread, c \in AnyCall : Serves(t, c)
         \/ \E t \in Thread : Segments(t) /\ Programmed(t) /\ UNCHANGED <<app, max>>
  BY <1>1, AppEffect DEF AppBase
<1>6. CASE Passes /\ Stages'
  BY <1>4, <1>5, <1>6, CountPasses DEF AppBase
<1>7. ASSUME NEW t \in Thread, NEW c \in AnyCall, Serves(t, c), Stages'
      PROVE  AppBase' /\ CountIInv'
  BY <1>4, <1>5, <1>7, CountServes DEF AppBase
<1>8. ASSUME NEW t \in Thread, Segments(t), Programmed(t), UNCHANGED <<app, max>>
      PROVE  AppBase' /\ CountIInv'
  <2>1. CountIInv' /\ CountMove(t)
    BY <1>2, <1>8, CountSegment, CountCode
  <2>2. ASSUME NEW u \in Thread \ {t}, pc[u] \in Over PROVE code'[u].at = code[u].at
    <3>1. CASE \A v \in Thread \ {t} : code'[v] = code[v]
      BY <2>2, <3>1
    <3>2. CASE code[t].at = "thread1 start"
      <4>1. pc[Second] = "none"
        <5>1. t = First
          BY ONLY <1>8, <3>2, CountIInv
             DEF CountIInv, CountTurns, BeforeCreation, FirstTests, SecondsTurn,
                 SecondReleases, FirstsTurn, FirstReleases, Finished, SecondAt
        <5> QED
          BY ONLY <3>2, <5>1, CountIInv
             DEF CountIInv, CountTurns, BeforeCreation, FirstTests, SecondsTurn,
                 SecondReleases, FirstsTurn, FirstReleases, Finished, FirstPassed, FirstAt
      <4>2. u # Second
        BY <2>2, <4>1 DEF Over
      <4> QED
        BY ONLY <2>1, <2>2, <3>2, <4>2 DEF CountMove
    <3> QED
      BY ONLY <2>1, <3>1, <3>2 DEF CountMove
  <2>3. Stages'
    BY <1>8, <2>2, SegmentStages
  <2> QED
    BY <1>4, <1>5, <2>1, <2>3 DEF AppBase
<1> QED
  BY <1>5, <1>6, <1>7, <1>8

(* When it returns it has counted to the end. *)
LEMMA CountEnds ==
  ASSUME AppBase, CountIInv, pc[Idle] = "returned"
  PROVE  data = max + (max % 2)
<1>1. First \in Thread /\ Second \in Thread /\ LastCalls /\ CountCalls
  BY PoolBegins, CountCallsAre
<1>2. pc[First] # "none"
  BY DEF AppBase, Stages
<1>3. \A t \in {First, Second} : pc[t] # "none" =>
         \/ Ahead(t) = <<>> /\ code[t].at = "end"
         \/ /\ Ahead(t) # <<>> /\ Head(Ahead(t)).op = "sem_down"
            /\ tokens[Head(Ahead(t)).arg] = 0
  BY <1>1, AtReturn DEF AppBase
<1>4. ~BeforeCreation
  BY ONLY <1>1, <1>2, <1>3 DEF BeforeCreation, FirstAt, LastCalls, CountCalls
<1>5. pc[Second] # "none"
  BY <1>4 DEF CountIInv, CountTurns
<1>6. ~FirstTests /\ ~SecondsTurn
  BY ONLY <1>2, <1>3, <1>5 DEF FirstTests, SecondsTurn, FirstAt, SecondAt
<1>7. ~SecondReleases
  BY ONLY <1>1, <1>3, <1>5 DEF SecondReleases, SecondAt, LastCalls, CountCalls
<1>8. ~FirstsTurn
  <2>1. CASE FirstAt("thread1 woken", Waits1) /\ Released(1, 0)
    <3>1. Ahead(First) # <<>> /\ Head(Ahead(First)).arg = Sem1
      BY ONLY <1>1, <2>1 DEF FirstAt, LastCalls, CountCalls
    <3>2. tokens[Sem1] = 0
      BY ONLY <1>2, <1>3, <3>1
    <3>3. tokens[Sem1] = 1
      BY ONLY <2>1 DEF Released
    <3> QED
      BY ONLY <3>2, <3>3
  <2>2. CASE FirstAt("thread1 woken", <<>>)
    BY ONLY <1>2, <1>3, <2>2 DEF FirstAt
  <2> QED
    BY <2>1, <2>2 DEF FirstsTurn
<1>9. ~FirstReleases
  <2>1. CASE FirstAt("thread1", Wakes2)
    BY ONLY <1>1, <1>2, <1>3, <2>1 DEF FirstAt, LastCalls, CountCalls
  <2>2. CASE Released(0, 1) /\ SecondAt("thread2", Waits2)
    BY ONLY <1>1, <1>3, <1>5, <2>2 DEF SecondAt, LastCalls, CountCalls, Released
  <2> QED
    BY <2>1, <2>2 DEF FirstReleases
<1>10. /\ Parity = 0 /\ data >= max
       /\ data \in Nat /\ max \in Nat /\ data <= max + (max % 2)
  BY <1>4, <1>6, <1>7, <1>8, <1>9 DEF CountIInv, CountTurns, Finished
<1> QED
  BY ONLY <1>10 DEF Parity

(* So what it prints is what it is to print. *)
LEMMA CountOutput ==
  ASSUME AppBase, CountIInv
  PROVE  AppOutput
<1>1. /\ data \in Nat /\ max \in Nat /\ data <= max + (max % 2) /\ max % 2 \in {0, 1}
      /\ out = Numbers(data) /\ app = "count"
  BY OneMoreParity DEF CountIInv
<1>2. Expected = Numbers(max + (max % 2))
  BY <1>1 DEF Expected, Overrun
<1>3. max + (max % 2) \in Nat
  BY <1>1
<1>4. out = SubSeq(Expected, 1, Len(out))
  BY ONLY <1>1, <1>2, <1>3, FirstNumbers
<1>5. pc[Idle] = "returned" => out = Expected
  BY <1>1, <1>2, CountEnds
<1> QED
  BY <1>4, <1>5 DEF AppOutput

(* Without the timer sem_count.c prints, for every number it counts to,    *)
(* the numbers in their order and all of them before uthread_start()       *)
(* returns, and one number more when it is told an odd one: it stops at no *)
(* other place.                                                            *)
THEOREM CountPrintsAll == ~Preempts => (AppSpec /\ app = "count" => []AppOutput)
<1> SUFFICES ASSUME ~Preempts PROVE AppSpec /\ app = "count" => []AppOutput
  OBVIOUS
<1>1. AppInit /\ app = "count" => AppBase /\ CountIInv
  BY CountBegins
<1>2. AppBase /\ CountIInv /\ [AppNext]_everyVar => AppBase' /\ CountIInv'
  BY CountNext
<1>3. AppBase /\ CountIInv => AppOutput
  BY CountOutput
<1> QED
  BY <1>1, <1>2, <1>3, PTL DEF AppSpec

-----------------------------------------------------------------------------
(* sem_buffer.c: the first thread produces, the second consumes. *)

(* The calls of a segment, and what is left of them. *)
Claims == <<Down(Full)>>
Takes == <<Down(Empty)>>
Locks == <<Down(Mutex)>>
Announces == <<Up(Empty)>>
Returns == <<Up(Full)>>
PutsOut == <<Up(Mutex), Up(Empty)>>
TakesOut == <<Up(Mutex), Up(Full)>>

(* A producer that is at a in its code, with the calls f ahead, and counts *)
(* to m: what it has put, how many places it has claimed and numbers it    *)
(* has announced, and whether it holds the mutex.                          *)
Producing == [at : {"producer start", "producer", "put", "put in"}, count : Nat]
PutBy(a, m) == IF a.at = "end" THEN m ELSE a.count
InPut(a, f) == a.at = "put" /\ f = <<>>
Unannounced(a, f) == a.at = "put in" \/ (a.at = "producer" /\ f \in {PutsOut, Announces})
Claimed(a, f, m) == PutBy(a, m) + (IF InPut(a, f) THEN 1 ELSE 0)
Announced(a, f, m) == PutBy(a, m) - (IF Unannounced(a, f) THEN 1 ELSE 0)
Locked(a, f) ==
  IF (a.at = "put in" /\ f = <<>>) \/ (a.at = "producer" /\ f = PutsOut) THEN 1 ELSE 0
Producer(a, f, m) ==
  /\ a \in Producing \cup {End}
  /\ PutBy(a, m) <= m /\ (a.at = "put" => PutBy(a, m) < m)
  /\ a.at \in {"producer start", "end"} => f = <<>>
  /\ a.at = "producer" => f \in {Creates, PutsOut, Announces, <<>>}
  /\ a.at = "put" => f \in {Claims, <<>>}
  /\ a.at = "put in" => f \in {Locks, <<>>}

(* A consumer that is at b, with the calls s ahead, and has taken k of the *)
(* m: how many it has accepted and places it has returned, whether it      *)
(* holds the mutex, and that it never means to take more than there will   *)
(* be.                                                                     *)
Consuming == [at : {"consumer", "take", "taken"}, out : Nat, left : Nat]
Accepted(b, s, k) == k + (IF b.at = "take" /\ s = <<>> THEN 1 ELSE 0)
Restored(b, s, k) ==
  k - (IF b.at = "taken" \/ (b.at = "consumer" /\ s # <<>>) THEN 1 ELSE 0)
Holds(b, s) ==
  IF (b.at = "taken" /\ s = <<>>) \/ (b.at = "consumer" /\ s = TakesOut) THEN 1 ELSE 0
Consumer(b, s, k, m) ==
  /\ b \in Consuming /\ b.out = (IF k = 0 THEN 0 ELSE k - 1)
  /\ b.left + k <= m + (IF b.at = "taken" THEN 1 ELSE 0)
  /\ m = 1 => k = 0 /\ b.left = 0
  /\ b.at = "consumer" => s \in {TakesOut, Returns, <<>>}
  /\ b.at = "take" => s \in {Takes, <<>>} /\ b.left > 0
  /\ b.at = "taken" => s \in {Locks, <<>>} /\ b.left > 0
Last(m) == IF m = 1 THEN 0 ELSE m
Consumed(b, s, k, m) ==
  Consumer(b, s, k, m) \/ (b = End /\ s = <<>> /\ k = Last(m))

(* The buffer holds what was put and not taken, from the tail on. *)
Taken == Len(out)
Put == PutBy(code[First], max)
Slot(tail, j) == IF tail + j < BufferSize THEN tail + j ELSE tail + j - BufferSize
Holding(d, n, k) ==
  /\ d \in [buffer : [0 .. BufferSize - 1 -> Nat], size : Int,
            head : 0 .. BufferSize - 1, tail : 0 .. BufferSize - 1]
  /\ d.head = Slot(d.tail, n - k)
  /\ \A j \in Nat : j < n - k => d.buffer[Slot(d.tail, j)] = k + j

(* The consumer exists when the producer has created it. *)
Starting ==
  /\ pc[Second] = "none" <=> (code[First].at = "producer start" \/ Ahead(First) = Creates)
  /\ code[First].at = "producer start" =>
       code[Second] = End /\ Ahead(Second) = <<>> /\ Taken = 0
  /\ Ahead(First) = Creates => code[Second].at = "consumer" /\ Ahead(Second) = <<>>
  /\ code[First].at # "producer start" =>
       Consumed(code[Second], Ahead(Second), Taken, max)

(* The semaphores count what the two have done. *)
Balance ==
  /\ tokens[Full] = BufferSize - Claimed(code[First], Ahead(First), max)
                      + Restored(code[Second], Ahead(Second), Taken)
  /\ tokens[Empty] = Announced(code[First], Ahead(First), max)
                       - Accepted(code[Second], Ahead(Second), Taken)
  /\ tokens[Mutex] = 1 - Locked(code[First], Ahead(First)) - Holds(code[Second], Ahead(Second))

BufferIInv ==
  /\ app = "buffer" /\ max \in Nat \ {0} /\ Taken \in Nat /\ out = Numbers(Taken)
  /\ code \in [Thread -> Producing \cup Consuming \cup {End}]
  /\ \A t \in Thread \ {First, Second} : Ahead(t) = <<>> /\ code[t] = End
  /\ Producer(code[First], Ahead(First), max)
  /\ Starting /\ Balance /\ Holding(data, Put, Taken)

(* What the calls of sem_buffer.c are. *)
BufferCalls ==
  LET c == Do("create", Second)
  IN  /\ Full \in Semaphore /\ Empty \in Semaphore /\ Mutex \in Semaphore
      /\ Full # Empty /\ Full # Mutex /\ Empty # Mutex
      /\ \A s \in {Full, Empty, Mutex} :
           /\ Up(s) \in AnyCall /\ Up(s).op = "sem_up" /\ Up(s).arg = s
           /\ Down(s) \in AnyCall /\ Down(s).op = "sem_down" /\ Down(s).arg = s
      /\ c \in AnyCall /\ c.op = "create" /\ c.arg = Second
BufferLists ==
  /\ Claims # <<>> /\ Head(Claims) = Down(Full) /\ Tail(Claims) = <<>>
  /\ Takes # <<>> /\ Head(Takes) = Down(Empty) /\ Tail(Takes) = <<>>
  /\ Locks # <<>> /\ Head(Locks) = Down(Mutex) /\ Tail(Locks) = <<>>
  /\ Announces # <<>> /\ Head(Announces) = Up(Empty) /\ Tail(Announces) = <<>>
  /\ Returns # <<>> /\ Head(Returns) = Up(Full) /\ Tail(Returns) = <<>>
  /\ PutsOut # <<>> /\ Head(PutsOut) = Up(Mutex) /\ Tail(PutsOut) = Announces
  /\ TakesOut # <<>> /\ Head(TakesOut) = Up(Mutex) /\ Tail(TakesOut) = Returns
  /\ Creates # <<>> /\ Head(Creates) = Do("create", Second) /\ Tail(Creates) = <<>>

(* They are so. *)
LEMMA BufferCallsAre == BufferCalls /\ BufferLists
<1>1. Full \in Semaphore /\ Empty \in Semaphore /\ Mutex \in Semaphore
  BY MainAssumption, SemAssumption
<1>2. Full # Empty /\ Full # Mutex /\ Empty # Mutex
  BY DEF Full, Empty, Mutex
<1>3. LET c == Do("create", Second)
      IN  c \in AnyCall /\ c.op = "create" /\ c.arg = Second
  BY PoolBegins DEF Do, AnyCall, LibraryCall
<1>4. BufferCalls
  BY <1>1, <1>2, <1>3, SemCalls DEF BufferCalls
<1>5. BufferLists
  BY OneCall, TwoCalls
     DEF BufferLists, Claims, Takes, Locks, Announces, Returns, PutsOut, TakesOut, Creates
<1> QED
  BY <1>4, <1>5

(* The calls of each list differ. *)
LEMMA ListsDiffer ==
  /\ Creates # PutsOut /\ Creates # Announces /\ PutsOut # Announces
  /\ Claims # Creates /\ Locks # Creates /\ TakesOut # Returns
<1>1. BufferCalls /\ BufferLists
  BY BufferCallsAre
<1>2. Creates # PutsOut /\ Creates # Announces /\ PutsOut # Announces
  BY ONLY <1>1 DEF BufferCalls, BufferLists
<1>3. Claims # Creates /\ Locks # Creates /\ TakesOut # Returns
  BY ONLY <1>1 DEF BufferCalls, BufferLists
<1> QED
  BY <1>2, <1>3

(* What a call gives to a semaphore. *)
Gives(c, s) == IF c = Up(s) THEN 1 ELSE IF c = Down(s) THEN -1 ELSE 0

(* The calls of the program give this. *)
GivesTable ==
  /\ Gives(Down(Full), Full) = -1 /\ Gives(Up(Full), Full) = 1
  /\ Gives(Down(Full), Empty) = 0 /\ Gives(Up(Full), Empty) = 0
  /\ Gives(Down(Full), Mutex) = 0 /\ Gives(Up(Full), Mutex) = 0
  /\ Gives(Down(Empty), Full) = 0 /\ Gives(Up(Empty), Full) = 0
  /\ Gives(Down(Empty), Empty) = -1 /\ Gives(Up(Empty), Empty) = 1
  /\ Gives(Down(Empty), Mutex) = 0 /\ Gives(Up(Empty), Mutex) = 0
  /\ Gives(Down(Mutex), Full) = 0 /\ Gives(Up(Mutex), Full) = 0
  /\ Gives(Down(Mutex), Empty) = 0 /\ Gives(Up(Mutex), Empty) = 0
  /\ Gives(Down(Mutex), Mutex) = -1 /\ Gives(Up(Mutex), Mutex) = 1
  /\ \A s \in {Full, Empty, Mutex} : Gives(Do("create", Second), s) = 0

(* It is so. *)
LEMMA GivesTableIs == GivesTable
<1>1. \A s \in {Full, Empty, Mutex}, u \in {Full, Empty, Mutex} :
        /\ Up(s) = Up(u) <=> s = u
        /\ Down(s) = Down(u) <=> s = u
        /\ Up(s) # Down(u)
        /\ Do("create", Second) # Up(s) /\ Do("create", Second) # Down(s)
  BY ONLY BufferCallsAre DEF BufferCalls
<1>2. Full # Empty /\ Full # Mutex /\ Empty # Mutex
  BY ONLY BufferCallsAre DEF BufferCalls
<1> QED
  BY ONLY <1>1, <1>2 DEF GivesTable, Gives

(* What a call of the program does to the three semaphores. *)
LEMMA BufferEffect ==
  ASSUME SemIInv, NEW c, Changes(c), NEW s \in {Full, Empty, Mutex},
         c \in {Up(Full), Up(Empty), Up(Mutex), Down(Full), Down(Empty), Down(Mutex),
                Do("create", Second)}
  PROVE  tokens'[s] = tokens[s] + Gives(c, s) /\ tokens[s] \in Int
<1>1. tokens \in [Semaphore -> Int] /\ BufferCalls /\ tokens[s] \in Int
  BY BufferCallsAre DEF SemIInv, SemTypeOK, BufferCalls
<1>2. ASSUME NEW u \in {Full, Empty, Mutex}, c = Up(u)
      PROVE  tokens' = [tokens EXCEPT ![u] = @ + 1]
  BY ONLY <1>1, <1>2, Changes(c) DEF Changes, BufferCalls
<1>3. ASSUME NEW u \in {Full, Empty, Mutex}, c = Down(u)
      PROVE  tokens' = [tokens EXCEPT ![u] = @ - 1]
  BY ONLY <1>1, <1>3, Changes(c) DEF Changes, BufferCalls
<1>4. CASE c = Do("create", Second)
  <2>1. tokens' = tokens
    BY ONLY <1>1, <1>4, Changes(c) DEF Changes, BufferCalls
  <2>2. Gives(c, s) = 0
    BY ONLY <1>4, GivesTableIs DEF GivesTable
  <2> QED
    BY <1>1, <2>1, <2>2
<1>5. ASSUME NEW u \in {Full, Empty, Mutex}, c = Up(u)
      PROVE  tokens'[s] = tokens[s] + Gives(c, s)
  <2>1. Gives(c, s) = IF u = s THEN 1 ELSE 0
    BY ONLY <1>1, <1>5, s \in {Full, Empty, Mutex} DEF Gives, BufferCalls
  <2>2. u \in Semaphore /\ s \in Semaphore
    BY ONLY <1>1, s \in {Full, Empty, Mutex}, u \in {Full, Empty, Mutex} DEF BufferCalls
  <2> QED
    BY ONLY <1>1, <1>2, <1>5, <2>1, <2>2
<1>6. ASSUME NEW u \in {Full, Empty, Mutex}, c = Down(u)
      PROVE  tokens'[s] = tokens[s] + Gives(c, s)
  <2>1. Gives(c, s) = IF u = s THEN -1 ELSE 0
    BY ONLY <1>1, <1>6, s \in {Full, Empty, Mutex} DEF Gives, BufferCalls
  <2>2. u \in Semaphore /\ s \in Semaphore
    BY ONLY <1>1, s \in {Full, Empty, Mutex}, u \in {Full, Empty, Mutex} DEF BufferCalls
  <2> QED
    BY ONLY <1>1, <1>3, <1>6, <2>1, <2>2
<1> QED
  BY ONLY <1>1, <1>4, <1>5, <1>6,
     c \in {Up(Full), Up(Empty), Up(Mutex), Down(Full), Down(Empty), Down(Mutex),
            Do("create", Second)}

(* A call of the producer keeps it one, and what it claims, announces and  *)
(* locks changes as the semaphores do.                                     *)
LEMMA ProducerCalls ==
  ASSUME NEW a, NEW f, NEW m \in Nat, Producer(a, f, m), f # <<>>
  PROVE  /\ Producer(a, Tail(f), m)
         /\ Head(f) \in {Down(Full), Down(Mutex), Up(Mutex), Up(Empty), Do("create", Second)}
         /\ Tail(f) # Creates
         /\ Claimed(a, Tail(f), m) = Claimed(a, f, m) - Gives(Head(f), Full)
         /\ Announced(a, Tail(f), m) = Announced(a, f, m) + Gives(Head(f), Empty)
         /\ Locked(a, Tail(f)) = Locked(a, f) - Gives(Head(f), Mutex)
         /\ a.at # "producer start"
         /\ f = Creates \/ (f # Creates /\ Head(f) # Do("create", Second))
<1>1. BufferLists /\ GivesTable
  BY BufferCallsAre, GivesTableIs
<1>2. /\ a \in Producing \cup {End} /\ PutBy(a, m) <= m /\ (a.at = "put" => PutBy(a, m) < m)
      /\ a.at \notin {"producer start", "end"}
      /\ a.at = "producer" => f \in {Creates, PutsOut, Announces}
      /\ a.at = "put" => f = Claims
      /\ a.at = "put in" => f = Locks
  BY ONLY Producer(a, f, m), f # <<>> DEF Producer
<1>3. End.at = "end"
  BY DEF End
<1>4. a \in Producing
  BY ONLY <1>2, <1>3
<1>5. /\ a \in Producing \cup {End} /\ PutBy(a, m) <= m /\ (a.at = "put" => PutBy(a, m) < m)
      /\ a.at \notin {"producer start", "end"}
      /\ \/ a.at = "producer" /\ f \in {Creates, PutsOut, Announces}
         \/ a.at = "put" /\ f = Claims
         \/ a.at = "put in" /\ f = Locks
  BY ONLY <1>2, <1>4 DEF Producing
<1>6. PutBy(a, m) \in Nat
  BY ONLY <1>2, <1>4 DEF PutBy, Producing
<1>7. \A s \in {Full, Empty, Mutex} : Gives(Do("create", Second), s) = 0
  BY ONLY <1>1 DEF GivesTable
<1>8. Down(Full) # Do("create", Second) /\ Down(Mutex) # Do("create", Second)
      /\ Up(Mutex) # Do("create", Second) /\ Up(Empty) # Do("create", Second)
  BY ONLY BufferCallsAre DEF BufferCalls
<1>9. CASE a.at = "producer" /\ f = Creates
  <2>1. Head(f) = Do("create", Second) /\ Tail(f) = <<>> /\ Creates # <<>>
    BY ONLY <1>1, <1>9 DEF BufferLists
  <2>2. /\ Gives(Head(f), Full) = 0 /\ Gives(Head(f), Empty) = 0 /\ Gives(Head(f), Mutex) = 0
    BY ONLY <1>7, <2>1
  <2>3. Producer(a, Tail(f), m)
    BY ONLY <1>5, <1>9, <2>1 DEF Producer
  <2>4. Claimed(a, Tail(f), m) = PutBy(a, m) /\ Claimed(a, f, m) = PutBy(a, m)
    BY ONLY <1>6, <1>9 DEF Claimed, InPut
  <2>5. ~Unannounced(a, Tail(f)) /\ ~Unannounced(a, f)
    BY ONLY <1>1, <1>9, <2>1, ListsDiffer DEF Unannounced, BufferLists
  <2>6. Announced(a, Tail(f), m) = PutBy(a, m) /\ Announced(a, f, m) = PutBy(a, m)
    BY ONLY <1>6, <2>5 DEF Announced
  <2>7. Locked(a, Tail(f)) = 0 /\ Locked(a, f) = 0
    BY ONLY <1>1, <1>9, <2>1, ListsDiffer DEF Locked, BufferLists
  <2>8. /\ Claimed(a, Tail(f), m) = Claimed(a, f, m) - Gives(Head(f), Full)
        /\ Announced(a, Tail(f), m) = Announced(a, f, m) + Gives(Head(f), Empty)
        /\ Locked(a, Tail(f)) = Locked(a, f) - Gives(Head(f), Mutex)
    BY ONLY <1>6, <2>2, <2>4, <2>6, <2>7
  <2>9. Tail(f) # Creates /\ (f = Creates \/ (f # Creates /\ Head(f) # Do("create", Second)))
    BY ONLY <1>8, <1>9, <2>1, ListsDiffer
  <2> QED
    BY ONLY <1>5, <2>1, <2>3, <2>8, <2>9
<1>10. CASE a.at = "producer" /\ f = PutsOut
  <2>1. Head(f) = Up(Mutex) /\ Tail(f) = Announces
    BY ONLY <1>1, <1>10 DEF BufferLists
  <2>2. /\ Gives(Head(f), Full) = 0 /\ Gives(Head(f), Empty) = 0 /\ Gives(Head(f), Mutex) = 1
    BY ONLY <1>1, <2>1 DEF GivesTable
  <2>3. Producer(a, Tail(f), m)
    BY ONLY <1>5, <1>10, <2>1 DEF Producer
  <2>4. Claimed(a, Tail(f), m) = PutBy(a, m) /\ Claimed(a, f, m) = PutBy(a, m)
    BY ONLY <1>6, <1>10 DEF Claimed, InPut
  <2>5. Announced(a, Tail(f), m) = PutBy(a, m) - 1 /\ Announced(a, f, m) = PutBy(a, m) - 1
    BY ONLY <1>6, <1>10, <2>1 DEF Announced, Unannounced
  <2>6. Locked(a, Tail(f)) = 0 /\ Locked(a, f) = 1
    BY ONLY <1>1, <1>10, <2>1, ListsDiffer DEF Locked, BufferLists
  <2>7. /\ Claimed(a, Tail(f), m) = Claimed(a, f, m) - Gives(Head(f), Full)
        /\ Announced(a, Tail(f), m) = Announced(a, f, m) + Gives(Head(f), Empty)
        /\ Locked(a, Tail(f)) = Locked(a, f) - Gives(Head(f), Mutex)
    BY ONLY <1>6, <2>2, <2>4, <2>5, <2>6
  <2>8. Tail(f) # Creates /\ (f = Creates \/ (f # Creates /\ Head(f) # Do("create", Second)))
    BY ONLY <1>8, <1>10, <2>1, ListsDiffer
  <2> QED
    BY ONLY <1>5, <2>1, <2>3, <2>7, <2>8
<1>11. CASE a.at = "producer" /\ f = Announces
  <2>1. Head(f) = Up(Empty) /\ Tail(f) = <<>> /\ PutsOut # <<>> /\ Announces # <<>> /\ Creates # <<>>
    BY ONLY <1>1, <1>11 DEF BufferLists
  <2>2. /\ Gives(Head(f), Full) = 0 /\ Gives(Head(f), Empty) = 1 /\ Gives(Head(f), Mutex) = 0
    BY ONLY <1>1, <2>1 DEF GivesTable
  <2>3. Producer(a, Tail(f), m)
    BY ONLY <1>5, <1>11, <2>1 DEF Producer
  <2>4. Claimed(a, Tail(f), m) = PutBy(a, m) /\ Claimed(a, f, m) = PutBy(a, m)
    BY ONLY <1>6, <1>11 DEF Claimed, InPut
  <2>5. Announced(a, Tail(f), m) = PutBy(a, m) /\ Announced(a, f, m) = PutBy(a, m) - 1
    BY ONLY <1>6, <1>11, <2>1 DEF Announced, Unannounced
  <2>6. Locked(a, Tail(f)) = 0 /\ Locked(a, f) = 0
    BY ONLY <1>11, <2>1, ListsDiffer DEF Locked
  <2>7. /\ Claimed(a, Tail(f), m) = Claimed(a, f, m) - Gives(Head(f), Full)
        /\ Announced(a, Tail(f), m) = Announced(a, f, m) + Gives(Head(f), Empty)
        /\ Locked(a, Tail(f)) = Locked(a, f) - Gives(Head(f), Mutex)
    BY ONLY <1>6, <2>2, <2>4, <2>5, <2>6
  <2>8. Tail(f) # Creates /\ (f = Creates \/ (f # Creates /\ Head(f) # Do("create", Second)))
    BY ONLY <1>8, <1>11, <2>1, ListsDiffer
  <2> QED
    BY ONLY <1>5, <2>1, <2>3, <2>7, <2>8
<1>12. CASE a.at = "put" /\ f = Claims
  <2>1. Head(f) = Down(Full) /\ Tail(f) = <<>> /\ Claims # <<>> /\ Creates # <<>>
    BY ONLY <1>1, <1>12 DEF BufferLists
  <2>2. /\ Gives(Head(f), Full) = -1 /\ Gives(Head(f), Empty) = 0 /\ Gives(Head(f), Mutex) = 0
    BY ONLY <1>1, <2>1 DEF GivesTable
  <2>3. Producer(a, Tail(f), m)
    BY ONLY <1>5, <1>12, <2>1 DEF Producer
  <2>4. Claimed(a, Tail(f), m) = PutBy(a, m) + 1 /\ Claimed(a, f, m) = PutBy(a, m)
    BY ONLY <1>6, <1>12, <2>1 DEF Claimed, InPut
  <2>5. Announced(a, Tail(f), m) = PutBy(a, m) /\ Announced(a, f, m) = PutBy(a, m)
    BY ONLY <1>6, <1>12, <2>1 DEF Announced, Unannounced
  <2>6. Locked(a, Tail(f)) = 0 /\ Locked(a, f) = 0
    BY ONLY <1>12 DEF Locked
  <2>7. /\ Claimed(a, Tail(f), m) = Claimed(a, f, m) - Gives(Head(f), Full)
        /\ Announced(a, Tail(f), m) = Announced(a, f, m) + Gives(Head(f), Empty)
        /\ Locked(a, Tail(f)) = Locked(a, f) - Gives(Head(f), Mutex)
    BY ONLY <1>6, <2>2, <2>4, <2>5, <2>6
  <2>8. Tail(f) # Creates /\ (f = Creates \/ (f # Creates /\ Head(f) # Do("create", Second)))
    BY ONLY <1>8, <1>12, <2>1, ListsDiffer
  <2> QED
    BY ONLY <1>5, <2>1, <2>3, <2>7, <2>8
<1>13. CASE a.at = "put in" /\ f = Locks
  <2>1. Head(f) = Down(Mutex) /\ Tail(f) = <<>> /\ Locks # <<>> /\ Creates # <<>>
    BY ONLY <1>1, <1>13 DEF BufferLists
  <2>2. /\ Gives(Head(f), Full) = 0 /\ Gives(Head(f), Empty) = 0 /\ Gives(Head(f), Mutex) = -1
    BY ONLY <1>1, <2>1 DEF GivesTable
  <2>3. Producer(a, Tail(f), m)
    BY ONLY <1>5, <1>13, <2>1 DEF Producer
  <2>4. Claimed(a, Tail(f), m) = PutBy(a, m) /\ Claimed(a, f, m) = PutBy(a, m)
    <3>1. a.at # "put"
      BY ONLY <1>13
    <3> QED
      BY ONLY <1>6, <3>1 DEF Claimed, InPut
  <2>5. Announced(a, Tail(f), m) = PutBy(a, m) - 1 /\ Announced(a, f, m) = PutBy(a, m) - 1
    BY ONLY <1>6, <1>13, <2>1 DEF Announced, Unannounced
  <2>6. Locked(a, Tail(f)) = 1 /\ Locked(a, f) = 0
    BY ONLY <1>13, <2>1 DEF Locked
  <2>7. /\ Claimed(a, Tail(f), m) = Claimed(a, f, m) - Gives(Head(f), Full)
        /\ Announced(a, Tail(f), m) = Announced(a, f, m) + Gives(Head(f), Empty)
        /\ Locked(a, Tail(f)) = Locked(a, f) - Gives(Head(f), Mutex)
    BY ONLY <1>6, <2>2, <2>4, <2>5, <2>6
  <2>8. Tail(f) # Creates /\ (f = Creates \/ (f # Creates /\ Head(f) # Do("create", Second)))
    BY ONLY <1>8, <1>13, <2>1, ListsDiffer
  <2> QED
    BY ONLY <1>5, <2>1, <2>3, <2>7, <2>8
<1> QED
  BY ONLY <1>5, <1>9, <1>10, <1>11, <1>12, <1>13

(* The same of the consumer. *)
LEMMA ConsumerCalls ==
  ASSUME NEW b, NEW s, NEW k \in Nat, NEW m \in Nat, Consumer(b, s, k, m), s # <<>>
  PROVE  /\ Consumer(b, Tail(s), k, m)
         /\ Head(s) \in {Down(Empty), Down(Mutex), Up(Mutex), Up(Full)}
         /\ Accepted(b, Tail(s), k) = Accepted(b, s, k) - Gives(Head(s), Empty)
         /\ Restored(b, Tail(s), k) = Restored(b, s, k) + Gives(Head(s), Full)
         /\ Holds(b, Tail(s)) = Holds(b, s) - Gives(Head(s), Mutex)
<1>1. BufferLists /\ GivesTable
  BY BufferCallsAre, GivesTableIs
<1>2. /\ b \in Consuming /\ b.out = (IF k = 0 THEN 0 ELSE k - 1)
      /\ b.left + k <= m + (IF b.at = "taken" THEN 1 ELSE 0)
      /\ m = 1 => k = 0 /\ b.left = 0
      /\ b.at \in {"take", "taken"} => b.left > 0
      /\ \/ b.at = "consumer" /\ s \in {TakesOut, Returns}
         \/ b.at = "take" /\ s = Takes
         \/ b.at = "taken" /\ s = Locks
  BY ONLY Consumer(b, s, k, m), s # <<>> DEF Consumer, Consuming
<1>3. CASE b.at = "consumer" /\ s = TakesOut
  <2>1. Head(s) = Up(Mutex) /\ Tail(s) = Returns /\ Returns # <<>>
    BY ONLY <1>1, <1>3 DEF BufferLists
  <2>2. /\ Gives(Head(s), Full) = 0 /\ Gives(Head(s), Empty) = 0 /\ Gives(Head(s), Mutex) = 1
    BY ONLY <1>1, <2>1 DEF GivesTable
  <2>3. Consumer(b, Tail(s), k, m)
    BY ONLY <1>2, <1>3, <2>1 DEF Consumer
  <2>4. Accepted(b, Tail(s), k) = k /\ Accepted(b, s, k) = k
    BY ONLY <1>3, k \in Nat DEF Accepted
  <2>5. Restored(b, Tail(s), k) = k - 1 /\ Restored(b, s, k) = k - 1
    BY ONLY <1>3, <1>2, <2>1, k \in Nat, s # <<>> DEF Restored
  <2>6. Holds(b, Tail(s)) = 0 /\ Holds(b, s) = 1
    BY ONLY <1>3, <2>1, ListsDiffer DEF Holds
  <2> QED
    BY ONLY <2>1, <2>2, <2>3, <2>4, <2>5, <2>6, k \in Nat
<1>4. CASE b.at = "consumer" /\ s = Returns
  <2>1. Head(s) = Up(Full) /\ Tail(s) = <<>> /\ TakesOut # <<>>
    BY ONLY <1>1, <1>4 DEF BufferLists
  <2>2. /\ Gives(Head(s), Full) = 1 /\ Gives(Head(s), Empty) = 0 /\ Gives(Head(s), Mutex) = 0
    BY ONLY <1>1, <2>1 DEF GivesTable
  <2>3. Consumer(b, Tail(s), k, m)
    BY ONLY <1>2, <1>4, <2>1 DEF Consumer
  <2>4. Accepted(b, Tail(s), k) = k /\ Accepted(b, s, k) = k
    BY ONLY <1>4, k \in Nat DEF Accepted
  <2>5. Restored(b, Tail(s), k) = k /\ Restored(b, s, k) = k - 1
    BY ONLY <1>4, <1>2, <2>1, k \in Nat, s # <<>> DEF Restored
  <2>6. Holds(b, Tail(s)) = 0 /\ Holds(b, s) = 0
    BY ONLY <1>4, <2>1, ListsDiffer DEF Holds
  <2> QED
    BY ONLY <2>1, <2>2, <2>3, <2>4, <2>5, <2>6, k \in Nat
<1>5. CASE b.at = "take" /\ s = Takes
  <2>1. Head(s) = Down(Empty) /\ Tail(s) = <<>>
    BY ONLY <1>1, <1>5 DEF BufferLists
  <2>2. /\ Gives(Head(s), Full) = 0 /\ Gives(Head(s), Empty) = -1 /\ Gives(Head(s), Mutex) = 0
    BY ONLY <1>1, <2>1 DEF GivesTable
  <2>3. Consumer(b, Tail(s), k, m)
    BY ONLY <1>2, <1>5, <2>1 DEF Consumer
  <2>4. Accepted(b, Tail(s), k) = k + 1 /\ Accepted(b, s, k) = k
    BY ONLY <1>5, <2>1, k \in Nat, s # <<>> DEF Accepted
  <2>5. Restored(b, Tail(s), k) = k /\ Restored(b, s, k) = k
    BY ONLY <1>5, k \in Nat DEF Restored
  <2>6. Holds(b, Tail(s)) = 0 /\ Holds(b, s) = 0
    BY ONLY <1>5 DEF Holds
  <2> QED
    BY ONLY <2>1, <2>2, <2>3, <2>4, <2>5, <2>6, k \in Nat
<1>6. CASE b.at = "taken" /\ s = Locks
  <2>1. Head(s) = Down(Mutex) /\ Tail(s) = <<>>
    BY ONLY <1>1, <1>6 DEF BufferLists
  <2>2. /\ Gives(Head(s), Full) = 0 /\ Gives(Head(s), Empty) = 0 /\ Gives(Head(s), Mutex) = -1
    BY ONLY <1>1, <2>1 DEF GivesTable
  <2>3. Consumer(b, Tail(s), k, m)
    BY ONLY <1>2, <1>6, <2>1 DEF Consumer
  <2>4. Accepted(b, Tail(s), k) = k /\ Accepted(b, s, k) = k
    BY ONLY <1>6, k \in Nat DEF Accepted
  <2>5. Restored(b, Tail(s), k) = k - 1 /\ Restored(b, s, k) = k - 1
    BY ONLY <1>6, k \in Nat DEF Restored
  <2>6. Holds(b, Tail(s)) = 1 /\ Holds(b, s) = 0
    BY ONLY <1>6, <2>1, s # <<>> DEF Holds
  <2> QED
    BY ONLY <2>1, <2>2, <2>3, <2>4, <2>5, <2>6, k \in Nat
<1> QED
  BY ONLY <1>2, <1>3, <1>4, <1>5, <1>6

(* A place of the buffer, and the next. *)
LEMMA NextSlot ==
  ASSUME NEW tail \in 0 .. BufferSize - 1, NEW j \in Nat, j < BufferSize
  PROVE  /\ Slot(tail, j) \in 0 .. BufferSize - 1
         /\ Around(tail) \in 0 .. BufferSize - 1
         /\ Around(Slot(tail, j)) = Slot(tail, j + 1)
         /\ Slot(Around(tail), j) = Slot(tail, j + 1)
         /\ Slot(tail, 0) = tail
         /\ \A i \in Nat : i < j => Slot(tail, i) # Slot(tail, j)
<1>1. BufferSize \in Nat \ {0}
  BY AppAssumption
<1>2. \A i \in 0 .. BufferSize - 1 : Around(i) = IF i + 1 < BufferSize THEN i + 1 ELSE 0
  <2>1. ASSUME NEW i \in 0 .. BufferSize - 1, i + 1 < BufferSize
        PROVE  (i + 1) % BufferSize = i + 1
    BY <1>1, <2>1
  <2>2. BufferSize % BufferSize = 0
    BY <1>1
  <2>3. ASSUME NEW i \in 0 .. BufferSize - 1, ~(i + 1 < BufferSize)
        PROVE  i + 1 = BufferSize
    BY <1>1, <2>3
  <2> QED
    BY <2>1, <2>2, <2>3 DEF Around
<1>3. Slot(tail, j) \in 0 .. BufferSize - 1 /\ Slot(tail, 0) = tail
  BY ONLY <1>1, tail \in 0 .. BufferSize - 1, j \in Nat, j < BufferSize DEF Slot
<1>4. Around(tail) \in 0 .. BufferSize - 1 /\ Slot(Around(tail), j) = Slot(tail, j + 1)
  BY ONLY <1>1, <1>2, tail \in 0 .. BufferSize - 1, j \in Nat, j < BufferSize DEF Slot
<1>5. Around(Slot(tail, j)) = Slot(tail, j + 1)
  BY ONLY <1>1, <1>2, <1>3, tail \in 0 .. BufferSize - 1, j \in Nat, j < BufferSize DEF Slot
<1>6. \A i \in Nat : i < j => Slot(tail, i) # Slot(tail, j)
  BY ONLY <1>1, tail \in 0 .. BufferSize - 1, j \in Nat, j < BufferSize DEF Slot
<1> QED
  BY <1>3, <1>4, <1>5, <1>6

(* What the buffer is, and what happens to it. *)
Buffers ==
  [buffer : [0 .. BufferSize - 1 -> Nat], size : Int,
   head : 0 .. BufferSize - 1, tail : 0 .. BufferSize - 1]
Stores(d, e, n) == e = [d EXCEPT !.buffer[d.head] = n, !.head = Around(@)]
Fetches(d, e) == e = [d EXCEPT !.tail = Around(@)]
Resizes(d, e) == \E n \in Int : e = [d EXCEPT !.size = n]

(* One more number is put behind the others, where there is place. *)
LEMMA StoreHolds ==
  ASSUME NEW d, NEW e, NEW n \in Nat, NEW k \in Nat, Holding(d, n, k),
         k <= n, n - k < BufferSize, Stores(d, e, n)
  PROVE  Holding(e, n + 1, k)
<1>1. BufferSize \in Nat \ {0} /\ n - k \in Nat /\ n + 1 - k = n - k + 1
  BY AppAssumption
<1>2. /\ d \in Buffers /\ d.head = Slot(d.tail, n - k)
      /\ \A j \in Nat : j < n - k => d.buffer[Slot(d.tail, j)] = k + j
  BY DEF Holding, Buffers
<1>3. /\ d.tail \in 0 .. BufferSize - 1 /\ d.head \in 0 .. BufferSize - 1 /\ d.size \in Int
      /\ d.buffer \in [0 .. BufferSize - 1 -> Nat]
  BY <1>2 DEF Buffers
<1>4. /\ Around(d.head) \in 0 .. BufferSize - 1
      /\ Around(d.head) = Slot(d.tail, n - k + 1)
  <2>1. 0 \in Nat /\ 0 < BufferSize
    BY <1>1
  <2>2. Around(d.head) \in 0 .. BufferSize - 1
    BY <1>3, <2>1, NextSlot
  <2>3. Around(Slot(d.tail, n - k)) = Slot(d.tail, n - k + 1)
    BY <1>1, <1>3, NextSlot
  <2> QED
    BY <1>2, <2>2, <2>3
<1>5. /\ e.buffer = [d.buffer EXCEPT ![d.head] = n] /\ e.head = Around(d.head)
      /\ e.size = d.size /\ e.tail = d.tail
      /\ e \in Buffers
  BY ONLY <1>2, <1>3, <1>4, Stores(d, e, n), n \in Nat DEF Stores, Buffers
<1>6. ASSUME NEW j \in Nat, j < n - k + 1
      PROVE  e.buffer[Slot(e.tail, j)] = k + j
  <2>1. CASE j = n - k
    <3>1. e.buffer[d.head] = n
      BY ONLY <1>3, <1>5
    <3> QED
      BY ONLY <1>2, <1>5, <2>1, <3>1, n \in Nat, k \in Nat
  <2>2. CASE j < n - k
    <3>1. PICK l \in Nat : l = n - k /\ l < BufferSize /\ j < l /\ j < BufferSize
      BY <1>1, <2>2
    <3>2. /\ Slot(d.tail, j) \in 0 .. BufferSize - 1 /\ Slot(d.tail, j) # Slot(d.tail, l)
      <4>1. d.tail \in 0 .. BufferSize - 1 /\ j \in Nat
        BY ONLY <1>3, j \in Nat
      <4>2. Slot(d.tail, j) \in 0 .. BufferSize - 1
        BY ONLY <3>1, <4>1, NextSlot
      <4>3. \A i \in Nat : i < l => Slot(d.tail, i) # Slot(d.tail, l)
        BY ONLY <3>1, <4>1, NextSlot
      <4> QED
        BY ONLY <3>1, <4>1, <4>2, <4>3
    <3>3. /\ Slot(d.tail, j) \in 0 .. BufferSize - 1 /\ Slot(d.tail, j) # d.head
      BY ONLY <1>2, <3>1, <3>2
    <3>4. e.buffer[Slot(d.tail, j)] = d.buffer[Slot(d.tail, j)]
      BY ONLY <1>3, <1>5, <3>3
    <3> QED
      BY ONLY <1>2, <1>5, <2>2, <3>4, j \in Nat
  <2>3. j = n - k \/ j < n - k
    BY <1>1, <1>6
  <2> QED
    BY <2>1, <2>2, <2>3
<1>7. e.head = Slot(e.tail, n + 1 - k)
  BY ONLY <1>1, <1>4, <1>5
<1> QED
  BY ONLY <1>1, <1>5, <1>6, <1>7 DEF Holding, Buffers

(* The first number is taken, where there is one. *)
LEMMA FetchHolds ==
  ASSUME NEW d, NEW e, NEW n \in Nat, NEW k \in Nat, Holding(d, n, k),
         k < n, n - k <= BufferSize, Fetches(d, e)
  PROVE  Holding(e, n, k + 1) /\ d.buffer[d.tail] = k
<1>1. /\ BufferSize \in Nat \ {0} /\ n - k \in Nat /\ n - (k + 1) \in Nat
      /\ n - k = n - (k + 1) + 1 /\ n - (k + 1) < BufferSize /\ 0 < n - k /\ 0 < BufferSize
  BY AppAssumption
<1>2. /\ d \in Buffers /\ d.head = Slot(d.tail, n - k)
      /\ \A j \in Nat : j < n - k => d.buffer[Slot(d.tail, j)] = k + j
  BY DEF Holding, Buffers
<1>3. /\ d.tail \in 0 .. BufferSize - 1 /\ d.head \in 0 .. BufferSize - 1 /\ d.size \in Int
      /\ d.buffer \in [0 .. BufferSize - 1 -> Nat]
  BY <1>2 DEF Buffers
<1>4. Around(d.tail) \in 0 .. BufferSize - 1 /\ Slot(d.tail, 0) = d.tail
  BY <1>1, <1>3, NextSlot
<1>5. /\ e.buffer = d.buffer /\ e.tail = Around(d.tail)
      /\ e.size = d.size /\ e.head = d.head
      /\ e \in Buffers
  BY ONLY <1>2, <1>3, <1>4, Fetches(d, e) DEF Fetches, Buffers
<1>6. d.buffer[d.tail] = k
  <2>1. d.buffer[Slot(d.tail, 0)] = k + 0
    BY ONLY <1>1, <1>2
  <2> QED
    BY ONLY <1>4, <2>1, k \in Nat
<1>7. ASSUME NEW j \in Nat, j < n - (k + 1)
      PROVE  e.buffer[Slot(e.tail, j)] = k + 1 + j
  <2>1. j < BufferSize /\ j + 1 \in Nat /\ j + 1 < n - k
    BY ONLY <1>1, <1>7, n \in Nat, k \in Nat
  <2>2. Slot(e.tail, j) = Slot(d.tail, j + 1)
    <3>1. d.tail \in 0 .. BufferSize - 1
      BY ONLY <1>3
    <3>2. Slot(Around(d.tail), j) = Slot(d.tail, j + 1)
      BY ONLY <2>1, <3>1, NextSlot, j \in Nat
    <3> QED
      BY ONLY <1>5, <3>2
  <2>3. d.buffer[Slot(d.tail, j + 1)] = k + (j + 1)
    BY ONLY <1>2, <2>1
  <2> QED
    BY ONLY <1>5, <2>2, <2>3, k \in Nat, j \in Nat
<1>8. e.head = Slot(e.tail, n - (k + 1))
  <2>1. PICK j \in Nat : j = n - (k + 1) /\ j < BufferSize /\ n - k = j + 1
    BY <1>1
  <2>2. Slot(Around(d.tail), j) = Slot(d.tail, j + 1)
    <3>1. d.tail \in 0 .. BufferSize - 1
      BY ONLY <1>3
    <3> QED
      BY ONLY <2>1, <3>1, NextSlot, j \in Nat
  <2> QED
    BY ONLY <1>2, <1>5, <2>1, <2>2
<1> QED
  BY ONLY <1>1, <1>5, <1>6, <1>7, <1>8 DEF Holding, Buffers

(* What counts the numbers does not matter. *)
LEMMA ResizeHolds ==
  ASSUME NEW d, NEW e, NEW n, NEW k, Holding(d, n, k), Resizes(d, e)
  PROVE  Holding(e, n, k)
<1>1. /\ d \in Buffers /\ d.head = Slot(d.tail, n - k)
      /\ \A j \in Nat : j < n - k => d.buffer[Slot(d.tail, j)] = k + j
  BY DEF Holding, Buffers
<1>2. e.buffer = d.buffer /\ e.head = d.head /\ e.tail = d.tail /\ e \in Buffers
  BY <1>1 DEF Resizes, Buffers
<1> QED
  BY <1>1, <1>2 DEF Holding, Buffers

(* Their variables at a place of their code. *)
Producers(l, n) == {e \in Producing : e.at = l /\ e.count = n}
Consumers(l, n, k) == {e \in Consuming : e.at = l /\ e.out = n /\ e.left = k}

(* What the assignments to them give. *)
LEMMA ProducerAssigns ==
  ASSUME NEW a \in Producing
  PROVE  /\ a.count \in Nat
         /\ \A l \in {"producer", "put"} : [a EXCEPT !.at = l] \in Producers(l, a.count)
         /\ [a EXCEPT !.at = "put in", !.count = @ + 1] \in Producers("put in", a.count + 1)
<1>1. a.count \in Nat
  BY DEF Producing
<1>2. a.count \in Nat /\ a.count + 1 \in Nat
  BY ONLY <1>1
<1>3. ASSUME NEW l \in {"producer", "put"}
      PROVE  [a EXCEPT !.at = l] \in Producers(l, a.count)
  BY DEF Producers, Producing
<1>4. ASSUME NEW n \in Nat
      PROVE  [a EXCEPT !.at = "put in", !.count = n] \in Producers("put in", n)
  BY DEF Producers, Producing
<1>5. [a EXCEPT !.at = "put in", !.count = @ + 1]
        = [a EXCEPT !.at = "put in", !.count = a.count + 1]
  BY DEF Producing
<1> QED
  BY ONLY <1>2, <1>3, <1>4, <1>5

(* As above. *)
LEMMA ConsumerAssigns ==
  ASSUME NEW b \in Consuming
  PROVE  /\ b.out \in Nat /\ b.left \in Nat
         /\ [b EXCEPT !.at = "take"] \in Consumers("take", b.out, b.left)
         /\ \A n \in Nat : [b EXCEPT !.at = "taken", !.out = n]
                               \in Consumers("taken", n, b.left)
         /\ b.at = "consumer" => \A n \in Nat : [b EXCEPT !.left = n]
                                                  \in Consumers("consumer", b.out, n)
         /\ b.left > 0 => [b EXCEPT !.at = "consumer", !.left = @ - 1]
                            \in Consumers("consumer", b.out, b.left - 1)
<1>1. b.out \in Nat /\ b.left \in Nat
  BY DEF Consuming
<1>2. [b EXCEPT !.at = "take"] \in Consumers("take", b.out, b.left)
  BY DEF Consumers, Consuming
<1>3. ASSUME NEW n \in Nat
      PROVE  [b EXCEPT !.at = "taken", !.out = n] \in Consumers("taken", n, b.left)
  BY DEF Consumers, Consuming
<1>4. ASSUME NEW n \in Nat, b.at = "consumer"
      PROVE  [b EXCEPT !.left = n] \in Consumers("consumer", b.out, n)
  BY <1>4 DEF Consumers, Consuming
<1>5. ASSUME NEW n \in Nat
      PROVE  [b EXCEPT !.at = "consumer", !.left = n] \in Consumers("consumer", b.out, n)
  BY DEF Consumers, Consuming
<1>6. [b EXCEPT !.at = "consumer", !.left = @ - 1]
        = [b EXCEPT !.at = "consumer", !.left = b.left - 1]
  BY DEF Consuming
<1>7. b.left > 0 => b.left - 1 \in Nat
  BY ONLY <1>1
<1> QED
  BY ONLY <1>1, <1>2, <1>3, <1>4, <1>5, <1>6, <1>7

(* What a segment of the producer does to its variables and calls. *)
Produces(a, e, f, m) ==
  \/ a.at = "producer start" /\ e \in Producers("producer", a.count) /\ f = Creates
  \/ a.at = "producer" /\ a.count < m /\ e \in Producers("put", a.count) /\ f = Claims
  \/ a.at = "producer" /\ ~(a.count < m) /\ e = End /\ f = <<>>
  \/ a.at = "put" /\ e \in Producers("put in", a.count + 1) /\ f = Locks
  \/ a.at = "put in" /\ e \in Producers("producer", a.count) /\ f = PutsOut

(* What these counts are. *)
LEMMA ProducerCounts ==
  ASSUME NEW a, NEW f, NEW m, NEW n \in Nat, PutBy(a, m) = n
  PROVE  /\ InPut(a, f) => Claimed(a, f, m) = n + 1
         /\ ~InPut(a, f) => Claimed(a, f, m) = n
         /\ Unannounced(a, f) => Announced(a, f, m) = n - 1
         /\ ~Unannounced(a, f) => Announced(a, f, m) = n
BY DEF Claimed, Announced

(* It stays a producer, has put one more only at one place, and claims,    *)
(* announces and locks nothing by itself.                                  *)
ProducerKeeps(a, e, f, m) ==
  /\ Producer(e, f, m) /\ a \in Producing
  /\ PutBy(e, m) = a.count + (IF a.at = "put" THEN 1 ELSE 0) /\ PutBy(a, m) = a.count
  /\ Claimed(e, f, m) = Claimed(a, <<>>, m)
  /\ Announced(e, f, m) = Announced(a, <<>>, m)
  /\ Locked(e, f) = Locked(a, <<>>)
  /\ e.at # "producer start" /\ (f = Creates <=> a.at = "producer start")

(* It is so. *)
LEMMA ProducerComputes ==
  ASSUME NEW a, NEW e, NEW f, NEW m \in Nat, Producer(a, <<>>, m), Produces(a, e, f, m)
  PROVE  ProducerKeeps(a, e, f, m)
<1>0. SUFFICES /\ Producer(e, f, m) /\ a \in Producing
               /\ PutBy(e, m) = a.count + (IF a.at = "put" THEN 1 ELSE 0) /\ PutBy(a, m) = a.count
               /\ Claimed(e, f, m) = Claimed(a, <<>>, m)
               /\ Announced(e, f, m) = Announced(a, <<>>, m)
               /\ Locked(e, f) = Locked(a, <<>>)
               /\ e.at # "producer start" /\ (f = Creates <=> a.at = "producer start")
  BY DEF ProducerKeeps
<1>1. BufferLists
  BY BufferCallsAre
<1>2. /\ a \in Producing \cup {End} /\ PutBy(a, m) <= m /\ (a.at = "put" => PutBy(a, m) < m)
      /\ a.at # "end" /\ End.at = "end"
  BY ONLY Producer(a, <<>>, m), Produces(a, e, f, m) DEF Producer, Produces, End
<1>3. a \in Producing /\ a.count \in Nat /\ PutBy(a, m) = a.count
  BY ONLY <1>2 DEF PutBy, Producing
<1>4. ASSUME NEW l \in {"producer", "put", "put in"}, NEW n \in Nat,
             e \in Producers(l, n)
      PROVE  e \in Producing /\ e.at = l /\ e.count = n /\ PutBy(e, m) = n
  <2>1. e \in Producing /\ e.at = l /\ e.count = n
    BY ONLY <1>4 DEF Producers
  <2> QED
    BY ONLY <1>4, <2>1 DEF PutBy
<1>5. ASSUME NEW n \in Nat, PutBy(e, m) = n, InPut(a, <<>>) => n = a.count + 1,
             ~InPut(a, <<>>) => n = a.count, ~InPut(e, f),
             IF InPut(a, <<>>) THEN Unannounced(e, f)
             ELSE Unannounced(e, f) <=> Unannounced(a, <<>>),
             ~(InPut(a, <<>>) /\ Unannounced(a, <<>>))
      PROVE  /\ Claimed(e, f, m) = Claimed(a, <<>>, m)
             /\ Announced(e, f, m) = Announced(a, <<>>, m)
  <2>1. /\ InPut(a, <<>>) => Claimed(a, <<>>, m) = a.count + 1
        /\ ~InPut(a, <<>>) => Claimed(a, <<>>, m) = a.count
        /\ Unannounced(a, <<>>) => Announced(a, <<>>, m) = a.count - 1
        /\ ~Unannounced(a, <<>>) => Announced(a, <<>>, m) = a.count
    BY ONLY <1>3, ProducerCounts
  <2>2. /\ Claimed(e, f, m) = n
        /\ Unannounced(e, f) => Announced(e, f, m) = n - 1
        /\ ~Unannounced(e, f) => Announced(e, f, m) = n
    BY ONLY <1>5, ProducerCounts
  <2> QED
    BY ONLY <1>3, <1>5, <2>1, <2>2
<1>6. /\ InPut(a, <<>>) <=> a.at = "put"
      /\ Unannounced(a, <<>>) <=> a.at = "put in"
      /\ Locked(a, <<>>) = IF a.at = "put in" THEN 1 ELSE 0
  BY ONLY <1>1 DEF InPut, Unannounced, Locked, BufferLists
<1>7. CASE a.at = "producer start"
  <2>1. e \in Producers("producer", a.count) /\ f = Creates
    BY ONLY <1>7, Produces(a, e, f, m) DEF Produces
  <2>2. e \in Producing /\ e.at = "producer" /\ PutBy(e, m) = a.count
    BY ONLY <1>3, <1>4, <2>1
  <2>3. Producer(e, f, m)
    BY ONLY <1>2, <1>3, <2>1, <2>2 DEF Producer
  <2>4. ~InPut(e, f) /\ ~Unannounced(e, f) /\ Locked(e, f) = 0
    BY ONLY <2>1, <2>2, ListsDiffer DEF InPut, Unannounced, Locked
  <2>5. /\ Claimed(e, f, m) = Claimed(a, <<>>, m)
        /\ Announced(e, f, m) = Announced(a, <<>>, m)
        /\ Locked(e, f) = Locked(a, <<>>)
    BY ONLY <1>3, <1>5, <1>6, <1>7, <2>2, <2>4
  <2> QED
    <3>1. a.at = "producer start" /\ e.at # "producer start" /\ f = Creates
      BY ONLY <1>7, <2>1, <2>2
    <3>2. (IF a.at = "put" THEN 1 ELSE 0) = 0
      BY ONLY <1>7
    <3>3. PutBy(e, m) = a.count + (IF a.at = "put" THEN 1 ELSE 0)
      BY ONLY <1>3, <2>2, <3>2
    <3> QED
      BY ONLY <1>3, <2>3, <2>5, <3>1, <3>3
<1>8. CASE a.at = "producer" /\ a.count < m
  <2>1. e \in Producers("put", a.count) /\ f = Claims /\ f # <<>>
    BY ONLY <1>1, <1>8, Produces(a, e, f, m) DEF Produces, BufferLists
  <2>2. e \in Producing /\ e.at = "put" /\ PutBy(e, m) = a.count
    BY ONLY <1>3, <1>4, <2>1
  <2>3. Producer(e, f, m)
    BY ONLY <1>2, <1>3, <1>8, <2>1, <2>2 DEF Producer
  <2>4. ~InPut(e, f) /\ ~Unannounced(e, f) /\ Locked(e, f) = 0
    BY ONLY <2>1, <2>2 DEF InPut, Unannounced, Locked
  <2>5. /\ Claimed(e, f, m) = Claimed(a, <<>>, m)
        /\ Announced(e, f, m) = Announced(a, <<>>, m)
        /\ Locked(e, f) = Locked(a, <<>>)
    BY ONLY <1>3, <1>5, <1>6, <1>8, <2>2, <2>4
  <2> QED
    BY ONLY <1>3, <1>8, <2>1, <2>2, <2>3, <2>5, ListsDiffer
<1>9. CASE a.at = "producer" /\ ~(a.count < m)
  <2>1. e = End /\ f = <<>> /\ e.at = "end" /\ a.count = m
    BY ONLY <1>2, <1>3, <1>9, Produces(a, e, f, m), m \in Nat DEF Produces
  <2>2. PutBy(e, m) = a.count
    BY ONLY <2>1 DEF PutBy
  <2>3. Producer(e, f, m)
    BY ONLY <2>1, <2>2, m \in Nat DEF Producer
  <2>4. ~InPut(e, f) /\ ~Unannounced(e, f) /\ Locked(e, f) = 0
    BY ONLY <2>1 DEF InPut, Unannounced, Locked
  <2>5. /\ Claimed(e, f, m) = Claimed(a, <<>>, m)
        /\ Announced(e, f, m) = Announced(a, <<>>, m)
        /\ Locked(e, f) = Locked(a, <<>>)
    BY ONLY <1>3, <1>5, <1>6, <1>9, <2>2, <2>4
  <2>6. f # Creates
    BY ONLY <1>1, <2>1 DEF BufferLists
  <2> QED
    BY ONLY <1>3, <1>9, <2>1, <2>2, <2>3, <2>5, <2>6
<1>10. CASE a.at = "put"
  <2>1. e \in Producers("put in", a.count + 1) /\ f = Locks
    BY ONLY <1>10, Produces(a, e, f, m) DEF Produces
  <2>2. f # <<>> /\ PutBy(a, m) < m
    BY ONLY <1>1, <1>2, <1>10, <2>1 DEF BufferLists
  <2>3. f # <<>> /\ a.count + 1 \in Nat /\ a.count + 1 <= m
    BY ONLY <1>3, <2>2, m \in Nat
  <2>4. e \in Producing /\ e.at = "put in" /\ PutBy(e, m) = a.count + 1
    BY ONLY <1>4, <2>1, <2>3
  <2>5. Producer(e, f, m)
    BY ONLY <2>1, <2>4, <2>3 DEF Producer
  <2>6. ~InPut(e, f) /\ Unannounced(e, f) /\ Locked(e, f) = 0
    BY ONLY <2>4, <2>3 DEF InPut, Unannounced, Locked
  <2>7. /\ Claimed(e, f, m) = Claimed(a, <<>>, m)
        /\ Announced(e, f, m) = Announced(a, <<>>, m)
        /\ Locked(e, f) = Locked(a, <<>>)
    BY ONLY <1>3, <1>5, <1>6, <1>10, <2>4, <2>6, <2>3
  <2> QED
    BY ONLY <1>3, <1>10, <2>1, <2>4, <2>5, <2>7, ListsDiffer
<1>11. CASE a.at = "put in"
  <2>1. e \in Producers("producer", a.count) /\ f = PutsOut
    BY ONLY <1>11, Produces(a, e, f, m) DEF Produces
  <2>2. e \in Producing /\ e.at = "producer" /\ PutBy(e, m) = a.count
    BY ONLY <1>3, <1>4, <2>1
  <2>3. Producer(e, f, m)
    BY ONLY <1>2, <1>3, <2>1, <2>2 DEF Producer
  <2>4. ~InPut(e, f) /\ Unannounced(e, f) /\ Locked(e, f) = 1
    BY ONLY <2>1, <2>2 DEF InPut, Unannounced, Locked
  <2>5. /\ Claimed(e, f, m) = Claimed(a, <<>>, m)
        /\ Announced(e, f, m) = Announced(a, <<>>, m)
        /\ Locked(e, f) = Locked(a, <<>>)
    BY ONLY <1>3, <1>5, <1>6, <1>11, <2>2, <2>4
  <2> QED
    <3>1. a.at # "producer start" /\ e.at # "producer start" /\ f # Creates
      BY ONLY <1>11, <2>1, <2>2, ListsDiffer
    <3>2. (IF a.at = "put" THEN 1 ELSE 0) = 0
      BY ONLY <1>11
    <3>3. PutBy(e, m) = a.count + (IF a.at = "put" THEN 1 ELSE 0)
      BY ONLY <1>3, <2>2, <3>2
    <3> QED
      BY ONLY <1>3, <2>3, <2>5, <3>1, <3>3
<1> QED
  BY ONLY <1>7, <1>8, <1>9, <1>10, <1>11, Produces(a, e, f, m) DEF Produces

(* What a segment of the consumer does to its variables and calls. *)
Consumes(b, e, s, m) ==
  \/ /\ b.at = "consumer" /\ b.left > 0
     /\ e \in Consumers("take", b.out, b.left) /\ s = Takes
  \/ /\ b.at = "consumer" /\ b.left = 0 /\ s = <<>>
     /\ \E l \in Nat : /\ 0 < l /\ l <= m - b.out - 1
                       /\ e \in Consumers("consumer", b.out, l)
  \/ /\ b.at = "consumer" /\ b.left = 0 /\ ~(m - b.out - 1 > 0) /\ e = End /\ s = <<>>
  \/ /\ b.at = "take" /\ s = Locks
     /\ \E item \in Nat : e \in Consumers("taken", item, b.left)
  \/ /\ b.at = "taken" /\ s = TakesOut
     /\ e \in Consumers("consumer", b.out, b.left - 1)

(* What it has taken before and after, and which number it then has.       *)
Advances(b, e, k, n) == IF b.at = "take" THEN n = k + 1 /\ e.out = k ELSE n = k

(* It stays a consumer or has all it is to take, has taken one more only   *)
(* at one place, and accepts, returns and locks nothing by itself.         *)
LEMMA ConsumerComputes ==
  ASSUME NEW b, NEW e, NEW s, NEW k \in Nat, NEW n \in Nat, NEW m \in Nat \ {0},
         Consumer(b, <<>>, k, m), Consumes(b, e, s, m),
         Advances(b, e, k, n)
  PROVE  /\ Consumed(e, s, n, m)
         /\ Accepted(e, s, n) = Accepted(b, <<>>, k)
         /\ Restored(e, s, n) = Restored(b, <<>>, k)
         /\ Holds(e, s) = Holds(b, <<>>)
<1>1. /\ n = k + (IF b.at = "take" THEN 1 ELSE 0)
      /\ b.at = "take" => e.out = k
  <2>1. CASE b.at = "take"
    BY ONLY <2>1, Advances(b, e, k, n) DEF Advances
  <2>2. CASE ~(b.at = "take")
    <3>1. n = k
      BY ONLY <2>2, Advances(b, e, k, n) DEF Advances
    <3>2. (IF b.at = "take" THEN 1 ELSE 0) = 0
      BY ONLY <2>2
    <3> QED
      BY ONLY <2>2, <3>1, <3>2, k \in Nat
  <2> QED
    BY ONLY <2>1, <2>2
<1>2. BufferLists
  BY BufferCallsAre
<1>3. /\ b \in Consuming /\ b.out = (IF k = 0 THEN 0 ELSE k - 1)
      /\ b.left + k <= m + (IF b.at = "taken" THEN 1 ELSE 0)
      /\ m = 1 => k = 0 /\ b.left = 0
      /\ b.at \in {"take", "taken"} => b.left > 0
  BY ONLY Consumer(b, <<>>, k, m) DEF Consumer
<1>4. b.out \in Nat /\ b.left \in Nat
  BY ONLY <1>3 DEF Consuming
<1>5. CASE b.at = "consumer" /\ b.left > 0
  <2>1. e \in Consumers("take", b.out, b.left) /\ s = Takes /\ s # <<>> /\ n = k
    BY ONLY <1>2, <1>4, <1>5, Consumes(b, e, s, m), <1>1,
            k \in Nat
       DEF Consumes, BufferLists
  <2>2. e \in Consuming /\ e.at = "take" /\ e.out = b.out /\ e.left = b.left
    BY ONLY <1>4, <2>1 DEF Consumers
  <2>3. Consumer(e, s, k, m)
    BY ONLY <1>3, <1>5, <2>1, <2>2 DEF Consumer
  <2>4. /\ Accepted(e, s, k) = k /\ Accepted(b, <<>>, k) = k
        /\ Restored(e, s, k) = k /\ Restored(b, <<>>, k) = k
    BY ONLY <1>5, <2>1, <2>2, k \in Nat DEF Accepted, Restored
  <2>5. Holds(e, s) = 0 /\ Holds(b, <<>>) = 0
    BY ONLY <1>2, <1>5, <2>2 DEF Holds, BufferLists
  <2> QED
    BY ONLY <2>1, <2>3, <2>4, <2>5 DEF Consumed
<1>6. CASE b.at = "consumer" /\ b.left = 0 /\ ~(e = End)
  <2>1. s = <<>> /\ n = k
    BY ONLY <1>4, <1>6, Consumes(b, e, s, m), <1>1,
            k \in Nat
       DEF Consumes
  <2>2. PICK l \in Nat : /\ 0 < l /\ l <= m - b.out - 1
                         /\ e \in Consumers("consumer", b.out, l)
    BY ONLY <1>4, <1>6, Consumes(b, e, s, m) DEF Consumes
  <2>3. e \in Consuming /\ e.at = "consumer" /\ e.out = b.out /\ e.left = l
    BY ONLY <1>4, <2>2 DEF Consumers
  <2>4. l + k <= m /\ m # 1
    BY ONLY <1>3, <1>4, <2>2, k \in Nat, m \in Nat \ {0}
  <2>5. Consumer(e, s, k, m)
    <3>1. /\ e.left + k <= m + (IF e.at = "taken" THEN 1 ELSE 0)
          /\ e.out = (IF k = 0 THEN 0 ELSE k - 1)
      BY ONLY <1>3, <2>3, <2>4, k \in Nat, m \in Nat \ {0}
    <3> QED
      BY ONLY <2>1, <2>3, <2>4, <3>1 DEF Consumer
  <2>6. /\ Accepted(e, s, k) = k /\ Accepted(b, <<>>, k) = k
        /\ Restored(e, s, k) = k /\ Restored(b, <<>>, k) = k
    BY ONLY <1>6, <2>1, <2>3, k \in Nat DEF Accepted, Restored
  <2>7. Holds(e, s) = 0 /\ Holds(b, <<>>) = 0
    BY ONLY <1>2, <1>6, <2>1, <2>3 DEF Holds, BufferLists
  <2> QED
    BY ONLY <2>1, <2>5, <2>6, <2>7 DEF Consumed
<1>7. CASE b.at = "consumer" /\ b.left = 0 /\ e = End
  <2>1. e.at = "end"
    BY ONLY <1>7 DEF End
  <2>2. s = <<>> /\ n = k /\ ~(m - b.out - 1 > 0)
    BY ONLY <1>4, <1>7, <2>1, Consumes(b, e, s, m),
            <1>1, k \in Nat
      DEF Consumes, Consumers
  <2>3. k + 0 <= m
    BY ONLY <1>3, <1>7, k \in Nat, m \in Nat \ {0}
  <2>4. k = Last(m)
    BY ONLY <1>3, <1>4, <2>2, <2>3, k \in Nat, m \in Nat \ {0} DEF Last
  <2>5. /\ Accepted(e, s, k) = k /\ Accepted(b, <<>>, k) = k
        /\ Restored(e, s, k) = k /\ Restored(b, <<>>, k) = k
    BY ONLY <1>7, <2>1, <2>2, k \in Nat DEF Accepted, Restored
  <2>6. Holds(e, s) = 0 /\ Holds(b, <<>>) = 0
    BY ONLY <1>2, <1>7, <2>1 DEF Holds, BufferLists
  <2> QED
    BY ONLY <1>7, <2>2, <2>4, <2>5, <2>6 DEF Consumed
<1>8. CASE b.at = "take"
  <2>1. s = Locks /\ s # <<>> /\ n = k + 1
    BY ONLY <1>2, <1>8, Consumes(b, e, s, m), <1>1,
            k \in Nat
       DEF Consumes, BufferLists
  <2>2. PICK item \in Nat : e \in Consumers("taken", item, b.left)
    BY ONLY <1>8, Consumes(b, e, s, m) DEF Consumes
  <2>3. e \in Consuming /\ e.at = "taken" /\ e.out = k /\ e.left = b.left
    BY ONLY <1>4, <1>8, <2>2, <1>1 DEF Consumers
  <2>4. m # 1 /\ b.left > 0 /\ b.left + n <= m + 1 /\ n # 0 /\ n - 1 = k
    BY ONLY <1>3, <1>4, <1>8, <2>1, k \in Nat, m \in Nat \ {0}
  <2>5. Consumer(e, s, n, m)
    BY ONLY <2>1, <2>3, <2>4 DEF Consumer
  <2>6. /\ Accepted(e, s, n) = k + 1 /\ Accepted(b, <<>>, k) = k + 1
        /\ Restored(e, s, n) = k /\ Restored(b, <<>>, k) = k
    BY ONLY <1>8, <2>1, <2>3, k \in Nat DEF Accepted, Restored
  <2>7. Holds(e, s) = 0 /\ Holds(b, <<>>) = 0
    BY ONLY <1>8, <2>1, <2>3 DEF Holds
  <2> QED
    BY ONLY <2>5, <2>6, <2>7 DEF Consumed
<1>9. CASE b.at = "taken"
  <2>1. /\ s = TakesOut /\ s # <<>> /\ n = k
        /\ e \in Consumers("consumer", b.out, b.left - 1)
    BY ONLY <1>2, <1>9, Consumes(b, e, s, m), <1>1,
            k \in Nat
       DEF Consumes, BufferLists
  <2>2. b.left > 0 /\ b.left - 1 \in Nat /\ m # 1 /\ b.left - 1 + k <= m
    BY ONLY <1>3, <1>4, <1>9, k \in Nat, m \in Nat \ {0}
  <2>3. e \in Consuming /\ e.at = "consumer" /\ e.out = b.out /\ e.left = b.left - 1
    BY ONLY <1>4, <2>1, <2>2 DEF Consumers
  <2>4. Consumer(e, s, k, m)
    <3>1. e.left + k <= m + (IF e.at = "taken" THEN 1 ELSE 0)
      BY ONLY <2>2, <2>3, m \in Nat \ {0}
    <3> QED
      BY ONLY <1>3, <2>1, <2>2, <2>3, <3>1 DEF Consumer
  <2>5. /\ Accepted(e, s, k) = k /\ Accepted(b, <<>>, k) = k
        /\ Restored(e, s, k) = k - 1 /\ Restored(b, <<>>, k) = k - 1
    BY ONLY <1>9, <2>1, <2>3, k \in Nat DEF Accepted, Restored
  <2>6. Holds(e, s) = 1 /\ Holds(b, <<>>) = 1
    BY ONLY <1>9, <2>1, <2>3 DEF Holds
  <2> QED
    BY ONLY <2>1, <2>4, <2>5, <2>6 DEF Consumed
<1>10. b.left > 0 \/ b.left = 0
  BY ONLY <1>4
<1> QED
  BY ONLY <1>5, <1>6, <1>7, <1>8, <1>9, <1>10, Consumes(b, e, s, m) DEF Consumes

(* The counts are numbers, and none is more than has been done. *)
LEMMA ProducerNumbers ==
  ASSUME NEW a, NEW f, NEW m \in Nat, Producer(a, f, m)
  PROVE  /\ PutBy(a, m) \in Nat /\ Claimed(a, f, m) \in Int /\ Announced(a, f, m) \in Int
         /\ Locked(a, f) \in {0, 1}
         /\ PutBy(a, m) <= Claimed(a, f, m) /\ Announced(a, f, m) <= PutBy(a, m)
<1>1. a \in Producing \cup {End}
  BY DEF Producer
<1>2. End.at = "end"
  BY DEF End
<1>3. PutBy(a, m) \in Nat
  BY ONLY <1>1, <1>2, m \in Nat DEF PutBy, Producing
<1>4. Claimed(a, f, m) \in Int /\ PutBy(a, m) <= Claimed(a, f, m)
  BY ONLY <1>3 DEF Claimed
<1>5. Announced(a, f, m) \in Int /\ Announced(a, f, m) <= PutBy(a, m)
  BY ONLY <1>3 DEF Announced
<1> QED
  BY ONLY <1>3, <1>4, <1>5 DEF Locked

(* As above. *)
LEMMA ConsumerNumbers ==
  ASSUME NEW b, NEW s, NEW k \in Nat
  PROVE  /\ Accepted(b, s, k) \in Int /\ Restored(b, s, k) \in Int /\ Holds(b, s) \in {0, 1}
         /\ k <= Accepted(b, s, k) /\ Restored(b, s, k) <= k
<1>1. Accepted(b, s, k) \in Int /\ k <= Accepted(b, s, k)
  BY DEF Accepted
<1>2. Restored(b, s, k) \in Int /\ Restored(b, s, k) <= k
  BY DEF Restored
<1> QED
  BY ONLY <1>1, <1>2 DEF Holds

(* Where nothing that the program sees changes, they do not. *)
LEMMA BufferPasses ==
  ASSUME BufferIInv, Passes, NEW S, Forward(S)
  PROVE  BufferIInv'
<1>1. First \in Thread /\ Second \in Thread /\ First # Second
  BY PoolBegins
<1>2. /\ \A t \in Thread : Ahead(t)' = Ahead(t)
      /\ tokens' = tokens /\ app' = app /\ max' = max /\ data' = data
      /\ code' = code /\ out' = out
  BY DEF Passes, Silent, appVars
<1>3. pc[Second] = "none" <=> pc'[Second] = "none"
  BY <1>1 DEF Passes, Silent, Forward
<1>4. Ahead(First)' = Ahead(First) /\ Ahead(Second)' = Ahead(Second)
  BY ONLY <1>1, <1>2
<1>5. Starting' /\ Balance'
  BY ONLY BufferIInv, <1>2, <1>3, <1>4 DEF BufferIInv, Starting, Balance, Taken
<1> QED
  BY ONLY BufferIInv, <1>2, <1>4, <1>5 DEF BufferIInv, Taken, Put, Numbers

(* A call that takes effect moves what it is about. *)
LEMMA BufferServes ==
  ASSUME AppBase, BufferIInv, NEW t \in Thread, NEW c \in AnyCall, Serves(t, c),
         NEW S, Forward(S)
  PROVE  BufferIInv'
<1>1. First \in Thread /\ Second \in Thread /\ First # Second /\ BufferCalls /\ BufferLists
  BY PoolBegins, BufferCallsAre
<1>2. /\ cpu = t /\ Ahead(t) # <<>> /\ c = Head(Ahead(t)) /\ Ahead(t)' = Tail(Ahead(t))
      /\ \A u \in Thread \ {t} : Ahead(u)' = Ahead(u)
      /\ app' = app /\ max' = max /\ data' = data /\ code' = code
      /\ c.op # "print" => out' = out
  BY DEF Serves, Makes
<1>3. /\ pc[Second] # "none" => pc'[Second] # "none"
      /\ pc[Second] = "none" => (pc'[Second] = "none" <=> ~(c.op = "create" /\ c.arg = Second))
  BY <1>1 DEF Serves, Makes, Forward
<1>4. /\ app = "buffer" /\ max \in Nat \ {0} /\ Taken \in Nat /\ out = Numbers(Taken)
      /\ code \in [Thread -> Producing \cup Consuming \cup {End}]
      /\ \A u \in Thread \ {First, Second} : Ahead(u) = <<>> /\ code[u] = End
      /\ Producer(code[First], Ahead(First), max)
      /\ Starting /\ Balance /\ Holding(data, Put, Taken)
  BY DEF BufferIInv
<1>5. t \in {First, Second}
  BY ONLY <1>2, <1>4, t \in Thread
<1>6. \A u \in (Thread \ {First, Second}) : Ahead(u)' = <<>> /\ code'[u] = End
  BY ONLY <1>2, <1>4, <1>5
<1>7. ASSUME c \in {Up(Full), Up(Empty), Up(Mutex), Down(Full), Down(Empty), Down(Mutex),
                    Do("create", Second)}
      PROVE  /\ out' = out /\ Taken' = Taken
             /\ tokens'[Full] = tokens[Full] + Gives(c, Full) /\ tokens[Full] \in Int
             /\ tokens'[Empty] = tokens[Empty] + Gives(c, Empty) /\ tokens[Empty] \in Int
             /\ tokens'[Mutex] = tokens[Mutex] + Gives(c, Mutex) /\ tokens[Mutex] \in Int
             /\ c # Do("create", Second) => (pc[Second] = "none" <=> pc'[Second] = "none")
             /\ c = Do("create", Second) => pc'[Second] # "none"
  <2>1. c.op # "print" /\ (c.op = "create" <=> c = Do("create", Second))
    BY ONLY <1>1, <1>7 DEF BufferCalls
  <2>2. \A s \in {Full, Empty, Mutex} :
          tokens'[s] = tokens[s] + Gives(c, s) /\ tokens[s] \in Int
    BY <1>7, BufferEffect DEF AppBase, Serves, Makes
  <2>3. out' = out /\ Taken' = Taken
    BY ONLY <1>2, <2>1 DEF Taken
  <2>4. c = Do("create", Second) => c.arg = Second
    BY ONLY <1>1 DEF BufferCalls
  <2> QED
    BY ONLY <1>3, <2>1, <2>2, <2>3, <2>4
<1>8. ASSUME Producer(code[First], Ahead(First)', max), Starting', Balance',
             out' = out, Taken' = Taken
      PROVE  BufferIInv'
  <2>1. Producer(code[First], Ahead(First), max)' /\ Holding(data, Put, Taken)'
    BY ONLY <1>2, <1>4, <1>8 DEF Put
  <2>2. out' = Numbers(Taken)'
    BY ONLY <1>4, <1>8 DEF Numbers
  <2> QED
    BY ONLY <1>2, <1>4, <1>6, <1>8, <2>1, <2>2 DEF BufferIInv
<1>9. max \in Nat /\ Producer(code[First], Ahead(First), max)
  BY ONLY <1>4
<1>10. /\ Claimed(code[First], Ahead(First), max) \in Int
       /\ Announced(code[First], Ahead(First), max) \in Int
       /\ Locked(code[First], Ahead(First)) \in Int
  BY ONLY <1>9, ProducerNumbers
<1>11. /\ Accepted(code[Second], Ahead(Second), Taken) \in Int
       /\ Restored(code[Second], Ahead(Second), Taken) \in Int
       /\ Holds(code[Second], Ahead(Second)) \in Int
  BY ONLY <1>4, ConsumerNumbers
<1>12. CASE t = First
  <2>1. Ahead(First) # <<>> /\ Ahead(First)' = Tail(Ahead(First)) /\ c = Head(Ahead(First))
    BY ONLY <1>2, <1>12
  <2>2. Ahead(Second)' = Ahead(Second)
    BY ONLY <1>1, <1>2, <1>12
  <2>3. /\ Producer(code[First], Tail(Ahead(First)), max)
        /\ c \in {Down(Full), Down(Mutex), Up(Mutex), Up(Empty), Do("create", Second)}
        /\ Tail(Ahead(First)) # Creates
        /\ Claimed(code[First], Tail(Ahead(First)), max)
             = Claimed(code[First], Ahead(First), max) - Gives(c, Full)
        /\ Announced(code[First], Tail(Ahead(First)), max)
             = Announced(code[First], Ahead(First), max) + Gives(c, Empty)
        /\ Locked(code[First], Tail(Ahead(First)))
             = Locked(code[First], Ahead(First)) - Gives(c, Mutex)
        /\ code[First].at # "producer start"
        /\ \/ Ahead(First) = Creates
           \/ Ahead(First) # Creates /\ c # Do("create", Second)
    BY ONLY <1>9, <2>1, ProducerCalls
  <2>4. c \in {Up(Full), Up(Empty), Up(Mutex), Down(Full), Down(Empty), Down(Mutex),
               Do("create", Second)}
    BY ONLY <2>3
  <2>5. Ahead(First) = Creates => c = Do("create", Second)
    BY ONLY <1>1, <2>1 DEF BufferLists
  <2>6. Starting'
    <3>1. pc'[Second] # "none" /\ Ahead(First)' # Creates /\ code'[First].at # "producer start"
      BY ONLY <1>2, <1>4, <1>7, <2>1, <2>3, <2>4, <2>5 DEF Starting
    <3>2. Consumed(code[Second], Ahead(Second), Taken, max)'
      BY ONLY <1>2, <1>4, <1>7, <2>2, <2>3, <2>4 DEF Starting
    <3> QED
      BY ONLY <3>1, <3>2 DEF Starting
  <2>7. Balance'
    <3>1. /\ tokens'[Full] = BufferSize - Claimed(code[First], Tail(Ahead(First)), max)
                               + Restored(code[Second], Ahead(Second), Taken)
          /\ tokens'[Empty] = Announced(code[First], Tail(Ahead(First)), max)
                                - Accepted(code[Second], Ahead(Second), Taken)
          /\ tokens'[Mutex] = 1 - Locked(code[First], Tail(Ahead(First)))
                                - Holds(code[Second], Ahead(Second))
      <4>1. BufferSize \in Int
        BY AppAssumption
      <4>2. /\ tokens'[Full] = tokens[Full] + Gives(c, Full)
            /\ tokens'[Empty] = tokens[Empty] + Gives(c, Empty)
            /\ tokens'[Mutex] = tokens[Mutex] + Gives(c, Mutex)
        BY ONLY <1>7, <2>4
      <4>3. Gives(c, Full) \in Int /\ Gives(c, Empty) \in Int /\ Gives(c, Mutex) \in Int
        BY DEF Gives
      <4>4. /\ tokens[Full] = BufferSize - Claimed(code[First], Ahead(First), max)
                                + Restored(code[Second], Ahead(Second), Taken)
            /\ tokens[Empty] = Announced(code[First], Ahead(First), max)
                                 - Accepted(code[Second], Ahead(Second), Taken)
            /\ tokens[Mutex] = 1 - Locked(code[First], Ahead(First))
                                 - Holds(code[Second], Ahead(Second))
        BY ONLY <1>4 DEF Balance
      <4>5. /\ Claimed(code[First], Tail(Ahead(First)), max)
                 = Claimed(code[First], Ahead(First), max) - Gives(c, Full)
            /\ Announced(code[First], Tail(Ahead(First)), max)
                 = Announced(code[First], Ahead(First), max) + Gives(c, Empty)
            /\ Locked(code[First], Tail(Ahead(First)))
                 = Locked(code[First], Ahead(First)) - Gives(c, Mutex)
        BY ONLY <2>3
      <4> QED
        BY ONLY <1>10, <1>11, <4>1, <4>2, <4>3, <4>4, <4>5
    <3>2. Taken' = Taken /\ code' = code /\ max' = max
      BY ONLY <1>2, <1>7, <2>4
    <3> QED
      BY ONLY <2>1, <2>2, <3>1, <3>2 DEF Balance
  <2> QED
    BY ONLY <1>7, <1>8, <2>1, <2>3, <2>4, <2>6, <2>7
<1>13. CASE t = Second
  <2>1. Ahead(Second) # <<>> /\ Ahead(Second)' = Tail(Ahead(Second)) /\ c = Head(Ahead(Second))
    BY ONLY <1>2, <1>13
  <2>2. Ahead(First)' = Ahead(First)
    BY ONLY <1>1, <1>2, <1>13
  <2>3. /\ code[First].at # "producer start" /\ Ahead(First) # Creates
        /\ Consumer(code[Second], Ahead(Second), Taken, max)
    BY ONLY <1>4, <2>1 DEF Starting, Consumed
  <2>4. /\ Consumer(code[Second], Tail(Ahead(Second)), Taken, max)
        /\ c \in {Down(Empty), Down(Mutex), Up(Mutex), Up(Full)}
        /\ Accepted(code[Second], Tail(Ahead(Second)), Taken)
             = Accepted(code[Second], Ahead(Second), Taken) - Gives(c, Empty)
        /\ Restored(code[Second], Tail(Ahead(Second)), Taken)
             = Restored(code[Second], Ahead(Second), Taken) + Gives(c, Full)
        /\ Holds(code[Second], Tail(Ahead(Second)))
             = Holds(code[Second], Ahead(Second)) - Gives(c, Mutex)
    BY ONLY <1>4, <1>9, <2>1, <2>3, ConsumerCalls
  <2>5. c \in {Up(Full), Up(Empty), Up(Mutex), Down(Full), Down(Empty), Down(Mutex),
               Do("create", Second)}
    BY ONLY <2>4
  <2>6. c # Do("create", Second)
    BY ONLY <1>1, <2>4 DEF BufferCalls
  <2>7. Starting'
    <3>1. /\ pc'[Second] # "none" /\ Ahead(First)' # Creates
          /\ code'[First].at # "producer start"
      BY ONLY <1>2, <1>4, <1>7, <2>2, <2>3, <2>5, <2>6 DEF Starting
    <3>2. Consumed(code[Second], Ahead(Second), Taken, max)'
      BY ONLY <1>2, <1>7, <2>1, <2>4, <2>5 DEF Consumed
    <3> QED
      BY ONLY <3>1, <3>2 DEF Starting
  <2>8. Balance'
    <3>1. /\ tokens'[Full] = BufferSize - Claimed(code[First], Ahead(First), max)
                               + Restored(code[Second], Tail(Ahead(Second)), Taken)
          /\ tokens'[Empty] = Announced(code[First], Ahead(First), max)
                                - Accepted(code[Second], Tail(Ahead(Second)), Taken)
          /\ tokens'[Mutex] = 1 - Locked(code[First], Ahead(First))
                                - Holds(code[Second], Tail(Ahead(Second)))
      <4>1. BufferSize \in Int
        BY AppAssumption
      <4>2. /\ tokens'[Full] = tokens[Full] + Gives(c, Full)
            /\ tokens'[Empty] = tokens[Empty] + Gives(c, Empty)
            /\ tokens'[Mutex] = tokens[Mutex] + Gives(c, Mutex)
        BY ONLY <1>7, <2>5
      <4>3. Gives(c, Full) \in Int /\ Gives(c, Empty) \in Int /\ Gives(c, Mutex) \in Int
        BY DEF Gives
      <4>4. /\ tokens[Full] = BufferSize - Claimed(code[First], Ahead(First), max)
                                + Restored(code[Second], Ahead(Second), Taken)
            /\ tokens[Empty] = Announced(code[First], Ahead(First), max)
                                 - Accepted(code[Second], Ahead(Second), Taken)
            /\ tokens[Mutex] = 1 - Locked(code[First], Ahead(First))
                                 - Holds(code[Second], Ahead(Second))
        BY ONLY <1>4 DEF Balance
      <4> QED
        BY ONLY <1>10, <1>11, <2>4, <4>1, <4>2, <4>3, <4>4
    <3>2. Taken' = Taken /\ code' = code /\ max' = max
      BY ONLY <1>2, <1>7, <2>5
    <3> QED
      BY ONLY <2>1, <2>2, <3>1, <3>2 DEF Balance
  <2>9. Producer(code[First], Ahead(First)', max)
    BY ONLY <1>4, <2>2
  <2> QED
    BY ONLY <1>7, <1>8, <2>5, <2>7, <2>8, <2>9
<1> QED
  BY ONLY <1>5, <1>12, <1>13

(* At most as many numbers wait in the buffer as it has places: one place  *)
(* less is taken when the producer is about to put, and at least one when  *)
(* the consumer is about to take.                                          *)
LEMMA BufferBounds ==
  ASSUME BufferIInv, NoOvertake, code[First].at # "producer start"
  PROVE  /\ Put \in Nat /\ Taken <= Put /\ Put - Taken <= BufferSize
         /\ InPut(code[First], Ahead(First)) => Put - Taken < BufferSize
         /\ code[Second].at = "take" /\ Ahead(Second) = <<>> => Taken < Put
<1>1. /\ max \in Nat /\ Taken \in Nat /\ Producer(code[First], Ahead(First), max) /\ Balance
      /\ BufferSize \in Int
  <2>1. BufferSize \in Nat \ {0}
    BY AppAssumption
  <2>2. BufferSize \in Int
    BY ONLY <2>1
  <2> QED
    BY ONLY BufferIInv, <2>2 DEF BufferIInv
<1>2. tokens[Full] >= 0 /\ tokens[Empty] >= 0
  BY BufferCallsAre DEF NoOvertake, BufferCalls
<1>3. PICK claimed \in Int, announced \in Int, accepted \in Int, restored \in Int, put \in Nat :
        /\ claimed = Claimed(code[First], Ahead(First), max)
        /\ announced = Announced(code[First], Ahead(First), max)
        /\ accepted = Accepted(code[Second], Ahead(Second), Taken)
        /\ restored = Restored(code[Second], Ahead(Second), Taken)
        /\ put = Put /\ put <= claimed /\ announced <= put
        /\ Taken <= accepted /\ restored <= Taken
  <2>1. /\ Put \in Nat /\ Claimed(code[First], Ahead(First), max) \in Int
        /\ Announced(code[First], Ahead(First), max) \in Int
        /\ Put <= Claimed(code[First], Ahead(First), max)
        /\ Announced(code[First], Ahead(First), max) <= Put
    BY ONLY <1>1, ProducerNumbers DEF Put
  <2>2. /\ Accepted(code[Second], Ahead(Second), Taken) \in Int
        /\ Restored(code[Second], Ahead(Second), Taken) \in Int
        /\ Taken <= Accepted(code[Second], Ahead(Second), Taken)
        /\ Restored(code[Second], Ahead(Second), Taken) <= Taken
    BY ONLY <1>1, ConsumerNumbers
  <2> QED
    BY ONLY <2>1, <2>2
<1>4. BufferSize - claimed + restored >= 0 /\ announced - accepted >= 0
  BY ONLY <1>1, <1>2, <1>3 DEF Balance
<1>5. InPut(code[First], Ahead(First)) => claimed = put + 1
  BY ONLY <1>3 DEF Claimed, Put
<1>6. code[Second].at = "take" /\ Ahead(Second) = <<>> => accepted = Taken + 1
  BY ONLY <1>1, <1>3 DEF Accepted
<1>7. put \in Nat /\ Taken <= put /\ put - Taken <= BufferSize
  BY ONLY <1>1, <1>3, <1>4
<1>8. claimed = put + 1 => put - Taken < BufferSize
  BY ONLY <1>1, <1>3, <1>4
<1>9. accepted = Taken + 1 => Taken < put
  BY ONLY <1>1, <1>3, <1>4
<1> QED
  BY ONLY <1>3, <1>5, <1>6, <1>7, <1>8, <1>9

(* What a thread of sem_buffer.c computes: its code, its calls, the buffer *)
(* and what it prints.                                                     *)
ProducerMove(t) ==
  /\ Produces(code[t], code'[t], Ahead(t)', max) /\ out' = out
  /\ IF code[t].at = "put" THEN Stores(data, data', code[t].count)
     ELSE data' = data \/ Resizes(data, data')
  /\ \A u \in Thread \ {t, Second} : code'[u] = code[u]
  /\ IF code[t].at = "producer start"
     THEN code'[Second] \in Consumers("consumer", 0, 0)
     ELSE code'[Second] = code[Second]
ConsumerMove(t) ==
  /\ Consumes(code[t], code'[t], Ahead(t)', max)
  /\ IF code[t].at = "take"
     THEN /\ Fetches(data, data') /\ out' = Append(out, data.buffer[data.tail])
          /\ code'[t].out = data.buffer[data.tail]
     ELSE out' = out /\ (data' = data \/ Resizes(data, data'))
  /\ \A u \in Thread \ {t} : code'[u] = code[u]

(* The producer's segments are such moves. *)
LEMMA ProducerCode ==
  ASSUME AppBase, BufferIInv, NEW t \in Thread, ProducerStep(t), Segments(t)
  PROVE  t = First /\ ProducerMove(t)
<1>1. First \in Thread /\ Second \in Thread /\ First # Second /\ Pool[2] = Second
  BY PoolBegins DEF Second
<1>2. /\ code \in [Thread -> Producing \cup Consuming \cup {End}]
      /\ todo \in [Thread -> Seq(AnyCall)] /\ Ahead(t)' = todo'[t]
  BY DEF AppBase, SemIInv, SemTypeOK, BufferIInv, Segments
<1>3. code[t].at \in {"producer start", "producer", "put", "put in"} /\ out' = out
  BY ONLY ProducerStep(t) DEF ProducerStep, InCode
<1>4. t = First
  <2>1. End.at = "end"
    BY DEF End
  <2>2. code[Second].at \in {"consumer", "take", "taken", "end"}
    BY ONLY BufferIInv, <2>1 DEF BufferIInv, Starting, Consumed, Consumer, Consuming
  <2>3. \A u \in Thread \ {First, Second} : code[u].at = "end"
    BY ONLY BufferIInv, <2>1 DEF BufferIInv
  <2> QED
    BY ONLY <1>3, <2>2, <2>3, t \in Thread
<1>5. code[t] \in Producing
  <2>1. code[t] \in Producing \cup {End}
    BY ONLY BufferIInv, <1>4 DEF BufferIInv, Producer
  <2>2. End.at = "end"
    BY DEF End
  <2> QED
    BY ONLY <1>3, <2>1, <2>2
<1>6. /\ \A l \in {"producer", "put"} : To(t, l) \in Producers(l, code[t].count)
      /\ [code[t] EXCEPT !.at = "put in", !.count = @ + 1]
           \in Producers("put in", code[t].count + 1)
  BY ONLY <1>5, ProducerAssigns DEF To
<1>7. ASSUME NEW e, NEW calls, Segment(t, e, calls)
      PROVE  /\ code'[t] = e /\ Ahead(t)' = calls
             /\ \A u \in Thread \ {t} : code'[u] = code[u]
  BY ONLY <1>2, <1>7, t \in Thread DEF Segment
<1>8. CASE code[t].at = "producer start"
  <2>1. /\ Creating(t, To(t, "producer"), <<>>,
                    Pool[2], [at |-> "consumer", out |-> 0, left |-> 0])
        /\ data' = data
    BY ONLY ProducerStep(t), <1>8 DEF ProducerStep, InCode
  <2>2. /\ code' = [code EXCEPT ![t] = To(t, "producer"),
                                ![Second] = [at |-> "consumer", out |-> 0, left |-> 0]]
        /\ todo' = [todo EXCEPT ![t] = Append(<<>>, Do("create", Second))]
    BY ONLY <1>1, <2>1 DEF Creating
  <2>3. Append(<<>>, Do("create", Second)) = Creates
    BY DEF Creates
  <2>4. [at |-> "consumer", out |-> 0, left |-> 0] \in Consumers("consumer", 0, 0)
    BY DEF Consumers, Consuming
  <2>5. /\ code'[t] = To(t, "producer") /\ Ahead(t)' = Creates
        /\ code'[Second] \in Consumers("consumer", 0, 0)
        /\ \A u \in Thread \ {t, Second} : code'[u] = code[u]
    BY ONLY <1>1, <1>2, <1>4, <2>2, <2>3, <2>4
  <2>6. Produces(code[t], code'[t], Ahead(t)', max)
    BY ONLY <1>6, <1>8, <2>5 DEF Produces
  <2> QED
    BY ONLY <1>3, <1>4, <1>8, <2>1, <2>5, <2>6 DEF ProducerMove
<1>9. ASSUME NEW e, NEW calls, Segment(t, e, calls), code[t].at # "producer start",
             Produces(code[t], e, calls, max),
             IF code[t].at = "put" THEN Stores(data, data', code[t].count)
             ELSE data' = data \/ Resizes(data, data')
      PROVE  t = First /\ ProducerMove(t)
  <2>1. /\ code'[t] = e /\ Ahead(t)' = calls
        /\ \A u \in Thread \ {t} : code'[u] = code[u]
    BY ONLY <1>7, <1>9
  <2>2. code'[Second] = code[Second]
    BY ONLY <1>1, <1>4, <2>1
  <2> QED
    BY ONLY <1>3, <1>4, <1>9, <2>1, <2>2 DEF ProducerMove
<1>10. CASE code[t].at = "producer"
  <2>1. /\ data' = data
        /\ IF code[t].count < max
           THEN Segment(t, To(t, "put"), <<Down(Full)>>)
           ELSE Segment(t, End, <<>>)
    BY ONLY ProducerStep(t), <1>10 DEF ProducerStep, InCode
  <2>2. Produces(code[t], IF code[t].count < max THEN To(t, "put") ELSE End,
                 IF code[t].count < max THEN Claims ELSE <<>>, max)
    BY ONLY <1>6, <1>10 DEF Produces
  <2>3. Segment(t, IF code[t].count < max THEN To(t, "put") ELSE End,
                IF code[t].count < max THEN Claims ELSE <<>>)
    BY ONLY <2>1 DEF Claims
  <2> QED
    BY ONLY <1>9, <1>10, <2>1, <2>2, <2>3
<1>11. CASE code[t].at = "put"
  <2>1. /\ Segment(t, [code[t] EXCEPT !.at = "put in", !.count = @ + 1], <<Down(Mutex)>>)
        /\ data' = [data EXCEPT !.buffer[data.head] = code[t].count, !.head = Around(@)]
    BY ONLY ProducerStep(t), <1>11 DEF ProducerStep, InCode
  <2>2. Produces(code[t], [code[t] EXCEPT !.at = "put in", !.count = @ + 1], Locks, max)
    BY ONLY <1>6, <1>11 DEF Produces
  <2>3. Stores(data, data', code[t].count)
    BY ONLY <2>1 DEF Stores
  <2>4. Segment(t, [code[t] EXCEPT !.at = "put in", !.count = @ + 1], Locks)
    BY ONLY <2>1 DEF Locks
  <2> QED
    BY ONLY <1>9, <1>11, <2>2, <2>3, <2>4
<1>12. CASE code[t].at = "put in"
  <2>1. /\ Segment(t, To(t, "producer"), <<Up(Mutex), Up(Empty)>>)
        /\ data' = [data EXCEPT !.size = @ + 1]
    BY ONLY ProducerStep(t), <1>12 DEF ProducerStep, InCode
  <2>2. Produces(code[t], To(t, "producer"), PutsOut, max)
    BY ONLY <1>6, <1>12 DEF Produces
  <2>3. Resizes(data, data')
    <3>1. data.size \in Int
      BY DEF BufferIInv, Holding
    <3>2. PICK n \in Int : n = data.size + 1
      BY ONLY <3>1
    <3>3. data' = [data EXCEPT !.size = n]
      BY ONLY <2>1, <3>2
    <3> QED
      BY ONLY <3>3 DEF Resizes
  <2>4. Segment(t, To(t, "producer"), PutsOut)
    BY ONLY <2>1 DEF PutsOut
  <2> QED
    BY ONLY <1>9, <1>12, <2>2, <2>3, <2>4
<1> QED
  BY ONLY <1>3, <1>8, <1>10, <1>11, <1>12

(* The consumer's segments are such moves. *)
LEMMA ConsumerCode ==
  ASSUME AppBase, BufferIInv, NEW t \in Thread, ConsumerStep(t), Segments(t)
  PROVE  /\ t = Second /\ ConsumerMove(t) /\ code[First].at # "producer start"
         /\ Consumer(code[Second], Ahead(Second), Taken, max)
<1>1. First \in Thread /\ Second \in Thread /\ First # Second
  BY PoolBegins
<1>2. /\ code \in [Thread -> Producing \cup Consuming \cup {End}]
      /\ todo \in [Thread -> Seq(AnyCall)] /\ Ahead(t)' = todo'[t]
  BY DEF AppBase, SemIInv, SemTypeOK, BufferIInv, Segments
<1>3. code[t].at \in {"consumer", "take", "taken"}
  BY ONLY ConsumerStep(t) DEF ConsumerStep, InCode
<1>4. /\ t = Second /\ code[First].at # "producer start" /\ code[t] \in Consuming
      /\ Consumer(code[Second], Ahead(Second), Taken, max)
  <2>1. End.at = "end"
    BY DEF End
  <2>2. code[First].at \in {"producer start", "producer", "put", "put in", "end"}
    BY ONLY BufferIInv, <2>1 DEF BufferIInv, Producer, Producing
  <2>3. \A u \in Thread \ {First, Second} : code[u].at = "end"
    BY ONLY BufferIInv, <2>1 DEF BufferIInv
  <2>4. t # First
    BY ONLY <1>3, <2>2
  <2>5. ~(t \in Thread \ {First, Second})
    BY ONLY <1>3, <2>3
  <2>6. t = Second
    BY ONLY <2>4, <2>5, t \in Thread
  <2>7. code[First].at # "producer start"
    BY ONLY BufferIInv, <1>3, <2>1, <2>6 DEF BufferIInv, Starting
  <2>8. Consumer(code[Second], Ahead(Second), Taken, max)
    <3>1. Consumed(code[Second], Ahead(Second), Taken, max)
      BY ONLY BufferIInv, <2>7 DEF BufferIInv, Starting
    <3>2. code[Second] # End
      BY ONLY <1>3, <2>1, <2>6
    <3> QED
      BY ONLY <3>1, <3>2 DEF Consumed
  <2>9. code[Second] \in Consuming
    BY ONLY <2>8 DEF Consumer
  <2> QED
    BY ONLY <2>6, <2>7, <2>8, <2>9
<1>5. /\ code[t].out \in Nat /\ code[t].left \in Nat
      /\ To(t, "take") \in Consumers("take", code[t].out, code[t].left)
      /\ \A n \in Nat : [code[t] EXCEPT !.at = "taken", !.out = n]
                            \in Consumers("taken", n, code[t].left)
      /\ code[t].at = "consumer" =>
           \A n \in Nat : [code[t] EXCEPT !.left = n] \in Consumers("consumer", code[t].out, n)
      /\ code[t].left > 0 => [code[t] EXCEPT !.at = "consumer", !.left = @ - 1]
                               \in Consumers("consumer", code[t].out, code[t].left - 1)
  BY ONLY <1>4, ConsumerAssigns DEF To
<1>6. code[t].left \in Nat
  BY ONLY <1>5
<1>7. ASSUME NEW e, NEW calls, Segment(t, e, calls)
      PROVE  /\ code'[t] = e /\ Ahead(t)' = calls
             /\ \A u \in Thread \ {t} : code'[u] = code[u]
  BY ONLY <1>2, <1>7, t \in Thread DEF Segment
<1>8. ASSUME NEW e, NEW calls, Segment(t, e, calls), code[t].at # "take",
             Consumes(code[t], e, calls, max), out' = out,
             data' = data \/ Resizes(data, data')
      PROVE  ConsumerMove(t)
  <2>1. /\ code'[t] = e /\ Ahead(t)' = calls
        /\ \A u \in Thread \ {t} : code'[u] = code[u]
    BY ONLY <1>7, <1>8
  <2> QED
    BY ONLY <1>4, <1>8, <2>1 DEF ConsumerMove
<1>9. CASE code[t].at = "consumer" /\ code[t].left > 0
  <2>1. Segment(t, To(t, "take"), <<Down(Empty)>>) /\ data' = data /\ out' = out
    <3>1. code[t].at = "consumer" /\ code[t].left # 0
      BY ONLY <1>9, <1>6
    <3> QED
      BY ONLY ConsumerStep(t), <3>1 DEF ConsumerStep, InCode
  <2>2. Segment(t, To(t, "take"), Takes)
    BY ONLY <2>1 DEF Takes
  <2>3. Consumes(code[t], To(t, "take"), Takes, max)
    BY ONLY <1>5, <1>9 DEF Consumes
  <2> QED
    <3>1. code[t].at # "take" /\ out' = out /\ data' = data
      BY ONLY <1>9, <2>1
    <3> QED
      BY ONLY <1>4, <1>8, <3>1, <2>2, <2>3
<1>10. CASE code[t].at = "consumer" /\ code[t].left = 0
  <2>1. /\ data' = data /\ out' = out
        /\ IF max - code[t].out - 1 > 0
           THEN \E batch \in 1 .. BufferSize :
                  Segment(t, [code[t] EXCEPT !.left = IF batch < max - code[t].out - 1
                                                      THEN batch
                                                      ELSE max - code[t].out - 1], <<>>)
           ELSE Segment(t, End, <<>>)
    <3>1. code[t].at = "consumer" /\ ~(code[t].left > 0)
      BY ONLY <1>10, <1>6
    <3> QED
      BY ONLY ConsumerStep(t), <3>1 DEF ConsumerStep, InCode
  <2>2. code[t].at # "take" /\ out' = out /\ data' = data
    BY ONLY <1>10, <2>1
  <2>3. CASE max - code[t].out - 1 > 0
    <3>1. PICK batch \in 1 .. BufferSize :
                  Segment(t, [code[t] EXCEPT !.left = IF batch < max - code[t].out - 1
                                                      THEN batch
                                                      ELSE max - code[t].out - 1], <<>>)
      BY ONLY <2>1, <2>3
    <3>2. max \in Nat /\ BufferSize \in Nat \ {0}
      BY AppAssumption DEF BufferIInv
    <3>3. PICK l \in Nat : /\ l = IF batch < max - code[t].out - 1
                                  THEN batch ELSE max - code[t].out - 1
                           /\ 0 < l /\ l <= max - code[t].out - 1
      <4>1. code[t].out \in Nat
        BY ONLY <1>5
      <4>2. PICK most \in Int : most = max - code[t].out - 1
        BY ONLY <3>2, <4>1
      <4>3. most > 0 /\ batch \in Nat /\ 0 < batch
        BY ONLY <2>3, <3>2, <4>2, batch \in 1 .. BufferSize
      <4>4. PICK l \in Nat : l = (IF batch < most THEN batch ELSE most) /\ 0 < l /\ l <= most
        BY ONLY <4>2, <4>3
      <4> QED
        BY ONLY <4>2, <4>4
    <3>4. [code[t] EXCEPT !.left = l] \in Consumers("consumer", code[t].out, l)
      BY ONLY <1>5, <1>10
    <3>5. Consumes(code[t], [code[t] EXCEPT !.left = l], <<>>, max)
      BY ONLY <1>10, <3>3, <3>4 DEF Consumes
    <3>6. Segment(t, [code[t] EXCEPT !.left = l], <<>>)
      BY ONLY <3>1, <3>3
    <3> QED
      BY ONLY <1>4, <1>8, <2>2, <3>5, <3>6
  <2>4. CASE ~(max - code[t].out - 1 > 0)
    <3>1. Segment(t, End, <<>>)
      BY ONLY <2>1, <2>4
    <3>2. Consumes(code[t], End, <<>>, max)
      BY ONLY <1>10, <2>4 DEF Consumes
    <3> QED
      BY ONLY <1>4, <1>8, <2>2, <3>1, <3>2
  <2> QED
    BY ONLY <2>3, <2>4
<1>11. CASE code[t].at = "take"
  <2>1. /\ Segment(t, [code[t] EXCEPT !.at = "taken", !.out = data.buffer[data.tail]],
                   <<Down(Mutex)>>)
        /\ out' = Append(out, data.buffer[data.tail])
        /\ data' = [data EXCEPT !.tail = Around(@)]
    BY ONLY ConsumerStep(t), <1>11 DEF ConsumerStep, InCode
  <2>2. data.buffer[data.tail] \in Nat
    <3>1. /\ data.buffer \in [0 .. BufferSize - 1 -> Nat] /\ data.tail \in 0 .. BufferSize - 1
      BY ONLY BufferIInv DEF BufferIInv, Holding
    <3> QED
      BY ONLY <3>1
  <2>3. PICK item \in Nat : item = data.buffer[data.tail]
    BY ONLY <2>2
  <2>4. /\ [code[t] EXCEPT !.at = "taken", !.out = item] \in Consumers("taken", item, code[t].left)
        /\ Segment(t, [code[t] EXCEPT !.at = "taken", !.out = item], Locks)
    BY ONLY <1>5, <2>1, <2>3 DEF Locks
  <2>5. code'[t] \in Consumers("taken", item, code[t].left) /\ Ahead(t)' = Locks
        /\ \A u \in Thread \ {t} : code'[u] = code[u]
    BY ONLY <1>7, <2>4
  <2>6. Consumes(code[t], code'[t], Ahead(t)', max) /\ code'[t].out = item
    BY ONLY <1>11, <2>5 DEF Consumes, Consumers
  <2>7. Fetches(data, data')
    BY ONLY <2>1 DEF Fetches
  <2> QED
    BY ONLY <1>4, <1>11, <2>1, <2>3, <2>5, <2>6, <2>7 DEF ConsumerMove
<1>12. CASE code[t].at = "taken"
  <2>1. /\ Segment(t, [code[t] EXCEPT !.at = "consumer", !.left = @ - 1],
                   <<Up(Mutex), Up(Full)>>)
        /\ data' = [data EXCEPT !.size = @ - 1] /\ out' = out
    BY ONLY ConsumerStep(t), <1>12 DEF ConsumerStep, InCode
  <2>2. code[t].left > 0
    BY ONLY <1>4, <1>12 DEF Consumer
  <2>3. Consumes(code[t], [code[t] EXCEPT !.at = "consumer", !.left = @ - 1], TakesOut, max)
    BY ONLY <1>5, <1>12, <2>2 DEF Consumes
  <2>4. Resizes(data, data')
    <3>1. data.size \in Int
      BY ONLY BufferIInv DEF BufferIInv, Holding
    <3>2. data.size - 1 \in Int
      BY ONLY <3>1
    <3>3. data' = [data EXCEPT !.size = data.size - 1]
      BY ONLY <2>1
    <3> QED
      BY ONLY <3>2, <3>3 DEF Resizes
  <2>5. Segment(t, [code[t] EXCEPT !.at = "consumer", !.left = @ - 1], TakesOut)
    BY ONLY <2>1 DEF TakesOut
  <2> QED
    <3>1. code[t].at # "take" /\ out' = out
      BY ONLY <1>12, <2>1
    <3> QED
      BY ONLY <1>4, <1>8, <3>1, <2>3, <2>4, <2>5
<1> QED
  <2>1. code[t].left > 0 \/ code[t].left = 0
    BY ONLY <1>6
  <2> QED
    BY ONLY <1>3, <1>4, <1>9, <1>10, <1>11, <1>12, <2>1

(* A segment changes nothing else of where the threads are. *)
LEMMA BufferSteps ==
  ASSUME BufferIInv, NEW t \in Thread, ProducerStep(t) \/ ConsumerStep(t)
  PROVE  code' = [u \in Thread |-> code'[u]]
<1>1. code \in [Thread -> Producing \cup Consuming \cup {End}]
  BY ONLY BufferIInv DEF BufferIInv
<1>2. \/ \E e : code' = [code EXCEPT ![t] = e]
      \/ \E e, u, f : code' = [code EXCEPT ![t] = e, ![u] = f]
  <2>1. ASSUME ProducerStep(t)
        PROVE  \/ \E e : code' = [code EXCEPT ![t] = e]
               \/ \E e, u, f : code' = [code EXCEPT ![t] = e, ![u] = f]
    BY ONLY <2>1 DEF ProducerStep, Segment, Creating
  <2>2. ASSUME ConsumerStep(t)
        PROVE  \E e : code' = [code EXCEPT ![t] = e]
    BY ONLY <2>2 DEF ConsumerStep, Segment
  <2> QED
    BY <2>1, <2>2
<1> QED
  BY ONLY <1>1, <1>2

(* A segment of the producer keeps the balance. *)
LEMMA ProducerSegment ==
  ASSUME AppBase, BufferIInv, NoOvertake, NEW t \in Thread, ProducerStep(t), Segments(t),
         UNCHANGED <<app, max>>
  PROVE  BufferIInv'
<1>1. First \in Thread /\ Second \in Thread /\ First # Second /\ BufferLists
  BY PoolBegins, BufferCallsAre
<1>2. t = First /\ ProducerMove(t)
  BY ProducerCode
<1>3. /\ pc' = pc /\ tokens' = tokens /\ app' = app /\ max' = max
      /\ Ahead(First) = <<>> /\ \A u \in Thread \ {First} : Ahead(u)' = Ahead(u)
  BY ONLY <1>2, Segments(t), UNCHANGED <<app, max>> DEF Segments
<1>4. /\ app = "buffer" /\ max \in Nat \ {0} /\ Taken \in Nat /\ out = Numbers(Taken)
      /\ \A u \in Thread \ {First, Second} : Ahead(u) = <<>> /\ code[u] = End
      /\ Producer(code[First], <<>>, max)
      /\ Starting /\ Balance /\ Holding(data, Put, Taken)
  BY ONLY BufferIInv, <1>3 DEF BufferIInv
<1>5. PICK e, f : /\ e = code'[First] /\ f = Ahead(First)'
                  /\ Produces(code[First], e, f, max)
  BY ONLY <1>2 DEF ProducerMove
<1>6. max \in Nat
  BY ONLY <1>4
<1>7. /\ Producer(e, f, max) /\ code[First] \in Producing
      /\ PutBy(e, max) = code[First].count + (IF code[First].at = "put" THEN 1 ELSE 0)
      /\ PutBy(code[First], max) = code[First].count
      /\ Claimed(e, f, max) = Claimed(code[First], <<>>, max)
      /\ Announced(e, f, max) = Announced(code[First], <<>>, max)
      /\ Locked(e, f) = Locked(code[First], <<>>)
      /\ e.at # "producer start" /\ (f = Creates <=> code[First].at = "producer start")
  <2>1. Producer(code[First], <<>>, max) /\ Produces(code[First], e, f, max)
    BY ONLY <1>4, <1>5
  <2>2. ProducerKeeps(code[First], e, f, max)
    BY ONLY <1>6, <2>1, ProducerComputes
  <2> QED
    BY ONLY <2>2 DEF ProducerKeeps
<1>8. out' = out /\ Taken' = Taken /\ Ahead(Second)' = Ahead(Second)
  <2>1. out' = out
    BY ONLY <1>2 DEF ProducerMove
  <2> QED
    BY ONLY <1>1, <1>3, <2>1 DEF Taken
<1>9. Put = code[First].count /\ Put' = PutBy(e, max) /\ Put \in Nat
  BY ONLY <1>3, <1>5, <1>7 DEF Put, Producing
<1>10. Holding(data', Put', Taken)
  <2>1. CASE code[First].at = "put"
    <3>1. InPut(code[First], Ahead(First)) /\ code[First].at # "producer start"
      BY ONLY <1>3, <2>1 DEF InPut
    <3>2. Taken <= Put /\ Put - Taken < BufferSize
      BY <3>1, BufferBounds
    <3>3. Stores(data, data', Put)
      BY ONLY <1>2, <1>9, <2>1 DEF ProducerMove
    <3>4. Holding(data', Put + 1, Taken)
      BY ONLY <1>4, <1>9, <3>2, <3>3, StoreHolds
    <3>5. Put' = Put + 1
      BY ONLY <1>7, <1>9, <2>1
    <3> QED
      BY ONLY <3>4, <3>5
  <2>2. CASE code[First].at # "put"
    <3>1. data' = data \/ Resizes(data, data')
      BY ONLY <1>2, <2>2 DEF ProducerMove
    <3>2. (IF code[First].at = "put" THEN 1 ELSE 0) = 0
      BY ONLY <2>2
    <3>3. Put' = Put
      <4>1. PutBy(e, max) = code[First].count + 0
        BY ONLY <1>7, <3>2
      <4> QED
        BY ONLY <1>9, <4>1
    <3>4. Holding(data', Put, Taken)
      BY ONLY <1>4, <3>1, ResizeHolds
    <3> QED
      BY ONLY <3>3, <3>4
  <2> QED
    BY ONLY <2>1, <2>2
<1>11. \A u \in Thread \ {First, Second} : Ahead(u)' = <<>> /\ code'[u] = End
  BY ONLY <1>1, <1>2, <1>3, <1>4 DEF ProducerMove
<1>12. ASSUME NEW g, g = code'[Second],
              g \in Consuming \cup {End},
              Starting',
              Accepted(g, Ahead(Second), Taken) = Accepted(code[Second], Ahead(Second), Taken),
              Restored(g, Ahead(Second), Taken) = Restored(code[Second], Ahead(Second), Taken),
              Holds(g, Ahead(Second)) = Holds(code[Second], Ahead(Second))
       PROVE  BufferIInv'
  <2>1. Balance'
    <3>1. /\ tokens'[Full] = BufferSize - Claimed(e, f, max)
                               + Restored(g, Ahead(Second), Taken)
          /\ tokens'[Empty] = Announced(e, f, max) - Accepted(g, Ahead(Second), Taken)
          /\ tokens'[Mutex] = 1 - Locked(e, f) - Holds(g, Ahead(Second))
      BY ONLY <1>3, <1>4, <1>7, <1>12 DEF Balance
    <3> QED
      BY ONLY <1>3, <1>5, <1>8, <1>12, <3>1 DEF Balance
  <2>2. code' \in [Thread -> Producing \cup Consuming \cup {End}]
    <3>1. code'[First] \in Producing \cup {End}
      BY ONLY <1>5, <1>7 DEF Producer
    <3>2. \A u \in Thread : code'[u] \in Producing \cup Consuming \cup {End}
      BY ONLY <1>11, <1>12, <3>1
    <3>3. code' = [u \in Thread |-> code'[u]]
      BY BufferSteps
    <3> QED
      BY ONLY <3>2, <3>3
  <2>3. Producer(code[First], Ahead(First), max)' /\ Holding(data, Put, Taken)'
    BY ONLY <1>3, <1>5, <1>7, <1>8, <1>10
  <2>4. out' = Numbers(Taken)'
    BY ONLY <1>4, <1>8 DEF Numbers
  <2> QED
    BY ONLY <1>3, <1>4, <1>8, <1>11, <1>12, <2>1, <2>2, <2>3, <2>4 DEF BufferIInv
<1>13. CASE code[First].at = "producer start"
  <2>1. pc[Second] = "none" /\ code[Second] = End /\ Ahead(Second) = <<>> /\ Taken = 0
    BY ONLY <1>4, <1>13 DEF Starting
  <2>2. PICK g : g = code'[Second] /\ g \in Consumers("consumer", 0, 0)
    BY ONLY <1>2, <1>13 DEF ProducerMove
  <2>3. g \in Consuming /\ g.at = "consumer" /\ g.out = 0 /\ g.left = 0
    BY ONLY <2>2 DEF Consumers
  <2>4. Consumer(g, <<>>, 0, max)
    <3>1. g.left + 0 <= max + (IF g.at = "taken" THEN 1 ELSE 0)
      BY ONLY <1>6, <2>3
    <3> QED
      BY ONLY <2>3, <3>1 DEF Consumer
  <2>5. Starting'
    <3>1. /\ code'[First].at # "producer start" /\ Ahead(First)' = Creates
          /\ pc'[Second] = "none" /\ code'[Second].at = "consumer" /\ Ahead(Second)' = <<>>
      BY ONLY <1>3, <1>5, <1>7, <1>8, <1>13, <2>1, <2>2, <2>3
    <3>2. Consumed(code'[Second], Ahead(Second)', Taken', max')
      BY ONLY <1>3, <1>8, <2>1, <2>2, <2>4 DEF Consumed
    <3> QED
      BY ONLY <3>1, <3>2 DEF Starting
  <2>6. /\ Accepted(g, <<>>, 0) = Accepted(End, <<>>, 0)
        /\ Restored(g, <<>>, 0) = Restored(End, <<>>, 0)
        /\ Holds(g, <<>>) = Holds(End, <<>>)
    <3>1. End.at = "end"
      BY DEF End
    <3>2. TakesOut # <<>>
      BY ONLY <1>1 DEF BufferLists
    <3> QED
      BY ONLY <2>3, <3>1, <3>2 DEF Accepted, Restored, Holds
  <2> QED
    BY ONLY <1>12, <2>1, <2>2, <2>3, <2>5, <2>6
<1>14. CASE code[First].at # "producer start"
  <2>1. code'[Second] = code[Second]
    BY ONLY <1>2, <1>14 DEF ProducerMove
  <2>2. <<>> # Creates
    BY ONLY <1>1 DEF BufferLists
  <2>3. pc[Second] # "none" /\ Consumed(code[Second], Ahead(Second), Taken, max)
    BY ONLY <1>3, <1>4, <1>14, <2>2 DEF Starting
  <2>4. Starting'
    <3>1. /\ code'[First].at # "producer start" /\ Ahead(First)' # Creates
          /\ pc'[Second] # "none"
      BY ONLY <1>3, <1>5, <1>7, <1>14, <2>3
    <3>2. Consumed(code'[Second], Ahead(Second)', Taken', max')
      BY ONLY <1>3, <1>8, <2>1, <2>3
    <3> QED
      BY ONLY <3>1, <3>2 DEF Starting
  <2>5. code[Second] \in Consuming \cup {End}
    BY ONLY <2>3 DEF Consumed, Consumer
  <2> QED
    BY ONLY <1>12, <2>1, <2>4, <2>5
<1> QED
  BY ONLY <1>13, <1>14

(* So does one of the consumer: what it takes is the next number. *)
LEMMA ConsumerSegment ==
  ASSUME AppBase, BufferIInv, NoOvertake, NEW t \in Thread, ConsumerStep(t), Segments(t),
         UNCHANGED <<app, max>>
  PROVE  BufferIInv'
<1>1. First \in Thread /\ Second \in Thread /\ First # Second /\ BufferLists
  BY PoolBegins, BufferCallsAre
<1>2. /\ t = Second /\ ConsumerMove(t) /\ code[First].at # "producer start"
      /\ Consumer(code[Second], Ahead(Second), Taken, max)
  BY ConsumerCode
<1>3. /\ pc' = pc /\ tokens' = tokens /\ app' = app /\ max' = max
      /\ pc[Second] = "run"
      /\ Ahead(Second) = <<>> /\ \A u \in Thread \ {Second} : Ahead(u)' = Ahead(u)
  BY ONLY <1>2, Segments(t), UNCHANGED <<app, max>> DEF Segments
<1>4. /\ app = "buffer" /\ max \in Nat \ {0} /\ Taken \in Nat /\ out = Numbers(Taken)
      /\ code \in [Thread -> Producing \cup Consuming \cup {End}]
      /\ \A u \in Thread \ {First, Second} : Ahead(u) = <<>> /\ code[u] = End
      /\ Producer(code[First], Ahead(First), max)
      /\ Starting /\ Balance /\ Holding(data, Put, Taken)
  BY ONLY BufferIInv DEF BufferIInv
<1>5. /\ code'[First] = code[First] /\ Ahead(First)' = Ahead(First) /\ Put' = Put
      /\ \A u \in Thread \ {First, Second} : Ahead(u)' = <<>> /\ code'[u] = End
  <2>1. \A u \in Thread \ {Second} : code'[u] = code[u]
    BY ONLY <1>2 DEF ConsumerMove
  <2>2. code'[First] = code[First] /\ Ahead(First)' = Ahead(First)
    BY ONLY <1>1, <1>3, <2>1
  <2>3. Put' = Put
    BY ONLY <1>3, <2>2 DEF Put
  <2> QED
    BY ONLY <1>3, <1>4, <2>1, <2>2, <2>3
<1>6. PICK e, s : /\ e = code'[Second] /\ s = Ahead(Second)'
                  /\ Consumes(code[Second], e, s, max)
  BY ONLY <1>2 DEF ConsumerMove
<1>7. PICK n \in Nat : n = Taken + (IF code[Second].at = "take" THEN 1 ELSE 0)
  BY ONLY <1>4
<1>8. out' = Numbers(n) /\ Holding(data', Put, n) /\ (code[Second].at = "take" => e.out = Taken)
  <2>1. CASE code[Second].at = "take"
    <3>1. Taken < Put /\ Put - Taken <= BufferSize /\ Put \in Nat
      BY <1>2, <1>3, <2>1, BufferBounds
    <3>2. /\ Fetches(data, data') /\ out' = Append(out, data.buffer[data.tail])
          /\ code'[Second].out = data.buffer[data.tail]
      BY ONLY <1>2, <2>1 DEF ConsumerMove
    <3>3. Holding(data', Put, Taken + 1) /\ data.buffer[data.tail] = Taken
      BY ONLY <1>4, <3>1, <3>2, FetchHolds
    <3>4. n = Taken + 1
      BY ONLY <1>4, <1>7, <2>1
    <3>5. Append(Numbers(Taken), Taken) = Numbers(Taken + 1)
      BY ONLY <1>4, OneMoreNumber
    <3> QED
      BY ONLY <1>4, <1>6, <3>2, <3>3, <3>4, <3>5
  <2>2. CASE code[Second].at # "take"
    <3>1. out' = out /\ (data' = data \/ Resizes(data, data'))
      <4>1. ConsumerMove(t) /\ ~(code[t].at = "take")
        BY ONLY <1>2, <2>2
      <4> QED
        BY ONLY <4>1 DEF ConsumerMove
    <3>2. (IF code[Second].at = "take" THEN 1 ELSE 0) = 0
      BY ONLY <2>2
    <3>3. n = Taken
      BY ONLY <1>4, <1>7, <3>2
    <3>4. Holding(data', Put, Taken)
      BY ONLY <1>4, <3>1, ResizeHolds
    <3> QED
      BY ONLY <1>4, <2>2, <3>1, <3>3, <3>4
  <2> QED
    BY ONLY <2>1, <2>2
<1>9. Taken' = n
  <2>1. Len(Numbers(n)) = n
    BY FirstNumbers
  <2> QED
    BY ONLY <1>8, <2>1 DEF Taken
<1>10. /\ Consumed(e, s, n, max)
       /\ Accepted(e, s, n) = Accepted(code[Second], <<>>, Taken)
       /\ Restored(e, s, n) = Restored(code[Second], <<>>, Taken)
       /\ Holds(e, s) = Holds(code[Second], <<>>)
  <2>1. Consumer(code[Second], <<>>, Taken, max)
    BY ONLY <1>2, <1>3
  <2>2. /\ Consumed(e, s, n, max)
        /\ Accepted(e, s, n) = Accepted(code[Second], <<>>, Taken)
        /\ Restored(e, s, n) = Restored(code[Second], <<>>, Taken)
        /\ Holds(e, s) = Holds(code[Second], <<>>)
    <3>1. max \in Nat \ {0} /\ Taken \in Nat
      BY ONLY <1>4
    <3>2. Consumes(code[Second], e, s, max) /\ (code[Second].at = "take" => e.out = Taken)
      BY ONLY <1>6, <1>8
    <3>3. Advances(code[Second], e, Taken, n)
      <4>1. CASE code[Second].at = "take"
        BY ONLY <1>4, <1>7, <3>2, <4>1 DEF Advances
      <4>2. CASE ~(code[Second].at = "take")
        <5>1. (IF code[Second].at = "take" THEN 1 ELSE 0) = 0
          BY ONLY <4>2
        <5>2. n = Taken
          BY ONLY <1>7, <3>1, <5>1
        <5> QED
          BY ONLY <4>2, <5>2 DEF Advances
      <4> QED
        BY ONLY <4>1, <4>2
    <3> QED
      BY ONLY <2>1, <3>1, <3>2, <3>3, n \in Nat, ConsumerComputes
  <2> QED
    BY ONLY <2>2
<1>11. Starting'
  <2>1. pc'[Second] # "none" /\ code'[First].at # "producer start" /\ Ahead(First)' # Creates
    BY ONLY <1>2, <1>3, <1>4, <1>5 DEF Starting
  <2>2. Consumed(code'[Second], Ahead(Second)', Taken', max')
    BY ONLY <1>3, <1>6, <1>9, <1>10
  <2> QED
    BY ONLY <2>1, <2>2 DEF Starting
<1>12. Balance'
  <2>1. /\ tokens'[Full] = BufferSize - Claimed(code[First], Ahead(First), max)
                             + Restored(e, s, n)
        /\ tokens'[Empty] = Announced(code[First], Ahead(First), max) - Accepted(e, s, n)
        /\ tokens'[Mutex] = 1 - Locked(code[First], Ahead(First)) - Holds(e, s)
    BY ONLY <1>3, <1>4, <1>10 DEF Balance
  <2> QED
    BY ONLY <1>3, <1>5, <1>6, <1>9, <2>1 DEF Balance
<1>13. code' \in [Thread -> Producing \cup Consuming \cup {End}]
  <2>1. code'[Second] \in Consuming \cup {End}
    BY ONLY <1>6, <1>10 DEF Consumed, Consumer
  <2>2. \A u \in Thread : code'[u] \in Producing \cup Consuming \cup {End}
    BY ONLY <1>1, <1>4, <1>5, <2>1
  <2>3. code' = [u \in Thread |-> code'[u]]
    BY BufferSteps
  <2> QED
    BY ONLY <2>2, <2>3
<1>14. Producer(code[First], Ahead(First), max)' /\ Holding(data, Put, Taken)'
  BY ONLY <1>3, <1>4, <1>5, <1>8, <1>9
<1>15. out' = Numbers(Taken)' /\ Taken' \in Nat
  BY ONLY <1>8, <1>9 DEF Numbers
<1> QED
  BY ONLY <1>3, <1>4, <1>5, <1>11, <1>12, <1>13, <1>14, <1>15 DEF BufferIInv

(* The program calls nothing else. *)
LEMMA BufferPlain ==
  ASSUME BufferIInv
  PROVE  Plain
<1>1. BufferCalls /\ BufferLists
  BY BufferCallsAre
<1>2. End.at = "end"
  BY DEF End
<1>3. Ahead(First) \in {Creates, PutsOut, Announces, Claims, Locks, <<>>}
  BY ONLY BufferIInv, <1>2 DEF BufferIInv, Producer, Producing
<1>4. Ahead(Second) \in {TakesOut, Returns, Takes, Locks, <<>>}
  <2>1. CASE code[First].at = "producer start"
    BY ONLY BufferIInv, <2>1 DEF BufferIInv, Starting
  <2>2. CASE Consumed(code[Second], Ahead(Second), Taken, max)
    BY ONLY <2>2 DEF Consumed, Consumer, Consuming
  <2> QED
    BY ONLY BufferIInv, <2>1, <2>2 DEF BufferIInv, Starting
<1>5. \A t \in Thread :
        Ahead(t) # <<>> =>
          Ahead(t) \in {Creates, PutsOut, Announces, Claims, Locks, TakesOut, Returns, Takes}
  <2>1. \A t \in Thread \ {First, Second} : Ahead(t) = <<>>
    BY ONLY BufferIInv DEF BufferIInv
  <2> QED
    BY ONLY <1>3, <1>4, <2>1
<1>6. \A f \in {Creates, PutsOut, Announces, Claims, Locks, TakesOut, Returns, Takes} :
        Head(f).op \in {"sem_up", "sem_down", "create"}
  BY ONLY <1>1 DEF BufferCalls, BufferLists
<1> QED
  BY ONLY <1>5, <1>6 DEF Plain

(* The invariant holds when the program begins. *)
LEMMA BufferBegins ==
  ASSUME AppInit, app = "buffer", ~Preempts
  PROVE  AppBase /\ BufferIInv
<1>1. /\ First \in Thread /\ Second \in Thread /\ First # Second
      /\ BufferLists /\ BufferSize \in Nat \ {0}
  BY PoolBegins, BufferCallsAre, AppAssumption
<1>2. todo = [t \in Thread |-> <<>>]
  BY DEF AppInit, Straight
<1>3. todo \in [Thread -> Seq(AnyCall)]
  BY <1>2
<1>4. AppBase
  BY <1>3, AppBegins
<1>5. /\ max \in Nat \ {0} /\ out = <<>>
      /\ data = [buffer |-> [i \in 0 .. BufferSize - 1 |-> 0], size |-> 0, head |-> 0, tail |-> 0]
      /\ code = [t \in Thread |-> IF t = First THEN [at |-> "producer start", count |-> 0]
                                  ELSE [at |-> "end"]]
  <2>1. max \in Nat \ {0}
    <3>1. PICK run \in Counts : app = run.app /\ max = run.max
      BY DEF AppInit
    <3>2. max \in Nat /\ max > 0
      BY <3>1, AppAssumption
    <3> QED
      BY ONLY <3>2
  <2> QED
    BY <2>1 DEF AppInit, Shared, Main
<1>6. (\A t \in Thread : pc[t] = "none") /\ tokens = InitCount
  BY DEF AppInit, SemStart, InitSched
<1>7. \A t \in Thread : Ahead(t) = <<>>
  BY <1>2, <1>6 DEF Ahead
<1>8. tokens[Full] = BufferSize /\ tokens[Empty] = 0 /\ tokens[Mutex] = 1
  BY <1>6, MainAssumption
<1>9. PICK a : a = code[First] /\ a = [at |-> "producer start", count |-> 0]
  BY ONLY <1>1, <1>5
<1>10. code[Second] = End /\ \A u \in Thread \ {First, Second} : Ahead(u) = <<>> /\ code[u] = End
  BY ONLY <1>1, <1>5, <1>7 DEF End
<1>11. Ahead(First) = <<>> /\ Ahead(Second) = <<>> /\ Taken = 0
  BY ONLY <1>1, <1>5, <1>7 DEF Taken
<1>12. a \in Producing /\ a.at = "producer start" /\ a.count = 0 /\ End.at = "end"
  <2>1. a.at = "producer start" /\ a.count = 0
    <3>1. a = [at |-> "producer start", count |-> 0]
      BY ONLY <1>9
    <3> QED
      BY ONLY <3>1
  <2>2. [at |-> "producer start", count |-> 0] \in Producing
    BY DEF Producing
  <2> QED
    BY ONLY <1>9, <2>1, <2>2 DEF End
<1>13. PutBy(a, max) = 0 /\ Put = 0
  BY ONLY <1>9, <1>12 DEF PutBy, Put
<1>14. Producer(code[First], Ahead(First), max)
  <2>1. PutBy(a, max) <= max
    <3>1. max \in Nat
      BY ONLY <1>5
    <3> QED
      BY ONLY <1>13, <3>1
  <2> QED
    BY ONLY <1>9, <1>11, <1>12, <2>1 DEF Producer
<1>15. Starting
  BY ONLY <1>1, <1>6, <1>9, <1>10, <1>11, <1>12 DEF Starting, BufferLists
<1>16. Balance
  <2>1. ~InPut(a, <<>>) /\ ~Unannounced(a, <<>>) /\ Locked(a, <<>>) = 0
    BY ONLY <1>12 DEF InPut, Unannounced, Locked
  <2>2. Claimed(a, <<>>, max) = 0 /\ Announced(a, <<>>, max) = 0
    BY <1>13, <2>1, ProducerCounts
  <2>3. Accepted(End, <<>>, 0) = 0 /\ Restored(End, <<>>, 0) = 0
    <3>1. PICK e : e = End /\ e.at = "end"
      BY ONLY <1>12
    <3>2. PICK k \in Nat : k = 0
      OBVIOUS
    <3>3. Accepted(e, <<>>, k) = k /\ Restored(e, <<>>, k) = k
      BY ONLY <3>1 DEF Accepted, Restored
    <3> QED
      BY ONLY <3>1, <3>2, <3>3
  <2>4. Holds(End, <<>>) = 0
    BY ONLY <1>1, <1>12 DEF Holds, BufferLists
  <2>5. BufferSize = BufferSize - 0 + 0 /\ 0 = 0 - 0 /\ 1 = 1 - 0 - 0
    BY ONLY <1>1
  <2> QED
    BY ONLY <1>8, <1>9, <1>10, <1>11, <2>1, <2>2, <2>3, <2>4, <2>5 DEF Balance
<1>17. Holding(data, Put, Taken)
  <2>1. /\ data.buffer = [i \in 0 .. BufferSize - 1 |-> 0] /\ data.head = 0 /\ data.tail = 0
        /\ data \in [buffer : [0 .. BufferSize - 1 -> Nat], size : Int,
                     head : 0 .. BufferSize - 1, tail : 0 .. BufferSize - 1]
    <3>1. data = [buffer |-> [i \in 0 .. BufferSize - 1 |-> 0],
                  size |-> 0, head |-> 0, tail |-> 0]
      BY ONLY <1>5
    <3>2. 0 \in 0 .. BufferSize - 1 /\ 0 \in Int
      BY ONLY <1>1
    <3>3. [i \in 0 .. BufferSize - 1 |-> 0] \in [0 .. BufferSize - 1 -> Nat]
      OBVIOUS
    <3> QED
      BY ONLY <3>1, <3>2, <3>3
  <2>2. Slot(0, 0) = 0 /\ 0 - 0 = 0 /\ \A j \in Nat : ~(j < 0)
    BY ONLY <1>1 DEF Slot
  <2> QED
    BY ONLY <1>11, <1>13, <2>1, <2>2 DEF Holding
<1>18. code \in [Thread -> Producing \cup Consuming \cup {End}]
  BY ONLY <1>5, <1>9, <1>12 DEF End
<1>19. Taken \in Nat /\ out = Numbers(Taken)
  <2>1. Numbers(0) = <<>>
    BY DEF Numbers
  <2>2. 0 \in Nat
    OBVIOUS
  <2>3. out = <<>>
    BY ONLY <1>5
  <2> QED
    BY ONLY <1>11, <2>1, <2>2, <2>3
<1> QED
  BY ONLY <1>4, <1>5, <1>10, <1>14, <1>15, <1>16, <1>17, <1>18, <1>19, app = "buffer"
     DEF BufferIInv

(* What a segment calls next, and whose code it leaves alone. *)
LEMMA BufferMoves ==
  ASSUME AppBase, BufferIInv, NEW t \in Thread, ProducerStep(t) \/ ConsumerStep(t), Segments(t)
  PROVE  /\ Ahead(t)' \in Seq(AnyCall)
         /\ \A u \in Thread \ {t} : pc[u] \in Over => code'[u] = code[u]
<1>1. BufferCalls /\ BufferLists
  BY BufferCallsAre
<1>2. {Creates, Claims, Locks, PutsOut, Takes, TakesOut, <<>>} \subseteq Seq(AnyCall)
  BY ONLY <1>1 DEF BufferCalls, Creates, Claims, Locks, PutsOut, Takes, TakesOut
<1>3. CASE ProducerStep(t)
  <2>1. t = First /\ ProducerMove(t)
    BY <1>3, ProducerCode
  <2>2. Ahead(t)' \in {Creates, Claims, Locks, PutsOut, <<>>}
    BY ONLY <2>1 DEF ProducerMove, Produces
  <2>3. /\ \A u \in Thread \ {t, Second} : code'[u] = code[u]
        /\ code[t].at # "producer start" => code'[Second] = code[Second]
    BY ONLY <2>1 DEF ProducerMove
  <2>4. code[t].at = "producer start" => pc[Second] \notin Over
    BY ONLY BufferIInv, <2>1 DEF BufferIInv, Starting, Over
  <2> QED
    BY ONLY <1>2, <2>2, <2>3, <2>4
<1>4. CASE ConsumerStep(t)
  <2>1. ConsumerMove(t)
    BY <1>4, ConsumerCode
  <2>2. Ahead(t)' \in {Takes, Locks, TakesOut, <<>>}
    BY ONLY <2>1 DEF ConsumerMove, Consumes
  <2>3. \A u \in Thread \ {t} : code'[u] = code[u]
    BY ONLY <2>1 DEF ConsumerMove
  <2> QED
    BY ONLY <1>2, <2>2, <2>3
<1> QED
  BY <1>3, <1>4

(* Each step of the program keeps it. *)
LEMMA BufferNext ==
  ASSUME AppBase, BufferIInv, ~Preempts, [AppNext]_everyVar
  PROVE  AppBase' /\ BufferIInv'
<1>1. NeverYields /\ Fresh /\ app = "buffer" /\ NoOvertake
  BY BufferPlain, PlainIsFresh, ExactCovers DEF BufferIInv, AppBase
<1>2. ASSUME NEW t \in Thread, Programmed(t)
      PROVE  ProducerStep(t) \/ ConsumerStep(t)
  BY <1>1, <1>2 DEF Programmed
<1>3. ASSUME NEW t \in Thread, Programmed(t),
             UNCHANGED <<vars, count, waitq, alive, tokens, app, max>>
      PROVE  todo' \in [Thread -> Seq(AnyCall)]
  <2>1. Segments(t) /\ \E calls : todo' = [todo EXCEPT ![t] = calls]
    BY <1>3, ProgrammedComputes DEF AppBase
  <2>2. todo'[t] \in Seq(AnyCall)
    BY <1>2, <1>3, <2>1, BufferMoves DEF Segments
  <2>3. todo \in [Thread -> Seq(AnyCall)]
    BY DEF AppBase, SemIInv, SemTypeOK
  <2> QED
    BY ONLY <2>1, <2>2, <2>3, t \in Thread
<1>4. SemIInv' /\ Exact' /\ NoOvertake'
  BY <1>1, <1>3, AppKeeps, NextCovers DEF AppBase
<1>5. /\ \E S : Forward(S)
      /\ Undisturbed'
      /\ \/ Passes /\ Stages'
         \/ Stages' /\ \E t \in Thread, c \in AnyCall : Serves(t, c)
         \/ \E t \in Thread : Segments(t) /\ Programmed(t) /\ UNCHANGED <<app, max>>
  BY <1>1, AppEffect DEF AppBase
<1>6. CASE Passes /\ Stages'
  BY <1>4, <1>5, <1>6, BufferPasses DEF AppBase
<1>7. ASSUME NEW t \in Thread, NEW c \in AnyCall, Serves(t, c), Stages'
      PROVE  AppBase' /\ BufferIInv'
  BY <1>4, <1>5, <1>7, BufferServes DEF AppBase
<1>8. ASSUME NEW t \in Thread, Segments(t), Programmed(t), UNCHANGED <<app, max>>
      PROVE  AppBase' /\ BufferIInv'
  <2>1. ProducerStep(t) \/ ConsumerStep(t)
    BY <1>2, <1>8
  <2>2. BufferIInv'
    BY <1>1, <1>8, <2>1, ProducerSegment, ConsumerSegment
  <2>3. \A u \in Thread \ {t} : pc[u] \in Over => code'[u] = code[u]
    BY <1>8, <2>1, BufferMoves
  <2>4. Stages'
    BY <1>8, <2>3, SegmentStages
  <2> QED
    BY <1>4, <1>5, <2>2, <2>4 DEF AppBase
<1> QED
  BY <1>5, <1>6, <1>7, <1>8

(* The consumer never means to take more than there will be. *)
LEMMA TakenBounds ==
  ASSUME BufferIInv
  PROVE  Taken \in Nat /\ max \in Nat \ {0} /\ Taken <= Last(max) /\ Last(max) \in Nat
<1>1. /\ Taken \in Nat /\ max \in Nat \ {0}
      /\ Taken = 0 \/ Consumed(code[Second], Ahead(Second), Taken, max)
  BY ONLY BufferIInv DEF BufferIInv, Starting
<1>2. Last(max) \in Nat /\ 0 <= Last(max)
  BY ONLY <1>1 DEF Last
<1>3. CASE Consumer(code[Second], Ahead(Second), Taken, max)
  <2>1. /\ code[Second] \in Consuming
        /\ code[Second].left + Taken <= max + (IF code[Second].at = "taken" THEN 1 ELSE 0)
        /\ code[Second].at = "taken" => code[Second].left > 0
        /\ max = 1 => Taken = 0
    BY ONLY <1>3 DEF Consumer
  <2>2. code[Second].left \in Nat
    BY ONLY <2>1 DEF Consuming
  <2>3. Taken <= max
    BY ONLY <1>1, <2>1, <2>2
  <2> QED
    BY ONLY <1>1, <1>2, <2>1, <2>3 DEF Last
<1> QED
  BY ONLY <1>1, <1>2, <1>3 DEF Consumed

(* When it returns the consumer has taken them: neither waits for a place  *)
(* or a number that the other has, and the mutex is free.                  *)
LEMMA BufferEnds ==
  ASSUME AppBase, BufferIInv, pc[Idle] = "returned"
  PROVE  Taken = Last(max)
<1>1. First \in Thread /\ Second \in Thread /\ BufferCalls /\ BufferLists
  BY PoolBegins, BufferCallsAre
<1>2. pc[First] # "none"
  BY DEF AppBase, Stages
<1>3. \A t \in {First, Second} : pc[t] # "none" =>
         \/ Ahead(t) = <<>> /\ code[t].at = "end"
         \/ /\ Ahead(t) # <<>> /\ Head(Ahead(t)).op = "sem_down"
            /\ tokens[Head(Ahead(t)).arg] = 0
  BY <1>1, AtReturn DEF AppBase
<1>4. /\ max \in Nat \ {0} /\ Taken \in Nat /\ Producer(code[First], Ahead(First), max)
      /\ Starting /\ Balance
  BY ONLY BufferIInv DEF BufferIInv
<1>5. End.at = "end"
  BY DEF End
<1>6. \/ Ahead(First) = <<>> /\ code[First].at = "end"
      \/ code[First].at = "put" /\ Ahead(First) = Claims /\ tokens[Full] = 0
      \/ code[First].at = "put in" /\ Ahead(First) = Locks /\ tokens[Mutex] = 0
  <2>1. /\ code[First].at = "end" \/ code[First].at \in {"producer start", "producer", "put", "put in"}
        /\ code[First].at = "producer start" => Ahead(First) = <<>>
        /\ code[First].at = "producer" => Ahead(First) \in {Creates, PutsOut, Announces, <<>>}
        /\ code[First].at = "put" => Ahead(First) \in {Claims, <<>>}
        /\ code[First].at = "put in" => Ahead(First) \in {Locks, <<>>}
        /\ code[First].at = "end" => Ahead(First) = <<>>
    BY ONLY <1>4, <1>5 DEF Producer, Producing
  <2>2. \/ Ahead(First) = <<>> /\ code[First].at = "end"
        \/ /\ Ahead(First) # <<>> /\ Head(Ahead(First)).op = "sem_down"
           /\ tokens[Head(Ahead(First)).arg] = 0
    BY ONLY <1>2, <1>3
  <2>3. Ahead(First) \notin {Creates, PutsOut, Announces} \/ Ahead(First) = <<>>
    BY ONLY <1>1, <2>2 DEF BufferCalls, BufferLists
  <2>4. /\ Ahead(First) = Claims /\ Ahead(First) # <<>> => tokens[Full] = 0
        /\ Ahead(First) = Locks /\ Ahead(First) # <<>> => tokens[Mutex] = 0
    BY ONLY <1>1, <2>2 DEF BufferCalls, BufferLists
  <2> QED
    BY ONLY <2>1, <2>2, <2>3, <2>4
<1>7. pc[Second] # "none" /\ Consumed(code[Second], Ahead(Second), Taken, max)
  BY ONLY <1>1, <1>4, <1>6, ListsDiffer DEF Starting, BufferLists
<1>8. \/ code[Second] = End /\ Taken = Last(max)
      \/ /\ Consumer(code[Second], Ahead(Second), Taken, max)
         /\ \/ code[Second].at = "take" /\ Ahead(Second) = Takes /\ tokens[Empty] = 0
            \/ code[Second].at = "taken" /\ Ahead(Second) = Locks /\ tokens[Mutex] = 0
  <2>1. CASE Consumer(code[Second], Ahead(Second), Taken, max)
    <3>1. /\ code[Second].at \in {"consumer", "take", "taken"}
          /\ code[Second].at = "consumer" => Ahead(Second) \in {TakesOut, Returns, <<>>}
          /\ code[Second].at = "take" => Ahead(Second) \in {Takes, <<>>}
          /\ code[Second].at = "taken" => Ahead(Second) \in {Locks, <<>>}
      BY ONLY <2>1 DEF Consumer, Consuming
    <3> QED
      BY ONLY <1>1, <1>3, <1>7, <2>1, <3>1 DEF BufferCalls, BufferLists
  <2> QED
    BY ONLY <1>7, <2>1 DEF Consumed
<1>9. tokens[Mutex] = 1
  <2>1. Locked(code[First], Ahead(First)) = 0
    BY ONLY <1>1, <1>6 DEF Locked, BufferLists
  <2>2. Holds(code[Second], Ahead(Second)) = 0
    BY ONLY <1>1, <1>5, <1>8 DEF Holds, BufferLists
  <2>3. tokens[Mutex] = 1 - 0 - 0
    BY ONLY <1>4, <2>1, <2>2 DEF Balance
  <2> QED
    BY ONLY <2>3
<1>10. ASSUME code[Second].at = "take", Ahead(Second) = Takes, tokens[Empty] = 0,
              Consumer(code[Second], Ahead(Second), Taken, max)
       PROVE  FALSE
  <2>1. Accepted(code[Second], Ahead(Second), Taken) = Taken
    BY ONLY <1>1, <1>4, <1>10 DEF Accepted, BufferLists
  <2>2. Restored(code[Second], Ahead(Second), Taken) = Taken
    BY ONLY <1>4, <1>10 DEF Restored
  <2>3. PICK put \in Nat : put = PutBy(code[First], max)
    BY ONLY <1>4, ProducerNumbers
  <2>4. ~InPut(code[First], Ahead(First)) /\ ~Unannounced(code[First], Ahead(First))
    <3>1. code[First].at = "end" \/ (code[First].at = "put" /\ Ahead(First) # <<>>)
      <4>1. ~(tokens[Mutex] = 0)
        BY ONLY <1>9
      <4> QED
        BY ONLY <1>1, <1>6, <4>1 DEF BufferLists
    <3> QED
      BY ONLY <3>1 DEF InPut, Unannounced
  <2>5. Claimed(code[First], Ahead(First), max) = put
        /\ Announced(code[First], Ahead(First), max) = put
    BY ONLY <2>3, <2>4 DEF Claimed, Announced
  <2>6. tokens[Full] = BufferSize - put + Taken /\ put - Taken = 0
    BY ONLY <1>4, <1>10, <2>1, <2>2, <2>5 DEF Balance
  <2>7. BufferSize \in Nat \ {0}
    BY AppAssumption
  <2>8. CASE code[First].at = "end"
    <3>1. put = max
      BY ONLY <2>3, <2>8 DEF PutBy
    <3>2. /\ code[Second] \in Consuming /\ code[Second].left > 0
          /\ code[Second].left + Taken <= max + (IF code[Second].at = "taken" THEN 1 ELSE 0)
      BY ONLY <1>10 DEF Consumer
    <3>3. (IF code[Second].at = "taken" THEN 1 ELSE 0) = 0
      BY ONLY <1>10
    <3>4. code[Second].left \in Nat /\ code[Second].left + Taken <= max + 0
      BY ONLY <3>2, <3>3 DEF Consuming
    <3>5. code[Second].left > 0 /\ put - Taken = 0 /\ max \in Nat /\ Taken \in Nat
      BY ONLY <1>4, <2>6, <3>2
    <3> QED
      BY ONLY <3>1, <3>4, <3>5
  <2>9. CASE tokens[Full] = 0
    BY ONLY <1>4, <2>3, <2>6, <2>7, <2>9
  <2> QED
    BY ONLY <1>6, <1>9, <2>8, <2>9
<1> QED
  BY ONLY <1>8, <1>9, <1>10

(* So what it prints is what it is to print. *)
LEMMA BufferOutput ==
  ASSUME AppBase, BufferIInv
  PROVE  AppOutput
<1>1. Taken \in Nat /\ Taken <= Last(max) /\ Last(max) \in Nat
  BY TakenBounds
<1>2. out = Numbers(Taken) /\ app = "buffer"
  BY DEF BufferIInv
<1>3. Expected = Numbers(Last(max))
  BY <1>2 DEF Expected, Last
<1>4. out = SubSeq(Expected, 1, Len(out))
  BY ONLY <1>1, <1>2, <1>3, FirstNumbers
<1>5. pc[Idle] = "returned" => out = Expected
  BY <1>2, <1>3, BufferEnds
<1> QED
  BY <1>4, <1>5 DEF AppOutput

(* Without the timer sem_buffer.c prints, for every size of the buffer and *)
(* every number above 0 that it counts to, the numbers in their order,     *)
(* each once, and all of them before uthread_start() returns: neither      *)
(* thread is left waiting for a place, a number or the mutex.              *)
THEOREM BufferPrintsAll == ~Preempts => (AppSpec /\ app = "buffer" => []AppOutput)
<1> SUFFICES ASSUME ~Preempts PROVE AppSpec /\ app = "buffer" => []AppOutput
  OBVIOUS
<1>1. AppInit /\ app = "buffer" => AppBase /\ BufferIInv
  BY BufferBegins
<1>2. AppBase /\ BufferIInv /\ [AppNext]_everyVar => AppBase' /\ BufferIInv'
  BY BufferNext
<1>3. AppBase /\ BufferIInv => AppOutput
  BY BufferOutput
<1> QED
  BY <1>1, <1>2, <1>3, PTL DEF AppSpec

-----------------------------------------------------------------------------
(* sem_simple.c: three threads wait for each other in a chain. *)

Third == Pool[3]
Sem3 == <<"sem", 3>>
Calls1 == SimpleThreads[1]
Calls2 == SimpleThreads[2]
Calls3 == SimpleThreads[3]
Left(calls, n) == SubSeq(calls, n + 1, Len(calls))

(* The threads have made i, j and k of their calls. *)
One(p) == IF p THEN 1 ELSE 0
Printed(i, j, k) ==
  IF i = 5 THEN <<3, 2, 1>> ELSE IF j >= 2 THEN <<3, 2>> ELSE IF k >= 2 THEN <<3>> ELSE <<>>
Ordered(i, j, k) == (i >= 4 => j = 3) /\ (j >= 1 => k = 3) /\ (k >= 1 => i >= 3)
SimpleAt(i, j, k) ==
  /\ Ahead(First) = Left(Calls1, i) /\ Ahead(Second) = Left(Calls2, j)
  /\ Ahead(Third) = Left(Calls3, k)
  /\ tokens[Sem1] = One(j = 3) - One(i >= 4)
  /\ tokens[Sem2] = One(k = 3) - One(j >= 1)
  /\ tokens[Sem3] = One(i >= 3) - One(k >= 1)
  /\ pc[Second] = "none" <=> i = 0
  /\ pc[Third] = "none" <=> i <= 1
  /\ out = Printed(i, j, k)

SimpleIInv ==
  /\ app = "simple"
  /\ \A t \in Thread \ {First, Second, Third} : Ahead(t) = <<>>
  /\ \E i \in 0 .. 5, j \in 0 .. 3, k \in 0 .. 3 : SimpleAt(i, j, k)

(* The calls of the three. *)
LEMMA SimpleCallsAre ==
  /\ Calls1 \in Seq(AnyCall) /\ Calls2 \in Seq(AnyCall) /\ Calls3 \in Seq(AnyCall)
  /\ Len(Calls1) = 5 /\ Len(Calls2) = 3 /\ Len(Calls3) = 3
  /\ Calls1[1] = Do("create", Second) /\ Calls1[2] = Do("create", Third)
  /\ Calls1[3] = Up(Sem3) /\ Calls1[4] = Down(Sem1) /\ Calls1[5] = Do("print", 1)
  /\ Calls2[1] = Down(Sem2) /\ Calls2[2] = Do("print", 2) /\ Calls2[3] = Up(Sem1)
  /\ Calls3[1] = Down(Sem3) /\ Calls3[2] = Do("print", 3) /\ Calls3[3] = Up(Sem2)
<1>1. Sem1 \in Semaphore /\ Sem2 \in Semaphore /\ Sem3 \in Semaphore
  BY MainAssumption, SemAssumption DEF Sem1, Sem2, Sem3
<1>2. \A s \in {Sem1, Sem2, Sem3} : Up(s) \in AnyCall /\ Down(s) \in AnyCall
  BY ONLY <1>1, SemCalls
<1>3. Do("create", Second) \in AnyCall /\ Do("create", Third) \in AnyCall
  BY PoolBegins DEF Third, Do, AnyCall, LibraryCall
<1>4. Do("print", 1) \in AnyCall /\ Do("print", 2) \in AnyCall /\ Do("print", 3) \in AnyCall
  BY DEF Do, AnyCall
<1>5. /\ Calls1 = <<Do("create", Second), Do("create", Third), Up(Sem3), Down(Sem1),
                    Do("print", 1)>>
      /\ Calls2 = <<Down(Sem2), Do("print", 2), Up(Sem1)>>
      /\ Calls3 = <<Down(Sem3), Do("print", 3), Up(Sem2)>>
  BY DEF Calls1, Calls2, Calls3, SimpleThreads, Second, Third, Sem1, Sem2, Sem3
<1> QED
  BY ONLY <1>2, <1>3, <1>4, <1>5

(* The calls that are left. *)
LEMMA LeftIs ==
  ASSUME NEW s \in Seq(AnyCall), NEW n \in 0 .. Len(s)
  PROVE  /\ Left(s, n) = <<>> <=> n = Len(s)
         /\ n < Len(s) => Head(Left(s, n)) = s[n + 1] /\ Tail(Left(s, n)) = Left(s, n + 1)
         /\ Left(s, 0) = s
<1>1. Len(s) \in Nat /\ n \in Nat
  OBVIOUS
<1>2. /\ Left(s, n) \in Seq(AnyCall) /\ Len(Left(s, n)) = Len(s) - n
      /\ \A i \in 1 .. Len(s) - n : Left(s, n)[i] = s[n + i]
  BY <1>1 DEF Left
<1>3. Left(s, n) = <<>> <=> n = Len(s)
  BY <1>1, <1>2
<1>4. ASSUME n < Len(s)
      PROVE  Head(Left(s, n)) = s[n + 1] /\ Tail(Left(s, n)) = Left(s, n + 1)
  <2>1. Left(s, n) # <<>> /\ n + 1 \in Nat
    BY <1>1, <1>3, <1>4
  <2>2. Head(Left(s, n)) = s[n + 1]
    BY <1>1, <1>2, <1>4
  <2>3. /\ Tail(Left(s, n)) \in Seq(AnyCall) /\ Len(Tail(Left(s, n))) = Len(s) - n - 1
        /\ \A i \in 1 .. Len(s) - n - 1 : Tail(Left(s, n))[i] = s[n + 1 + i]
    BY <1>1, <1>2, <1>4
  <2>4. /\ Left(s, n + 1) \in Seq(AnyCall) /\ Len(Left(s, n + 1)) = Len(s) - n - 1
        /\ \A i \in 1 .. Len(s) - n - 1 : Left(s, n + 1)[i] = s[n + 1 + i]
    BY <1>1, <1>4 DEF Left
  <2>5. \A r \in Seq(AnyCall), q \in Seq(AnyCall) :
          Len(r) = Len(q) /\ (\A i \in 1 .. Len(r) : r[i] = q[i]) => r = q
    OBVIOUS
  <2>6. Tail(Left(s, n)) = Left(s, n + 1)
    BY ONLY <1>1, <1>4, <2>3, <2>4, <2>5
  <2> QED
    BY <2>2, <2>6
<1>5. Left(s, 0) = s
  BY <1>1 DEF Left
<1> QED
  BY <1>3, <1>4, <1>5

(* They differ. *)
LEMMA SimpleSemaphores ==
  /\ Sem1 \in Semaphore /\ Sem2 \in Semaphore /\ Sem3 \in Semaphore
  /\ Sem1 # Sem2 /\ Sem1 # Sem3 /\ Sem2 # Sem3
  /\ \A s \in {Sem1, Sem2, Sem3} : /\ Up(s).op = "sem_up" /\ Up(s).arg = s
                                   /\ Down(s).op = "sem_down" /\ Down(s).arg = s
  /\ \A op, arg : Do(op, arg).op = op /\ Do(op, arg).arg = arg
<1>1. Sem1 \in Semaphore /\ Sem2 \in Semaphore /\ Sem3 \in Semaphore
  BY MainAssumption, SemAssumption DEF Sem1, Sem2, Sem3
<1>2. Sem1 # Sem2 /\ Sem1 # Sem3 /\ Sem2 # Sem3
  BY DEF Sem1, Sem2, Sem3
<1>3. \A op, arg : Do(op, arg).op = op /\ Do(op, arg).arg = arg
  BY DEF Do
<1> QED
  BY ONLY <1>1, <1>2, <1>3, SemCalls

(* No more is taken than was released, so the calls come in this order. *)
LEMMA SimpleOrder ==
  ASSUME NoOvertake, NEW i \in 0 .. 5, NEW j \in 0 .. 3, NEW k \in 0 .. 3, SimpleAt(i, j, k)
  PROVE  Ordered(i, j, k)
<1>1. tokens[Sem1] >= 0 /\ tokens[Sem2] >= 0 /\ tokens[Sem3] >= 0
  BY SimpleSemaphores DEF NoOvertake
<1>2. /\ One(j = 3) - One(i >= 4) >= 0 /\ One(k = 3) - One(j >= 1) >= 0
      /\ One(i >= 3) - One(k >= 1) >= 0
  BY ONLY <1>1, SimpleAt(i, j, k) DEF SimpleAt
<1> QED
  BY ONLY <1>2, i \in 0 .. 5, j \in 0 .. 3, k \in 0 .. 3 DEF One, Ordered

(* Nothing else is called. *)
LEMMA SimplePlain ==
  ASSUME SimpleIInv
  PROVE  Plain
<1>1. PICK i \in 0 .. 5, j \in 0 .. 3, k \in 0 .. 3 :
        /\ Ahead(First) = Left(Calls1, i) /\ Ahead(Second) = Left(Calls2, j)
        /\ Ahead(Third) = Left(Calls3, k)
  BY DEF SimpleIInv, SimpleAt
<1>2. /\ Ahead(First) # <<>> => Head(Ahead(First)) \in {Calls1[n] : n \in 1 .. 5}
      /\ Ahead(Second) # <<>> => Head(Ahead(Second)) \in {Calls2[n] : n \in 1 .. 3}
      /\ Ahead(Third) # <<>> => Head(Ahead(Third)) \in {Calls3[n] : n \in 1 .. 3}
  <2>1. ASSUME NEW s \in Seq(AnyCall), NEW n \in 0 .. Len(s), Left(s, n) # <<>>
        PROVE  Head(Left(s, n)) \in {s[m] : m \in 1 .. Len(s)}
    <3>1. Head(Left(s, n)) = s[n + 1] /\ n + 1 \in 1 .. Len(s)
      BY <2>1, LeftIs
    <3> QED
      BY ONLY <3>1
  <2> QED
    BY ONLY <1>1, <2>1, SimpleCallsAre
<1>3. \A c \in {Calls1[n] : n \in 1 .. 5} \cup {Calls2[n] : n \in 1 .. 3}
                 \cup {Calls3[n] : n \in 1 .. 3} :
        c.op \in {"create", "sem_up", "sem_down", "print"}
  BY ONLY SimpleCallsAre, SimpleSemaphores
<1> QED
  BY ONLY SimpleIInv, <1>2, <1>3 DEF SimpleIInv, Plain

(* What a call gives to the three semaphores. *)
Adds(n, m, l) ==
  /\ tokens'[Sem1] = tokens[Sem1] + n /\ tokens'[Sem2] = tokens[Sem2] + m
  /\ tokens'[Sem3] = tokens[Sem3] + l

(* The calls give this. *)
LEMMA SimpleEffect ==
  ASSUME SemIInv, NEW c, Changes(c)
  PROVE  /\ c = Up(Sem1) => Adds(1, 0, 0) /\ c.op = "sem_up"
         /\ c = Up(Sem2) => Adds(0, 1, 0) /\ c.op = "sem_up"
         /\ c = Up(Sem3) => Adds(0, 0, 1) /\ c.op = "sem_up"
         /\ c = Down(Sem1) => Adds(-1, 0, 0) /\ c.op = "sem_down"
         /\ c = Down(Sem2) => Adds(0, -1, 0) /\ c.op = "sem_down"
         /\ c = Down(Sem3) => Adds(0, 0, -1) /\ c.op = "sem_down"
         /\ c.op \in {"create", "print"} => Adds(0, 0, 0)
<1>1. /\ tokens \in [Semaphore -> Int]
      /\ tokens[Sem1] \in Int /\ tokens[Sem2] \in Int /\ tokens[Sem3] \in Int
  BY SimpleSemaphores DEF SemIInv, SemTypeOK
<1>2. ASSUME NEW s \in {Sem1, Sem2, Sem3}, c = Up(s)
      PROVE  tokens' = [tokens EXCEPT ![s] = @ + 1] /\ c.op = "sem_up"
  BY ONLY <1>2, Changes(c), SimpleSemaphores DEF Changes
<1>3. ASSUME NEW s \in {Sem1, Sem2, Sem3}, c = Down(s)
      PROVE  tokens' = [tokens EXCEPT ![s] = @ - 1] /\ c.op = "sem_down"
  BY ONLY <1>3, Changes(c), SimpleSemaphores DEF Changes
<1>4. ASSUME c.op \in {"create", "print"}
      PROVE  Adds(0, 0, 0)
  BY ONLY <1>1, <1>4, Changes(c) DEF Changes, Adds
<1>5. CASE c \in {Up(Sem1), Up(Sem2), Up(Sem3)}
  BY ONLY <1>1, <1>2, <1>4, <1>5, SimpleSemaphores DEF Adds
<1>6. CASE c \in {Down(Sem1), Down(Sem2), Down(Sem3)}
  BY ONLY <1>1, <1>3, <1>4, <1>6, SimpleSemaphores DEF Adds
<1> QED
  BY ONLY <1>4, <1>5, <1>6

(* Where nothing that the program sees changes, its order does not. *)
LEMMA SimplePasses ==
  ASSUME SimpleIInv, Passes, NEW S, Forward(S)
  PROVE  SimpleIInv'
<1>1. First \in Thread /\ Second \in Thread /\ Third \in Thread /\ First \notin {Second, Third}
  BY PoolBegins DEF Third
<1>2. /\ \A t \in Thread : Ahead(t)' = Ahead(t)
      /\ tokens' = tokens /\ app' = app /\ out' = out
  BY DEF Passes, Silent, appVars
<1>3. \A u \in {Second, Third} : pc[u] = "none" <=> pc'[u] = "none"
  BY <1>1 DEF Passes, Silent, Forward
<1>4. PICK i \in 0 .. 5, j \in 0 .. 3, k \in 0 .. 3 : SimpleAt(i, j, k)
  BY DEF SimpleIInv
<1>5. SimpleAt(i, j, k)'
  BY ONLY <1>1, <1>2, <1>3, <1>4 DEF SimpleAt
<1> QED
  BY ONLY SimpleIInv, <1>2, <1>5 DEF SimpleIInv

(* The next call that a thread has left. *)
LEMMA SimpleNextCall ==
  ASSUME NEW s \in Seq(AnyCall), NEW n \in 0 .. Len(s), NEW f, f = Left(s, n), f # <<>>
  PROVE  n < Len(s) /\ Head(f) = s[n + 1] /\ Tail(f) = Left(s, n + 1)
BY LeftIs

(* A call that takes effect is the next of its thread. *)
LEMMA SimpleServes ==
  ASSUME AppBase, SimpleIInv, NEW t \in Thread, NEW c \in AnyCall, Serves(t, c),
         NEW S, Forward(S), NoOvertake
  PROVE  SimpleIInv'
<1>1. /\ First \in Thread /\ Second \in Thread /\ Third \in Thread
      /\ First # Second /\ First # Third /\ Second # Third
  BY PoolBegins DEF Third
<1>2. /\ Ahead(t) # <<>> /\ c = Head(Ahead(t)) /\ Ahead(t)' = Tail(Ahead(t))
      /\ \A u \in Thread \ {t} : Ahead(u)' = Ahead(u)
      /\ app' = app /\ out' = IF c.op = "print" THEN Append(out, c.arg) ELSE out
  BY DEF Serves, Makes
<1>3. \A u \in {Second, Third} : pc'[u] = "none" <=> pc[u] = "none" /\ c # Do("create", u)
  <2>1. ASSUME NEW u \in {Second, Third}, pc[u] = "none"
        PROVE  pc'[u] = "none" <=> ~(c.op = "create" /\ c.arg = u)
    BY <1>1, <2>1 DEF Serves, Makes
  <2>2. \A u \in {Second, Third} : pc'[u] = "none" => pc[u] = "none"
    BY <1>1 DEF Forward
  <2>3. ASSUME NEW u, c.op = "create", c.arg = u PROVE c = Do("create", u)
    BY <2>3 DEF AnyCall, LibraryCall, Do
  <2>4. \A u : Do("create", u).op = "create" /\ Do("create", u).arg = u
    BY SimpleSemaphores
  <2> QED
    BY ONLY <2>1, <2>2, <2>3, <2>4
<1>4. PICK i \in 0 .. 5, j \in 0 .. 3, k \in 0 .. 3 : SimpleAt(i, j, k)
  BY DEF SimpleIInv
<1>5. Ordered(i, j, k)
  BY <1>4, SimpleOrder
<1>6. Changes(c)
  BY DEF Serves, Makes
<1>7. SemIInv
  BY DEF AppBase
<1>8. ASSUME NEW n \in 0 .. 5, NEW m \in 0 .. 3, NEW l \in 0 .. 3, SimpleAt(n, m, l)',
             t \in {First, Second, Third}
      PROVE  SimpleIInv'
  BY ONLY <1>2, <1>8, SimpleIInv DEF SimpleIInv
<1>9. t \in {First, Second, Third}
  BY ONLY <1>2, SimpleIInv, t \in Thread DEF SimpleIInv
<1>10. CASE t = First
  <2>1. /\ i < 5 /\ c = Calls1[i + 1] /\ Ahead(First)' = Left(Calls1, i + 1)
        /\ Ahead(Second)' = Left(Calls2, j) /\ Ahead(Third)' = Left(Calls3, k)
    <3>1. Ahead(First) = Left(Calls1, i) /\ Ahead(First) # <<>> /\ c = Head(Ahead(First))
      BY ONLY <1>2, <1>4, <1>10 DEF SimpleAt
    <3>2. i < 5 /\ Head(Ahead(First)) = Calls1[i + 1] /\ Tail(Ahead(First)) = Left(Calls1, i + 1)
      BY ONLY <3>1, SimpleCallsAre, SimpleNextCall, i \in 0 .. 5
    <3> QED
      BY ONLY <1>1, <1>2, <1>4, <1>10, <3>1, <3>2 DEF SimpleAt
  <2>2. i = 0 => Adds(0, 0, 0) /\ c = Do("create", Second) /\ c.op = "create"
    BY ONLY <1>6, <1>7, <2>1, SimpleEffect, SimpleCallsAre, SimpleSemaphores
  <2>3. i = 1 => Adds(0, 0, 0) /\ c = Do("create", Third) /\ c.op = "create"
    BY ONLY <1>6, <1>7, <2>1, SimpleEffect, SimpleCallsAre, SimpleSemaphores
  <2>4. i = 2 => Adds(0, 0, 1) /\ c.op = "sem_up"
    BY ONLY <1>6, <1>7, <2>1, SimpleEffect, SimpleCallsAre
  <2>5. i = 3 => Adds(-1, 0, 0) /\ c.op = "sem_down"
    BY ONLY <1>6, <1>7, <2>1, SimpleEffect, SimpleCallsAre
  <2>6. i = 4 => Adds(0, 0, 0) /\ c.op = "print" /\ c.arg = 1
    BY ONLY <1>6, <1>7, <2>1, SimpleEffect, SimpleCallsAre, SimpleSemaphores
  <2>7. (pc'[Second] = "none" <=> FALSE) /\ (pc'[Third] = "none" <=> i = 0)
    BY ONLY <1>1, <1>3, <1>4, <2>1, <2>2, <2>3, <2>4, <2>5, <2>6, SimpleSemaphores, i \in 0 .. 5
       DEF SimpleAt
  <2>8. /\ tokens'[Sem1] = One(j = 3) - One(i + 1 >= 4)
        /\ tokens'[Sem2] = One(k = 3) - One(j >= 1)
        /\ tokens'[Sem3] = One(i + 1 >= 3) - One(k >= 1)
    BY ONLY <1>4, <2>1, <2>2, <2>3, <2>4, <2>5, <2>6, i \in 0 .. 5 DEF SimpleAt, Adds, One
  <2>9. out' = Printed(i + 1, j, k)
    <3>1. CASE i = 4
      <4>1. out = <<3, 2>> /\ out' = Append(out, 1) /\ Printed(i + 1, j, k) = <<3, 2, 1>>
        BY ONLY <1>2, <1>4, <1>5, <2>6, <3>1 DEF SimpleAt, Printed, Ordered
      <4> QED
        BY ONLY <4>1
    <3>2. CASE i # 4
      <4>1. out' = out /\ i # 5 /\ i + 1 # 5
        BY ONLY <1>2, <2>1, <2>2, <2>3, <2>4, <2>5, <3>2, i \in 0 .. 5
      <4> QED
        BY ONLY <1>4, <4>1 DEF SimpleAt, Printed
    <3> QED
      BY ONLY <3>1, <3>2
  <2>10. i + 1 \in 0 .. 5 /\ i + 1 # 0 /\ (i + 1 <= 1 <=> i = 0)
    BY ONLY <2>1, i \in 0 .. 5
  <2>11. SimpleAt(i + 1, j, k)'
    BY ONLY <2>1, <2>7, <2>8, <2>9, <2>10 DEF SimpleAt
  <2> QED
    BY ONLY <1>8, <1>9, <2>10, <2>11
<1>11. ASSUME t # First, NEW n \in 1 .. 3,
              c \in {Calls2[n], Calls3[n]}
       PROVE  \A u \in {Second, Third} : pc'[u] = "none" <=> pc[u] = "none"
  <2>1. c.op # "create"
    BY ONLY <1>6, <1>7, <1>11, SimpleCallsAre, SimpleEffect, SimpleSemaphores
  <2> QED
    BY ONLY <1>3, <2>1, SimpleSemaphores
<1>12. CASE t = Second
  <2>1. /\ j < 3 /\ c = Calls2[j + 1] /\ Ahead(Second)' = Left(Calls2, j + 1)
        /\ Ahead(First)' = Left(Calls1, i) /\ Ahead(Third)' = Left(Calls3, k)
    <3>1. Ahead(Second) = Left(Calls2, j) /\ Ahead(Second) # <<>> /\ c = Head(Ahead(Second))
      BY ONLY <1>2, <1>4, <1>12 DEF SimpleAt
    <3>2. j < 3 /\ Head(Ahead(Second)) = Calls2[j + 1] /\ Tail(Ahead(Second)) = Left(Calls2, j + 1)
      BY ONLY <3>1, SimpleCallsAre, SimpleNextCall, j \in 0 .. 3
    <3> QED
      BY ONLY <1>1, <1>2, <1>4, <1>12, <3>1, <3>2 DEF SimpleAt
  <2>2. j = 0 => Adds(0, -1, 0) /\ c.op = "sem_down"
    BY ONLY <1>6, <1>7, <2>1, SimpleEffect, SimpleCallsAre
  <2>3. j = 1 => Adds(0, 0, 0) /\ c.op = "print" /\ c.arg = 2
    BY ONLY <1>6, <1>7, <2>1, SimpleEffect, SimpleCallsAre, SimpleSemaphores
  <2>4. j = 2 => Adds(1, 0, 0) /\ c.op = "sem_up"
    BY ONLY <1>6, <1>7, <2>1, SimpleEffect, SimpleCallsAre
  <2>5. j + 1 \in 1 .. 3 /\ j + 1 \in 0 .. 3
    BY ONLY <2>1, j \in 0 .. 3
  <2>6. \A u \in {Second, Third} : pc'[u] = "none" <=> pc[u] = "none"
    BY ONLY <1>1, <1>11, <1>12, <2>1, <2>5
  <2>7. /\ tokens'[Sem1] = One(j + 1 = 3) - One(i >= 4)
        /\ tokens'[Sem2] = One(k = 3) - One(j + 1 >= 1)
        /\ tokens'[Sem3] = One(i >= 3) - One(k >= 1)
    BY ONLY <1>4, <2>1, <2>2, <2>3, <2>4, j \in 0 .. 3 DEF SimpleAt, Adds, One
  <2>8. out' = Printed(i, j + 1, k)
    <3>1. i # 5
      BY ONLY <1>5, <2>1, j \in 0 .. 3 DEF Ordered
    <3>2. CASE j = 1
      <4>1. out = <<3>> /\ out' = Append(out, 2) /\ Printed(i, j + 1, k) = <<3, 2>>
        BY ONLY <1>2, <1>4, <1>5, <2>3, <3>1, <3>2 DEF SimpleAt, Printed, Ordered
      <4> QED
        BY ONLY <4>1
    <3>3. CASE j # 1
      <4>1. out' = out /\ (j + 1 >= 2 <=> j >= 2)
        BY ONLY <1>2, <2>1, <2>2, <2>4, <3>3, j \in 0 .. 3
      <4> QED
        BY ONLY <1>4, <4>1 DEF SimpleAt, Printed
    <3> QED
      BY ONLY <3>2, <3>3
  <2>9. SimpleAt(i, j + 1, k)'
    BY ONLY <1>4, <2>1, <2>6, <2>7, <2>8 DEF SimpleAt
  <2> QED
    BY ONLY <1>8, <1>9, <2>5, <2>9
<1>13. CASE t = Third
  <2>1. /\ k < 3 /\ c = Calls3[k + 1] /\ Ahead(Third)' = Left(Calls3, k + 1)
        /\ Ahead(First)' = Left(Calls1, i) /\ Ahead(Second)' = Left(Calls2, j)
    <3>1. Ahead(Third) = Left(Calls3, k) /\ Ahead(Third) # <<>> /\ c = Head(Ahead(Third))
      BY ONLY <1>2, <1>4, <1>13 DEF SimpleAt
    <3>2. k < 3 /\ Head(Ahead(Third)) = Calls3[k + 1] /\ Tail(Ahead(Third)) = Left(Calls3, k + 1)
      BY ONLY <3>1, SimpleCallsAre, SimpleNextCall, k \in 0 .. 3
    <3> QED
      BY ONLY <1>1, <1>2, <1>4, <1>13, <3>1, <3>2 DEF SimpleAt
  <2>2. k = 0 => Adds(0, 0, -1) /\ c.op = "sem_down"
    BY ONLY <1>6, <1>7, <2>1, SimpleEffect, SimpleCallsAre
  <2>3. k = 1 => Adds(0, 0, 0) /\ c.op = "print" /\ c.arg = 3
    BY ONLY <1>6, <1>7, <2>1, SimpleEffect, SimpleCallsAre, SimpleSemaphores
  <2>4. k = 2 => Adds(0, 1, 0) /\ c.op = "sem_up"
    BY ONLY <1>6, <1>7, <2>1, SimpleEffect, SimpleCallsAre
  <2>5. k + 1 \in 1 .. 3 /\ k + 1 \in 0 .. 3
    BY ONLY <2>1, k \in 0 .. 3
  <2>6. \A u \in {Second, Third} : pc'[u] = "none" <=> pc[u] = "none"
    BY ONLY <1>1, <1>11, <1>13, <2>1, <2>5
  <2>7. /\ tokens'[Sem1] = One(j = 3) - One(i >= 4)
        /\ tokens'[Sem2] = One(k + 1 = 3) - One(j >= 1)
        /\ tokens'[Sem3] = One(i >= 3) - One(k + 1 >= 1)
    BY ONLY <1>4, <2>1, <2>2, <2>3, <2>4, k \in 0 .. 3 DEF SimpleAt, Adds, One
  <2>8. out' = Printed(i, j, k + 1)
    <3>1. i # 5 /\ j = 0
      BY ONLY <1>5, <2>1, j \in 0 .. 3, k \in 0 .. 3 DEF Ordered
    <3>2. CASE k = 1
      <4>1. out = <<>> /\ out' = Append(out, 3) /\ Printed(i, j, k + 1) = <<3>>
        BY ONLY <1>2, <1>4, <2>3, <3>1, <3>2 DEF SimpleAt, Printed
      <4> QED
        BY ONLY <4>1
    <3>3. CASE k # 1
      <4>1. out' = out /\ (k + 1 >= 2 <=> k >= 2)
        BY ONLY <1>2, <2>1, <2>2, <2>4, <3>3, k \in 0 .. 3
      <4> QED
        BY ONLY <1>4, <4>1 DEF SimpleAt, Printed
    <3> QED
      BY ONLY <3>2, <3>3
  <2>9. SimpleAt(i, j, k + 1)'
    BY ONLY <1>4, <2>1, <2>6, <2>7, <2>8 DEF SimpleAt
  <2> QED
    BY ONLY <1>8, <1>9, <2>5, <2>9
<1> QED
  BY ONLY <1>9, <1>10, <1>12, <1>13

(* What each thread is to call when the program begins. *)
LEMMA SimpleStarts ==
  ASSUME app = "simple"
  PROVE  /\ StraightFor(First) = Calls1 /\ StraightFor(Second) = Calls2
         /\ StraightFor(Third) = Calls3
         /\ \A t \in Thread \ {First, Second, Third} : StraightFor(t) = <<>>
<1>1. Straight[app] = SimpleThreads
  BY DEF Straight
<1>2. /\ Pool[1] = First /\ Pool[2] = Second /\ Pool[3] = Third
      /\ First # Second /\ First # Third /\ Second # Third
  BY PoolBegins DEF Second, Third
<1>3. ASSUME NEW i \in 1 .. 3
      PROVE  StraightFor(Pool[i]) = SimpleThreads[i]
  <2>1. \A k \in 1 .. 3 : Pool[k] = Pool[i] => k = i
    BY ONLY <1>2, i \in 1 .. 3
  <2>2. (CHOOSE k \in 1 .. 3 : Pool[k] = Pool[i]) = i
    BY ONLY <2>1, i \in 1 .. 3
  <2>3. \E k \in 1 .. 3 : Pool[k] = Pool[i]
    BY ONLY i \in 1 .. 3
  <2> QED
    BY ONLY <1>1, <2>2, <2>3 DEF StraightFor
<1>4. ASSUME NEW t \in Thread \ {First, Second, Third}
      PROVE  StraightFor(t) = <<>>
  <2>1. ~\E k \in 1 .. 3 : Pool[k] = t
    BY ONLY <1>2, t \in Thread \ {First, Second, Third}
  <2> QED
    BY ONLY <2>1 DEF StraightFor
<1>5. 1 \in 1 .. 3 /\ 2 \in 1 .. 3 /\ 3 \in 1 .. 3
  OBVIOUS
<1> QED
  BY ONLY <1>2, <1>3, <1>4, <1>5 DEF Calls1, Calls2, Calls3

(* The invariant holds when the program begins. *)
LEMMA SimpleBegins ==
  ASSUME AppInit, app = "simple", ~Preempts
  PROVE  AppBase /\ SimpleIInv
<1>1. /\ First \in Thread /\ Second \in Thread /\ Third \in Thread
      /\ First # Second /\ First # Third /\ Second # Third
  BY PoolBegins DEF Third
<1>2. todo = [t \in Thread |-> StraightFor(t)] /\ out = <<>>
  BY app = "simple" DEF AppInit, Straight
<1>3. /\ todo[First] = Calls1 /\ todo[Second] = Calls2 /\ todo[Third] = Calls3
      /\ \A t \in Thread \ {First, Second, Third} : todo[t] = <<>>
  BY ONLY <1>1, <1>2, SimpleStarts, app = "simple"
<1>4. todo \in [Thread -> Seq(AnyCall)]
  <2>1. <<>> \in Seq(AnyCall)
    OBVIOUS
  <2>2. \A t \in Thread : todo[t] \in {Calls1, Calls2, Calls3, <<>>}
    BY ONLY <1>3
  <2>3. \A t \in Thread : todo[t] \in Seq(AnyCall)
    BY ONLY <2>1, <2>2, SimpleCallsAre
  <2> QED
    BY ONLY <1>2, <2>3
<1>5. AppBase
  BY <1>4, AppBegins
<1>6. (\A t \in Thread : pc[t] = "none") /\ tokens = InitCount
  BY DEF AppInit, SemStart, InitSched
<1>7. tokens[Sem1] = 0 /\ tokens[Sem2] = 0 /\ tokens[Sem3] = 0
  BY <1>6, MainAssumption DEF Sem1, Sem2, Sem3
<1>8. \A t \in Thread : Ahead(t) = todo[t]
  BY <1>6 DEF Ahead
<1>9. Left(Calls1, 0) = Calls1 /\ Left(Calls2, 0) = Calls2 /\ Left(Calls3, 0) = Calls3
  BY ONLY LeftIs, SimpleCallsAre
<1>10. SimpleAt(0, 0, 0)
  BY ONLY <1>1, <1>2, <1>3, <1>6, <1>7, <1>8, <1>9 DEF SimpleAt, One, Printed
<1> QED
  BY ONLY <1>3, <1>5, <1>8, <1>10, app = "simple" DEF SimpleIInv

(* Each step of the program keeps it. *)
LEMMA SimpleNext ==
  ASSUME AppBase, SimpleIInv, ~Preempts, [AppNext]_everyVar
  PROVE  AppBase' /\ SimpleIInv'
<1>1. NeverYields /\ Fresh /\ app = "simple" /\ NoOvertake
  BY SimplePlain, PlainIsFresh, ExactCovers DEF SimpleIInv, AppBase
<1>2. \A t \in Thread : ~Programmed(t)
  BY <1>1 DEF Programmed
<1>3. SemIInv' /\ Exact'
  BY <1>1, <1>2, AppKeeps DEF AppBase
<1>4. /\ \E S : Forward(S)
      /\ Undisturbed' /\ Stages'
      /\ Passes \/ \E t \in Thread, c \in AnyCall : Serves(t, c)
  BY <1>1, <1>2, AppEffect DEF AppBase
<1>5. SimpleIInv'
  BY <1>1, <1>4, SimplePasses, SimpleServes
<1> QED
  BY <1>3, <1>4, <1>5 DEF AppBase

(* The call at which a thread that is not through stands. *)
LEMMA SimpleStands ==
  ASSUME NEW s \in Seq(AnyCall), NEW n \in 0 .. Len(s)
  PROVE  (Left(s, n) = <<>> <=> n = Len(s)) /\ (n # Len(s) => Head(Left(s, n)) = s[n + 1])
<1>1. n # Len(s) => n < Len(s)
  BY ONLY s \in Seq(AnyCall), n \in 0 .. Len(s)
<1> QED
  BY ONLY <1>1, LeftIs, s \in Seq(AnyCall), n \in 0 .. Len(s)

(* When it returns each thread has made its calls. *)
LEMMA SimpleEnds ==
  ASSUME AppBase, SimpleIInv, pc[Idle] = "returned"
  PROVE  out = <<3, 2, 1>>
<1>1. First \in Thread /\ Second \in Thread /\ Third \in Thread
  BY PoolBegins DEF Third
<1>2. PICK i \in 0 .. 5, j \in 0 .. 3, k \in 0 .. 3 : SimpleAt(i, j, k)
  BY DEF SimpleIInv
<1>3. Ordered(i, j, k)
  BY <1>2, SimpleOrder, ExactCovers DEF AppBase
<1>4. pc[First] # "none"
  BY DEF AppBase, Stages
<1>5. \A t \in {First, Second, Third} : pc[t] # "none" =>
        \/ Ahead(t) = <<>>
        \/ Head(Ahead(t)).op = "sem_down" /\ tokens[Head(Ahead(t)).arg] = 0
  BY <1>1, AtReturn DEF AppBase
<1>6. i = 5 \/ (i = 3 /\ tokens[Sem1] = 0)
  <2>1. /\ Left(Calls1, i) = <<>> <=> i = 5
        /\ i # 5 => Head(Left(Calls1, i)) = Calls1[i + 1]
    <3>1. Calls1 \in Seq(AnyCall) /\ i \in 0 .. Len(Calls1) /\ Len(Calls1) = 5
      BY ONLY SimpleCallsAre, i \in 0 .. 5
    <3>2. /\ Left(Calls1, i) = <<>> <=> i = Len(Calls1)
          /\ i # Len(Calls1) => Head(Left(Calls1, i)) = Calls1[i + 1]
      BY ONLY <3>1, SimpleStands, Zenon
    <3> QED
      BY ONLY <3>1, <3>2
  <2>2. i # 5 => Calls1[i + 1].op = "sem_down" /\ tokens[Calls1[i + 1].arg] = 0
    BY ONLY <1>2, <1>4, <1>5, <2>1 DEF SimpleAt
  <2> QED
    BY ONLY <2>2, SimpleCallsAre, SimpleSemaphores, i \in 0 .. 5
<1>7. pc[Second] # "none" /\ pc[Third] # "none"
  BY ONLY <1>2, <1>6 DEF SimpleAt
<1>8. j = 3 \/ (j = 0 /\ tokens[Sem2] = 0)
  <2>1. /\ Left(Calls2, j) = <<>> <=> j = 3
        /\ j # 3 => Head(Left(Calls2, j)) = Calls2[j + 1]
    <3>1. Calls2 \in Seq(AnyCall) /\ j \in 0 .. Len(Calls2) /\ Len(Calls2) = 3
      BY ONLY SimpleCallsAre, j \in 0 .. 3
    <3>2. /\ Left(Calls2, j) = <<>> <=> j = Len(Calls2)
          /\ j # Len(Calls2) => Head(Left(Calls2, j)) = Calls2[j + 1]
      BY ONLY <3>1, SimpleStands, Zenon
    <3> QED
      BY ONLY <3>1, <3>2
  <2>2. j # 3 => Calls2[j + 1].op = "sem_down" /\ tokens[Calls2[j + 1].arg] = 0
    BY ONLY <1>2, <1>5, <1>7, <2>1 DEF SimpleAt
  <2> QED
    BY ONLY <2>2, SimpleCallsAre, SimpleSemaphores, j \in 0 .. 3
<1>9. k = 3 \/ (k = 0 /\ tokens[Sem3] = 0)
  <2>1. /\ Left(Calls3, k) = <<>> <=> k = 3
        /\ k # 3 => Head(Left(Calls3, k)) = Calls3[k + 1]
    <3>1. Calls3 \in Seq(AnyCall) /\ k \in 0 .. Len(Calls3) /\ Len(Calls3) = 3
      BY ONLY SimpleCallsAre, k \in 0 .. 3
    <3>2. /\ Left(Calls3, k) = <<>> <=> k = Len(Calls3)
          /\ k # Len(Calls3) => Head(Left(Calls3, k)) = Calls3[k + 1]
      BY ONLY <3>1, SimpleStands, Zenon
    <3> QED
      BY ONLY <3>1, <3>2
  <2>2. k # 3 => Calls3[k + 1].op = "sem_down" /\ tokens[Calls3[k + 1].arg] = 0
    BY ONLY <1>2, <1>5, <1>7, <2>1 DEF SimpleAt
  <2> QED
    BY ONLY <2>2, SimpleCallsAre, SimpleSemaphores, k \in 0 .. 3
<1>10. k = 3
  BY ONLY <1>2, <1>6, <1>9 DEF SimpleAt, One
<1>11. j = 3
  BY ONLY <1>2, <1>8, <1>10 DEF SimpleAt, One
<1>12. i = 5
  BY ONLY <1>2, <1>6, <1>11 DEF SimpleAt, One
<1> QED
  BY ONLY <1>2, <1>12 DEF SimpleAt, Printed

(* So what it prints is what it is to print. *)
LEMMA SimpleOutput ==
  ASSUME AppBase, SimpleIInv
  PROVE  AppOutput
<1>1. out \in {<<>>, <<3>>, <<3, 2>>, <<3, 2, 1>>}
  BY ONLY SimpleIInv DEF SimpleIInv, SimpleAt, Printed
<1>2. Expected = <<3, 2, 1>>
  BY DEF SimpleIInv, Expected
<1>3. out = SubSeq(<<3, 2, 1>>, 1, Len(out))
  <2>1. /\ <<>> = SubSeq(<<3, 2, 1>>, 1, 0) /\ <<3>> = SubSeq(<<3, 2, 1>>, 1, 1)
        /\ <<3, 2>> = SubSeq(<<3, 2, 1>>, 1, 2) /\ <<3, 2, 1>> = SubSeq(<<3, 2, 1>>, 1, 3)
    OBVIOUS
  <2>2. Len(<<>>) = 0 /\ Len(<<3>>) = 1 /\ Len(<<3, 2>>) = 2 /\ Len(<<3, 2, 1>>) = 3
    OBVIOUS
  <2> QED
    BY ONLY <1>1, <2>1, <2>2
<1>4. pc[Idle] = "returned" => out = <<3, 2, 1>>
  BY SimpleEnds
<1> QED
  BY ONLY <1>2, <1>3, <1>4 DEF AppOutput

(* Without the timer the three threads of sem_simple.c print in the order  *)
(* in which they wait for each other, each its line, and all of them       *)
(* before uthread_start() returns, whichever the scheduler lets go first.  *)
THEOREM SimplePrintsAll == ~Preempts => (AppSpec /\ app = "simple" => []AppOutput)
<1> SUFFICES ASSUME ~Preempts PROVE AppSpec /\ app = "simple" => []AppOutput
  OBVIOUS
<1>1. AppInit /\ app = "simple" => AppBase /\ SimpleIInv
  BY SimpleBegins
<1>2. AppBase /\ SimpleIInv /\ [AppNext]_everyVar => AppBase' /\ SimpleIInv'
  BY SimpleNext
<1>3. AppBase /\ SimpleIInv => AppOutput
  BY SimpleOutput
<1> QED
  BY <1>1, <1>2, <1>3, PTL DEF AppSpec
=============================================================================
