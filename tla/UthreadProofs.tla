--------------------------- MODULE UthreadProofs ---------------------------
(***************************************************************************)
(* What the scheduler guarantees for every set of threads, every choice of *)
(* the threads that yield, and with or without the timer.                  *)
(***************************************************************************)
EXTENDS OccurrenceLemmas

-----------------------------------------------------------------------------
(* The inductive invariant. *)

(* Which locations the calling thread and the created threads can be at,   *)
(* and that nothing has happened before uthread_start().                   *)
Places ==
  /\ pc[Idle] \in {"start", "loop", "yield", "drain", "returned"}
  /\ \A t \in Thread :
       pc[t] \in {"none", "made", "boot", "run", "create", "yield", "exit", "dead"}
  /\ pc[Idle] = "start" =>
       /\ cpu = Idle /\ ready = <<>> /\ ~armed
       /\ \A t \in Thread : pc[t] = "none"

(* A TCB that is initialised but not enqueued belongs to one unfinished    *)
(* uthread_create() (uthread.c:71-77).                                     *)
Creation ==
  /\ \A t \in Thread :
       pc[t] = "create" => local[t] \in Thread /\ pc[local[t]] = "made"
  /\ \A t, u \in Thread :
       pc[t] = "create" /\ pc[u] = "create" /\ local[t] = local[u] => t = u
  /\ \A c \in Thread :
       pc[c] = "made" => \E t \in Thread : pc[t] = "create" /\ local[t] = c

(* Preemptible also holds inside uthread_create() and uthread_exit(). *)
Unmasked ==
  \A t \in Thread \ Yielders :
    /\ pc[t] # "yield"
    /\ pc[t] \in {"run", "create", "exit"} => ~masked[t]

Zombies == \A t \in Thread : PrevOf(t) \in zombie => pc[t] = "dead"

IInv ==
  /\ TypeOK /\ CurrentIsRunning /\ ReadyTokens /\ ReturnsAfterAll
  /\ Places /\ Creation /\ Unmasked /\ Zombies

(* How often the scheduler should find a thread. *)
Due(t) == IF t = Idle THEN (IF pc[Idle] = "start" THEN 1 ELSE 2)
                      ELSE (IF Live(t) THEN 1 ELSE 0)

-----------------------------------------------------------------------------
(* Facts about single states. *)

USE ThreadAssumption DEF Tcb, Dequeued, NewTcb, Unblocked, OthersReady,
                         Yielded, Preempted, Exited

LEMMA TokensAreDue ==
  ReadyTokens <=> \A t \in Tcb : Tokens(t) = Due(t)
BY DEF ReadyTokens, Tokens, Due

(* uthread_yield() and the timer dequeue after they enqueued; when another *)
(* thread than the idle one exits, the idle one is in the queue twice.     *)
LEMMA IdleIsReady ==
  ASSUME IInv, pc[Idle] # "start", cpu # Idle
  PROVE  ready # <<>>
<1>1. Copies(Idle) = 2
  BY CopiesType DEF IInv, TypeOK, ReadyTokens
<1> QED
  BY <1>1, OccurrencesEmpty DEF Copies

(* Once the idle loop finds itself alone in the queue no thread is left.   *)
LEMMA AloneMeansDone ==
  ASSUME IInv, cpu = Idle, pc[Idle] = "loop", ~(Len(ready) > 1)
  PROVE  \A t \in Thread : pc[t] \in {"none", "dead"}
<1>1. ready \in Seq(Tcb) /\ Len(ready) \in Nat /\ DOMAIN ready = 1 .. Len(ready)
  BY LenProperties DEF IInv, TypeOK
<1>2. Copies(Idle) = 1
  BY CopiesType DEF IInv, TypeOK, ReadyTokens
<1>3. \E i \in DOMAIN ready : ready[i] = Idle
  BY <1>1, <1>2, OccurrencesNone DEF Copies
<1>4. \A i \in DOMAIN ready : ready[i] = Idle
  BY <1>1, <1>3
<1>5. \A t \in Thread : Copies(t) = 0
  BY <1>1, <1>4, OccurrencesNone DEF Copies
<1>6. \A t \in Thread : ~Live(t)
  BY <1>5 DEF IInv, ReadyTokens
<1> QED
  BY <1>6 DEF IInv, Places, Creation, Live

-----------------------------------------------------------------------------
(* The invariant holds initially. *)
LEMMA InitIInv == Init => IInv
<1> SUFFICES ASSUME Init PROVE IInv
  OBVIOUS
<1>1. \A t : Copies(t) = 0
  BY OccurrencesEmpty DEF Init, InitSched, Copies
<1>2. TypeOK
  <2>1. pc \in [Tcb -> Location] /\ masked \in [Tcb -> BOOLEAN]
    BY DEF Init, InitSched, Location
  <2>2. ready \in Seq(Tcb) /\ local \in [Tcb -> Tcb \cup {Nil}]
    BY DEF Init, InitSched
  <2> QED
    BY <2>1, <2>2 DEF Init, InitSched, TypeOK
<1>3. ReadyTokens
  BY <1>1 DEF Init, InitSched, ReadyTokens, Live
<1>4. pc[Idle] = "start" /\ \A t \in Thread : pc[t] = "none"
  BY DEF Init, InitSched
<1>5. CurrentIsRunning /\ ReturnsAfterAll /\ Creation /\ Unmasked
  BY <1>4 DEF CurrentIsRunning, ReturnsAfterAll, Creation, Unmasked
<1>6. Places /\ Zombies
  BY <1>4 DEF Init, InitSched, Places, Zombies
<1> QED
  BY <1>2, <1>3, <1>5, <1>6 DEF IInv

-----------------------------------------------------------------------------
(* Every step preserves the invariant: one lemma per action. *)

LEMMA StepUthreadStart == IInv /\ UthreadStart => IInv'
<1> SUFFICES ASSUME IInv, UthreadStart PROVE IInv'
  OBVIOUS
<1> USE DEF IInv, UthreadStart, At
<1>1. pc[Idle] = "start" /\ cpu = Idle /\ \A t \in Thread : pc[t] = "none"
  BY DEF Places
<1>2. /\ pc'[Idle] = "loop" /\ pc'[First] = "boot"
      /\ \A t \in Thread \ {First} : pc'[t] = "none"
  BY <1>1 DEF TypeOK
<1>3. TypeOK'
  BY DEF TypeOK, Location
<1>4. \A t : Copies(t)' = (IF Idle = t THEN 1 ELSE 0) + (IF First = t THEN 1 ELSE 0)
  <2>1. Idle \in Tcb /\ First \in Tcb /\ ready' = <<Idle, First>>
    OBVIOUS
  <2>2. ASSUME NEW t
        PROVE  Occurrences(ready', t)
                 = (IF Idle = t THEN 1 ELSE 0) + (IF First = t THEN 1 ELSE 0)
    <3> HIDE DEF UthreadStart, Tcb
    <3> DEFINE q == ready'
    <3>1. q = <<Idle, First>>
      BY <2>1
    <3> HIDE DEF q
    <3>2. Occurrences(q, t) = (IF Idle = t THEN 1 ELSE 0) + (IF First = t THEN 1 ELSE 0)
      BY ONLY <2>1, <3>1, OccurrencesPair
    <3> QED
      BY <3>2 DEF q
  <2> QED
    BY <2>2, Zenon DEF Copies
<1>5. Copies(Idle)' = 1 /\ \A t \in Thread : Copies(t)' = IF t = First THEN 1 ELSE 0
  BY <1>4
<1>6. ReadyTokens'
  <2>1. cpu' = Idle
    BY <1>1
  <2>2. \A t \in Thread : Live(t)' <=> t = First
    BY <1>2 DEF Live
  <2> QED
    BY <1>2, <1>5, <2>1, <2>2 DEF ReadyTokens
<1>7. CurrentIsRunning'
  BY <1>1, <1>2 DEF CurrentIsRunning
<1>8. Places' /\ ReturnsAfterAll'
  BY <1>2 DEF Places, ReturnsAfterAll
<1>9. Creation' /\ Zombies'
  BY <1>2 DEF Creation, Zombies
<1>10. Unmasked'
  BY <1>2 DEF Unmasked
<1> QED
  BY <1>3, <1>6, <1>7, <1>8, <1>9, <1>10

LEMMA StepIdleLoop == IInv /\ IdleLoop => IInv'
<1> SUFFICES ASSUME IInv, IdleLoop PROVE IInv'
  OBVIOUS
<1> USE DEF IdleLoop, Stay, At
<1>1. /\ cpu = Idle /\ pc[Idle] = "loop" /\ current = Idle
      /\ ready' = ready /\ zombie' = zombie /\ cpu' = cpu /\ current' = current
      /\ armed' = armed
      /\ \A t \in Thread : pc'[t] = pc[t] /\ masked'[t] = masked[t] /\ local'[t] = local[t]
  BY DEF IInv, TypeOK, CurrentIsRunning
<1>2. TypeOK'
  <2>1. CASE Len(ready) > 1
    BY <2>1, <1>1 DEF IInv, TypeOK, Location
  <2>2. CASE ~(Len(ready) > 1)
    BY <2>2, <1>1 DEF IInv, TypeOK, Location
  <2> QED
    BY <2>1, <2>2
<1>3. \A t : Copies(t)' = Copies(t)
  BY <1>1 DEF Copies
<1>4. pc'[Idle] \in {"yield", "drain"} /\ (pc'[Idle] = "yield" => local'[Idle] = Idle)
  BY <1>1 DEF IInv, TypeOK
<1>5. pc'[Idle] = "drain" => ~(Len(ready) > 1)
  BY DEF IInv, TypeOK
<1>6. CurrentIsRunning'
  BY <1>1, <1>4 DEF IInv, CurrentIsRunning
<1>7. ReadyTokens'
  BY <1>1, <1>3, <1>4 DEF IInv, ReadyTokens, Live
<1>8. ReturnsAfterAll'
  BY <1>1, <1>4, <1>5, AloneMeansDone DEF ReturnsAfterAll
<1>9. Places' /\ Creation' /\ Unmasked'
  BY <1>1, <1>4 DEF IInv, Places, Creation, Unmasked
<1>10. Zombies'
  BY <1>1 DEF IInv, Zombies, TypeOK
<1> QED
  BY <1>2, <1>6, <1>7, <1>8, <1>9, <1>10 DEF IInv

LEMMA StepIdleStop == IInv /\ IdleStop => IInv'
<1> SUFFICES ASSUME IInv, IdleStop PROVE IInv'
  OBVIOUS
<1> USE DEF IdleStop, Stay, At
<1>1. /\ cpu = Idle /\ pc[Idle] = "drain" /\ pc'[Idle] = "returned"
      /\ ready' = ready /\ zombie' = zombie /\ cpu' = cpu /\ current' = current
      /\ local' = local
      /\ \A t \in Thread : pc'[t] = pc[t] /\ masked'[t] = masked[t]
  BY DEF IInv, TypeOK
<1>2. TypeOK'
  BY DEF IInv, TypeOK, Location
<1>3. \A t : Copies(t)' = Copies(t)
  BY <1>1 DEF Copies
<1>4. CurrentIsRunning' /\ ReturnsAfterAll'
  BY <1>1 DEF IInv, CurrentIsRunning, ReturnsAfterAll
<1>5. ReadyTokens'
  BY <1>1, <1>3 DEF IInv, ReadyTokens, Live
<1>6. Places' /\ Creation' /\ Unmasked'
  BY <1>1 DEF IInv, Places, Creation, Unmasked
<1>7. Zombies'
  BY <1>1 DEF IInv, Zombies, TypeOK
<1> QED
  BY <1>2, <1>4, <1>5, <1>6, <1>7 DEF IInv

LEMMA StepBoot == ASSUME NEW t \in Thread PROVE IInv /\ Boot(t) => IInv'
<1> SUFFICES ASSUME IInv, Boot(t) PROVE IInv'
  OBVIOUS
<1> USE DEF Boot, Stay, At
<1>1. /\ cpu = t /\ pc[t] = "boot" /\ pc'[t] = "run" /\ ~masked'[t]
      /\ ready' = ready /\ zombie' = zombie /\ cpu' = cpu /\ current' = current
      /\ local' = local /\ armed' = armed
      /\ \A u \in Tcb \ {t} : pc'[u] = pc[u] /\ masked'[u] = masked[u]
  BY DEF IInv, TypeOK
<1>2. TypeOK'
  BY DEF IInv, TypeOK, Location
<1>3. \A u : Copies(u)' = Copies(u)
  BY <1>1 DEF Copies
<1>4. pc'[Idle] = pc[Idle] /\ pc[Idle] \notin {"start", "drain", "returned"}
  BY <1>1 DEF IInv, Places, ReturnsAfterAll
<1>5. CurrentIsRunning' /\ ReturnsAfterAll'
  BY <1>1, <1>4 DEF IInv, CurrentIsRunning, ReturnsAfterAll
<1>6. \A u \in Thread : Live(u)' = Live(u)
  BY <1>1 DEF Live
<1>7. ReadyTokens'
  BY <1>1, <1>3, <1>4, <1>6 DEF IInv, ReadyTokens
<1>8. Places' /\ Unmasked'
  BY <1>1, <1>4 DEF IInv, Places, Unmasked
<1>9. Creation'
  BY <1>1 DEF IInv, Creation
<1>10. Zombies'
  BY <1>1 DEF IInv, Zombies, TypeOK
<1> QED
  BY <1>2, <1>5, <1>7, <1>8, <1>9, <1>10 DEF IInv

LEMMA StepCallCreate ==
  ASSUME NEW t \in Thread, NEW c \in Thread
  PROVE  IInv /\ CallCreate(t, c) => IInv'
<1> SUFFICES ASSUME IInv, CallCreate(t, c) PROVE IInv'
  OBVIOUS
<1> USE DEF CallCreate, At
<1>1. /\ cpu = t /\ pc[t] = "run" /\ pc[c] = "none" /\ t # c
      /\ pc'[t] = "create" /\ pc'[c] = "made" /\ local'[t] = c /\ masked'[t] = masked[t]
      /\ ready' = ready /\ zombie' = zombie /\ cpu' = cpu /\ current' = current
      /\ \A u \in Tcb \ {t, c} : pc'[u] = pc[u] /\ masked'[u] = masked[u]
      /\ \A u \in Tcb \ {t} : local'[u] = local[u]
  BY DEF IInv, TypeOK
<1>2. TypeOK'
  BY DEF IInv, TypeOK, Location
<1>3. \A u : Copies(u)' = Copies(u)
  BY <1>1 DEF Copies
<1>4. pc'[Idle] = pc[Idle] /\ pc[Idle] \notin {"start", "drain", "returned"}
  BY <1>1 DEF IInv, Places, ReturnsAfterAll
<1>5. CurrentIsRunning' /\ ReturnsAfterAll'
  BY <1>1, <1>4 DEF IInv, CurrentIsRunning, ReturnsAfterAll
<1>6. \A u \in Thread : Live(u)' = Live(u)
  <2> SUFFICES ASSUME NEW u \in Thread PROVE Live(u)' = Live(u)
    OBVIOUS
  <2>1. CASE u \in {t, c}
    BY <1>1, <2>1 DEF Live
  <2>2. CASE u \notin {t, c}
    BY <1>1, <2>2 DEF Live
  <2> QED
    BY <2>1, <2>2
<1>7. ReadyTokens'
  BY <1>1, <1>3, <1>4, <1>6 DEF IInv, ReadyTokens
<1>8. Places'
  BY <1>1, <1>4 DEF IInv, Places
<1>9. Unmasked'
  BY <1>1 DEF IInv, Unmasked
<1>10. Creation'
  <2>1. \A u \in Thread : pc[u] = "create" => local[u] # c
    BY <1>1 DEF IInv, Creation
  <2>2. \A u \in Thread : pc'[u] = "create" <=> u = t \/ pc[u] = "create"
    BY <1>1
  <2>3. \A u \in Thread : pc'[u] = "made" <=> u = c \/ pc[u] = "made"
    BY <1>1
  <2>4. \A u \in Thread : pc'[u] = "create" => local'[u] \in Thread /\ pc'[local'[u]] = "made"
    <3> SUFFICES ASSUME NEW u \in Thread, pc'[u] = "create"
                 PROVE  local'[u] \in Thread /\ pc'[local'[u]] = "made"
      OBVIOUS
    <3>1. CASE u = t
      BY <1>1, <3>1
    <3>2. CASE u # t
      <4>1. pc[u] = "create" /\ local'[u] = local[u]
        BY <1>1, <2>2, <3>2
      <4>2. local[u] \in Thread /\ pc[local[u]] = "made"
        BY <4>1 DEF IInv, Creation
      <4> QED
        BY <2>3, <4>1, <4>2
    <3> QED
      BY <3>1, <3>2
  <2>5. \A u, v \in Thread :
          pc'[u] = "create" /\ pc'[v] = "create" /\ local'[u] = local'[v] => u = v
    BY <1>1, <2>1, <2>2 DEF IInv, Creation
  <2>6. \A d \in Thread : pc[d] = "made" => \E u \in Thread \ {t} : pc[u] = "create" /\ local[u] = d
    BY <1>1 DEF IInv, Creation
  <2>7. \A d \in Thread : pc'[d] = "made" => \E u \in Thread : pc'[u] = "create" /\ local'[u] = d
    <3> SUFFICES ASSUME NEW d \in Thread, pc'[d] = "made"
                 PROVE  \E u \in Thread : pc'[u] = "create" /\ local'[u] = d
      OBVIOUS
    <3>1. CASE d = c
      BY <1>1, <3>1
    <3>2. CASE d # c
      <4>1. PICK u \in Thread \ {t} : pc[u] = "create" /\ local[u] = d
        BY <2>3, <2>6, <3>2
      <4> QED
        BY <1>1, <2>2, <4>1
    <3> QED
      BY <3>1, <3>2
  <2> QED
    BY <2>4, <2>5, <2>7 DEF Creation
<1>11. Zombies'
  BY <1>1 DEF IInv, Zombies, TypeOK
<1> QED
  BY <1>2, <1>5, <1>7, <1>8, <1>9, <1>10, <1>11 DEF IInv

LEMMA StepDoCreate == ASSUME NEW t \in Thread PROVE IInv /\ DoCreate(t) => IInv'
<1> SUFFICES ASSUME IInv, DoCreate(t) PROVE IInv'
  OBVIOUS
<1>0. PICK c \in Thread : c = local[t]
  BY DEF IInv, Creation, DoCreate, At
<1>1. local[t] = c /\ pc[c] = "made" /\ pc[t] = "create" /\ cpu = t /\ c # t
  BY <1>0 DEF IInv, Creation, DoCreate, At
<1>2. /\ pc'[t] = "run" /\ pc'[c] = "boot" /\ ~masked'[t]
      /\ ready' = Append(ready, c)
      /\ zombie' = zombie /\ cpu' = cpu /\ current' = current /\ local' = local
      /\ \A u \in Tcb \ {t, c} : pc'[u] = pc[u]
      /\ \A u \in Tcb \ {t} : masked'[u] = masked[u]
  BY <1>1 DEF DoCreate, IInv, TypeOK
<1>3. TypeOK'
  <2>1. pc' \in [Tcb -> Location] /\ masked' \in [Tcb -> BOOLEAN]
    BY <1>1 DEF DoCreate, IInv, TypeOK, Location
  <2>2. ready' \in Seq(Tcb)
    BY <1>1, <1>2, AppendProperties DEF IInv, TypeOK
  <2> QED
    BY <1>2, <2>1, <2>2 DEF DoCreate, IInv, TypeOK
<1>4. \A u : Copies(u)' = Copies(u) + IF c = u THEN 1 ELSE 0
  <2>1. ready \in Seq(Tcb) /\ c \in Tcb
    BY <1>1 DEF IInv, TypeOK
  <2>2. \A u : Occurrences(Append(ready, c), u) = Occurrences(ready, u) + IF c = u THEN 1 ELSE 0
    BY <2>1, OccurrencesAppend
  <2> QED
    BY <1>2, <2>2 DEF Copies
<1>5. pc'[Idle] = pc[Idle] /\ pc[Idle] \notin {"start", "drain", "returned"}
  BY <1>1, <1>2 DEF IInv, Places, ReturnsAfterAll
<1>6. CurrentIsRunning' /\ ReturnsAfterAll'
  BY <1>1, <1>2, <1>5 DEF IInv, CurrentIsRunning, ReturnsAfterAll
<1>7. ReadyTokens'
  <2>1. \A u \in Thread \ {c} : Live(u)' = Live(u) /\ Copies(u)' = Copies(u)
    BY <1>1, <1>2, <1>4, CopiesType DEF Live, IInv, TypeOK
  <2>2. ~Live(c) /\ Live(c)' /\ Copies(c)' = Copies(c) + 1
    <3>1. ~Live(c) /\ Live(c)'
      BY <1>1, <1>2 DEF Live
    <3>2. Copies(c)' = Copies(c) + 1
      BY <1>4
    <3> QED
      BY <3>1, <3>2
  <2>3. Copies(c) = 0 /\ cpu # c
    BY <1>1, <2>2, CopiesType DEF IInv, TypeOK, ReadyTokens
  <2>4. Copies(Idle)' = Copies(Idle)
    BY <1>1, <1>4, CopiesType DEF IInv, TypeOK
  <2>5. \A u \in Thread :
          Copies(u)' + (IF cpu' = u THEN 1 ELSE 0) = IF Live(u)' THEN 1 ELSE 0
    <3> SUFFICES ASSUME NEW u \in Thread
                 PROVE  Copies(u)' + (IF cpu' = u THEN 1 ELSE 0) = IF Live(u)' THEN 1 ELSE 0
      OBVIOUS
    <3>1. CASE u = c
      BY <1>2, <2>2, <2>3, <3>1
    <3>2. CASE u # c
      BY <1>2, <2>1, <3>2 DEF IInv, ReadyTokens
    <3> QED
      BY <3>1, <3>2
  <2>6. Copies(Idle)' + (IF cpu' = Idle THEN 1 ELSE 0) = IF pc'[Idle] = "start" THEN 1 ELSE 2
    BY <1>2, <1>5, <2>4 DEF IInv, ReadyTokens
  <2> QED
    BY <2>5, <2>6 DEF ReadyTokens
<1>8. Places' /\ Unmasked'
  BY <1>1, <1>2, <1>5 DEF IInv, Places, Unmasked
<1>9. Creation'
  <2>1. \A u \in Thread : pc'[u] = "create" <=> u # t /\ pc[u] = "create"
    BY <1>1, <1>2
  <2>2. \A u \in Thread : pc'[u] = "made" <=> u # c /\ pc[u] = "made"
    BY <1>1, <1>2
  <2>3. \A u \in Thread : pc[u] = "create" /\ u # t => local[u] # c
    BY <1>1 DEF IInv, Creation
  <2> QED
    BY <1>1, <1>2, <2>1, <2>2, <2>3 DEF IInv, Creation
<1>10. Zombies'
  BY <1>1, <1>2 DEF IInv, Zombies, TypeOK
<1> QED
  BY <1>3, <1>6, <1>7, <1>8, <1>9, <1>10 DEF IInv

(* The entries of uthread_yield() and uthread_exit(). *)
LEMMA StepEnter ==
  ASSUME NEW t \in Thread, NEW loc \in {"yield", "exit"},
         loc = "yield" => t \in Yielders
  PROVE  IInv /\ Enter(t, loc) => IInv'
<1> SUFFICES ASSUME IInv, Enter(t, loc) PROVE IInv'
  OBVIOUS
<1> USE DEF Enter, Stay, At
<1>1. /\ cpu = t /\ pc[t] = "run" /\ pc'[t] = loc /\ local'[t] = current
      /\ masked'[t] = masked[t]
      /\ ready' = ready /\ zombie' = zombie /\ cpu' = cpu /\ current' = current
      /\ \A u \in Tcb \ {t} :
           pc'[u] = pc[u] /\ masked'[u] = masked[u] /\ local'[u] = local[u]
  BY DEF IInv, TypeOK
<1>2. TypeOK'
  BY DEF IInv, TypeOK, Location
<1>3. \A u : Copies(u)' = Copies(u)
  BY <1>1 DEF Copies
<1>4. /\ pc'[Idle] = pc[Idle] /\ pc[Idle] \notin {"start", "drain", "returned"}
      /\ current = t
  BY <1>1 DEF IInv, Places, ReturnsAfterAll, CurrentIsRunning
<1>5. CurrentIsRunning' /\ ReturnsAfterAll'
  BY <1>1, <1>4 DEF IInv, CurrentIsRunning, ReturnsAfterAll
<1>6. \A u \in Thread : Live(u)' = Live(u)
  BY <1>1 DEF Live
<1>7. ReadyTokens'
  BY <1>1, <1>3, <1>4, <1>6 DEF IInv, ReadyTokens
<1>8. Places' /\ Unmasked'
  BY <1>1, <1>4 DEF IInv, Places, Unmasked
<1>9. Creation'
  BY <1>1 DEF IInv, Creation
<1>10. Zombies'
  BY <1>1 DEF IInv, Zombies, TypeOK
<1> QED
  BY <1>2, <1>5, <1>7, <1>8, <1>9, <1>10 DEF IInv

(* uthread_yield(): prev and the running thread are the same. *)
LEMMA StepDoYield == ASSUME NEW t \in Tcb PROVE IInv /\ DoYield(t) => IInv'
<1> SUFFICES ASSUME IInv, DoYield(t) PROVE IInv'
  OBVIOUS
<1> DEFINE at == IF t = Idle THEN "loop" ELSE "run"
<1>1. /\ cpu = t /\ pc[t] = "yield" /\ local[t] = t
      /\ pc[Idle] \notin {"start", "drain", "returned"}
      /\ t \in Thread => t \in Yielders
  BY DEF DoYield, At, IInv, CurrentIsRunning, Places, ReturnsAfterAll, Unmasked
<1>2. Switch(cpu, Append(ready, cpu), at, TRUE)
  BY <1>1 DEF DoYield
<1>3. /\ zombie' = zombie /\ local' = local /\ armed' = armed
      /\ pc' = [pc EXCEPT ![t] = at] /\ masked' = [masked EXCEPT ![t] = TRUE]
  BY <1>1, <1>2 DEF DoYield, Switch
<1>4. /\ ready' \in Seq(Tcb) /\ cpu' \in Tcb /\ current' = cpu'
      /\ \A u : Tokens(u)' = Tokens(u)
  BY <1>1, <1>2, RequeueTokens DEF IInv, TypeOK
<1>5. /\ pc'[t] = at
      /\ \A u \in Tcb \ {t} : pc'[u] = pc[u] /\ masked'[u] = masked[u]
  BY <1>3 DEF IInv, TypeOK
<1>6. TypeOK'
  BY <1>3, <1>4 DEF IInv, TypeOK, Location
<1>7. pc'[Idle] \in {"loop", "yield"}
  BY <1>1, <1>5 DEF IInv, Places
<1>8. \A u \in Thread : Live(u)' = Live(u)
  BY <1>1, <1>5 DEF Live
<1>9. ReadyTokens'
  <2>1. \A u \in Tcb : Due(u)' = Due(u)
    BY <1>1, <1>7, <1>8 DEF Due
  <2>2. \A u \in Tcb : Tokens(u) = Due(u)
    BY TokensAreDue DEF IInv
  <2>3. \A u \in Tcb : Tokens(u)' = Due(u)'
    BY <1>4, <2>1, <2>2
  <2> QED
    BY <2>3 DEF ReadyTokens, Tokens, Due
<1>10. CurrentIsRunning' /\ ReturnsAfterAll'
  BY <1>1, <1>3, <1>4, <1>5, <1>7 DEF IInv, CurrentIsRunning, ReturnsAfterAll
<1>11. Places' /\ Creation' /\ Unmasked'
  BY <1>1, <1>3, <1>5, <1>7 DEF IInv, Places, Creation, Unmasked
<1>12. Zombies'
  BY <1>1, <1>3, <1>5 DEF IInv, Zombies, TypeOK
<1> QED
  BY <1>6, <1>9, <1>10, <1>11, <1>12 DEF IInv

(* uthread_exit(): the queue is not empty, the idle thread is in it twice. *)
LEMMA StepDoExit == ASSUME NEW t \in Thread PROVE IInv /\ DoExit(t) => IInv'
<1> SUFFICES ASSUME IInv, DoExit(t) PROVE IInv'
  OBVIOUS
<1>1. /\ cpu = t /\ pc[t] = "exit" /\ local[t] = t
      /\ pc[Idle] \notin {"start", "drain", "returned"}
  BY DEF DoExit, At, IInv, CurrentIsRunning, Places, ReturnsAfterAll
<1>2. Switch(t, ready, "dead", TRUE)
  BY <1>1 DEF DoExit
<1>3. /\ zombie' = zombie \cup {PrevOf(t)} /\ local' = local /\ armed' = armed
      /\ pc' = [pc EXCEPT ![t] = "dead"] /\ masked' = [masked EXCEPT ![t] = TRUE]
  BY <1>1, <1>2 DEF DoExit, Switch
<1>4. ready \in Seq(Tcb) /\ ready # <<>>
  BY <1>1, IdleIsReady DEF IInv, TypeOK
<1>5. /\ ready' \in Seq(Tcb) /\ cpu' \in Tcb /\ current' = cpu'
      /\ \A u : Tokens(u)' = Copies(u)
  BY <1>2, <1>4, SwitchTokens DEF Copies
<1>6. /\ pc'[t] = "dead"
      /\ \A u \in Tcb \ {t} : pc'[u] = pc[u] /\ masked'[u] = masked[u]
  BY <1>3 DEF IInv, TypeOK
<1>7. TypeOK'
  BY <1>3, <1>5 DEF IInv, TypeOK, Location
<1>8. pc'[Idle] = pc[Idle]
  BY <1>6
<1>9. ReadyTokens'
  <2>1. \A u \in Thread \ {t} : Live(u)' = Live(u) /\ Copies(u) = Tokens(u)
    BY <1>1, <1>4, <1>6, CopiesType DEF Live, Tokens
  <2>2. Live(t) /\ ~Live(t)' /\ Copies(t) = 0
    BY <1>1, <1>4, <1>6, CopiesType DEF Live, IInv, ReadyTokens
  <2>3. Copies(Idle) = 2
    BY <1>1, <1>4, CopiesType DEF IInv, ReadyTokens
  <2>4. \A u \in Thread \ {t} : Tokens(u)' = IF Live(u)' THEN 1 ELSE 0
    BY <1>5, <2>1 DEF IInv, ReadyTokens, Tokens
  <2>5. Tokens(t)' = 0 /\ Tokens(Idle)' = 2
    BY <1>5, <2>2, <2>3
  <2> QED
    BY <1>1, <1>8, <2>2, <2>4, <2>5 DEF ReadyTokens, Tokens
<1>10. CurrentIsRunning' /\ ReturnsAfterAll'
  BY <1>1, <1>3, <1>5, <1>6 DEF IInv, CurrentIsRunning, ReturnsAfterAll
<1>11. Places' /\ Unmasked'
  BY <1>1, <1>6 DEF IInv, Places, Unmasked
<1>12. Creation'
  BY <1>1, <1>3, <1>6 DEF IInv, Creation
<1>13. Zombies'
  <2>1. \A u \in Thread : PrevOf(u) \in zombie' => PrevOf(u) \in zombie \/ u = t
    BY <1>3 DEF PrevOf
  <2> QED
    BY <1>1, <1>6, <2>1 DEF IInv, Zombies, TypeOK, Tcb
<1> QED
  BY <1>7, <1>9, <1>10, <1>11, <1>12, <1>13 DEF IInv

(* The timer: a yield of whatever was interrupted, which resumes as it was. *)
LEMMA StepTick == IInv /\ Tick => IInv'
<1> SUFFICES ASSUME IInv, Tick PROVE IInv'
  OBVIOUS
<1>1. cpu \in Tcb /\ armed /\ current = cpu /\ pc[Idle] # "start"
  BY DEF Tick, IInv, Places, CurrentIsRunning
<1>2. Switch(cpu, Append(ready, cpu), pc[cpu], masked[cpu])
  BY <1>1 DEF Tick
<1>3. pc' = pc /\ masked' = masked /\ zombie' = zombie /\ local' = local /\ armed' = armed
  BY <1>1, <1>2 DEF Tick, Switch, IInv, TypeOK
<1>4. /\ ready' \in Seq(Tcb) /\ cpu' \in Tcb /\ current' = cpu'
      /\ \A u : Tokens(u)' = Tokens(u)
  BY <1>1, <1>2, RequeueTokens DEF IInv, TypeOK
<1>5. TypeOK'
  BY <1>3, <1>4 DEF IInv, TypeOK
<1>6. ReadyTokens'
  <2>1. \A u \in Tcb : Due(u)' = Due(u)
    BY <1>3 DEF Due, Live
  <2>2. \A u \in Tcb : Tokens(u) = Due(u)
    BY TokensAreDue DEF IInv
  <2>3. \A u \in Tcb : Tokens(u)' = Due(u)'
    BY <1>4, <2>1, <2>2
  <2> QED
    BY <2>3 DEF ReadyTokens, Tokens, Due
<1>7. CurrentIsRunning' /\ ReturnsAfterAll'
  BY <1>3, <1>4 DEF IInv, CurrentIsRunning, ReturnsAfterAll
<1>8. Places' /\ Creation' /\ Unmasked' /\ Zombies'
  BY <1>1, <1>3 DEF IInv, Places, Creation, Unmasked, Zombies
<1> QED
  BY <1>5, <1>6, <1>7, <1>8 DEF IInv

LEMMA StepStutter == IInv /\ UNCHANGED vars => IInv'
<1> SUFFICES ASSUME IInv, UNCHANGED vars PROVE IInv'
  OBVIOUS
<1>1. \A t : Copies(t)' = Copies(t) /\ Live(t)' = Live(t)
  BY DEF vars, Copies, Live
<1>2. TypeOK' /\ CurrentIsRunning' /\ ReturnsAfterAll'
  BY DEF vars, IInv, TypeOK, CurrentIsRunning, ReturnsAfterAll
<1>3. ReadyTokens'
  BY <1>1 DEF vars, IInv, ReadyTokens
<1>4. Places' /\ Creation' /\ Unmasked' /\ Zombies'
  BY DEF vars, IInv, Places, Creation, Unmasked, Zombies
<1> QED
  BY <1>2, <1>3, <1>4 DEF IInv

LEMMA NextIInv == IInv /\ [Next]_vars => IInv'
<1> SUFFICES ASSUME IInv, [Next]_vars PROVE IInv'
  OBVIOUS
<1>1. CASE UthreadStart
  BY <1>1, StepUthreadStart
<1>2. CASE IdleLoop
  BY <1>2, StepIdleLoop
<1>3. CASE IdleStop
  BY <1>3, StepIdleStop
<1>4. ASSUME NEW t \in Tcb, DoYield(t) PROVE IInv'
  BY <1>4, StepDoYield
<1>5. ASSUME NEW t \in Thread, Boot(t) PROVE IInv'
  BY <1>5, StepBoot
<1>6. ASSUME NEW t \in Thread, DoCreate(t) PROVE IInv'
  BY <1>6, StepDoCreate
<1>7. ASSUME NEW t \in Thread, DoExit(t) PROVE IInv'
  BY <1>7, StepDoExit
<1>8. CASE Tick
  BY <1>8, StepTick
<1>9. ASSUME NEW t \in Thread, CallYield(t) PROVE IInv'
  BY <1>9, StepEnter DEF CallYield
<1>10. ASSUME NEW t \in Thread, CallExit(t) PROVE IInv'
  BY <1>10, StepEnter DEF CallExit
<1>11. ASSUME NEW t \in Thread, NEW c \in Thread, CallCreate(t, c) PROVE IInv'
  BY <1>11, StepCallCreate
<1>12. CASE Returned \/ UNCHANGED vars
  BY <1>12, StepStutter DEF Returned
<1> QED
  BY <1>1, <1>2, <1>3, <1>4, <1>5, <1>6, <1>7, <1>8, <1>9, <1>10, <1>11, <1>12
     DEF Next, LibraryStep

-----------------------------------------------------------------------------
(* The theorems. *)

LEMMA Invariance == Spec => []IInv
  BY InitIInv, NextIInv, PTL DEF Spec

(* The queues of uthread.c hold TCB pointers, whatever the threads do. *)
THEOREM TypeCorrect == Spec => []TypeOK
<1>1. IInv => TypeOK
  BY DEF IInv
<1> QED
  BY <1>1, Invariance, PTL

(* No dequeue of the ready queue finds it empty, and `current` names the   *)
(* executing thread whenever a call of the library reads it.               *)
THEOREM CurrentIsAlwaysRunning == Spec => []CurrentIsRunning
<1>1. IInv => CurrentIsRunning
  BY DEF IInv
<1> QED
  BY <1>1, Invariance, PTL

(* No thread is ever lost or scheduled twice. *)
THEOREM NoThreadIsLost == Spec => []ReadyTokens
<1>1. IInv => ReadyTokens
  BY DEF IInv
<1> QED
  BY <1>1, Invariance, PTL

(* A thread that called uthread_exit() is never scheduled again. *)
THEOREM ExitedStaysExited == Spec => []ExitIsFinal
<1>1. IInv => ExitIsFinal
  <2> SUFFICES ASSUME IInv PROVE ExitIsFinal
    OBVIOUS
  <2> SUFFICES ASSUME NEW t \in Thread, PrevOf(t) \in zombie
               PROVE  cpu # t /\ Copies(t) = 0
    BY DEF ExitIsFinal
  <2>1. pc[t] = "dead" /\ Copies(t) \in Nat
    BY CopiesType DEF IInv, Zombies, TypeOK, Tcb
  <2>2. Copies(t) + (IF cpu = t THEN 1 ELSE 0) = 0
    BY <2>1 DEF IInv, ReadyTokens, Live
  <2> QED
    BY <2>1, <2>2
<1> QED
  BY <1>1, Invariance, PTL

(* uthread_start() does not return while a thread still has to run. *)
THEOREM StartReturnsLast == Spec => []ReturnsAfterAll
<1>1. IInv => ReturnsAfterAll
  BY DEF IInv
<1> QED
  BY <1>1, Invariance, PTL

(* A thread that does not call uthread_yield() stays preemptible. *)
THEOREM AlwaysPreemptible == Spec => []Preemptible
<1>1. IInv => Preemptible
  BY DEF IInv, Unmasked, Preemptible
<1> QED
  BY <1>1, Invariance, PTL
=============================================================================
