------------------------------- MODULE MCSem -------------------------------
(***************************************************************************)
(* Instances of Sem for TLC: what the threads t1, t2 and t3 run, with the  *)
(* semaphores m, n that main() creates and d that a thread creates.        *)
(***************************************************************************)
EXTENDS Sem, TLC

CONSTANTS t1, t2, t3, m, n, d

Call(op, arg) == [op |-> op, arg |-> arg]
Yield == Call("yield", Nil)
Start(ts) == [i \in DOMAIN ts |-> Call("create", ts[i])]

(* Every sequence of at most k calls. *)
UpTo(calls, k) == UNION {[1 .. i -> calls] : i \in 0 .. k}

(* Any use of one semaphore by three threads. *)
AnyUse ==
  LET calls == {Call("sem_down", m), Call("sem_up", m), Yield}
  IN  {(t1 :> Start(<<t2, t3>>) \o p) @@ (t2 :> q) @@ (t3 :> r) :
         p \in UpTo(calls, 1), q \in UpTo(calls, 3), r \in UpTo(calls, 2)}

(* sem_prime.c in small: t1 creates a semaphore, waits on it for t2, and   *)
(* destroys it; t3 may try to destroy it while t1 waits.                   *)
Scratch ==
  LET begin == <<Call("sem_create", d), Call("create", t2), Call("create", t3)>>
      end == <<Call("sem_down", d), Call("sem_destroy", d)>>
      release == <<Call("sem_up", d)>>
  IN  {(t1 :> begin \o p \o end) @@ (t2 :> q \o release \o r) @@ (t3 :> q) :
         p \in UpTo({Yield}, 1), q, r \in UpTo({Yield}, 2)}
      \cup {(t1 :> begin \o end) @@ (t2 :> <<Yield>> \o release)
              @@ (t3 :> <<Call("sem_destroy", d)>>)}

CoopPrograms == AnyUse \cup Scratch

CoopCount == (m :> 1) @@ (d :> 0)
PreemptCount == (m :> 0) @@ (n :> 1) @@ (d :> 0)

(* sem_buffer.c and sem_count.c in small: of each semaphore one thread is  *)
(* the only one to take and the other the only one to release.             *)
PairPrograms ==
  {(t1 :> Start(<<t2>>) \o p) @@ (t2 :> q) @@ (t3 :> <<>>) :
     p \in [1 .. 3 -> {Call("sem_down", m), Call("sem_up", n)}],
     q \in [1 .. 3 -> {Call("sem_down", n), Call("sem_up", m)}]}

(* Two threads compete for what a third one releases, and two threads use  *)
(* m to exclude each other.                                                *)
CompetingPrograms ==
  LET down == Call("sem_down", m)
      up == Call("sem_up", m)
      section == <<Call("sem_down", n), Call("sem_up", n)>>
  IN  {(t1 :> Start(<<t2, t3>>) \o <<up, up>>) @@ (t2 :> p) @@ (t3 :> <<down>>) :
         p \in {<<down>>, <<down, down>>}}
      \cup {(t1 :> Start(<<t2>>) \o section) @@ (t2 :> section) @@ (t3 :> <<>>)}

(* A semaphore that only its creator uses, while another thread yields.    *)
PrivatePrograms ==
  LET private == <<Call("sem_up", d), Call("sem_down", d), Call("sem_destroy", d)>>
  IN  {(t1 :> <<Call("sem_create", d)>> \o Start(<<t2>>) \o private)
         @@ (t2 :> <<Yield>> \o p) @@ (t3 :> <<>>) :
         p \in UpTo({Call("sem_down", n), Call("sem_up", n), Yield}, 2)}

PreemptPrograms == PairPrograms \cup CompetingPrograms \cup PrivatePrograms
=============================================================================
