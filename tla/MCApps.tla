------------------------------- MODULE MCApps -------------------------------
(***************************************************************************)
(* The instance of Apps for TLC: the programs of P2/apps, and those of     *)
(* MCSem, under the scheduler without the timer.                           *)
(***************************************************************************)
EXTENDS MCSem, Apps

CONSTANTS t4, t5

Five == <<t1, t2, t3, t4, t5>>

(* sem_count.c with an even and an odd number, sem_buffer.c below, at and  *)
(* above the size of its buffer, sem_prime.c with one filter per prime.    *)
ManyCounts ==
  {[app |-> a, max |-> 0] : a \in {"calls", "simple", "yield", "count"}}
  \cup {[app |-> "count", max |-> k] : k \in {3, 4}}
  \cup {[app |-> "buffer", max |-> k] : k \in {1, 2, 5}}
  \cup {[app |-> "prime", max |-> k] : k \in {1, 6}}

AppStatic == {<<"sem", i>> : i \in 1 .. 3} \cup {Empty, Full, Mutex}
AppSemaphore ==
  AppStatic \cup {Produce(c) : c \in 0 .. 3} \cup {Consume(c) : c \in 0 .. 3}
AllSemaphore == AppSemaphore \cup {m, d}
AllStatic == AppStatic \cup {m}
AllCount == [s \in AllSemaphore |-> IF s \in {m, Mutex} THEN 1
                                   ELSE IF s = Full THEN BufferSize ELSE 0]

(* MCSem's programs, for five threads. *)
AppPrograms == {p @@ (t4 :> <<>>) @@ (t5 :> <<>>) : p \in CoopPrograms}
=============================================================================
