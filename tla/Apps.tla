--------------------------------- MODULE Apps ---------------------------------
(***************************************************************************)
(* The programs of P2/apps over the library: uthread_yield.c,              *)
(* sem_simple.c, sem_count.c, sem_buffer.c and sem_prime.c.  A thread      *)
(* computes on its own and the shared data up to its next calls of the     *)
(* library (a segment), makes these calls, and goes on.  A segment is one  *)
(* step: that is exact without the timer, when threads switch only where   *)
(* they call the library.                                                  *)
(***************************************************************************)
EXTENDS Sem

CONSTANTS
  Pool,        \* the TCBs in the order the programs allocate them, First first
  BufferSize,  \* BUFFER_SIZE of sem_buffer.c
  Counts       \* what may be counted to: a set of [app, max]

(* sem_buffer.c computes maxcount - 1 without a sign: told to count to 0   *)
(* its consumer waits for ever, and that is left out.                      *)
ASSUME AppAssumption ==
  /\ Pool \in Seq(Thread) /\ Len(Pool) >= 3 /\ Pool[1] = First
  /\ \A i, j \in DOMAIN Pool : Pool[i] = Pool[j] => i = j
  /\ BufferSize \in Nat \ {0}
  /\ \A run \in Counts : run.max \in Nat /\ (run.app = "buffer" => run.max > 0)

VARIABLES
  app, max,    \* the program that runs ("calls": one of Programs) and its argument
  data,        \* what its threads share
  code,        \* where each thread is in its function, and its variables
  out          \* history: the numbers printed

appVars == <<app, max, data, code, out>>
everyVar == <<allVars, appVars>>

Do(op, arg) == [op |-> op, arg |-> arg]
Up(s) == Do("sem_up", s)
Down(s) == Do("sem_down", s)
Produce(c) == <<"produce", c>>
Consume(c) == <<"consume", c>>

(* Where the first thread's function begins, and what main() initialises. *)
Main ==
  [count |-> [at |-> "thread1 start"],
   buffer |-> [at |-> "producer start", count |-> 0],
   prime |-> [at |-> "sink start", p |-> 0, value |-> 0]]
Shared ==
  [count |-> 0,
   buffer |-> [buffer |-> [i \in 0 .. BufferSize - 1 |-> 0],
               size |-> 0, head |-> 0, tail |-> 0],
   prime |-> [c \in 0 .. Len(Pool) |-> 0]]

(* The programs without a loop: the calls of each thread, in order. *)
SimpleThreads ==
  << <<Do("create", Pool[2]), Do("create", Pool[3]),
       Up(<<"sem", 3>>), Down(<<"sem", 1>>), Do("print", 1)>>,
     <<Down(<<"sem", 2>>), Do("print", 2), Up(<<"sem", 1>>)>>,
     <<Down(<<"sem", 3>>), Do("print", 3), Up(<<"sem", 2>>)>> >>
YieldThreads ==
  << <<Do("create", Pool[2]), Do("yield", Nil), Do("print", 1), Do("yield", Nil)>>,
     <<Do("create", Pool[3]), Do("yield", Nil), Do("print", 2)>>,
     <<Do("yield", Nil), Do("print", 3)>> >>
Straight == [simple |-> SimpleThreads, yield |-> YieldThreads]
StraightFor(t) ==
  IF \E i \in 1 .. 3 : Pool[i] = t
  THEN Straight[app][CHOOSE i \in 1 .. 3 : Pool[i] = t] ELSE <<>>

AppInit ==
  /\ SemStart
  /\ \E run \in Counts : app = run.app /\ max = run.max
  /\ todo \in IF app = "calls" THEN Programs
              ELSE {[t \in Thread |-> IF app \in DOMAIN Straight THEN StraightFor(t) ELSE <<>>]}
  /\ data = IF app \in DOMAIN Shared THEN Shared[app] ELSE 0
  /\ code = [t \in Thread |-> IF t = First /\ app \in DOMAIN Main
                              THEN Main[app] ELSE [at |-> "end"]]
  /\ out = <<>>

-----------------------------------------------------------------------------
(* A segment: the thread t, which is at a label of its function, makes     *)
(* these calls and is then in the state `next`.                            *)
InCode(t, label) == At(t, "run") /\ todo[t] = <<>> /\ code[t].at = label
Segment(t, next, calls) ==
  /\ code' = [code EXCEPT ![t] = next]
  /\ todo' = [todo EXCEPT ![t] = calls]

(* The same, and the thread u that the calls create starts in `first`. *)
Creating(t, next, calls, u, first) ==
  /\ code' = [code EXCEPT ![t] = next, ![u] = first]
  /\ todo' = [todo EXCEPT ![t] = Append(calls, Do("create", u))]

To(t, label) == [code[t] EXCEPT !.at = label]
End == [at |-> "end"]

(* What the mistaken programs do: each breaks AppOutput or AppsFinish. *)
TwoTokens == <<Up(<<"sem", 1>>), Up(<<"sem", 1>>), Down(<<"sem", 2>>)>>   \* AppOutput
EndUnmarked == <<>>                                                      \* AppsFinish

(* sem_count.c: the calls of thread2() after it printed. *)
Handover == <<Up(<<"sem", 1>>), Down(<<"sem", 2>>)>>
(* sem_prime.c: the calls of source() after it marked the end. *)
EndMarked == <<Up(Consume(0)), Down(Produce(0))>>

-----------------------------------------------------------------------------
(* sem_count.c: thread1() tests x before it waits and prints it after. *)
Prints(t, next, calls) ==
  /\ Segment(t, next, calls)
  /\ out' = Append(out, data) /\ data' = data + 1

CountStep(t) ==
  \/ /\ InCode(t, "thread1 start")
     /\ Creating(t, To(t, "thread1"), <<>>, Pool[2], [at |-> "thread2"])
     /\ UNCHANGED <<data, out>>
  \/ /\ InCode(t, "thread1") /\ data < max
     /\ Segment(t, To(t, "thread1 woken"), <<Down(<<"sem", 1>>)>>)
     /\ UNCHANGED <<data, out>>
  \/ /\ InCode(t, "thread1 woken")
     /\ Prints(t, To(t, "thread1"), <<Up(<<"sem", 2>>)>>)
  \/ /\ InCode(t, "thread2") /\ data < max
     /\ Prints(t, To(t, "thread2"), Handover)
  \/ /\ InCode(t, "thread1") \/ InCode(t, "thread2")
     /\ data >= max
     /\ Segment(t, End, <<>>) /\ UNCHANGED <<data, out>>

(* sem_buffer.c.  The size of the consumer's batch is random; the one of   *)
(* the producer's changes nothing but what it prints.                      *)
Empty == <<"empty", 0>>
Full == <<"full", 0>>
Mutex == <<"mutex", 0>>
Around(i) == (i + 1) % BufferSize

(* What main() creates before uthread_start(), and with which counts. *)
ASSUME MainAssumption ==
  /\ {<<"sem", i>> : i \in 1 .. 3} \cup {Empty, Full, Mutex} \subseteq Static
  /\ \A i \in 1 .. 3 : InitCount[<<"sem", i>>] = 0
  /\ InitCount[Empty] = 0 /\ InitCount[Full] = BufferSize /\ InitCount[Mutex] = 1

ProducerStep(t) ==
  /\ UNCHANGED out
  /\ \/ /\ InCode(t, "producer start")
        /\ Creating(t, To(t, "producer"), <<>>,
                    Pool[2], [at |-> "consumer", out |-> 0, left |-> 0])
        /\ UNCHANGED data
     \/ /\ InCode(t, "producer")
        /\ IF code[t].count < max
           THEN Segment(t, To(t, "put"), <<Down(Full)>>)
           ELSE Segment(t, End, <<>>)
        /\ UNCHANGED data
     \/ /\ InCode(t, "put")
        /\ Segment(t, [code[t] EXCEPT !.at = "put in", !.count = @ + 1], <<Down(Mutex)>>)
        /\ data' = [data EXCEPT !.buffer[data.head] = code[t].count, !.head = Around(@)]
     \/ /\ InCode(t, "put in")
        /\ Segment(t, To(t, "producer"), <<Up(Mutex), Up(Empty)>>)
        /\ data' = [data EXCEPT !.size = @ + 1]

ConsumerStep(t) ==
  \/ /\ InCode(t, "consumer") /\ code[t].left > 0
     /\ Segment(t, To(t, "take"), <<Down(Empty)>>)
     /\ UNCHANGED <<data, out>>
  \/ /\ InCode(t, "consumer") /\ code[t].left = 0
     /\ LET most == max - code[t].out - 1
        IN  IF most > 0
            THEN \E batch \in 1 .. BufferSize :
                   Segment(t, [code[t] EXCEPT !.left = IF batch < most THEN batch ELSE most],
                           <<>>)
            ELSE Segment(t, End, <<>>)
     /\ UNCHANGED <<data, out>>
  \/ /\ InCode(t, "take")
     /\ LET item == data.buffer[data.tail]
        IN  /\ Segment(t, [code[t] EXCEPT !.at = "taken", !.out = item], <<Down(Mutex)>>)
            /\ out' = Append(out, item)
     /\ data' = [data EXCEPT !.tail = Around(@)]
  \/ /\ InCode(t, "taken")
     /\ Segment(t, [code[t] EXCEPT !.at = "consumer", !.left = @ - 1],
                <<Up(Mutex), Up(Full)>>)
     /\ data' = [data EXCEPT !.size = @ - 1]
     /\ UNCHANGED out

(* sem_prime.c: channel c leads to the filter c + 1 or the sink, and data  *)
(* is the value in each channel.                                           *)
NewChannel(c) == <<Do("sem_create", Produce(c)), Do("sem_create", Consume(c))>>
OldChannel(c) == <<Do("sem_destroy", Produce(c)), Do("sem_destroy", Consume(c))>>

SourceStep(t) ==
  /\ UNCHANGED out
  /\ InCode(t, "source")
  /\ IF code[t].i <= max
     THEN /\ Segment(t, [code[t] EXCEPT !.i = @ + 1], <<Up(Consume(0)), Down(Produce(0))>>)
          /\ data' = [data EXCEPT ![0] = code[t].i]
     ELSE Segment(t, End, EndMarked) /\ data' = [data EXCEPT ![0] = -1]

(* A filter and the sink receive alike. *)
Receive(t, from, woken, got, c) ==
  /\ UNCHANGED <<data, out>>
  /\ \/ InCode(t, from) /\ Segment(t, To(t, woken), <<Down(Consume(c))>>)
     \/ /\ InCode(t, woken)
        /\ Segment(t, [code[t] EXCEPT !.at = got, !.value = data[c]], <<Up(Produce(c))>>)

FilterStep(t) ==
  LET f == code[t]
      done == f.value = -1
  IN  \/ Receive(t, "filter", "filter woken", "filter got", f.left)
      \/ /\ InCode(t, "filter got")
         /\ done \/ f.value % f.prime # 0
         /\ Segment(t, To(t, IF done THEN "filter done" ELSE "filter"),
                    <<Up(Consume(f.left + 1)), Down(Produce(f.left + 1))>>)
         /\ data' = [data EXCEPT ![f.left + 1] = f.value]
         /\ UNCHANGED out
      \/ /\ InCode(t, "filter got")
         /\ ~done /\ f.value % f.prime = 0
         /\ Segment(t, To(t, "filter"), <<>>) /\ UNCHANGED <<data, out>>
      \/ /\ InCode(t, "filter done")
         /\ Segment(t, End, OldChannel(f.left)) /\ UNCHANGED <<data, out>>

SinkStep(t) ==
  LET p == code[t].p
      v == code[t].value
  IN  \/ /\ InCode(t, "sink start")
         /\ Creating(t, To(t, "sink"), NewChannel(0), Pool[2], [at |-> "source", i |-> 2])
         /\ UNCHANGED <<data, out>>
      \/ Receive(t, "sink", "sink woken", "sink got", p)
      \/ /\ InCode(t, "sink got") /\ v = -1
         /\ Segment(t, End, OldChannel(p))
         /\ UNCHANGED <<data, out>>
      \/ /\ InCode(t, "sink got") /\ v # -1
         /\ Creating(t, [code[t] EXCEPT !.at = "sink", !.p = @ + 1], NewChannel(p + 1),
                     Pool[p + 3], [at |-> "filter", left |-> p, prime |-> v, value |-> 0])
         /\ out' = Append(out, v) /\ UNCHANGED data

-----------------------------------------------------------------------------
AppPrints(t) ==
  /\ Calls(t, "print")
  /\ todo' = Rest(t) /\ out' = Append(out, Arg(t))
  /\ UNCHANGED <<data, code>>

AppStep(t) ==
  /\ \/ app = "count" /\ CountStep(t)
     \/ app = "buffer" /\ (ProducerStep(t) \/ ConsumerStep(t))
     \/ app = "prime" /\ (SourceStep(t) \/ FilterStep(t) \/ SinkStep(t))
     \/ AppPrints(t)
  /\ UNCHANGED <<vars, count, waitq, alive, tokens, app, max>>

AppNext ==
  \/ (LibraryStep \/ Tick \/ Returned) /\ UNCHANGED <<semVars, appVars>>
  \/ \E t \in Thread :
       \/ AppStep(t)
       \/ (SemStep(t) \/ ProgramCreates(t) \/ ProgramYields(t)) /\ UNCHANGED appVars
       \/ code[t].at = "end" /\ ProgramReturns(t) /\ UNCHANGED appVars

AppSpec == AppInit /\ [][AppNext]_everyVar /\ WF_everyVar(AppNext)

-----------------------------------------------------------------------------
(* sem_count.c:4-6 announces the numbers from 0 to N - 1.  Told an odd N   *)
(* it prints N as well: thread1() has tested x before it waits, and prints *)
(* whatever x is after (sem_count.c:43-45).                                *)
Overrun == max % 2

(* What the programs print in all: sem_count.c the numbers up to max and   *)
(* the overrun; sem_buffer.c what the consumer takes, every number put     *)
(* into the buffer in that order, but nothing when it is told to count to  *)
(* 1; sem_prime.c the primes; the others the order that their comments     *)
(* announce.                                                               *)
Numbers(n) == [i \in 1 .. n |-> i - 1]
Primes == SelectSeq([i \in 1 .. max |-> i],
                    LAMBDA k : k > 1 /\ \A d \in 2 .. k - 1 : k % d # 0)
Expected ==
  CASE app = "calls" -> <<>>
    [] app = "simple" -> <<3, 2, 1>>
    [] app = "yield" -> <<1, 2, 3>>
    [] app = "count" -> Numbers(max + Overrun)
    [] app = "buffer" -> Numbers(IF max = 1 THEN 0 ELSE max)
    [] app = "prime" -> Primes

(* The numbers come in order, none twice, none lost in the buffer or by a  *)
(* filter, and all are there when uthread_start() returns                  *)
(* (sem_count.c:30-46, sem_buffer.c:42-49, sem_prime.c:61-68).  That is    *)
(* what the comment of sem_count.c announces but for the overrun.          *)
AppOutput ==
  /\ out = SubSeq(Expected, 1, Len(out))
  /\ pc[Idle] = "returned" => out = Expected

(* Each program ends, with none of its threads left blocked. *)
AppsFinish ==
  app # "calls" ~> /\ pc[Idle] = "returned"
                   /\ \A t \in Thread : pc[t] \in {"none", "dead"}
===============================================================================
