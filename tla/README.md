# ECS150 projects: a verification development

TLA+ models, model checking and proofs for the three systems of this repository:
the user-level thread library `P2/libuthread`, the file system `P3/libfs` and the
shell `P1/sshell.c`. Paths below are relative to `src/`.

## 1. Inventory

| component | state | operations | interacts with |
|---|---|---|---|
| scheduler `P2/libuthread/uthread.c` | `ready_queue`, `zombie_queue`, `current` | start, create, yield, exit, block, unblock | queue (its queues), context (switches), preempt (critical sections; yield is the signal handler) |
| preemption `preempt.c` | timer, saved timer, `block_alarm`, signal mask | start, stop, enable, disable | delivers SIGVTALRM to the running context |
| contexts `context.c` | one `ucontext_t` per thread, with its own signal mask | init, switch, bootstrap | bootstrap calls the thread's function and `uthread_exit()` |
| semaphores `sem.c` | count and wait queue of each | create, destroy, down, up | block and unblock of the scheduler, queue, preempt |
| queue `queue.c` | `front`, `rear`, `count`, nodes on the heap | create, destroy, enqueue, dequeue, delete, iterate, length | used by scheduler and semaphores; `iterate` calls back |
| thread programs `P2/apps` | shared counters, a bounded buffer, a chain of channels | calls of the library | scheduler, semaphores |
| file system `P3/libfs/fs.c` | super block, root directory, FAT, descriptors, all in memory while mounted | mount, umount, info, create, delete, ls, open, close, stat, lseek, write, read | block device |
| block device `disk.c` | the open image | open, close, count, read, write | the host's files |
| tool `P3/apps/test_fs.c` | the calls of the command it was given, `fs_fd` | info, ls, add, rm, cat, stat, script | file system, one process after another on one disk |
| formatter `fs_make.x`, reference `fs_ref.x` | none | formats a disk; binaries without source | file system |
| shell `P1/sshell.c` | standard descriptors, working directory | read and parse a line, builtins, redirection, pipeline, report | processes and pipes of the host |

What is hard, and what makes each component correct:

- **Scheduler, preemption, contexts.** The handler of the timer signal *is*
  `uthread_yield()`, so it runs inside every window that the library leaves
  unmasked; the signal mask is a property of each context and `swapcontext()`
  saves and restores it. The idle thread is in its own ready queue twice, and
  the length of that queue decides when `uthread_start()` returns. Correct: no
  thread is lost, duplicated, or run after its exit; `current` is always the
  running thread; `uthread_start()` returns when and only when no thread is
  left; a ready thread runs in the end.
- **Semaphores.** The tests of `count` and of the wait queue are outside the
  critical sections that act on them. Correct: atomic, first come first served,
  no resource taken twice, no wake-up lost, no use after destruction.
- **Queue.** Raw pointers over a heap that reuses addresses; callbacks that
  delete. Correct: a FIFO with deletion, no freed node followed.
- **File system.** One block after another in a call that a full disk can end
  anywhere; two descriptors on one file; metadata on disk only after
  `fs_umount()`. Correct: the FAT partitions the blocks among the files;
  the whole is a map from names to bytes; a kill leaves a well-formed disk.
- **Thread programs.** They test shared data, wait, and use it afterwards; threads
  destroy semaphores that others were woken on. Correct: every number is printed
  once and in order, and every thread ends.
- **Tool.** Every call can fail, with files open; the process can be killed.
  Correct: the disk is always whole, and a command that ends by itself leaves on
  it what it did.
- **Shell.** A stage of a pipeline is waited for before the next is started;
  statuses are collected in the wrong process; builtins leave the loop with
  standard output still redirected. Correct: a pipeline ends, delivers the whole
  output, reports one status per command, and the next line starts from the same
  standard descriptors.

The hazards behind these lines, each at its source line, are in `PROJECT.json`.

## 2. Plan

Done:

1. `Uthread`, its proofs `OccurrenceLemmas` and `UthreadProofs`.
2. `Sem`, which EXTENDS `Uthread` with further actions, and `AbstractSem`.
3. `LinkedQueue` and `FifoQueue`.
4. `Fs` and `AbstractFs`; unmounting with open descriptors.
5. `Apps`, the thread programs, which EXTENDS `Sem`.
6. `Tool`, which EXTENDS `Fs` with processes that fail and are killed.
7. `Shell`.
8. `InductionLemmas`: induction over the natural numbers, sequences linked by a
   function, and the walks along them.
9. `SemProofs`: conservation with and without the timer, then, without it, the
   refinement of `AbstractSem`.
10. `ShellProofs`: what a pipeline of any length delivers and reports.
11. `QueueProofs`: the heap behind the queue, and the refinement of `FifoQueue`.
12. `FsProofs`: the FAT, the disk and the descriptors, for `Fs` and for `Tool`.
13. In `FsProofs` too: the refinement of `AbstractFs`.
14. `AppProofs`: what `sem_simple.c`, `sem_count.c` and `sem_buffer.c` print,
    whatever number the last two count to and whatever the size of the buffer.

Next:

15. In `AppProofs`: the chain of filters of `sem_prime.c`, which needs as many TCBs
    as there are primes up to the number given, then `uthread_yield.c`.

## 3. Modules

Each module states its correspondence to the code action by action in comments;
`PROJECT.json` maps every definition to its lines.

- **`Uthread`** - `uthread.c` with `preempt.c` and `context.c`. `ready`,
  `zombie`, `current` are the globals (`zombie` as a set: it is never dequeued, and
  what `uthread_exit()` puts into it is not the TCB but the address of its local
  `prev`, `PrevOf(t)`); `cpu` is the context the processor
  executes, `pc`, `masked` and `local` are that context's place, signal mask
  and TCB pointer (`prev`, or the new thread of `uthread_create()`); `armed` is
  the timer. A step is what runs between two places where the signal can be
  delivered. `Switch` is a dequeue, the assignment of `current` and
  `swapcontext()`; `Tick` is the delivery of the signal, with `uthread_yield()`
  as its handler, in any unmasked context. A call whose entry is unmasked has
  an action up to `preempt_disable()` and one from there on.
- **`Sem`** - `sem.c`, with `uthread_block()` and `uthread_unblock()`, which
  nothing else calls. It EXTENDS `Uthread`. Threads run *programs*, sequences of
  calls (`todo`). A call has one action per critical section and one per
  unlocked test. `UpWakes` has a second disjunct for an empty wait queue, from which
  `queue_dequeue()` returns without setting the pointer: it may then be any. `tokens` is a history variable: resources created and released
  minus those taken by completed calls. **`AbstractSem`** is what `sem.h`
  promises; `Sem!Abstract` is the mapping: between its increment and its
  dequeue a `sem_up()` with a waiter (`HandingOver`) has already handed the
  resource over.
- **`LinkedQueue`** - `queue.c` over a heap of `Node` addresses; freed addresses
  are handed out again, dequeued nodes are not freed, as in the code.
  `seen` and `due` are history. Iteration is one action per node, the callback
  included; the callback does nothing or deletes the visited item. `Recreate` is
  a destroy and the next create. **`FifoQueue`** is `queue.h`.
- **`Fs`** - `fs.c`. `root`, `fat`, `fd`, `fdCount` are the structures in memory,
  `dRoot`, `dFat`, `dData` the disk; `call` is the call in progress when it
  writes several blocks: `fs_write()` is one action up to its loop and one per
  round, `fs_umount()` one per block it writes. The other calls are one action.
  A call that fails its checks changes nothing and has no action. **`AbstractFs`**
  is `fs.h`: a map from names to byte sequences and a table of descriptors.
- **`Apps`** - `sem_simple.c`, `sem_count.c`, `sem_buffer.c`, `sem_prime.c` and
  `uthread_yield.c` on top of `Sem`. `code` is where each thread is in its
  function with its local variables, `data` what the threads share, `out` (a
  history) the numbers printed. `Expected` is the whole output of each. It is what the
  comments of the programs announce, but for two cases in which they print something
  else: `sem_count.c` told an odd number prints it too (`Overrun`), and `sem_buffer.c`
  told to count to 1 prints nothing. What a thread computes between two calls of the
  library is one action (`Segment`), which also sets the calls that follow in
  `todo`; that is exact without the timer. The programs of `MCSem` run under the
  same specification as the program "calls".
- **`Tool`** - `test_fs.c` on top of `Fs`. A command is the sequence of its calls
  (`todo`); `Call` makes the next one, `Error` replaces what is left by what the
  code does after an error, `Exit` ends the process and frees its memory,
  `Killed` does so at any time outside `fs_umount()`. The disk stays, and `Begin`
  starts the next command on it. `made` is history: directory, FAT and data as the
  calls of the process have left them while they were mounted.
- **`Shell`** - `sshell.c`. `stdout` and `saved` are what descriptor 1 and
  `saved_stdout` of the shell refer to; `driver` and `stage` are the forked child
  that runs `pipe_process()` for each stage but the last and then becomes the
  last; `proc`, `pipe`, `writers` are the stages, the pipes' contents, and who
  holds each write end. `return_status` exists twice, as it does after `fork()`,
  and has `StatusSize` elements, three in the code; what is stored beyond them
  (`Stored`) makes the array larger, which `ShellTypeOK` forbids. The lines that end
  before `dup(STDOUT_FILENO)` are `Continues`, the errors of a redirection, which come
  after it, `BadRedirection`.
  Programs are external: what they write, whether they read to the end of their
  input, whether they copy it, and their status. At the end of its input the
  shell does not stop, because the result of `fgets()` is not tested: `Residue` is
  what it then executes again and again. `stack` is the uninitialised `i` of line
  338: it starts as 0, or a line of one command executes something that does not
  exist.
- **`OccurrenceLemmas`**, **`InductionLemmas`** - lemmas about queues and sequences;
  **`UthreadProofs`**, **`SemProofs`**, **`AppProofs`**, **`ShellProofs`**,
  **`QueueProofs`**, **`FsProofs`** (of `Fs` and `Tool`) - see section 7.
- **`MCUthread`, `MCSem`, `MCApps`, `MCQueue`, `MCFs`, `MCTool`, `MCShell`** - the
  instances.

Some one-line operators stand in pairs: what the code reads or writes at one
place, and before it the same with one plausible error, with the name of the
property that this error breaks beside it. No specification uses the second kind;
substituted for its neighbour, each makes TLC refute that property, which shows
that the property depends on the code.

## 4. Runs

| run | question | outcome |
|---|---|---|
| `uthread` | Is the scheduler right under the timer, with threads that yield, return, or compute for ever? | holds |
| `uthread_spin` | Can the timer take the processor from a thread that has yielded before (`P2/REPORT.md:178-183`)? | refuted |
| `sem_coop` | Without the timer, is `sem.c` the atomic FIFO semaphore of `sem.h`, and do the programs of `P2/apps` print what they should and end? | holds |
| `sem_preempt` | With the timer, what survives? | conservation of resources and of ready-queue entries holds, and no queue is dequeued empty |
| `sem_overtake` | Is a resource shared only as often as it was released (`sem.h:11-12`)? | refuted |
| `sem_lost` | Is a waiter blocked only until the semaphore is available (`sem.h:46-47`)? | refuted |
| `queue` | Is the list a FIFO queue, and does iteration survive deletion of the visited item? | holds |
| `queue_rear` | ... also after deleting the last of several items (`queue.h:41`, `66-67`)? | refuted |
| `fs` | Is `fs.c` the file system of `fs.h`, also when `fs_umount()` fails? | holds |
| `fs_delete_open` | Does deleting an open file fail (`fs.h:70-71`)? | refuted |
| `tool` | Do commands that fail or are killed leave a whole disk, and those that end by themselves all that they did? | holds |
| `shell` | Which pipelines end, what do they deliver and report, and where does the shell write afterwards? | holds, as limited below |

What the refutations show:

- *Masked for ever.* `uthread_yield()` saves the context with SIGVTALRM blocked
  and nothing unblocks it when the context resumes. The `preempt_enable()` in the
  idle loop changes the idle context's mask only. A thread that yields and then
  computes cannot be preempted. `Preemptible` is the part that does hold.
- *Overtaking.* One taker and one releaser suffice, the pattern of `sem_buffer.c`
  and `sem_count.c`: between the increment and the look at the wait queue the
  taker takes the resource, comes back and waits, and is woken for the same one.
- *Lost wake-up.* The release comes between the taker's test and its enqueue. The
  taker then blocks on an available semaphore, and no `sem_up()` is under way that
  would wake it.
- *Dangling rear*, *delete of an open file*: see "findings" in `PROJECT.json`.

The passing runs state the matching limits: no timer, no deletion at the rear or
ahead of the iteration, no deletion of open files.

Five properties of passing runs state what the code does where a document says
something else, and are findings too:

- `HeldByPipe`: a line that returns is one whose pipes can hold the whole output
  of every stage but the last. `head -c 200000 /dev/zero | wc -c` hangs, and with
  it the shell (`P1/REPORT.md:50-52`). `PipelineEnds` is the converse: those that
  fit do return.
- `ReportsLast`: the driver collects the right statuses in its copy of the array,
  the shell prints zeros from its own (`P1/REPORT.md:104-110`): `false | true` is
  reported as `[0][0]`.
- `StrayOutput`: where the shell itself writes is changed by a redirected `cd` (or the
  `exit` that ends it) and by nothing else, and only ever to a file: a redirected
  pipeline leaves it as it was, and after `cd x > f` no step brings the terminal back
  (`P1/REPORT.md:82-85`). A later redirected line still writes to its own file, and
  what the shell prints to stderr is not concerned.
- `TypeOK` of `uthread`: the ready queue holds TCBs, the zombie queue addresses of
  locals (`uthread.c:60`), not the TCBs of the finished threads
  (`P2/REPORT.md:86-87`).
- `AppOutput`: `sem_count.c` told an odd N prints N as well, where its comment has the
  numbers from 0 to N - 1 (`P2/apps/sem_count.c:4-6`): its first thread tests the
  number before it waits and prints what it has become.

## 5. Bounds, and why they are enough

- `uthread`: three threads: one to run, one to be ready, one to be created or to
  exit meanwhile. `ready` never holds more than each thread once and the idle
  thread twice, so nothing else needs a bound. The proofs cover every number.
- `sem_coop`: three threads (a releaser and two waiters, which order needs) with
  every combination of up to 1, 3 and 2 calls of down, up and yield, and a
  scaled-down `sem_prime.c` for creation and destruction; and the programs
  themselves with five threads: `sem_count.c` to an even and an odd number,
  `sem_buffer.c` with a buffer of two items to a number below, at and above its
  size (every size of the consumer's random batches), `sem_prime.c` to 1 and to
  6, which needs the sink, the source and three filters. `Pool` fixes the order
  of the TCBs that the programs allocate.
- `sem_preempt`: two threads with every sequence of three calls over two
  semaphores, and hand-picked programs: two takers, mutual exclusion, a semaphore
  created and destroyed by its only user, a thread that yields; `sem_lost` and
  `sem_overtake` use the former alone. In none of them can two `sem_up()` meet
  one waiter, which takes three users of a semaphore: both would dequeue it, the second from an empty wait queue, and
  make ready whatever its uninitialised pointer names (`sem.c:85`; the second
  disjunct of `UpWakes`), and nothing is conserved from there on. Programs end, so
  the counters need no bound.
- `queue`: four addresses, enough for three items in the list and a node that is
  freed and reused, and two data values so that equal items occur. A dequeued
  node is leaked, as in the code: when the four addresses are used up nothing
  more can be enqueued, and the run may stop, hence `CHECK_DEADLOCK FALSE`.
  Addresses are symmetric: the code compares them for equality only.
- `fs`: two names, two directory entries, two descriptors, blocks of two bytes,
  two data blocks that a file can use (`DataCount` counts the reserved entry 0),
  two FAT blocks. Buffers of zero, one and three bytes: nothing, part of a
  block, more than a block. So the chain grows inside a call, the disk and the
  directory and the descriptor table fill up, and a file is open twice. The view
  `Running` drops the disk's copies of directory and FAT while they cannot matter
  (no kill; `fs_umount()` rewrites all of them). Block and field widths do not
  overflow at these sizes or at the real ones (8192 blocks of 4096 bytes at most
  in the image sizes used, 16-bit FAT entries with 65535 reserved).
- `tool`: every command on two names, four kinds of scripts (open twice, use of a
  closed descriptor, deletion of what was just written, a second mount), two
  descriptors and three usable data blocks of two bytes in two FAT blocks, so that
  two files of two blocks do not fit. One byte value, for the structure only; the
  disk's copies are in the state.
- `shell`: lines of up to four commands with `MaxCommands` 3 (the code keeps 4), so
  that one is dropped, and `StatusSize` 2 (the code has 3), one less, as in the code;
  two files, so that a line after a stray `cd` can go elsewhere; pipes of two units and programs that write two or three, so
  that a pipe is just filled or blocks; programs that copy, that read and ignore,
  that fail, that do not exist; up to three lines one after another, then the end
  of the input. The blocked pipelines stop the system: `CHECK_DEADLOCK FALSE`.

## 6. Fairness and liveness

`FairSpec` assumes that the processor executes the library's code once it is in
it (`WF(LibraryStep)`) and that the timer keeps expiring (`WF(Tick)`); `Tick` is
enabled only in an unmasked context, so this gives nothing to a masked one. A
thread's own function is not assumed to do anything: `NoStarvation` has to hold
against a thread that computes for ever. For `ReturnsEventually` `MCUthread` adds
that some functions return (`SF(CallExit)`: they lose the processor to the timer
again and again). `AppSpec` has `WF(AppNext)`: without the timer exactly one
thread can move, and it does; `GrantedResumes` and `AppsFinish` rest on it.
`ToolSpec` has `WF(ToolStep)`: a process that is not killed makes its calls.
`ShellSpec` has `WF(ShellNext)`: some process that can take a step takes one. That
is enough for `PipelineEnds`, because the stages run one after another and every
program of the model ends when its input does.

## 7. Proofs

Everything here holds for every value of the constants that satisfies the `ASSUME`
of the component's module, and, where one is named, the hypothesis stated with the
theorem. TLC evaluates the assumptions in the runs. Each inductive invariant was
checked by TLC on the run of its component before it was proved.

### Scheduler (`UthreadProofs`)

For every set of threads, every choice of yielders, with or without the timer,
`Spec` implies `[]` of `TypeOK`, `CurrentIsRunning`, `ReadyTokens`, `ExitIsFinal`,
`ReturnsAfterAll` and `Preemptible`.

None of these is inductive alone. The inductive invariant `IInv` joins them with

- `Places`: the locations the calling thread and the created threads can be at,
  and that before `uthread_start()` nothing has happened;
- `Creation`: a TCB that is initialised but not enqueued belongs to exactly one
  unfinished `uthread_create()`, so that the enqueue cannot duplicate it;
- `Unmasked`: a thread that never yields by itself is unmasked inside create and
  exit too, because its creator's mask does not survive the bootstrap;
- `Zombies`: a thread whose `prev` the zombie queue points to is dead.

The argument is one of counting. `Tokens(t)` is how often the scheduler can find
`t` (in `ready`, or on the processor) and `Due(t)` how often it should: 1 for a
live thread, 0 for any other, 2 for the idle thread. Every action moves tokens or
changes what is due by the same amount. That the idle thread has two tokens and
the processor holds one of them at most is why no dequeue finds the queue empty
(`CurrentIsRunning`); that its loop sees a queue of length one only when no other
thread has a token is `ReturnsAfterAll`. `OccurrenceLemmas` states what appending
to and taking the head of a sequence does to the number of occurrences.

### Semaphores (`SemProofs`)

With or without the timer: `SemTypeOK`, `NoEmptyDequeue`, `TokenBalance` and
`SemReadyTokens`. The invariant `SemIInv` adds to the scheduler's counting that what
is due to a thread is one more while it has been granted a resource before it blocked
(`Scheduled`); that a thread is in one wait queue at most, once, and only while it
waits there, and that a `sem_up()` about to unblock a thread is the only one to
(`Waiting`); and that a `sem_up()` that saw a waiter still finds one (`WakesSomeone`).
Hypotheses:

- `[]Fresh`: `sem_create()` does not return a semaphore that another thread is still
  inside a call on. `malloc()` does so only when a program destroyed that one while
  it was in use.
- `Disciplined`: *with the timer*, each semaphore has one thread that releases it, or
  two threads that use it. Otherwise two `sem_up()` can see one waiter and both
  dequeue (`sem.c:79-86`), and the conclusion is false. In `sem_simple.c`,
  `sem_count.c` and `sem_buffer.c` it is so: each semaphore of the first two and two
  of those of the third have one releaser, and the mutex of `sem_buffer.c`, which
  both threads release, has no third user. So are all programs of `sem_preempt`. The
  channels of `sem_prime.c` are released by the sink and then by a filter, so that
  these theorems say nothing of it under the timer. Without the timer nothing is
  assumed.

The argument for two users is that a thread which releases does not wait: while one
`sem_up()` is between its test and its dequeue, the one waiter it saw is the other
user, who is then in no `sem_up()` (`OneDequeues`).

Without the timer (`~Preempts`), moreover: `NoOvertake` and `NoLostWakeup`, which
are the two properties that the timer breaks (the second says, in every state, that
a blocked thread that was granted nothing has nothing to take, or is about to be
handed it by a `sem_up()`); `NoUseAfterFree`; and
`AtomicSemaphore`, the refinement of `AbstractSem`: every step is an atomic down, up,
create or destroy, or changes nothing that `sem.h` speaks of. The invariant `Exact`
says that the count is zero while threads wait, unless a `sem_up()` is handing over,
and that what an operation has tested is still true when it acts on it. The last
two results assume `[]Allocated`: programs call `sem.c` on semaphores that exist,
and `malloc()` returns memory that is not in use. TLC confirms that `Fresh` and
`Allocated` hold in every state of `sem_coop`, and `Fresh` in those of `sem_preempt`.

### Thread programs (`AppProofs`)

Without the timer `AppSpec` with `app = "count"` implies `[]AppOutput`, for every
number that `sem_count.c` counts to: each number is printed once, in order, and all
are there when `uthread_start()` returns, the overrun of an odd one included. With `app = "buffer"` it does so for every
positive number that `sem_buffer.c` counts to, every size of its buffer and every
size of the consumer's random batches. With `app = "simple"` it does so for the three
threads of `sem_simple.c`: 3, 2, 1, whichever thread the scheduler lets go first.
Nothing is assumed of how the scheduler
orders the threads but what is proved of it. The layers:

- `AppBase`, of every program: the invariants of `SemProofs` go on to hold when a
  thread computes between two calls, because no call in progress looks at what it
  changes (`ComputesKeeps`); a thread that has begun is off the processor only at its
  end or in a `sem_down()` (`OffCpu`).
- `AppEffect`: to a program, every step of library and scheduler is silent, or makes
  the next call of one thread take effect: a `sem_up()` at its beginning, a
  `sem_down()` at its end. `Ahead(t)` is the calls whose effect is still to come.
- `CountIInv`, of `sem_count.c`: the two threads take turns, which are a few
  combinations of where each is, what it has ahead, and which semaphore was released
  (`CountTurns`). That a resource is taken at most as often as it was released
  (`NoOvertake`) excludes the others. The first thread tests `x` before it waits, so
  the last number it prints may be one beyond an odd bound; the parity of `x` says
  whose turn it is.
- `BufferIInv`, of `sem_buffer.c`: no turns here, so the semaphores are accounts
  (`Balance`). What each thread has `Put` and `Taken` is off by at most one, which its
  place in the code and the calls it has ahead determine, from the places it has
  claimed and returned and the numbers it has announced and accepted; `full`, `empty`
  and `mutex` are the differences. As none is negative (`NoOvertake`), a producer that
  is about to put finds a place and a consumer that is about to take finds a number
  (`BufferBounds`). The numbers from `Taken` to `Put` stand in the ring from its tail
  on (`Holding`), so the next one taken is `Taken`. `Consumer` bounds what is left of
  a batch by the numbers still to come.
- `SimpleIInv`, of `sem_simple.c`: there are `i`, `j` and `k` such that the three
  threads have made the first `i`, `j` and `k` of their calls (`SimpleAt`). These say
  what each semaphore has left (it was released once if its thread got that far, and
  taken once if the other one did), which threads exist, and what is printed. That no
  semaphore is below zero (`NoOvertake`) orders the three counts (`Ordered`), so a
  thread that is about to print finds printed what comes before it.

`uthread_start()` returns when no thread is left in the ready queue, that is, when
each is over or waits in vain (`AtReturn`). The turns of `sem_count.c` leave only the
first; in `sem_buffer.c` the mutex is free then, and a producer that waited for a
place beside a consumer that waited for a number would be one of a buffer without
places; in `sem_simple.c` the first thread waits only after it has created the two
others and released the third, which then released the second, which released the
first (`SimpleEnds`). Assumed: that `main()` creates the semaphores it names with the
counts it gives them (`MainAssumption`) and `malloc()` gives every thread its own TCB
(`AppAssumption`).

### Queue (`QueueProofs`)

`QueueTypeOK`, `NoDangling`, `Shape`, `VisitsEach` and the refinement
`ImplementsFifo`, for every finite heap. The invariant says that there *is* a
sequence of distinct allocated nodes, linked by `next` from `front` to `rear`, as
long as the counter, and that the iteration stands at one of them with what it has
seen and what is due before and behind it. Each operation gives the next such
sequence (the tail, one more at its end, one less inside), and the walks by which
the model reads the list are shown to give it. Hypothesis `Careful`: clients do not
delete the last of several items, the misuse of `queue_rear`.

### File system and tool (`FsProofs`)

For every size of the directory, the FAT, the blocks, the descriptor table and the
buffers, `FsSpec` implies `[]` of `FsTypeOK`, `FatIsPartition`, `DiskIsWhole` and
`OffsetsInFile`, and `WritesAllItCan`. The invariant `FsIInv` has five parts:

- `Types`;
- `Memory`: there is a chain for each entry of the directory such that the directory
  and the FAT in memory are `Whole`: the chains are linked in the FAT, end with
  `FAT_EOC`, have no block in common, cover what is not free, and `Fits` says that
  each has as many blocks as the file's size needs. A `fs_write()` in progress is at
  the block of its offset, or behind the last, with the block before at hand;
- `Disk`: the same of the disk, outside `fs_umount()`;
- `InCall`: `fs_umount()` has written the directory and the FAT blocks before the one
  it is at; when it fails at its end, it has written all;
- `Descriptors`: offsets are in the file, and the counter counts.

Each call is shown to take a `Whole` directory and FAT to a `Whole` one
(`CreatedIsWhole`, `DeletedIsWhole`, `GrownIsWhole`, `ResizedIsWhole`), and that the
walks of the model along the FAT give the chain. Hypothesis `Careful`: no file is
deleted while it is open, the misuse of `fs_delete_open`. Assumed of the sizes: a FAT
index fits an `uint16_t` and is not `FAT_EOC` (`DataCount <= EOC`).

`FilesImplemented` is the refinement of `AbstractFs`. The invariant gets one more
part, `NamesDiffer`: no two entries of the directory, in memory or on the disk, have
one name. Under it `Files` is what the chains hold (`Holds`, `FilesOfHolds`): for each
name of the directory, `Content` gives the bytes of the entry's blocks up to its size.
The refinement then has one lemma per call (`CreateRefines`, `DeleteRefines`,
`WriteBlockRefines`, `ReadRefines` and so on). Most calls change nothing that the files
are made of; a round of `fs_write()` changes one block of one chain, which is what
`Overwrite` does to that file (`BytesWritten`, `OverwriteIs`) and, because no two chains
share a block, nothing to the others (`OthersKept`). `fs_read()` walks the FAT to the
bytes that `Content` has at the offset, and what it takes ends at the file's size and
not at the number of rounds its loop makes (`ReadCountIs`). Hypotheses: `Careful`, and
`Crashes = FALSE`: a process that is killed while mounted loses what it did not unmount,
and `AbstractFs` has no such step.

`ToolSpec` implies `[]` of `FatIsPartition`, `DiskIsWhole` and `NothingLost`: the
same invariant, with what a process has still to call (`Program`, `Sizing`, `Last`)
and with `Made`: what the calls made is in memory while the disk is mounted, and on the
disk when it is not. That `fs_umount()` takes the one to the other is where `InCall` is
needed, which says that it has written every block it passed. `cat` of an empty file
ends while mounted: nothing was changed then (`Same`). `NothingLost` is about a process
that ends by itself; one whose script mounts twice dies without `fs_umount()`.
`ToolAssumption` states what the commands of `test_fs.c` have in common: each mounts
first and unmounts last, and only `cat` asks for the size to decide what to do, before
anything is changed. Kills are included.

### Shell (`ShellProofs`)

For lines and outputs of any length, every program, and every `MaxCommands`,
`PipeSize` and `StatusSize`, if `return_status` has an element for each command kept
but the last, as in the code: `ShellTypeOK`, `StrayOutput`, `HeldByPipe`, `Delivered` and `ReportsLast`.
The invariant `ShellIInv` says where the driver and each stage are (`Control`,
`Sequential`), which statuses are in which copy of the array (`Collected`), and that
what a stage has written and what it will still write are together the output that the
composition of the programs gives it (`Flow`). `ShellAssumption` says that programs write
sequences of numbers and that the names the model uses for what is no file or
program are not those of one.

### Lemmas

`InductionLemmas` states induction over the natural numbers with sets (`InductionOnSet`),
that a recursive function exists and unfolds (`RecursionExists`), what a walk along
links gives (`WalkIsPath`), what appending to, cutting and removing from a linked
sequence gives, and division. With these the recursive functions of the models
(`Chain`, `Hop`, the walks of `LinkedQueue`, `Output`) are reasoned about for inputs
of every length.

### Not proved

- Liveness: `NoStarvation`, `ReturnsEventually`, `GrantedResumes`, `AppsFinish`,
  `ToolEnds`, `PipelineEnds`. The prover has neither fairness nor ENABLED.
- `AppOutput` of `sem_prime.c` and `uthread_yield.c`, and the
  invariants of `Sem` under the segments of these rather than under fixed sequences
  of calls.
- What survives the timer in programs that are not `Disciplined`, such as
  `sem_prime.c`: neither proved nor checked.

## 8. Not modelled

- Failing `malloc()`, `fork()`, `open()`, `getcontext()`; stacks and leaks. Leaked
  memory changes no behaviour of the model (`queue.c` never frees a dequeued node
  and that is modelled, since its address is then never reused).
- NULL and out-of-range arguments, which the code rejects without a change.
- `queue_iterate()` of an empty queue, which frees an uninitialised pointer.
- `sem_buffer.c` told to count to 0: its consumer computes 0 - 1 without a sign and
  waits for ever. `test_preempt.c` is the pattern of the `uthread` run (a thread
  that computes until another ran); `uthread_hello.c` and `queue_tester.c` make
  calls in orders that the runs include. What `main()` does
  after `uthread_start()` returned (it destroys the semaphores) is left out, as no
  other thread runs then. The programs are not run with their data
  under the timer: their segments would have to be cut at every instruction.
- `fs.c`: failing mounts, as only `fs_make.x` writes super blocks; calls after a
  failed `fs_umount()`, which use freed memory; an uninitialised descriptor table
  that is not zero; a kill inside `fs_umount()`, after which nothing recovers.
  `fs_ls()` prints only. The super block never changes.
- `disk.c`: errors of the host, which `fs.c` ignores.
- The content of files over a kill: data blocks are written at once and the FAT
  at unmount, so that a deleted file can reappear with another file's bytes.
- The shell's parsing (string handling), the directory `cd` changes to, `sls`, and
  failing `fork()` and `pipe()`. Of the uninitialised `i`, the outcomes in which it
  names arguments left from an earlier line.
- `fs_make.x` and `fs_ref.x`, which have no source; the formatted disk is external.
