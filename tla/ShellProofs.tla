----------------------------- MODULE ShellProofs -----------------------------
(***************************************************************************)
(* What the shell guarantees for every set of programs, everything that    *)
(* the user may type, every number of commands a line may have and every   *)
(* size of a pipe.                                                         *)
(***************************************************************************)
EXTENDS Shell, SequenceTheorems, InductionLemmas

-----------------------------------------------------------------------------
(* The inductive invariant. *)

(* The types of the variables, and the slots of the array return_status.   *)
Slot == 0 .. StatusSize - 1
Types ==
  /\ input \in Seq(CmdLine) /\ pos \in 0 .. Len(input) /\ stack \in BOOLEAN
  /\ cmd \in CmdLine
  /\ shell \in {"prompt", "wait", "ended"}
  /\ stdout \in File \cup {"terminal"} /\ saved \in File \cup {"terminal"}
  /\ reported \in Seq(Nat)
  /\ driver \in {"none", "loop", "wait", "last"}
  /\ stage \in Stage
  /\ proc \in [Stage -> Process]
  /\ pipe \in [Stage -> Seq(Nat)]
  /\ \A k \in Stage : Len(pipe[k]) <= PipeSize
  /\ writers \in [Stage -> SUBSET (Stage \cup {Driver})]
  /\ written \in Seq(Nat)
  /\ return_status \in [{"shell", "driver"} -> [Slot -> Nat]]

(* The driver exists while the shell waits for it, and it is at a stage of *)
(* the line that the shell has read.                                       *)
Control ==
  /\ shell = "wait" <=> driver # "none"
  /\ driver # "none" => cmd.cmds \in Seq(Program) \ {<<>>} /\ stage <= Last
  /\ driver = "wait" => stage < Last
  /\ driver = "last" => stage = Last

(* The stages before that of the driver have been waited for, those after  *)
(* it have not started.                                                    *)
SequentialAt(k) ==
  /\ driver = "none" => proc[k].at = "none"
  /\ driver # "none" /\ k < stage => proc[k].at = "ended"
  /\ k > stage => proc[k].at = "none"
  /\ driver = "loop" /\ k = stage => proc[k].at = "none"
Sequential == \A k \in Stage : SequentialAt(k)

(* The shell's copy of the array is as fork() left it; the driver's holds  *)
(* the status of each stage that has ended.                                *)
Collected ==
  driver # "none" =>
    \A k \in Slot : /\ return_status["shell"][k] = 0
                    /\ k < stage => return_status["driver"][k] = Prog(k).status

(* What a stage has written, and what it will still write.                 *)
Out(k) == IF k = Last THEN written ELSE pipe[k]
ToCopy(k) == IF proc[k].reads /\ Prog(k).copies THEN StdinOf(k) ELSE <<>>
EmptyPipes ==
  /\ \A k \in Stage : driver = "none" \/ k > stage \/ (driver = "loop" /\ k = stage)
                        => pipe[k] = <<>>
  /\ driver \in {"loop", "wait"} => written = <<>>
Handed == driver = "loop" /\ stage > 0 => pipe[stage - 1] = Output[stage - 1]
Passing ==
  driver \in {"wait", "last"} =>
    /\ Out(stage) \o (proc[stage].todo \o ToCopy(stage)) = Output[stage]
    /\ proc[stage].at = "ended" => proc[stage].todo = <<>> /\ ~proc[stage].reads
Held == driver # "none" => \A k \in 0 .. stage - 1 : Len(Output[k]) <= PipeSize
Flow == EmptyPipes /\ Handed /\ Passing /\ Held

ShellIInv == Types /\ Control /\ Sequential /\ Collected /\ Flow

-----------------------------------------------------------------------------
(* Facts about single states. *)

ProgramType == [makes : Seq(Nat), reads : BOOLEAN, copies : BOOLEAN, status : Nat]
Runs == cmd.cmds \in Seq(Program) \ {<<>>}

(* A line that runs has between one and MaxCommands commands, and each of  *)
(* them is a program.                                                      *)
LEMMA CommandsKept ==
  ASSUME NEW l, l.cmds \in Seq(Program) \ {<<>>}
  PROVE  Kept(l) \in Seq(Program) /\ Len(Kept(l)) - 1 \in Stage
<1> DEFINE n == IF Len(l.cmds) < MaxCommands THEN Len(l.cmds) ELSE MaxCommands
<1>1. Len(l.cmds) \in Nat \ {0} /\ MaxCommands \in Nat \ {0}
  BY ShellAssumption, EmptySeq, LenProperties
<1>2. n \in 1 .. Len(l.cmds) /\ n <= MaxCommands
  BY <1>1
<1>3. Kept(l) \in Seq(Program) /\ Len(Kept(l)) = n
  BY <1>2, SubSeqProperties DEF Kept
<1> QED
  BY <1>1, <1>2, <1>3 DEF Stage

(* The commands of the line that runs are programs. *)
LEMMA CommandsOfLine ==
  ASSUME Runs
  PROVE  /\ Last \in Stage /\ Len(Kept(cmd)) = Last + 1
         /\ \A k \in 0 .. Last : Prog(k) \in ProgramType
<1>1. Kept(cmd) \in Seq(Program) /\ Last = Len(Kept(cmd)) - 1 /\ Last \in Stage
  BY CommandsKept DEF Runs, Last
<1>2. Len(Kept(cmd)) = Last + 1
  BY <1>1, LenProperties
<1>3. ASSUME NEW k \in 0 .. Last PROVE Prog(k) \in ProgramType
  <2>1. k + 1 \in 1 .. Len(Kept(cmd))
    BY <1>1, <1>2, LenProperties
  <2>2. Kept(cmd)[k + 1] \in Program
    BY <1>1, <2>1, ElementOfSeq
  <2>3. Does[Kept(cmd)[k + 1]] \in ProgramType
    BY <2>2, ShellAssumption DEF ProgramType
  <2>4. NotFound \in ProgramType
    BY DEF NotFound, ProgramType
  <2> QED
    BY <2>3, <2>4 DEF Prog
<1> QED
  BY <1>1, <1>2, <1>3

(* The recursive definition of Output defines the function it should.      *)
LEMMA OutputDefined ==
  ASSUME Runs
  PROVE  \A k \in 0 .. Last :
           /\ Output[k] \in Seq(Nat)
           /\ Output[k] = Prog(k).makes \o
                (IF k > 0 /\ Prog(k).reads /\ Prog(k).copies
                 THEN Output[k - 1] ELSE <<>>)
<1>1. /\ Last \in Nat
      /\ \A k \in 0 .. Last : Prog(k) \in ProgramType
  BY CommandsOfLine DEF Stage
<1> DEFINE A == Seq(Nat)
           makes(n) == IF n <= Last THEN Prog(n).makes ELSE <<>>
           passes(n) == n <= Last /\ Prog(n).reads /\ Prog(n).copies
           step == [n \in Nat |-> [s \in A |->
                      makes(n + 1) \o (IF passes(n + 1) THEN s ELSE <<>>)]]
<1>2. \A n \in Nat : makes(n) \in A
  BY <1>1 DEF ProgramType
<1>3. step \in [Nat -> [A -> A]]
  <2>1. ASSUME NEW n \in Nat, NEW s \in A
        PROVE  makes(n + 1) \o (IF passes(n + 1) THEN s ELSE <<>>) \in A
    <3>1. makes(n + 1) \in A /\ (IF passes(n + 1) THEN s ELSE <<>>) \in A
      BY <1>2
    <3> HIDE DEF makes, passes
    <3> QED
      BY <3>1, ConcatProperties
  <2> HIDE DEF makes, passes
  <2> QED
    BY <2>1
<1>4. makes(0) \in A
  BY <1>2
<1> HIDE DEF step, makes, A
<1>5. PICK f : DefinedBy(f, A, makes(0), step)
  BY <1>3, <1>4, RecursionExists
<1> USE DEF A, DefinedBy
<1> DEFINE body(g, k) == Prog(k).makes \o (IF k > 0 /\ Prog(k).reads /\ Prog(k).copies
                                           THEN g[k - 1] ELSE <<>>)
           g == [k \in 0 .. Last |-> f[k]]
<1>6. ASSUME NEW k \in 0 .. Last PROVE f[k] = body(f, k)
  <2>1. CASE k = 0
    <3>1. Prog(0).makes \o <<>> = Prog(0).makes
      BY <1>1, ConcatEmptySeq DEF ProgramType
    <3> QED
      BY <1>1, <1>5, <2>1, <3>1 DEF makes
  <2>2. CASE k # 0
    <3>1. k - 1 \in Nat /\ k - 1 + 1 = k /\ f[k - 1] \in A
      BY <1>1, <1>5, <2>2
    <3>2. f[k] = step[k - 1][f[k - 1]]
      BY <1>5, <3>1
    <3>3. step[k - 1][f[k - 1]] = makes(k) \o (IF passes(k) THEN f[k - 1] ELSE <<>>)
      BY <3>1 DEF step
    <3>4. k <= Last /\ k > 0
      BY <1>1, <2>2
    <3> QED
      BY <3>2, <3>3, <3>4 DEF makes
  <2> QED
    BY <2>1, <2>2
<1>7. \A k \in 0 .. Last : k > 0 => g[k - 1] = f[k - 1]
  BY <1>1
<1>8. g = [k \in 0 .. Last |-> body(g, k)]
  BY <1>6, <1>7
<1>9. Output = [k \in 0 .. Last |-> body(Output, k)]
  BY <1>8 DEF Output
<1>10. \A k \in 0 .. Last : Output[k] = body(Output, k)
  BY <1>9
<1> DEFINE Typed == {n \in Nat : n <= Last => Output[n] \in Seq(Nat)}
<1>11. 0 \in Typed
  <2>1. 0 \in 0 .. Last /\ Prog(0) \in ProgramType
    BY <1>1
  <2>2. Output[0] = Prog(0).makes \o <<>>
    <3>1. Output[0] = body(Output, 0)
      BY <1>10, <2>1
    <3>2. ~ (0 > 0)
      OBVIOUS
    <3> QED
      BY <3>1, <3>2
  <2>3. Prog(0).makes \in Seq(Nat)
    BY <2>1 DEF ProgramType
  <2> QED
    BY <2>2, <2>3, ConcatProperties, EmptySeq
<1>12. ASSUME NEW n \in Typed PROVE n + 1 \in Typed
  <2>1. SUFFICES ASSUME n + 1 <= Last PROVE Output[n + 1] \in Seq(Nat)
    OBVIOUS
  <2>2. n + 1 \in 0 .. Last /\ n + 1 - 1 = n /\ Output[n] \in Seq(Nat)
    BY <1>1, <2>1
  <2>3. Output[n + 1] = body(Output, n + 1)
    BY <1>10, <2>2
  <2>4. /\ Prog(n + 1).makes \in Seq(Nat)
        /\ (IF n + 1 > 0 /\ Prog(n + 1).reads /\ Prog(n + 1).copies
            THEN Output[n + 1 - 1] ELSE <<>>) \in Seq(Nat)
    BY <1>1, <2>2, EmptySeq DEF ProgramType
  <2> QED
    BY <2>3, <2>4, ConcatProperties
<1> HIDE DEF Typed
<1>13. Typed = Nat
  <2>1. Typed \in SUBSET Nat
    BY DEF Typed
  <2> QED
    BY <1>11, <1>12, <2>1, InductionOnSet
<1>14. \A k \in 0 .. Last : Output[k] \in Seq(Nat)
  BY <1>1, <1>13 DEF Typed
<1> QED
  BY <1>10, <1>14

(* What is computed from the line stays while the line does.               *)
LEMMA LineStays ==
  ASSUME cmd' = cmd, stack' = stack
  PROVE  /\ Kept(cmd)' = Kept(cmd) /\ Last' = Last /\ Runs' = Runs
         /\ Output' = Output
         /\ \A k : Prog(k)' = Prog(k)
<1>1. Kept(cmd)' = Kept(cmd) /\ Runs' = Runs
  BY DEF Kept, Runs
<1>2. Last' = Last
  BY <1>1 DEF Last
<1>3. \A k : Prog(k)' = Prog(k)
  BY <1>1, <1>2 DEF Prog
<1>4. Output' = Output
  BY <1>2, <1>3 DEF Output
<1> QED
  BY <1>1, <1>2, <1>3, <1>4

(* What the next line can be, and what its redirection leads to.           *)
LEMMA LineType ==
  ASSUME Types
  PROVE  /\ Line \in CmdLine
         /\ Redirected \in File \cup {"terminal"}
         /\ First(Line) \in Program => Line.cmds \in Seq(Program) \ {<<>>}
<1>1. \A l \in CmdLine :
        /\ l.cmds \in Seq(Program) \cup {<<b>> : b \in WholeLine \cup {"cd", "exit"}}
        /\ l.to \in File \cup {"none", "error"}
  BY EmptySeq DEF CmdLine
<1>2. ASSUME NEW c \in Seq(Program), c # <<>>
      PROVE  Head(c) \in Program /\ <<Head(c)>> \in Seq(Program) \ {<<>>}
  BY <1>2, HeadTailProperties
<1>3. Residue \in CmdLine
  <2>1. CASE cmd.cmds = <<>>
    BY <2>1 DEF Residue, Types
  <2>2. CASE cmd.cmds # <<>>
    <3>1. Residue = [cmds |-> <<Head(cmd.cmds)>>, to |-> "none"]
      BY <2>2 DEF Residue, First
    <3>2. \/ cmd.cmds \in Seq(Program)
          \/ cmd.cmds \in {<<b>> : b \in WholeLine \cup {"cd", "exit"}}
      BY <1>1 DEF Types
    <3>3. CASE cmd.cmds \in Seq(Program)
      BY <1>2, <2>2, <3>1, <3>3 DEF CmdLine
    <3>4. CASE cmd.cmds \in {<<b>> : b \in WholeLine \cup {"cd", "exit"}}
      <4>1. PICK b \in WholeLine \cup {"cd", "exit"} : cmd.cmds = <<b>>
        BY <3>4
      <4>2. Residue = [cmds |-> <<b>>, to |-> "none"]
        BY <3>1, <4>1
      <4> QED
        BY <4>2 DEF CmdLine
    <3> QED
      BY <3>2, <3>3, <3>4
  <2> QED
    BY <2>1, <2>2
<1>4. Line \in CmdLine
  <2>1. CASE pos < Len(input)
    <3>1. pos + 1 \in 1 .. Len(input)
      BY <2>1, LenProperties DEF Types
    <3>2. input[pos + 1] \in CmdLine
      BY <3>1, ElementOfSeq DEF Types
    <3> QED
      BY <2>1, <3>2 DEF Line
  <2>2. CASE ~ (pos < Len(input))
    BY <1>3, <2>2 DEF Line
  <2> QED
    BY <2>1, <2>2
<1>5. Redirected \in File \cup {"terminal"}
  BY DEF Redirected, Types
<1>6. First(Line) \in Program => Line.cmds \in Seq(Program) \ {<<>>}
  <2>1. SUFFICES ASSUME First(Line) \in Program
                 PROVE  Line.cmds \in Seq(Program) /\ Line.cmds # <<>>
    OBVIOUS
  <2>2. Line.cmds # <<>>
    BY <2>1, ShellAssumption DEF First
  <2>3. ASSUME NEW b, Line.cmds = <<b>> PROVE b \in Program
    BY <2>1, <2>2, <2>3 DEF First
  <2>4. Line.cmds \notin {<<b>> : b \in WholeLine \cup {"cd", "exit"}}
    BY <2>3, ShellAssumption
  <2> QED
    BY <1>1, <1>4, <2>2, <2>4
<1> QED
  BY <1>4, <1>5, <1>6

(* Reading a line keeps what was typed and gives a line.                   *)
LEMMA ReadLineTypes ==
  ASSUME Types, ReadLine
  PROVE  /\ input' \in Seq(CmdLine) /\ pos' \in 0 .. Len(input')
         /\ stack' \in BOOLEAN /\ cmd' \in CmdLine
<1>1. Len(input) \in Nat /\ input' = input
  BY LenProperties DEF Types, ReadLine
<1>2. pos' \in 0 .. Len(input')
  BY <1>1 DEF Types, ReadLine
<1> QED
  BY <1>1, <1>2, LineType DEF Types, ReadLine

(* Only the stage that the driver is at runs.                              *)
LEMMA OneStageRuns ==
  ASSUME Types, Control, Sequential, NEW k \in Stage, proc[k].at = "running"
  PROVE  driver \in {"wait", "last"} /\ k = stage /\ Runs
<1>1. stage \in Int /\ k \in Int
  BY DEF Types, Stage
<1> QED
  BY <1>1 DEF Types, Control, Sequential, SequentialAt, Runs

-----------------------------------------------------------------------------
(* Each part of the invariant is preserved by every step. *)

(* The types. *)
LEMMA TypesStep ==
  ASSUME Types, Control, Sequential, [ShellNext]_allShellVars
  PROVE  Types'
<1> USE DEF Types
<1>0. MaxCommands \in Nat \ {0} /\ PipeSize \in Nat \ {0} /\ 0 \in Stage
  BY ShellAssumption DEF Stage
<1>1. CASE Continues \/ BadRedirection
  BY <1>1, ReadLineTypes DEF Continues, BadRedirection, pipeVars
<1>2. CASE Cd
  BY <1>2, ReadLineTypes, LineType DEF Cd, pipeVars
<1>3. CASE Exit
  BY <1>3, ReadLineTypes, LineType DEF Exit, pipeVars
<1>4. CASE Run
  <2>1. written' \in Seq(Nat)
    BY <1>4 DEF Run
  <2>2. return_status' \in [{"shell", "driver"} -> [Slot -> Nat]]
    BY <1>4 DEF Run, NoStatus, Slot
  <2> QED
    BY <1>0, <1>4, <2>1, <2>2, ReadLineTypes, LineType DEF Run
<1>5. CASE CommandEnds
  <2>1. NoProcess \in Process
    BY DEF NoProcess, Process
  <2>2. pipe' \in [Stage -> Seq(Nat)] /\ \A k \in Stage : Len(pipe'[k]) <= PipeSize
    BY <1>0, <1>5 DEF CommandEnds
  <2>3. reported' \in Seq(Nat)
    <3>1. Last \in Stage /\ Prog(Last) \in ProgramType
      BY <1>5, CommandsOfLine DEF CommandEnds, Control, Runs, Stage
    <3>2. /\ Last \in Nat /\ Prog(Last).status \in Nat
          /\ \A k \in 1 .. Last : k - 1 \in Slot
      BY <1>0, <3>1, ShellAssumption DEF Stage, Slot, ProgramType
    <3>3. [k \in 1 .. Last |-> return_status["shell"][k - 1]] \in Seq(Nat)
      BY <3>2
    <3> QED
      BY <1>5, <3>2, <3>3, AppendProperties DEF CommandEnds, Statuses
  <2> QED
    BY <1>5, <2>1, <2>2, <2>3 DEF CommandEnds, Restored
<1>6. CASE PipeProcess
  <2>1. Prog(stage) \in ProgramType
    BY <1>0, <1>6, CommandsOfLine DEF PipeProcess, Control, Runs, Stage
  <2>2. proc' \in [Stage -> Process]
    BY <1>6, <2>1 DEF PipeProcess, Started, Process, ProgramType
  <2>3. writers' \in [Stage -> SUBSET (Stage \cup {Driver})]
    BY <1>6 DEF PipeProcess
  <2> QED
    BY <1>6, <2>2, <2>3 DEF PipeProcess, shellVars
<1>7. CASE PipeProcessReturns
  <2>1. Prog(stage) \in ProgramType /\ stage + 1 \in Stage
    BY <1>0, <1>7, CommandsOfLine DEF PipeProcessReturns, Control, Runs, Stage
  <2>2. return_status' \in [{"shell", "driver"} -> [Slot -> Nat]]
    <3>1. stage \in Slot
      BY <1>0, <1>7, CommandsOfLine, ShellAssumption
         DEF PipeProcessReturns, Control, Runs, Stage, Slot
    <3>2. Stored(return_status["driver"], stage, Prog(stage).status) \in [Slot -> Nat]
      BY <2>1, <3>1 DEF Stored, ProgramType
    <3> QED
      BY <1>7, <3>2 DEF PipeProcessReturns
  <2>3. writers' \in [Stage -> SUBSET (Stage \cup {Driver})]
    BY <1>7 DEF PipeProcessReturns, WriteEndClosed
  <2> QED
    BY <1>7, <2>1, <2>2, <2>3 DEF PipeProcessReturns, shellVars
<1>8. CASE ExecLast
  <2>1. Prog(Last) \in ProgramType
    BY <1>0, <1>8, CommandsOfLine DEF ExecLast, Control, Runs, Stage
  <2>2. proc' \in [Stage -> Process]
    BY <1>8, <2>1 DEF ExecLast, Started, Process, ProgramType
  <2> QED
    BY <1>8, <2>2 DEF ExecLast, shellVars
<1>9. ASSUME NEW k \in Stage, Write(k) PROVE Types'
  <2>1. /\ Head(proc[k].todo) \in Nat /\ Tail(proc[k].todo) \in Seq(Nat)
    BY <1>9, HeadTailProperties DEF Write, Process
  <2>2. proc' \in [Stage -> Process]
    BY <1>9, <2>1 DEF Write, Process
  <2>3. CASE k = Last
    <3>1. written' = Append(written, Head(proc[k].todo)) /\ written' \in Seq(Nat)
      <4>1. written' = Append(written, Head(proc[k].todo))
        BY <1>9, <2>3 DEF Write
      <4> QED
        BY <2>1, <4>1, AppendProperties
    <3> QED
      BY <1>9, <2>2, <2>3, <3>1 DEF Write, shellVars
  <2>4. CASE k # Last
    <3>1. /\ Append(pipe[k], Head(proc[k].todo)) \in Seq(Nat)
          /\ Len(Append(pipe[k], Head(proc[k].todo))) = Len(pipe[k]) + 1
          /\ Len(pipe[k]) \in Nat
      BY <2>1, AppendProperties, LenProperties
    <3>2. /\ Len(pipe[k]) < PipeSize
          /\ pipe' = [pipe EXCEPT ![k] = Append(@, Head(proc[k].todo))]
      BY <1>9, <2>4 DEF Write
    <3>3. pipe' \in [Stage -> Seq(Nat)] /\ \A j \in Stage : Len(pipe'[j]) <= PipeSize
      <4>1. pipe' \in [Stage -> Seq(Nat)]
        BY ONLY <1>0, <3>1, <3>2, pipe \in [Stage -> Seq(Nat)]
      <4>2. \A j \in Stage \ {k} : pipe'[j] = pipe[j]
        BY ONLY <1>0, <3>2
      <4>3. Len(pipe'[k]) <= PipeSize
        BY ONLY <1>0, <3>1, <3>2, PipeSize \in Nat, k \in Stage
      <4> QED
        BY <4>1, <4>2, <4>3
    <3> QED
      BY <1>9, <2>2, <2>4, <3>3 DEF Write, shellVars
  <2> QED
    BY <2>3, <2>4
<1>10. ASSUME NEW k \in Stage, Read(k) PROVE Types'
  <2>1. CASE StdinOf(k) # <<>>
    <3>1. k - 1 \in Stage /\ StdinOf(k) = pipe[k - 1] /\ pipe[k - 1] # <<>>
      BY <1>0, <2>1 DEF StdinOf, Stage
    <3>2. /\ Head(pipe[k - 1]) \in Nat /\ Tail(pipe[k - 1]) \in Seq(Nat)
          /\ Len(Tail(pipe[k - 1])) = Len(pipe[k - 1]) - 1
          /\ Len(pipe[k - 1]) \in Nat
      BY <3>1, HeadTailProperties, LenProperties
    <3>3. proc' \in [Stage -> Process]
      <4>1. <<Head(StdinOf(k))>> \in Seq(Nat) /\ <<>> \in Seq(Nat)
        BY <3>1, <3>2
      <4>2. proc' = [proc EXCEPT ![k].todo =
                       IF Prog(k).copies THEN <<Head(StdinOf(k))>> ELSE <<>>]
        BY <1>10, <2>1 DEF Read
      <4>3. (IF Prog(k).copies THEN <<Head(StdinOf(k))>> ELSE <<>>) \in Seq(Nat)
        BY <4>1
      <4> QED
        BY <4>2, <4>3 DEF Process
    <3>4. pipe' = [pipe EXCEPT ![k - 1] = Tail(@)]
      BY <1>10, <2>1 DEF Read
    <3>5. pipe' \in [Stage -> Seq(Nat)] /\ \A j \in Stage : Len(pipe'[j]) <= PipeSize
      <4>1. \A j \in Stage :
              pipe'[j] = IF j = k - 1 THEN Tail(pipe[k - 1]) ELSE pipe[j]
        BY <3>1, <3>4
      <4>2. pipe' \in [Stage -> Seq(Nat)]
        BY <3>1, <3>2, <3>4
      <4>3. Len(Tail(pipe[k - 1])) <= PipeSize
        BY <1>0, <3>1, <3>2
      <4> QED
        BY <4>1, <4>2, <4>3
    <3> QED
      BY <1>10, <3>3, <3>5 DEF Read, shellVars
  <2>2. CASE StdinOf(k) = <<>>
    <3>1. proc' \in [Stage -> Process]
      <4>1. proc' = [proc EXCEPT ![k].reads = FALSE]
        BY <1>10, <2>2 DEF Read
      <4> QED
        BY <4>1 DEF Process
    <3> QED
      BY <1>10, <2>2, <3>1 DEF Read, shellVars
  <2> QED
    BY <2>1, <2>2
<1>11. ASSUME NEW k \in Stage, Ends(k) PROVE Types'
  <2>1. proc' \in [Stage -> Process]
    BY <1>11 DEF Ends, Process
  <2>2. writers' \in [Stage -> SUBSET (Stage \cup {Driver})]
    BY <1>11 DEF Ends
  <2> QED
    BY <1>11, <2>1, <2>2 DEF Ends, shellVars
<1>12. CASE UNCHANGED allShellVars
  BY <1>12 DEF allShellVars, shellVars, pipeVars
<1> QED
  BY <1>1, <1>2, <1>3, <1>4, <1>5, <1>6, <1>7, <1>8, <1>9, <1>10, <1>11, <1>12
     DEF ShellNext

(* The steps that leave the line as it is, with all that depends on it.    *)
LEMMA LineStaysIn ==
  ASSUME \/ CommandEnds \/ PipeProcess \/ PipeProcessReturns \/ ExecLast
         \/ \E k \in Stage : Write(k) \/ Read(k) \/ Ends(k)
         \/ UNCHANGED allShellVars
  PROVE  cmd' = cmd /\ stack' = stack
BY DEF CommandEnds, PipeProcess, PipeProcessReturns, ExecLast, Write, Read, Ends,
       allShellVars, shellVars

(* The driver is at a stage of the line while the shell waits.             *)
LEMMA ControlStep ==
  ASSUME Types, Control, Sequential, [ShellNext]_allShellVars
  PROVE  Control'
<1> USE DEF Control
<1>1. CASE Continues \/ BadRedirection
  BY <1>1 DEF Continues, BadRedirection, ReadLine, pipeVars
<1>2. CASE Cd
  BY <1>2 DEF Cd, ReadLine, pipeVars
<1>3. CASE Exit
  BY <1>3 DEF Exit, ReadLine, pipeVars
<1>4. CASE Run
  <2>1. shell' = "wait" /\ driver' = "loop" /\ stage' = 0 /\ cmd' = Line
    BY <1>4 DEF Run, ReadLine
  <2>2. cmd.cmds' \in Seq(Program) \ {<<>>}
    BY <1>4, <2>1, LineType DEF Run
  <2>3. 0 <= Last'
    <3>1. Last' = Len(Kept(cmd')) - 1
      BY DEF Last, Kept
    <3>2. cmd'.cmds \in Seq(Program) \ {<<>>}
      BY <2>2
    <3>3. Last' \in Stage
      BY <3>1, <3>2, CommandsKept
    <3> QED
      BY <3>3, ShellAssumption DEF Stage
  <2> QED
    BY <2>1, <2>2, <2>3
<1>5. CASE CommandEnds
  BY <1>5 DEF CommandEnds
<1>6. CASE PipeProcess
  BY <1>6, LineStaysIn, LineStays DEF PipeProcess, shellVars
<1>7. CASE PipeProcessReturns
  <2>1. stage + 1 <= Last
    BY <1>7, CommandsOfLine DEF PipeProcessReturns, Runs, Types, Stage
  <2> QED
    BY <1>7, <2>1, LineStaysIn, LineStays DEF PipeProcessReturns, shellVars
<1>8. CASE ExecLast
  BY <1>8, LineStaysIn, LineStays DEF ExecLast, shellVars
<1>9. CASE \E k \in Stage : Write(k) \/ Read(k) \/ Ends(k)
  <2>1. shell' = shell /\ driver' = driver /\ stage' = stage
    BY <1>9 DEF Write, Read, Ends, shellVars
  <2> QED
    BY <1>9, <2>1, LineStaysIn, LineStays
<1>10. CASE UNCHANGED allShellVars
  BY <1>10, LineStaysIn, LineStays DEF allShellVars, shellVars, pipeVars
<1> QED
  BY <1>1, <1>2, <1>3, <1>4, <1>5, <1>6, <1>7, <1>8, <1>9, <1>10 DEF ShellNext

(* The stages run one after another.                                       *)
LEMMA SequentialStep ==
  ASSUME Types, Control, Sequential, [ShellNext]_allShellVars
  PROVE  Sequential'
<1> SUFFICES ASSUME NEW k \in Stage PROVE SequentialAt(k)'
  BY DEF Sequential
<1> USE DEF SequentialAt
<1>0. /\ stage \in Int /\ k \in Int
      /\ proc \in [Stage -> Process]
      /\ driver = "none" => \A j \in Stage : proc[j].at = "none"
      /\ driver # "none" /\ k < stage => proc[k].at = "ended"
      /\ k > stage => proc[k].at = "none"
      /\ driver = "loop" /\ k = stage => proc[k].at = "none"
  BY DEF Types, Sequential, Stage
<1>1. CASE Continues \/ BadRedirection \/ Cd \/ Exit
  BY <1>0, <1>1 DEF Continues, BadRedirection, Cd, Exit, pipeVars
<1>2. CASE Run
  <2>1. driver = "none" /\ k >= 0
    BY <1>2, ShellAssumption DEF Run, ReadLine, Control, Stage
  <2> QED
    BY <1>0, <1>2, <2>1 DEF Run
<1>3. CASE CommandEnds
  BY <1>3 DEF CommandEnds, NoProcess
<1>4. CASE PipeProcess
  <2>1. proc' = Started(stage) /\ driver = "loop" /\ driver' = "wait" /\ stage' = stage
    BY <1>4 DEF PipeProcess
  <2>2. k # stage => proc'[k] = proc[k]
    BY <1>0, <2>1 DEF Started
  <2> QED
    BY <1>0, <2>1, <2>2
<1>5. CASE PipeProcessReturns
  BY <1>0, <1>5 DEF PipeProcessReturns, Reaped
<1>6. CASE ExecLast
  <2>1. /\ proc' = Started(stage) /\ stage' = stage
        /\ driver = "loop" /\ driver' = "last"
    BY <1>6 DEF ExecLast, Control
  <2>2. k # stage => proc'[k] = proc[k]
    BY <1>0, <2>1 DEF Started
  <2> QED
    BY <1>0, <2>1, <2>2
<1>7. ASSUME NEW j \in Stage, Write(j) \/ Read(j) \/ Ends(j)
      PROVE  SequentialAt(k)'
  <2>1. driver \in {"wait", "last"} /\ j = stage
    BY <1>7, OneStageRuns DEF Write, Read, Ends
  <2>2. driver' = driver /\ stage' = stage
    BY <1>7 DEF Write, Read, Ends
  <2>3. k # j => proc'[k] = proc[k]
    BY <1>0, <1>7 DEF Write, Read, Ends
  <2> QED
    BY <1>0, <2>1, <2>2, <2>3
<1>8. CASE UNCHANGED allShellVars
  BY <1>0, <1>8 DEF allShellVars, pipeVars
<1> QED
  BY <1>1, <1>2, <1>3, <1>4, <1>5, <1>6, <1>7, <1>8 DEF ShellNext

(* The driver collects each status, in its own copy of the array.          *)
LEMMA CollectedStep ==
  ASSUME Types, Control, Sequential, Collected, [ShellNext]_allShellVars
  PROVE  Collected'
<1> USE DEF Collected
<1>0. stage \in Int /\ \A k \in Slot : k \in Nat
  BY DEF Types, Stage, Slot
<1>1. CASE Continues \/ BadRedirection \/ Cd \/ Exit
  BY <1>1 DEF Continues, BadRedirection, Cd, Exit, ReadLine, Control, pipeVars
<1>2. CASE Run
  BY <1>0, <1>2 DEF Run, NoStatus, Slot
<1>3. CASE CommandEnds
  BY <1>3 DEF CommandEnds
<1>4. CASE PipeProcessReturns
  <2>1. /\ return_status'["shell"] = return_status["shell"]
        /\ \A k \in Slot : return_status'["driver"][k] =
             IF k = stage THEN Prog(stage).status ELSE return_status["driver"][k]
    BY <1>4 DEF PipeProcessReturns, Types, Stored
  <2>2. driver # "none" /\ stage' = stage + 1
    BY <1>4 DEF PipeProcessReturns
  <2>3. \A k : Prog(k)' = Prog(k)
    BY <1>4, LineStaysIn, LineStays
  <2> QED
    BY <1>0, <2>1, <2>2, <2>3
<1>5. CASE PipeProcess \/ ExecLast \/ (\E k \in Stage : Write(k) \/ Read(k) \/ Ends(k))
  <2>1. /\ return_status' = return_status /\ stage' = stage
        /\ driver # "none" \/ driver' = driver
    BY <1>5 DEF PipeProcess, ExecLast, Write, Read, Ends
  <2>2. \A k : Prog(k)' = Prog(k)
    BY <1>5, LineStaysIn, LineStays
  <2> QED
    BY <2>1, <2>2
<1>6. CASE UNCHANGED allShellVars
  <2>1. return_status' = return_status /\ stage' = stage /\ driver' = driver
    BY <1>6 DEF allShellVars, pipeVars
  <2>2. \A k : Prog(k)' = Prog(k)
    BY <1>6, LineStaysIn, LineStays
  <2> QED
    BY <2>1, <2>2
<1> QED
  BY <1>1, <1>2, <1>3, <1>4, <1>5, <1>6 DEF ShellNext

(* A unit moves from what a program holds to what it has written.          *)
LEMMA MoveOne ==
  ASSUME NEW a \in Seq(Nat), NEW t \in Seq(Nat), NEW r \in Seq(Nat), t # <<>>
  PROVE  Append(a, Head(t)) \o (Tail(t) \o r) = a \o (t \o r)
<1>1. Head(t) \in Nat /\ Tail(t) \in Seq(Nat) /\ <<Head(t)>> \in Seq(Nat)
  BY HeadTailProperties
<1>2. PICK h \in Seq(Nat) : h = <<Head(t)>>
  BY <1>1
<1>3. PICK u \in Seq(Nat) : u = Tail(t)
  BY <1>1
<1>4. PICK v \in Seq(Nat) : v = u \o r
  BY ConcatProperties
<1>5. Append(a, Head(t)) = a \o h
  BY <1>1, <1>2, AppendIsConcat
<1>6. h \o u = t
  BY <1>2, <1>3, HeadThenTail
<1>7. (a \o h) \o v = a \o (h \o v)
  BY ONLY ConcatAssociative, a \in Seq(Nat), h \in Seq(Nat), v \in Seq(Nat), SMTT(60)
<1>8. (h \o u) \o r = h \o (u \o r)
  BY ONLY ConcatAssociative, h \in Seq(Nat), u \in Seq(Nat), r \in Seq(Nat), SMTT(60)
<1> QED
  BY ONLY <1>3, <1>4, <1>5, <1>6, <1>7, <1>8

(* While there is a driver, its stage is one of the line. *)
LEMMA StageOfLine ==
  ASSUME Types, Control, driver # "none"
  PROVE  Runs /\ Last \in Nat /\ stage \in 0 .. Last /\ stage \in Stage
<1>1. Runs /\ stage <= Last /\ stage \in Stage
  BY DEF Control, Runs, Types
<1>2. Last \in Nat /\ stage \in Nat
  BY <1>1, CommandsOfLine DEF Stage
<1> QED
  BY <1>1, <1>2

-----------------------------------------------------------------------------
(* Nothing that the stages write is lost between them.                     *)
LEMMA FlowStep ==
  ASSUME Types, Control, Sequential, Flow, [ShellNext]_allShellVars
  PROVE  Flow'
<1>0. stage \in Nat /\ \A k \in Stage : k \in Nat
  BY DEF Types, Stage
<1>1. CASE Continues \/ BadRedirection \/ Cd \/ Exit
  <2>1. driver = "none" /\ driver' = "none" /\ pipe' = pipe
    BY <1>1 DEF Continues, BadRedirection, Cd, Exit, ReadLine, Control, pipeVars
  <2> QED
    BY <2>1 DEF Flow, EmptyPipes, Handed, Passing, Held
<1>2. CASE Run
  <2>1. /\ driver = "none" /\ driver' = "loop" /\ stage' = 0 /\ written' = <<>>
        /\ pipe' = pipe
    BY <1>2 DEF Run, ReadLine, Control
  <2> QED
    BY <2>1 DEF Flow, EmptyPipes, Handed, Passing, Held
<1>3. CASE CommandEnds
  BY <1>3 DEF CommandEnds, Flow, EmptyPipes, Handed, Passing, Held
<1>4. CASE PipeProcess \/ ExecLast
  <2>1. /\ driver = "loop" /\ driver' \in {"wait", "last"}
        /\ driver' = "last" <=> stage = Last
        /\ stage' = stage /\ pipe' = pipe /\ written' = written
        /\ proc' = Started(stage)
    BY <1>0, <1>4 DEF PipeProcess, ExecLast, Control, shellVars
  <2>2. /\ Runs /\ stage \in 0 .. Last
        /\ Last' = Last /\ Output' = Output /\ \A k : Prog(k)' = Prog(k)
    <3>1. driver # "none"
      BY <2>1
    <3>2. cmd' = cmd /\ stack' = stack
      BY ONLY <1>4, LineStaysIn
    <3> QED
      BY ONLY Types, Control, <3>1, <3>2, StageOfLine, LineStays
  <2>3. EmptyPipes'
    BY <2>1 DEF Flow, EmptyPipes
  <2>4. Handed' /\ Held'
    BY <2>1, <2>2 DEF Flow, Handed, Held
  <2>5. Passing'
    <3>1. /\ proc'[stage].at = "running"
          /\ proc'[stage].todo = Prog(stage).makes
          /\ proc'[stage].reads = Prog(stage).reads
      BY <2>1 DEF Started, Types
    <3>2. (Out(stage))' = <<>>
      BY <2>1, <2>2 DEF Out, Flow, EmptyPipes, Types
    <3>3. (ToCopy(stage))' = IF stage > 0 /\ Prog(stage).reads /\ Prog(stage).copies
                             THEN Output[stage - 1] ELSE <<>>
      BY <1>0, <2>1, <2>2, <3>1 DEF ToCopy, StdinOf, Flow, Handed
    <3>4. Output[stage] = Prog(stage).makes \o (ToCopy(stage))' /\ Output[stage] \in Seq(Nat)
      BY <2>2, <3>3, OutputDefined
    <3>5. <<>> \o Output[stage] = Output[stage]
      BY <3>4, ConcatEmptySeq
    <3> QED
      BY <2>1, <2>2, <3>1, <3>2, <3>4, <3>5 DEF Passing
  <2> QED
    BY <2>3, <2>4, <2>5 DEF Flow
<1>5. CASE PipeProcessReturns
  <2>1. /\ driver = "wait" /\ driver' = "loop" /\ stage' = stage + 1
        /\ proc[stage].at = "ended"
        /\ pipe' = pipe /\ written' = written /\ proc' = proc
    BY <1>5 DEF PipeProcessReturns, Reaped
  <2>2. /\ Runs /\ stage \in 0 .. Last - 1 /\ stage \in Stage
        /\ Last' = Last /\ Output' = Output
    <3>1. driver # "none" /\ stage < Last
      BY <1>5, <2>1 DEF Control
    <3>2. cmd' = cmd /\ stack' = stack
      BY ONLY <1>5, LineStaysIn
    <3>3. Runs /\ Last \in Nat /\ stage \in 0 .. Last /\ stage \in Stage
      BY ONLY Types, Control, <3>1, StageOfLine
    <3> QED
      BY ONLY <3>1, <3>2, <3>3, LineStays
  <2>3. EmptyPipes'
    BY <1>0, <2>1 DEF Flow, EmptyPipes
  <2>4. pipe[stage] = Output[stage]
    <3>1. proc[stage].todo = <<>> /\ ToCopy(stage) = <<>> /\ Out(stage) = pipe[stage]
      BY <2>1, <2>2 DEF Flow, Passing, ToCopy, Out
    <3>2. pipe[stage] \in Seq(Nat)
      BY <2>2 DEF Types
    <3>3. <<>> \o <<>> = <<>> /\ pipe[stage] \o <<>> = pipe[stage]
      BY <3>2, ConcatEmptySeq
    <3> QED
      BY <2>1, <3>1, <3>3 DEF Flow, Passing
  <2>5. Handed' /\ Passing'
    BY <1>0, <2>1, <2>2, <2>4 DEF Handed, Passing
  <2>6. Held'
    BY <1>0, <2>1, <2>2, <2>4 DEF Flow, Held, Types
  <2> QED
    BY <2>3, <2>5, <2>6 DEF Flow
<1>6. ASSUME NEW k \in Stage, Write(k) PROVE Flow'
  <2>1. driver \in {"wait", "last"} /\ k = stage /\ Runs
    BY <1>6, OneStageRuns DEF Write
  <2>2. /\ driver' = driver /\ stage' = stage
        /\ proc[stage].at = "running" /\ proc[stage].todo # <<>>
        /\ proc' = [proc EXCEPT ![stage].todo = Tail(@)]
    BY <1>6, <2>1 DEF Write
  <2>3. /\ stage \in 0 .. Last /\ stage \in Stage
        /\ Last' = Last /\ Output' = Output /\ \A j : Prog(j)' = Prog(j)
    <3>1. driver # "none"
      BY <2>1
    <3>2. cmd' = cmd /\ stack' = stack
      BY ONLY <1>6, LineStaysIn
    <3> QED
      BY ONLY Types, Control, <3>1, <3>2, StageOfLine, LineStays
  <2>4. /\ \A j \in Stage : j # stage => pipe'[j] = pipe[j]
        /\ driver = "wait" => written' = written
        /\ (Out(stage))' = Append(Out(stage), Head(proc[stage].todo))
    <3>1. CASE stage = Last
      BY <1>6, <2>1, <2>2, <2>3, <3>1 DEF Write, Out, Control
    <3>2. CASE stage # Last
      BY <1>6, <2>1, <2>2, <2>3, <3>2 DEF Write, Out, Types
    <3> QED
      BY <3>1, <3>2
  <2>5. EmptyPipes'
    BY <1>0, <2>1, <2>2, <2>4 DEF Flow, EmptyPipes
  <2>6. Handed' /\ Held'
    BY <2>1, <2>2, <2>3 DEF Flow, Handed, Held
  <2>7. Passing'
    <3>1. /\ proc'[stage].at = "running" /\ proc'[stage].reads = proc[stage].reads
          /\ proc'[stage].todo = Tail(proc[stage].todo)
      BY <2>2, <2>3 DEF Types, Process
    <3>2. stage # 0 => stage - 1 \in Stage /\ stage - 1 # stage
      BY <1>0, <2>3, ShellAssumption DEF Stage
    <3>3. (StdinOf(stage))' = StdinOf(stage) /\ StdinOf(stage) \in Seq(Nat)
      BY <2>2, <2>4, <3>2 DEF StdinOf, Types
    <3>4. (ToCopy(stage))' = ToCopy(stage) /\ ToCopy(stage) \in Seq(Nat)
      BY <2>2, <2>3, <3>1, <3>3 DEF ToCopy
    <3>5. Out(stage) \in Seq(Nat) /\ proc[stage].todo \in Seq(Nat)
      BY <2>3 DEF Out, Types, Process
    <3>6. Out(stage) \o (proc[stage].todo \o ToCopy(stage)) = Output[stage]
      BY <2>1 DEF Flow, Passing
    <3>7. Append(Out(stage), Head(proc[stage].todo))
            \o (Tail(proc[stage].todo) \o ToCopy(stage)) = Output[stage]
      <4> DEFINE a == Out(stage)
                 t == proc[stage].todo
                 r == ToCopy(stage)
      <4>1. a \in Seq(Nat) /\ t \in Seq(Nat) /\ r \in Seq(Nat) /\ t # <<>>
        BY <2>2, <3>4, <3>5
      <4>2. a \o (t \o r) = Output[stage]
        BY <3>6
      <4> HIDE DEF a, t, r
      <4>3. Append(a, Head(t)) \o (Tail(t) \o r) = a \o (t \o r)
        BY ONLY <4>1, MoveOne, Zenon
      <4> QED
        BY <4>2, <4>3 DEF a, t, r
    <3> QED
      BY <2>2, <2>3, <2>4, <3>1, <3>4, <3>7 DEF Passing
  <2> QED
    BY <2>5, <2>6, <2>7 DEF Flow
<1>7. ASSUME NEW k \in Stage, Read(k) PROVE Flow'
  <2>1. driver \in {"wait", "last"} /\ k = stage /\ Runs
    BY <1>7, OneStageRuns DEF Read
  <2>2. /\ driver' = driver /\ stage' = stage /\ written' = written
        /\ proc[stage].at = "running" /\ proc[stage].todo = <<>> /\ proc[stage].reads
    BY <1>7, <2>1 DEF Read
  <2>3. /\ stage \in 0 .. Last /\ stage \in Stage
        /\ Last' = Last /\ Output' = Output /\ \A j : Prog(j)' = Prog(j)
    <3>1. driver # "none"
      BY <2>1
    <3>2. cmd' = cmd /\ stack' = stack
      BY ONLY <1>7, LineStaysIn
    <3> QED
      BY ONLY Types, Control, <3>1, <3>2, StageOfLine, LineStays
  <2>4. Handed' /\ Held'
    BY <2>1, <2>2, <2>3 DEF Flow, Handed, Held
  <2>5. Out(stage) \o (proc[stage].todo \o ToCopy(stage)) = Output[stage]
    BY <2>1 DEF Flow, Passing
  <2>6. CASE StdinOf(stage) # <<>>
    <3>1. /\ stage # 0 /\ stage - 1 \in Stage /\ stage - 1 # stage
          /\ StdinOf(stage) = pipe[stage - 1]
      BY <1>0, <2>3, <2>6, ShellAssumption DEF Stage, StdinOf
    <3>2. /\ pipe' = [pipe EXCEPT ![stage - 1] = Tail(@)]
          /\ proc' = [proc EXCEPT ![stage].todo =
               IF Prog(stage).copies THEN <<Head(StdinOf(stage))>> ELSE <<>>]
      BY <1>7, <2>1, <2>6 DEF Read
    <3>3. /\ \A j \in Stage : j # stage - 1 => pipe'[j] = pipe[j]
          /\ pipe'[stage - 1] = Tail(pipe[stage - 1])
      BY <3>1, <3>2 DEF Types
    <3>4. EmptyPipes'
      <4>1. \A j \in Stage : j >= stage => pipe'[j] = pipe[j]
        BY <1>0, <3>1, <3>3
      <4> QED
        BY <1>0, <2>1, <2>2, <4>1 DEF Flow, EmptyPipes
    <3>5. (Out(stage))' = Out(stage)
      BY <2>2, <2>3, <3>1, <3>3 DEF Out
    <3>6. /\ proc'[stage].at = "running" /\ proc'[stage].reads
          /\ proc'[stage].todo = IF Prog(stage).copies THEN <<Head(StdinOf(stage))>> ELSE <<>>
      BY <2>2, <2>3, <3>2 DEF Types, Process
    <3>7. proc'[stage].todo \o (ToCopy(stage))' = proc[stage].todo \o ToCopy(stage)
      <4>1. pipe[stage - 1] \in Seq(Nat) /\ pipe[stage - 1] # <<>>
        BY <2>6, <3>1 DEF Types
      <4>2. (StdinOf(stage))' = Tail(pipe[stage - 1])
        BY <2>2, <3>1, <3>3 DEF StdinOf
      <4>3. CASE Prog(stage).copies
        <5>1. /\ ToCopy(stage) = pipe[stage - 1]
              /\ (ToCopy(stage))' = Tail(pipe[stage - 1])
          BY <2>2, <2>3, <3>1, <3>6, <4>2, <4>3 DEF ToCopy
        <5>2. <<Head(pipe[stage - 1])>> \o Tail(pipe[stage - 1]) = pipe[stage - 1]
          BY <4>1, HeadThenTail
        <5>3. <<>> \o pipe[stage - 1] = pipe[stage - 1]
          BY <4>1, ConcatEmptySeq
        <5> QED
          BY <2>2, <3>1, <3>6, <4>3, <5>1, <5>2, <5>3
      <4>4. CASE ~ Prog(stage).copies
        BY <2>2, <2>3, <3>6, <4>4 DEF ToCopy
      <4> QED
        BY <4>3, <4>4
    <3>8. Passing'
      BY <2>2, <2>3, <2>5, <3>5, <3>6, <3>7 DEF Passing
    <3> QED
      BY <2>4, <3>4, <3>8 DEF Flow
  <2>7. CASE StdinOf(stage) = <<>>
    <3>1. pipe' = pipe /\ proc' = [proc EXCEPT ![stage].reads = FALSE]
      BY <1>7, <2>1, <2>7 DEF Read
    <3>2. EmptyPipes'
      BY <2>2, <3>1 DEF Flow, EmptyPipes
    <3>3. /\ proc'[stage].at = "running" /\ proc'[stage].todo = proc[stage].todo
          /\ ~proc'[stage].reads
      BY <2>2, <2>3, <3>1 DEF Types, Process
    <3>4. (Out(stage))' = Out(stage)
      BY <2>2, <2>3, <3>1 DEF Out
    <3>5. (ToCopy(stage))' = <<>> /\ ToCopy(stage) = <<>>
      BY <2>2, <2>7, <3>3 DEF ToCopy
    <3>6. Passing'
      BY <2>2, <2>3, <2>5, <3>3, <3>4, <3>5 DEF Passing
    <3> QED
      BY <2>4, <3>2, <3>6 DEF Flow
  <2> QED
    BY <2>6, <2>7
<1>8. ASSUME NEW k \in Stage, Ends(k) PROVE Flow'
  <2>1. driver \in {"wait", "last"} /\ k = stage /\ Runs
    BY <1>8, OneStageRuns DEF Ends
  <2>2. /\ driver' = driver /\ stage' = stage /\ written' = written /\ pipe' = pipe
        /\ proc[stage].todo = <<>> /\ ~proc[stage].reads
        /\ proc' = [proc EXCEPT ![stage].at = "ended"]
    BY <1>8, <2>1 DEF Ends
  <2>3. /\ stage \in Stage
        /\ Last' = Last /\ Output' = Output /\ \A j : Prog(j)' = Prog(j)
    BY <1>8, LineStaysIn, LineStays DEF Types
  <2>4. /\ proc'[stage].todo = proc[stage].todo
        /\ proc'[stage].reads = proc[stage].reads
    BY <2>2, <2>3 DEF Types, Process
  <2>5. (Out(stage))' = Out(stage) /\ (ToCopy(stage))' = ToCopy(stage)
    BY <2>2, <2>3, <2>4 DEF Out, ToCopy
  <2>6. EmptyPipes' /\ Handed' /\ Held'
    BY <2>2, <2>3 DEF Flow, EmptyPipes, Handed, Held
  <2>7. Passing'
    BY <2>2, <2>3, <2>4, <2>5 DEF Flow, Passing
  <2> QED
    BY <2>6, <2>7 DEF Flow
<1>9. CASE UNCHANGED allShellVars
  <2>1. /\ driver' = driver /\ stage' = stage /\ pipe' = pipe /\ written' = written
        /\ proc' = proc
    BY <1>9 DEF allShellVars, pipeVars
  <2>2. Last' = Last /\ Output' = Output /\ \A k : Prog(k)' = Prog(k)
    BY <1>9, LineStaysIn, LineStays
  <2>3. (Out(stage))' = Out(stage) /\ (ToCopy(stage))' = ToCopy(stage)
    BY <2>1, <2>2 DEF Out, ToCopy, StdinOf
  <2>4. EmptyPipes' /\ Handed' /\ Held'
    BY <2>1, <2>2 DEF Flow, EmptyPipes, Handed, Held
  <2>5. Passing'
    BY <2>1, <2>2, <2>3 DEF Flow, Passing
  <2> QED
    BY <2>4, <2>5 DEF Flow
<1> QED
  BY <1>1, <1>2, <1>3, <1>4, <1>5, <1>6, <1>7, <1>8, <1>9 DEF ShellNext

-----------------------------------------------------------------------------
(* The invariant. *)

(* It holds when the shell starts. *)
LEMMA ShellInitIInv == ShellInit => ShellIInv
<1> SUFFICES ASSUME ShellInit PROVE ShellIInv
  OBVIOUS
<1> USE DEF ShellInit
<1>1. MaxCommands \in Nat \ {0} /\ PipeSize \in Nat \ {0} /\ 0 \in Stage
  BY ShellAssumption DEF Stage
<1>2. input \in Seq(CmdLine) /\ Len(input) \in Nat
  BY ShellAssumption, LenProperties
<1>3. cmd \in CmdLine
  BY EmptySeq DEF CmdLine
<1>4. proc \in [Stage -> Process] /\ \A k \in Stage : proc[k].at = "none"
  BY DEF NoProcess, Process
<1>5. /\ pipe \in [Stage -> Seq(Nat)]
      /\ \A k \in Stage : pipe[k] = <<>> /\ Len(pipe[k]) <= PipeSize
  BY <1>1
<1>6. return_status \in [{"shell", "driver"} -> [Slot -> Nat]]
  BY DEF NoStatus, Slot
<1>7. Types
  BY <1>1, <1>2, <1>3, <1>4, <1>5, <1>6, EmptySeq DEF Types
<1>8. Control /\ Sequential
  BY <1>1, <1>4 DEF Control, Sequential, SequentialAt, Stage
<1>9. Collected /\ Flow
  BY <1>5 DEF Collected, Flow, EmptyPipes, Handed, Passing, Held
<1> QED
  BY <1>7, <1>8, <1>9 DEF ShellIInv

(* Every reachable state satisfies it. *)
LEMMA ShellInvariance == ShellSpec => []ShellIInv
<1>1. ShellInit => ShellIInv
  BY ShellInitIInv
<1>2. ShellIInv /\ [ShellNext]_allShellVars => ShellIInv'
  BY TypesStep, ControlStep, SequentialStep, CollectedStep, FlowStep
     DEF ShellIInv
<1> QED
  BY <1>1, <1>2, PTL DEF ShellSpec

(* The shell prompts again only when the driver's last stage has ended.    *)
LEMMA LineEnds ==
  ASSUME ShellIInv, [ShellNext]_allShellVars, shell = "wait", shell' = "prompt"
  PROVE  /\ CommandEnds /\ Runs /\ stage = Last
         /\ driver = "last" /\ proc[Last].at = "ended"
<1>1. CommandEnds
  BY DEF ShellNext, Continues, BadRedirection, Cd, Exit, Run, ReadLine, PipeProcess, PipeProcessReturns,
         ExecLast, Write, Read, Ends, shellVars, allShellVars
<1> QED
  BY <1>1 DEF CommandEnds, ShellIInv, Control, Runs

-----------------------------------------------------------------------------
(* Every variable of the shell and of its pipelines keeps its type: no     *)
(* pipe holds more than it can, the driver is at one of the commands that  *)
(* parse_pipe() kept, and no status is stored outside return_status, which *)
(* has one element less than a line has commands (sshell.c:335).           *)
THEOREM ShellTypesCorrect == ShellSpec => []ShellTypeOK
<1>1. ShellIInv => ShellTypeOK
  <2> SUFFICES ASSUME ShellIInv PROVE ShellTypeOK
    OBVIOUS
  <2>1. driver # "none" => stage <= Last /\ Last < MaxCommands
    BY CommandsOfLine, ShellAssumption DEF ShellIInv, Control, Runs, Stage
  <2> QED
    BY <2>1 DEF ShellIInv, Types, ShellTypeOK, Slot
<1> QED
  BY <1>1, ShellInvariance, PTL

(* Where the shell writes is changed by a redirected cd, which leaves the  *)
(* loop before the output is restored (sshell.c:318, 355), and by a        *)
(* redirected exit: no other line, at any point of it, changes it, and     *)
(* nothing changes it back to the terminal.                                *)
THEOREM OnlyCdStraysOutput == ShellSpec => StrayOutput
<1> DEFINE Strays == /\ First(cmd') \in {"cd", "exit"}
                     /\ cmd'.to = Own' /\ Own' # "terminal"
<1>1. ASSUME ShellIInv, [ShellNext]_allShellVars, Own' # Own
      PROVE  Strays
  <2>1. CASE Cd \/ Exit
    <3>1. /\ shell = "prompt" /\ shell' \in {"prompt", "ended"} /\ cmd' = Line
          /\ stdout' = Redirected /\ First(Line) \in {"cd", "exit"}
      BY <2>1 DEF Cd, Exit, ReadLine
    <3>2. Own = stdout /\ Own' = Redirected
      BY <3>1 DEF Own
    <3>3. Line.to \in File /\ Own' = Line.to
      BY <1>1, <3>2 DEF Redirected
    <3> QED
      BY <3>1, <3>3, ShellAssumption
  <2>2. CASE Continues \/ BadRedirection \/ Run \/ CommandEnds
    BY <1>1, <2>2 DEF Continues, BadRedirection, Run, CommandEnds, ReadLine, Restored, Own
  <2>3. CASE \/ PipeProcess \/ PipeProcessReturns \/ ExecLast
             \/ \E k \in Stage : Write(k) \/ Read(k) \/ Ends(k)
             \/ UNCHANGED allShellVars
    <3>1. UNCHANGED shellVars
      BY <2>3 DEF PipeProcess, PipeProcessReturns, ExecLast, Write, Read, Ends, allShellVars
    <3> QED
      BY <1>1, <3>1 DEF shellVars, Own
  <2> QED
    BY <1>1, <2>1, <2>2, <2>3 DEF ShellNext
<1>2. ShellIInv /\ [ShellNext]_allShellVars => [Own' # Own => Strays]_allShellVars
  BY <1>1
<1> QED
  BY <1>2, ShellInvariance, PTL DEF ShellSpec, StrayOutput

(* A line that ends is one whose pipes can each hold all that their stage  *)
(* writes: the driver waits for a stage before it starts the one that      *)
(* reads it (sshell.c:118).                                                *)
THEOREM PipesHoldAll == ShellSpec => HeldByPipe
<1>1. ShellIInv /\ [ShellNext]_allShellVars
        => [shell = "wait" /\ shell' = "prompt" => Fits]_allShellVars
  BY LineEnds DEF ShellIInv, Flow, Held, Fits
<1> QED
  BY <1>1, ShellInvariance, PTL DEF ShellSpec, HeldByPipe

(* What the last stage has written when the line ends is all that it       *)
(* writes: each unit went through every pipe, once and in order.           *)
THEOREM OutputDelivered == ShellSpec => Delivered
<1>1. ASSUME ShellIInv, [ShellNext]_allShellVars, shell = "wait", shell' = "prompt"
      PROVE  written = Output[Last]
  <2>1. Runs /\ stage = Last /\ driver = "last" /\ proc[stage].at = "ended"
    BY <1>1, LineEnds
  <2>2. /\ Out(stage) = written /\ proc[stage].todo = <<>> /\ ToCopy(stage) = <<>>
        /\ Out(stage) \o (proc[stage].todo \o ToCopy(stage)) = Output[Last]
    BY <1>1, <2>1 DEF ShellIInv, Flow, Passing, Out, ToCopy
  <2>3. written \in Seq(Nat)
    BY <1>1 DEF ShellIInv, Types
  <2>4. <<>> \o <<>> = <<>> /\ written \o <<>> = written
    BY <2>3, ConcatEmptySeq
  <2> QED
    BY <2>2, <2>4
<1>2. ShellIInv /\ [ShellNext]_allShellVars
        => [shell = "wait" /\ shell' = "prompt" => written = Output[Last]]_allShellVars
  BY <1>1
<1> QED
  BY <1>2, ShellInvariance, PTL DEF ShellSpec, Delivered

(* One status is printed for each command; the last is that of the last    *)
(* command, and the others are the zeros of the shell's own array, though  *)
(* the driver has collected the status of every stage (sshell.c:119, 361). *)
THEOREM OnlyLastReported == ShellSpec => ReportsLast
<1> DEFINE Reported ==
      /\ Len(reported') = Len(Kept(cmd))
      /\ reported'[Last + 1] = Prog(Last).status
      /\ \A k \in 0 .. Last - 1 :
           /\ return_status["driver"][k] = Prog(k).status
           /\ reported'[k + 1] = 0
<1>1. ASSUME ShellIInv, [ShellNext]_allShellVars, shell = "wait", shell' = "prompt"
      PROVE  Reported
  <2>1. /\ Runs /\ stage = Last /\ driver = "last"
        /\ reported' = Statuses
    BY <1>1, LineEnds DEF CommandEnds
  <2>2. /\ Last \in Nat /\ Len(Kept(cmd)) = Last + 1 /\ Prog(Last).status \in Nat
        /\ \A k \in 0 .. Last - 1 : k \in Slot
    BY <2>1, CommandsOfLine, ShellAssumption DEF Stage, Slot, ProgramType
  <2>3. \A k \in 0 .. Last - 1 : /\ return_status["shell"][k] = 0
                                 /\ return_status["driver"][k] = Prog(k).status
    BY <1>1, <2>1, <2>2 DEF ShellIInv, Collected
  <2> DEFINE zeros == [k \in 1 .. Last |-> return_status["shell"][k - 1]]
  <2>4. \A k \in 1 .. Last : zeros[k] = 0
    <3>1. \A k \in 1 .. Last : k - 1 \in 0 .. Last - 1
      BY <2>2
    <3> QED
      BY <2>3, <3>1
  <2>5. zeros \in Seq(Nat) /\ Len(zeros) = Last
    <3>1. zeros \in [1 .. Last -> Nat]
      BY <2>4
    <3> HIDE DEF zeros
    <3> QED
      BY <2>2, <3>1, LenProperties
  <2> HIDE DEF zeros
  <2>6. reported' = Append(zeros, Prog(Last).status)
    BY <2>1 DEF Statuses, zeros
  <2>7. /\ Len(reported') = Last + 1 /\ reported'[Last + 1] = Prog(Last).status
        /\ \A k \in 1 .. Last : reported'[k] = 0
    BY <2>2, <2>4, <2>5, <2>6, AppendProperties
  <2>8. \A k \in 0 .. Last - 1 : reported'[k + 1] = 0
    BY <2>2, <2>7
  <2> QED
    BY <2>2, <2>3, <2>7, <2>8
<1>2. ShellIInv /\ [ShellNext]_allShellVars
        => [shell = "wait" /\ shell' = "prompt" => Reported]_allShellVars
  BY <1>1
<1> QED
  BY <1>2, ShellInvariance, PTL DEF ShellSpec, ReportsLast
=============================================================================
