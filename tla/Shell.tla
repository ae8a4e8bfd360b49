-------------------------------- MODULE Shell --------------------------------
(***************************************************************************)
(* The shell of sshell.c: the life of its standard output over a line, and *)
(* the pipelines.  For each line that is not a builtin the shell forks a   *)
(* driver; the driver forks the stages of the pipeline one after another,  *)
(* waits for each of them (pipe_process()), and becomes the last one.      *)
(* Parsing is string handling: a line is given as what it is parsed into.  *)
(***************************************************************************)
EXTENDS Integers, Sequences, FiniteSets

CONSTANTS
  Program,      \* the commands a stage can execute
  Does,         \* what each of them does: see below
  Inputs,       \* what the user may type: sequences of lines
  File,         \* the files a line can be redirected to
  MaxCommands,  \* the commands of a line that parse_pipe() keeps
  StatusSize,   \* the elements of the array return_status
  PipeSize      \* what a pipe holds before a write to it waits

(* What a line is parsed into: the commands of a pipeline or a builtin,    *)
(* which are compared with the first command, and what the line is         *)
(* redirected to.  An empty line, pwd and sls are compared with the whole  *)
(* line, and the arguments are counted before a `>` is looked for: none of *)
(* these is redirected.                                                    *)
WholeLine == {"pwd", "sls", "too long"}
CmdLine ==
  [cmds : (Seq(Program) \ {<<>>}) \cup {<<"cd">>, <<"exit">>},
   to   : File \cup {"none", "error"}]
    \cup [cmds : {<<b>> : b \in WholeLine}, to : {"none"}]
    \cup [cmds : {<<>>}, to : {"none", "error"}]

(* A program writes `makes`; it then reads its input up to its end, when   *)
(* it `reads`, and writes each unit of it on, when it `copies`.  A program *)
(* that cannot be executed is one that does nothing and exits with 1.      *)
ASSUME ShellAssumption ==
  /\ Does \in
       [Program -> [makes : Seq(Nat), reads : BOOLEAN, copies : BOOLEAN, status : Nat]]
  /\ Inputs \subseteq Seq(CmdLine)
  /\ {"none", "error", "terminal"} \cap File = {}
  /\ (WholeLine \cup {"none", "cd", "exit"}) \cap Program = {}
  /\ MaxCommands \in Nat \ {0} /\ PipeSize \in Nat \ {0}
  /\ StatusSize \in Nat /\ MaxCommands - 1 <= StatusSize

Stage == 0 .. MaxCommands - 1
Driver == -1
NotFound == [makes |-> <<>>, reads |-> FALSE, copies |-> FALSE, status |-> 1]

VARIABLES
  input, pos,  \* the lines of the user, and how many have been read
  stack,       \* whether `i` of line 338 starts as 0 in this process
  cmd,         \* the line in the buffer cmd
  shell,       \* "prompt", "wait" (in waitpid()) or "ended"
  stdout,      \* what descriptor 1 of the shell is: "terminal" or a file
  saved,       \* what saved_stdout is a copy of
  driver,      \* "none", "loop", "wait" (in pipe_process()) or "last"
  stage,       \* the loop variable of the driver
  proc,        \* each stage's process: whether it runs, and its program's state
  pipe,        \* what each stage has written that the next one has not read
  writers,     \* who has the write end of each pipe open
  written,     \* what the last stage has written to its standard output
  return_status,  \* the array, of which the shell and the driver have one each
  reported     \* the exit statuses printed after the last line

shellVars == <<input, pos, stack, cmd, shell, stdout, saved, reported>>
pipeVars == <<driver, stage, proc, pipe, writers, written, return_status>>
allShellVars == <<shellVars, pipeVars>>

NoProcess == [at |-> "none", todo |-> <<>>, reads |-> FALSE]
NoStatus == [p \in {"shell", "driver"} |-> [k \in 0 .. StatusSize - 1 |-> 0]]

(* The array a after a[k] = v; an index beyond it writes next to it.       *)
Stored(a, k, v) == [j \in DOMAIN a \cup {k} |-> IF j = k THEN v ELSE a[j]]

(* The commands of a line that are executed; the first definition is       *)
(* mistaken and breaks ShellTypeOK.                                        *)
AllKept(l) == l.cmds
Kept(l) == SubSeq(l.cmds, 1, IF Len(l.cmds) < MaxCommands THEN Len(l.cmds) ELSE MaxCommands)
Last == Len(Kept(cmd)) - 1
Prog(k) == IF Last = 0 /\ ~stack THEN NotFound ELSE Does[Kept(cmd)[k + 1]]

ShellInit ==
  /\ input \in Inputs /\ pos = 0
  /\ stack \in BOOLEAN
  /\ cmd = [cmds |-> <<>>, to |-> "none"]
  /\ shell = "prompt" /\ stdout = "terminal" /\ saved = "terminal"
  /\ reported = <<>>
  /\ driver = "none" /\ stage = 0
  /\ proc = [k \in Stage |-> NoProcess]
  /\ pipe = [k \in Stage |-> <<>>] /\ writers = [k \in Stage |-> {}]
  /\ written = <<>> /\ return_status = NoStatus

-----------------------------------------------------------------------------
(* What a mistake in the code would change, each named after the property  *)
(* it breaks: no specification uses these definitions.                     *)
EndOfInputUnseen(k) == writers                    \* PipelineEnds: no close(fd[1])
RestoredNever == stdout                           \* StrayOutput: no dup2(saved_stdout, 1)
ReapedEarly == TRUE                               \* HeldByPipe: no waitpid()
WrongInput(k) == <<>>                             \* Delivered: no dup2(fd[0], 0)
StatusOfFirst == [k \in 1 .. Last + 1 |-> Prog(0).status]  \* ReportsLast

(* close(fd[1]) of the driver, after the stage k has ended. *)
WriteEndClosed(k) == [writers EXCEPT ![k] = @ \ {Driver}]
(* dup2(saved_stdout, 1) of the shell. *)
Restored == saved
(* waitpid() of the driver returns. *)
Reaped == proc[stage].at = "ended"
(* What descriptor 0 of the stage k gives.  A first stage reads the        *)
(* terminal, where the user ends its input at once.                        *)
StdinOf(k) == IF k = 0 THEN <<>> ELSE pipe[k - 1]
(* The statuses that the shell prints. *)
Statuses ==
  Append([k \in 1 .. Last |-> return_status["shell"][k - 1]], Prog(Last).status)

-----------------------------------------------------------------------------
(* fgets().  At the end of the input it leaves cmd as strtok() cut it for  *)
(* the last line: its first word, or a builtin that is not parsed.         *)
First(l) == IF l.cmds = <<>> THEN "none" ELSE Head(l.cmds)
Residue == IF cmd.cmds = <<>> THEN cmd ELSE [cmds |-> <<First(cmd)>>, to |-> "none"]
Line == IF pos < Len(input) THEN input[pos + 1] ELSE Residue

ReadLine ==
  /\ shell = "prompt"
  /\ cmd' = Line
  /\ pos' = IF pos < Len(input) THEN pos + 1 ELSE pos
  /\ UNCHANGED <<input, stack>>

(* Empty lines, pwd, sls, too many arguments. *)
Continues ==
  /\ ReadLine
  /\ First(Line) \in WholeLine \cup {"none"} /\ Line.to # "error"
  /\ UNCHANGED <<shell, stdout, saved, reported, pipeVars>>

(* The errors of a redirection, after saved_stdout = dup(1): no file is    *)
(* named, a `|` comes after it, the file cannot be opened.                 *)
BadRedirection ==
  /\ ReadLine
  /\ Line.to = "error"
  /\ saved' = stdout
  /\ UNCHANGED <<shell, stdout, reported, pipeVars>>

Redirected == IF Line.to \in File THEN Line.to ELSE stdout

(* cd continues, after dup2(fd, 1) and before dup2(saved_stdout, 1). *)
Cd ==
  /\ ReadLine
  /\ First(Line) = "cd" /\ Line.to # "error"
  /\ saved' = stdout
  /\ stdout' = Redirected
  /\ UNCHANGED <<shell, reported, pipeVars>>

Exit ==
  /\ ReadLine
  /\ First(Line) = "exit" /\ Line.to # "error"
  /\ shell' = "ended"
  /\ saved' = stdout
  /\ stdout' = Redirected
  /\ UNCHANGED <<reported, pipeVars>>

(* fork() of the driver, which inherits standard output. *)
Run ==
  /\ ReadLine
  /\ First(Line) \in Program /\ Line.to # "error"
  /\ saved' = stdout
  /\ stdout' = Redirected
  /\ shell' = "wait"
  /\ driver' = "loop" /\ stage' = 0 /\ written' = <<>>
  /\ return_status' = NoStatus
  /\ UNCHANGED <<reported, proc, pipe, writers>>

(* The shell's waitpid() returns: standard output is restored and the      *)
(* statuses are printed.                                                   *)
CommandEnds ==
  /\ shell = "wait" /\ driver = "last" /\ proc[Last].at = "ended"
  /\ stdout' = Restored
  /\ reported' = Statuses
  /\ shell' = "prompt"
  /\ driver' = "none"
  /\ proc' = [k \in Stage |-> NoProcess]
  /\ pipe' = [k \in Stage |-> <<>>] /\ writers' = [k \in Stage |-> {}]
  /\ UNCHANGED <<input, pos, stack, cmd, saved, stage, written, return_status>>

-----------------------------------------------------------------------------
Started(k) == [proc EXCEPT ![k] =
  [at |-> "running", todo |-> Prog(k).makes, reads |-> Prog(k).reads]]

(* pipe_process() up to its waitpid(): the child has every descriptor the  *)
(* driver has open; of its own pipe it keeps the write end only.           *)
PipeProcess ==
  /\ driver = "loop" /\ stage < Last
  /\ LET opened == [writers EXCEPT ![stage] = {Driver}]
     IN  writers' = [k \in Stage |-> IF Driver \in opened[k]
                                     THEN opened[k] \cup {stage} ELSE opened[k]]
  /\ proc' = Started(stage)
  /\ driver' = "wait"
  /\ UNCHANGED <<shellVars, stage, pipe, written, return_status>>

PipeProcessReturns ==
  /\ driver = "wait" /\ Reaped
  /\ writers' = WriteEndClosed(stage)
  /\ return_status' = [return_status EXCEPT !["driver"] = Stored(@, stage, Prog(stage).status)]
  /\ stage' = stage + 1
  /\ driver' = "loop"
  /\ UNCHANGED <<shellVars, proc, pipe, written>>

(* The driver executes the last command. *)
ExecLast ==
  /\ driver = "loop" /\ stage = Last
  /\ proc' = Started(Last)
  /\ driver' = "last"
  /\ UNCHANGED <<shellVars, stage, pipe, writers, written, return_status>>

(* The programs. *)
Write(k) ==
  /\ proc[k].at = "running" /\ proc[k].todo # <<>>
  /\ IF k = Last
     THEN written' = Append(written, Head(proc[k].todo)) /\ UNCHANGED pipe
     ELSE /\ Len(pipe[k]) < PipeSize
          /\ pipe' = [pipe EXCEPT ![k] = Append(@, Head(proc[k].todo))]
          /\ UNCHANGED written
  /\ proc' = [proc EXCEPT ![k].todo = Tail(@)]
  /\ UNCHANGED <<shellVars, driver, stage, writers, return_status>>

Read(k) ==
  /\ proc[k].at = "running" /\ proc[k].todo = <<>> /\ proc[k].reads
  /\ IF StdinOf(k) # <<>>
     THEN /\ proc' = [proc EXCEPT ![k].todo =
                        IF Prog(k).copies THEN <<Head(StdinOf(k))>> ELSE <<>>]
          /\ pipe' = [pipe EXCEPT ![k - 1] = Tail(@)]
     ELSE /\ k > 0 => writers[k - 1] = {}
          /\ proc' = [proc EXCEPT ![k].reads = FALSE]
          /\ UNCHANGED pipe
  /\ UNCHANGED <<shellVars, driver, stage, writers, written, return_status>>

Ends(k) ==
  /\ proc[k].at = "running" /\ proc[k].todo = <<>> /\ ~proc[k].reads
  /\ proc' = [proc EXCEPT ![k].at = "ended"]
  /\ writers' = [j \in Stage |-> writers[j] \ {k}]
  /\ UNCHANGED <<shellVars, driver, stage, pipe, written, return_status>>

ShellNext ==
  \/ Continues \/ BadRedirection \/ Cd \/ Exit \/ Run \/ CommandEnds
  \/ PipeProcess \/ PipeProcessReturns \/ ExecLast
  \/ \E k \in Stage : Write(k) \/ Read(k) \/ Ends(k)

(* The user types on, and every process that can take a step does. *)
ShellSpec == ShellInit /\ [][ShellNext]_allShellVars /\ WF_allShellVars(ShellNext)

-----------------------------------------------------------------------------
(* Every variable has its type: no pipe holds more than it can, the driver *)
(* is at one of the commands that parse_pipe() kept, and it stores no      *)
(* status outside the array return_status (sshell.c:335, 340-341).         *)
Process == [at : {"none", "running", "ended"}, todo : Seq(Nat), reads : BOOLEAN]
ShellTypeOK ==
  /\ input \in Seq(CmdLine) /\ pos \in 0 .. Len(input)
  /\ stack \in BOOLEAN
  /\ cmd \in CmdLine
  /\ shell \in {"prompt", "wait", "ended"}
  /\ {stdout, saved} \subseteq File \cup {"terminal"}
  /\ reported \in Seq(Nat)
  /\ driver \in {"none", "loop", "wait", "last"}
  /\ stage \in Stage
  /\ driver # "none" => stage <= Last /\ Last < MaxCommands
  /\ proc \in [Stage -> Process]
  /\ pipe \in [Stage -> Seq(Nat)]
  /\ \A k \in Stage : Len(pipe[k]) <= PipeSize
  /\ writers \in [Stage -> SUBSET (Stage \cup {Driver})]
  /\ written \in Seq(Nat)
  /\ return_status \in [{"shell", "driver"} -> [0 .. StatusSize - 1 -> Nat]]

(* What the stage k writes in all, when the stages before it do so. *)
Output[k \in 0 .. Last] ==
  Prog(k).makes \o (IF k > 0 /\ Prog(k).reads /\ Prog(k).copies
                    THEN Output[k - 1] ELSE <<>>)
Fits == \A k \in 0 .. Last - 1 : Len(Output[k]) <= PipeSize

(* A pipeline ends and the shell prompts again (REPORT.md:50-52), when     *)
(* each pipe can hold all that its stage writes: every stage finds the end *)
(* of its input, though the driver opened the write end too                *)
(* (sshell.c:118-123).                                                     *)
PipelineEnds == (shell = "wait" /\ Fits) ~> shell = "prompt"

(* The stages do not run side by side: a pipe holds the whole output of a  *)
(* stage before the next one starts (sshell.c:118).  So a line that ended  *)
(* is one whose pipes could hold it all; any other blocks the shell.       *)
HeldByPipe == [][shell = "wait" /\ shell' = "prompt" => Fits]_allShellVars

(* The whole output of the last stage, computed from that of the stages    *)
(* before it, is on the line's standard output when the shell goes on.     *)
Delivered ==
  [][shell = "wait" /\ shell' = "prompt" => written = Output[Last]]_allShellVars

(* Where the shell itself writes (its prompts, pwd and sls) when no line   *)
(* runs: while one does, it has a copy of that to go back to.              *)
Own == IF shell = "wait" THEN saved ELSE stdout

(* The shell writes to the terminal again after a line with a redirection  *)
(* (REPORT.md:82-85), unless the line is a cd, or the exit that ends the   *)
(* shell: these leave it writing to the file.  No other step changes where *)
(* the shell writes, so that nothing ever brings the terminal back.        *)
StrayOutput ==
  [][Own' # Own => /\ First(cmd') \in {"cd", "exit"}
                   /\ cmd'.to = Own' /\ Own' # "terminal"]_allShellVars

(* One status is printed per command.  The last is that of the last        *)
(* command; of the others the driver has collected every one (119), and    *)
(* the shell prints zeros, which are right only for the stages that        *)
(* succeeded (sshell.c:335, 361).                                          *)
ReportsLast ==
  [][shell = "wait" /\ shell' = "prompt" =>
       /\ Len(reported') = Len(Kept(cmd))
       /\ reported'[Last + 1] = Prog(Last).status
       /\ \A k \in 0 .. Last - 1 :
            /\ return_status["driver"][k] = Prog(k).status
            /\ reported'[k + 1] = 0]_allShellVars
=============================================================================
