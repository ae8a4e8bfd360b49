--------------------------------- MODULE Tool ---------------------------------
(***************************************************************************)
(* The command line tool of test_fs.c over the file system: one process    *)
(* after another mounts the disk, calls libfs and ends.  The process may   *)
(* be killed between any two calls and between the blocks of a write.      *)
(***************************************************************************)
EXTENDS Fs

CONSTANT Invocations  \* the calls of each process that is started

NoFd == -1

VARIABLES
  todo,     \* the calls that the process has still to make
  running,  \* whether there is a process
  fsFd,     \* the variable fs_fd
  made      \* history: directory, FAT and data as the calls have made them

toolVars == <<fsVars, todo, running, fsFd, made>>

(* The commands of the tool, and the calls that they share.  "size" is     *)
(* the fs_stat() of cat, which returns when it is 0, and "stat" the one of *)
(* stat.                                                                   *)
Op(op) == [op |-> op]
On(op, f) == [op |-> op, file |-> f]
Info == <<Op("mount"), Op("info"), Op("umount")>>
Add(f, buf) == <<Op("mount"), On("create", f), On("open", f),
                 [op |-> "write", buf |-> buf], Op("close"), Op("umount")>>
Rm(f) == <<Op("mount"), On("delete", f), Op("umount")>>
Stat(f) == <<Op("mount"), On("open", f), Op("stat"), Op("close"), Op("umount")>>
Cat(f) == <<Op("mount"), On("open", f), Op("size"), Op("read"), Op("close"), Op("umount")>>
(* A script: what it does between its MOUNT and its end, where the disk is *)
(* unmounted whether or not it says so.                                    *)
Script(calls) == <<Op("mount")>> \o calls \o <<Op("umount")>>

(* What a process calls: it mounts first and unmounts last, and only cat   *)
(* asks for the size before it goes on, which it does before any change.   *)
Calls ==
  [op : {"mount", "info", "close", "size", "stat", "read", "umount"}]
    \cup [op : {"create", "delete", "open"}, file : Name]
    \cup [op : {"seek"}, offset : Nat]
    \cup [op : {"write"}, buf : Seq(Byte)]
Changing == {"create", "delete", "write"}
ASSUME ToolAssumption ==
  \A calls \in Invocations :
    /\ calls \in Seq(Calls) /\ calls # <<>>
    /\ calls[1].op = "mount" /\ calls[Len(calls)].op = "umount"
    /\ \A k \in DOMAIN calls :
         calls[k].op = "size" => \A j \in 1 .. k : calls[j].op \notin Changing

ToolInit ==
  /\ FsInit
  /\ todo = <<>> /\ running = FALSE /\ fsFd = NoFd
  /\ made = diskVars

(* What the calls have made of the file system; a fs_umount() makes        *)
(* nothing, so what was last mounted stays what should be on the disk.     *)
Recorded == made' = IF mounted' THEN <<root', fat', dData'>> ELSE made

(* main() *)
Begin ==
  /\ ~running
  /\ todo' \in Invocations
  /\ running' = TRUE /\ fsFd' = NoFd
  /\ UNCHANGED <<fsVars, made>>

Upcoming == Head(todo)
Calling == running /\ call = NoCall /\ todo # <<>>

(* Whether the call returns without an error; of fs_umount() that is known *)
(* at its end.                                                             *)
Succeeds(c) ==
  CASE c.op = "mount" -> ~mounted
    [] c.op = "create" -> CanCreate(c.file)
    [] c.op = "delete" -> EntryOf(c.file) # {}
    [] c.op = "open" -> CanOpen(c.file)
    [] c.op = "seek" -> FdCheck(fsFd) /\ c.offset <= Size(fsFd)
    [] c.op \in {"close", "write", "read", "size", "stat"} -> FdCheck(fsFd)
    [] c.op \in {"info", "umount"} -> TRUE
    [] c.op = "die" -> FALSE

(* The calls that change something. *)
Makes(c) ==
  \/ c.op = "mount" /\ Mount
  \/ c.op = "create" /\ Create(c.file)
  \/ c.op = "delete" /\ Delete(c.file)
  \/ c.op = "open" /\ Open(c.file)
  \/ c.op = "close" /\ Close(fsFd)
  \/ c.op = "seek" /\ Lseek(fsFd, c.offset)
  \/ c.op = "write" /\ WriteStart(fsFd, c.buf)
  \/ c.op = "read" /\ Read(fsFd, Size(fsFd))
  \/ c.op = "umount" /\ mounted /\ Umount
  \/ c.op = "umount" /\ ~mounted /\ UNCHANGED fsVars
  \/ c.op \in {"info", "size", "stat"} /\ UNCHANGED fsVars

Call ==
  /\ Calling /\ Succeeds(Upcoming)
  /\ Makes(Upcoming)
  /\ todo' = IF Upcoming.op = "size" /\ Size(fsFd) = 0 THEN <<>> ELSE Tail(todo)
  /\ fsFd' = IF Upcoming.op = "open" THEN FirstClosed ELSE fsFd
  /\ Recorded
  /\ UNCHANGED running

(* What follows an error: fs_umount(), whose result is not looked at, then *)
(* die(); after a fs_mount() that failed, die() alone.  The definition     *)
(* above it is mistaken, as in Fs.                                         *)
TriesAgain(c) == <<c>>                                           \* ToolEnds
AfterError(c) == IF c.op = "mount" THEN <<Op("die")>> ELSE <<Op("umount")>>
Error ==
  /\ Calling /\ ~Succeeds(Upcoming) /\ Upcoming.op # "die"
  /\ todo' = AfterError(Upcoming)
  /\ UNCHANGED <<fsVars, running, fsFd, made>>

(* The rest of a call that writes several blocks. *)
CallGoesOn ==
  /\ running
  /\ UmountFat \/ UmountEnd \/ WriteBlock \/ WriteEnd
  /\ Recorded
  /\ UNCHANGED <<todo, running, fsFd>>

Gone ==
  /\ MemoryLost
  /\ todo' = <<>> /\ running' = FALSE /\ fsFd' = NoFd
  /\ made' = diskVars

(* The process returns from main(), dies, or dies of a failed fs_umount(). *)
Ending ==
  /\ running
  /\ \/ todo = <<>> /\ call = NoCall
     \/ call.op = "freed"
Exit == /\ Ending \/ (Calling /\ Upcoming.op = "die")
        /\ Gone

Killed ==
  /\ Crashes /\ running /\ call.op # "umount"
  /\ Gone

ToolStep == Call \/ Error \/ CallGoesOn \/ Exit
ToolNext == Begin \/ ToolStep \/ Killed
(* A process that is not killed runs. *)
ToolSpec == ToolInit /\ [][ToolNext]_toolVars /\ WF_toolVars(ToolStep)

-----------------------------------------------------------------------------
(* A process that ends by itself leaves on the disk the directory, the     *)
(* FAT and the data that its calls made: after fs_umount(), which writes   *)
(* the directory and every block of the FAT (fs.c:273-277); after an       *)
(* error, too, and with files open, for fs_umount() writes before it looks *)
(* at the descriptors (fs.c:283-286); and after cat of an empty file,      *)
(* which does not unmount (test_fs.c:342-346) but has changed nothing.     *)
(* The exception is a script that mounts twice: it dies without            *)
(* fs_umount() (test_fs.c:86), and what it did is lost.                    *)
NothingLost == Ending => diskVars = made

(* Every process ends, also when the disk or the directory is full. *)
ToolEnds == running ~> ~running
===============================================================================
