--------------------------------- MODULE Fs ---------------------------------
(***************************************************************************)
(* The file system of fs.c over the block device of disk.c.  fs_mount()    *)
(* reads the root directory and the FAT into memory, fs_umount() writes    *)
(* them back, and only data blocks are written in between.  The super      *)
(* block never changes and is left out.                                    *)
(***************************************************************************)
EXTENDS Integers, Sequences, FiniteSets, FiniteSetsExt

CONSTANTS
  Name,        \* the valid file names clients use
  NoName,      \* the empty name of a free directory entry
  FileMax,     \* FS_FILE_MAX_COUNT: directory entries
  FdMax,       \* FD_MAX: descriptors
  DataCount,   \* super->data_count: data blocks, and FAT entries in use
  FatSize,     \* FAT_SIZE: entries in one block of the FAT
  BlockSize,   \* BLOCK_SIZE
  Byte,        \* the bytes clients write
  Zero,        \* the byte a new disk is filled with
  Buffer,      \* the buffers clients pass to fs_write()
  ReadCount,   \* the counts clients pass to fs_read()
  Uses,        \* what clients do beyond the documented use: see below
  Crashes      \* whether the process can be killed

EOC == 65535  \* FAT_EOC

(* "delete open"  fs_delete() of a file that a descriptor is open on       *)
ASSUME FsAssumption ==
  /\ NoName \notin Name
  /\ {FileMax, FdMax, DataCount, FatSize, BlockSize} \subseteq Nat \ {0}
  /\ DataCount <= EOC  \* an index is a uint16_t that is not FAT_EOC
  /\ Buffer \subseteq Seq(Byte)
  /\ ReadCount \subseteq Nat
  /\ Uses \subseteq {"delete open"}
  /\ Crashes \in BOOLEAN

Entry == 0 .. FileMax - 1
Fd == 0 .. FdMax - 1
Index == 0 .. DataCount - 1
FatBlockButLast == {i \div FatSize : i \in 0 .. DataCount - FatSize - 1}  \* DiskIsWhole
FatBlock == {i \div FatSize : i \in Index}

VARIABLES
  dRoot, dFat, dData,  \* the disk: root directory, FAT and data blocks
  root, fat,           \* the copies in memory
  fd,                  \* fd_l->fl
  fdCount,             \* fd_l->count
  mounted,             \* whether the disk is open and the file system mounted
  call,                \* the call in progress, when it writes several blocks
  got                  \* what the last fs_read() put into the buffer

diskVars == <<dRoot, dFat, dData>>
fsVars == <<dRoot, dFat, dData, root, fat, fd, fdCount, mounted, call, got>>

FreeEntry == [name |-> NoName, size |-> 0, first |-> 0]
ClosedFd == [file |-> 0, offset |-> 0, open |-> FALSE]
NoCall == [op |-> "none"]

(* A disk as fs_make.x formats it; entry 0 of the FAT is never used. *)
EmptyFat == [i \in Index |-> IF i = 0 THEN EOC ELSE 0]
EmptyRoot == [e \in Entry |-> FreeEntry]

FsInit ==
  /\ dRoot = EmptyRoot /\ dFat = EmptyFat
  /\ dData = [i \in Index |-> [b \in 1 .. BlockSize |-> Zero]]
  /\ root = EmptyRoot /\ fat = EmptyFat
  /\ fd = [d \in Fd |-> ClosedFd] /\ fdCount = 0
  /\ mounted = FALSE
  /\ call = NoCall
  /\ got = <<>>

Ready == mounted /\ call = NoCall
Quiet == got' = <<>>

-----------------------------------------------------------------------------
(* The lookups.  A definition with the name of a property beside it is a   *)
(* mistaken variant of the next one: it breaks that property, and no       *)
(* specification uses it.                                                  *)

(* find_root_index() *)
EntryOf(f) == {e \in Entry : root[e].name = f}

(* find_next_FAT(): the first entry that is zero; 0 when there is none. *)
FreeIndexButLast == {i \in Index \ {DataCount - 1} : fat[i] = 0}  \* WritesAllItCan
FreeIndex == {i \in Index : fat[i] = 0}
NextFree == IF FreeIndex = {} THEN 0 ELSE Min(FreeIndex)

(* The n-th hop from `from` along the FAT.  A hop from anything that is    *)
(* not an index of the FAT reads outside fat->fl and gives anything; here  *)
(* it gives EOC, and OffsetsInFile says that it does not happen.           *)
Hop(from, n) ==
  LET hop[k \in 0 .. n] ==
        IF k = 0 THEN from
        ELSE IF hop[k - 1] \in Index THEN fat[hop[k - 1]] ELSE EOC
  IN  hop[n]

Hops(d) == fd[d].offset \div BlockSize

(* find_data_index(): the block that holds the descriptor's offset. *)
DataIndex(d) == Hop(root[fd[d].file].first, Hops(d))

(* find_fat_i() and find_fat_index(): the block before it. *)
PrevIndex(d) == IF Hops(d) = 0 THEN 0 ELSE Hop(root[fd[d].file].first, Hops(d) - 1)

(* The blocks of a chain up to its end, in the FAT f. *)
Chain(f, from) ==
  LET walk[k \in 0 .. DataCount] ==
        [i \in Index \cup {EOC} |->
           IF k = 0 \/ i = EOC THEN <<>> ELSE <<i>> \o walk[k - 1][f[i]]]
  IN  walk[DataCount][from]

(* What a descriptor names must be open: fd_check(). *)
UncheckedFd(d) == d \in Fd                                       \* FsTypeOK
FdCheck(d) == d \in Fd /\ fd[d].open

(* The blocks of the entry e, which fs_delete() frees. *)
FirstBlock(e) == {root[e].first} \cap Index                      \* FatIsPartition
Freed(e) == LET c == Chain(fat, root[e].first) IN {c[k] : k \in DOMAIN c}

(* The offsets that fs_lseek() accepts, and the size that fs_stat() gives. *)
AnyOffset(d) == BlockSize * DataCount                            \* OffsetsInFile
Size(d) == root[fd[d].file].size

(* The FAT f once a chain ends at the block i. *)
Unmarked(f, i) == f                                              \* FatIsPartition
EndsAt(f, i) == [f EXCEPT ![i] = EOC]

(* Where fs_read() starts. *)
FromStart(d) == 0                                                \* ImplementsFiles
ReadsFrom(d) == fd[d].offset

(* What fs_umount() writes first. *)
NothingYet == IF \E d \in Fd : fd[d].open THEN dRoot ELSE root   \* ImplementsFiles
WrittenFirst == root

(* Whether a call finds what it needs. *)
CanCreate(f) == EntryOf(f) = {} /\ EntryOf(NoName) # {}
CanOpen(f) == fdCount # FdMax /\ EntryOf(f) # {}

-----------------------------------------------------------------------------
(* disk.c: the disk is open while the file system is mounted, a block is   *)
(* read and written at once, and errors of the host are left out.          *)
BlockDiskOpen == ~mounted /\ mounted' = TRUE
BlockDiskClose == mounted' = FALSE
BlockRead(i) == dData[i]
BlockWrite(i, block) == dData' = [dData EXCEPT ![i] = block]

(* fs_mount() of a valid disk.  fd_l is not initialised: its memory is     *)
(* fresh, or what the last fs_umount() freed with every descriptor closed. *)
Mount ==
  /\ BlockDiskOpen
  /\ root' = dRoot /\ fat' = dFat
  /\ fd' = [d \in Fd |-> ClosedFd] /\ fdCount' = 0
  /\ Quiet
  /\ UNCHANGED <<diskVars, call>>

(* fs_umount(): the root directory, then each block of the FAT. *)
Umount ==
  /\ Ready
  /\ dRoot' = WrittenFirst
  /\ call' = [op |-> "umount", block |-> 0]
  /\ Quiet
  /\ UNCHANGED <<dFat, dData, root, fat, fd, fdCount, mounted>>

UmountFat ==
  /\ call.op = "umount" /\ call.block \in FatBlock
  /\ dFat' = [i \in Index |-> IF i \div FatSize = call.block THEN fat[i] ELSE dFat[i]]
  /\ call' = [call EXCEPT !.block = @ + 1]
  /\ Quiet
  /\ UNCHANGED <<dRoot, dData, root, fat, fd, fdCount, mounted>>

MemoryLost ==
  /\ BlockDiskClose
  /\ call' = NoCall
  /\ root' = EmptyRoot /\ fat' = EmptyFat
  /\ fd' = [d \in Fd |-> ClosedFd] /\ fdCount' = 0
  /\ Quiet
  /\ UNCHANGED diskVars

(* Root and FAT are freed, then the descriptors looked at: with one open   *)
(* fs_umount() fails, the disk stays open and nothing more can be called.  *)
UmountEnd ==
  /\ call.op = "umount" /\ call.block \notin FatBlock
  /\ IF \A d \in Fd : ~fd[d].open
     THEN MemoryLost
     ELSE /\ call' = [op |-> "freed"]
          /\ Quiet
          /\ UNCHANGED <<diskVars, root, fat, fd, fdCount, mounted>>

(* The process ends, after a failed fs_umount() or because it is killed.   *)
(* A kill inside fs_umount(), which tears the disk, is left out.           *)
ProcessEnds ==
  /\ mounted /\ (Crashes \/ call.op = "freed") /\ call.op # "umount"
  /\ MemoryLost

(* fs_create(): the first free entry of the directory. *)
Create(f) ==
  /\ Ready /\ CanCreate(f)
  /\ root' = [root EXCEPT ![Min(EntryOf(NoName))] =
                [name |-> f, size |-> 0, first |-> EOC]]
  /\ Quiet
  /\ UNCHANGED <<diskVars, fat, fd, fdCount, mounted, call>>

(* fs_delete(): the chain is freed, the entry keeps its size and first     *)
(* block, and the descriptors are not looked at.                           *)
Delete(f) ==
  /\ Ready
  /\ \E e \in EntryOf(f) :
       /\ "delete open" \in Uses \/ \A d \in Fd : ~(fd[d].open /\ fd[d].file = e)
       /\ fat' = [i \in Index |-> IF i \in Freed(e) THEN 0 ELSE fat[i]]
       /\ root' = [root EXCEPT ![e].name = NoName]
  /\ Quiet
  /\ UNCHANGED <<diskVars, fd, fdCount, mounted, call>>

(* fs_open(): the count is tested, then the first closed descriptor taken. *)
FirstClosed == Min({d \in Fd : ~fd[d].open})
Open(f) ==
  /\ Ready /\ CanOpen(f)
  /\ \E e \in EntryOf(f) :
       fd' = [fd EXCEPT ![FirstClosed] = [file |-> e, offset |-> 0, open |-> TRUE]]
  /\ fdCount' = fdCount + 1
  /\ Quiet
  /\ UNCHANGED <<diskVars, root, fat, mounted, call>>

Close(d) ==
  /\ Ready /\ FdCheck(d)
  /\ fd' = [fd EXCEPT ![d] = ClosedFd]
  /\ fdCount' = fdCount - 1
  /\ Quiet
  /\ UNCHANGED <<diskVars, root, fat, mounted, call>>

Lseek(d, o) ==
  /\ Ready /\ FdCheck(d)
  /\ o <= Size(d)
  /\ fd' = [fd EXCEPT ![d].offset = o]
  /\ Quiet
  /\ UNCHANGED <<diskVars, root, fat, fdCount, mounted, call>>

(* fs_write() up to its loop: an empty file gets a block, if there is one, *)
(* whatever count is.  The loop keeps the block it is at and the one       *)
(* before.                                                                 *)
WriteStart(d, buf) ==
  /\ Ready /\ FdCheck(d)
  /\ LET e == fd[d].file
         loop(index, prev) ==
           [op |-> "write", fd |-> d, buf |-> buf, index |-> index, prev |-> prev]
     IN  IF root[e].first # EOC
         THEN /\ call' = loop(DataIndex(d), PrevIndex(d))
              /\ UNCHANGED <<root, fat>>
         ELSE IF NextFree = 0
         THEN UNCHANGED <<root, fat, call>>
         ELSE /\ root' = [root EXCEPT ![e].first = NextFree]
              /\ fat' = EndsAt(fat, NextFree)
              /\ call' = loop(NextFree, 0)
  /\ Quiet
  /\ UNCHANGED <<diskVars, fd, fdCount, mounted>>

(* One round of the loop: a block is appended to the chain when it is at   *)
(* its end, then bytes go into the block from the offset on.               *)
WriteBlock ==
  /\ call.op = "write" /\ call.buf # <<>> /\ call.index # 0
  /\ call.index = EOC => NextFree # 0
  /\ LET d == call.fd
         e == fd[d].file
         index == IF call.index = EOC THEN NextFree ELSE call.index
         linked == IF call.index = EOC
                   THEN EndsAt([fat EXCEPT ![call.prev] = index], index)
                   ELSE fat
         o == fd[d].offset % BlockSize
         n == Min({BlockSize - o, Len(call.buf)})
     IN  /\ fat' = linked
         /\ BlockWrite(index, [b \in 1 .. BlockSize |->
              IF b \in o + 1 .. o + n THEN call.buf[b - o] ELSE BlockRead(index)[b]])
         /\ fd' = [fd EXCEPT ![d].offset = @ + n]
         /\ root' = [root EXCEPT ![e].size = Max({@, fd[d].offset + n})]
         /\ call' = [call EXCEPT
              !.buf = SubSeq(@, n + 1, Len(@)), !.prev = index, !.index = linked[index]]
  /\ Quiet
  /\ UNCHANGED <<dRoot, dFat, fdCount, mounted>>

WriteEnd ==
  /\ call.op = "write"
  /\ call.buf = <<>> \/ call.index = 0 \/ (call.index = EOC /\ NextFree = 0)
  /\ call' = NoCall
  /\ Quiet
  /\ UNCHANGED <<diskVars, root, fat, fd, fdCount, mounted>>

(* fs_read(): a loop over blocks that ends after as many rounds as the     *)
(* chain has blocks, at the end of the file, or at count bytes.            *)
Read(d, count) ==
  /\ Ready /\ FdCheck(d)
  /\ LET entry == root[fd[d].file]
         o == ReadsFrom(d)
         rounds == Len(Chain(fat, entry.first))
         n == Max({0, Min({count, entry.size - o, (Hops(d) + rounds) * BlockSize - o})})
         byte(i) == BlockRead(Hop(entry.first, i \div BlockSize))[(i % BlockSize) + 1]
     IN  /\ got' = [i \in 1 .. n |-> byte(o + i - 1)]
         /\ fd' = [fd EXCEPT ![d].offset = o + n]
  /\ UNCHANGED <<diskVars, root, fat, fdCount, mounted, call>>

FsNext ==
  \/ Mount \/ Umount \/ UmountFat \/ UmountEnd \/ ProcessEnds
  \/ \E f \in Name : Create(f) \/ Delete(f) \/ Open(f)
  \/ \E d \in Fd :
       \/ Close(d)
       \/ \E o \in 0 .. BlockSize * DataCount : Lseek(d, o)
       \/ \E buf \in Buffer : WriteStart(d, buf)
       \/ \E n \in ReadCount : Read(d, n)
  \/ WriteBlock \/ WriteEnd

FsSpec == FsInit /\ [][FsNext]_fsVars

-----------------------------------------------------------------------------
Blocks(f, from) == LET c == Chain(f, from) IN {c[k] : k \in DOMAIN c}

(* What fs_info() counts as used and as free, for any directory and FAT. *)
UsedEntries(r) == {e \in Entry : r[e].name # NoName}
FatFree(f) == {i \in Index : f[i] = 0}

(* Every variable has its type. *)
FsTypeOK ==
  /\ \A r \in {root, dRoot} : r \in
       [Entry -> [name : Name \cup {NoName}, size : 0 .. BlockSize * DataCount,
                  first : Index \cup {EOC}]]
  /\ \A f \in {fat, dFat} : f \in [Index -> Index \cup {EOC}]
  /\ dData \in [Index -> [1 .. BlockSize -> Byte \cup {Zero}]]
  /\ fd \in [Fd -> [file : Entry, offset : 0 .. BlockSize * DataCount, open : BOOLEAN]]
  /\ fdCount \in 0 .. FdMax
  /\ mounted \in BOOLEAN
  /\ call.op \in {"none", "umount", "freed", "write"}

(* Every block in use belongs to one file, every chain ends, and a file    *)
(* has the blocks its bytes need; an empty file may keep one.              *)
WellFormed(r, f) ==
  /\ f[0] = EOC
  /\ \A e \in UsedEntries(r) :
       LET c == Chain(f, r[e].first)
       IN  /\ c # <<>> => f[c[Len(c)]] = EOC
           /\ 0 \notin Blocks(f, r[e].first)
           /\ r[e].size \in (IF Len(c) <= 1 THEN 0 ELSE (Len(c) - 1) * BlockSize + 1)
                              .. (Len(c) * BlockSize)
  /\ \A e1, e2 \in UsedEntries(r) :
       Blocks(f, r[e1].first) \cap Blocks(f, r[e2].first) # {} => e1 = e2
  /\ FatFree(f) = Index \ ({0} \cup UNION {Blocks(f, r[e].first) : e \in UsedEntries(r)})

(* No call, however it is cut short by a full disk, loses a block or gives *)
(* it to two files (fs.c:390-402, 523-548).                                *)
FatIsPartition == mounted => WellFormed(root, fat)

(* What the disk holds is always a whole file system, except while         *)
(* fs_umount() is writing it (fs.c:273-277): a process that is killed at   *)
(* any other time leaves a disk that can be mounted.                       *)
DiskIsWhole == call.op # "umount" => WellFormed(dRoot, dFat)

(* A descriptor's offset never leaves its file, so that the walks along    *)
(* the FAT never read beyond the chain (fs.c:133-138), and the counter     *)
(* that fs_open() tests is the number of open descriptors.                 *)
OffsetsInFile ==
  /\ \A d \in Fd :
       fd[d].open => /\ root[fd[d].file].name # NoName
                     /\ fd[d].offset <= root[fd[d].file].size
  /\ fdCount = Cardinality({d \in Fd : fd[d].open})

(* fs_write() writes as many bytes as possible (fs.h:150-153): it stops    *)
(* before its last byte only when every block of the disk belongs to a     *)
(* file and the file it writes fills its own.                              *)
WritesAllItCan ==
  [][ call.op = "write" /\ call'.op = "none" /\ mounted' /\ call.buf # <<>>
        => LET e == fd[call.fd].file
           IN  /\ UNION {Blocks(fat, root[x].first) : x \in UsedEntries(root)}
                    = Index \ {0}
               /\ root[e].size = BlockSize * Len(Chain(fat, root[e].first)) ]_fsVars

(* While it is not mounted, the files are those that the disk holds. *)
Files ==
  LET r == IF mounted THEN root ELSE dRoot
      f == IF mounted THEN fat ELSE dFat
      entry(name) == CHOOSE e \in UsedEntries(r) : r[e].name = name
      byte(e, i) == dData[Chain(f, r[e].first)[(i - 1) \div BlockSize + 1]][((i - 1) % BlockSize) + 1]
  IN  [name \in {r[e].name : e \in UsedEntries(r)} |->
         [i \in 1 .. r[entry(name)].size |-> byte(entry(name), i)]]

(* fs.c is the file system of fs.h, mounted or not, as long as clients     *)
(* keep to the documented use and the process is not killed.               *)
Abstract == INSTANCE AbstractFs WITH
  Chunk <- UNION {[1 .. n -> Byte] : n \in 1 .. BlockSize},
  files <- Files,
  table <- [d \in Fd |-> IF fd[d].open
                         THEN [name |-> root[fd[d].file].name, offset |-> fd[d].offset]
                         ELSE [name |-> NoName, offset |-> 0]]
ImplementsFiles == Abstract!FilesSpec
=============================================================================
