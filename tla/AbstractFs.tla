----------------------------- MODULE AbstractFs ----------------------------
(***************************************************************************)
(* What fs.h promises: a map from names to sequences of bytes, accessed    *)
(* through descriptors that carry an offset.                               *)
(***************************************************************************)
EXTENDS Integers, Sequences

CONSTANTS
  Name, Fd,
  Chunk,    \* the non-empty sequences of bytes that one block can take
  ReadCount, \* the counts that clients ask fs_read() for
  NoName    \* the file of a closed descriptor

VARIABLES
  files,    \* the content of each existing file
  table,    \* each descriptor: the name of its file and the offset
  got       \* the bytes the last fs_read() returned

absFsVars == <<files, table, got>>

Closed == [name |-> NoName, offset |-> 0]
IsOpen(f) == \E d \in Fd : table[d].name = f

FilesInit ==
  /\ files = [f \in {} |-> <<>>]
  /\ table = [d \in Fd |-> Closed]
  /\ got = <<>>

CreateFile(f) ==
  /\ f \notin DOMAIN files
  /\ files' = [g \in DOMAIN files \cup {f} |-> IF g = f THEN <<>> ELSE files[g]]
  /\ UNCHANGED table

DeleteFile(f) ==
  /\ f \in DOMAIN files /\ ~IsOpen(f)
  /\ files' = [g \in DOMAIN files \ {f} |-> files[g]]
  /\ UNCHANGED table

OpenFile(f, d) ==
  /\ f \in DOMAIN files
  /\ table[d] = Closed
  /\ table' = [table EXCEPT ![d] = [name |-> f, offset |-> 0]]
  /\ UNCHANGED files

CloseFile(d) ==
  /\ table[d] # Closed
  /\ table' = [table EXCEPT ![d] = Closed]
  /\ UNCHANGED files

(* The process that had the files open ends after it unmounted. *)
CloseAll ==
  /\ table' = [d \in Fd |-> Closed]
  /\ UNCHANGED files

Seek(d) ==
  /\ table[d] # Closed
  /\ \E o \in 0 .. Len(files[table[d].name]) :
       table' = [table EXCEPT ![d].offset = o]
  /\ UNCHANGED files

(* Bytes replace those after the offset o and extend the content's end.    *)
Overwrite(content, o, bytes) ==
  SubSeq(content, 1, o) \o bytes \o SubSeq(content, o + Len(bytes) + 1, Len(content))

WriteSome(d, bytes) ==
  /\ table[d] # Closed
  /\ files' = [files EXCEPT ![table[d].name] = Overwrite(@, table[d].offset, bytes)]
  /\ table' = [table EXCEPT ![d].offset = @ + Len(bytes)]

(* All the bytes asked for, or those up to the end of the file. *)
ReadSome(d) ==
  /\ table[d] # Closed
  /\ LET content == files[table[d].name]
         o == table[d].offset
     IN  \E count \in ReadCount :
           LET end == IF o + count > Len(content) THEN Len(content) ELSE o + count
           IN  /\ got' = SubSeq(content, o + 1, end)
               /\ table' = [table EXCEPT ![d].offset = end]
  /\ UNCHANGED files

Update ==
  \/ \E f \in Name : CreateFile(f) \/ DeleteFile(f) \/ \E d \in Fd : OpenFile(f, d)
  \/ CloseAll
  \/ \E d \in Fd : CloseFile(d) \/ Seek(d) \/ \E bytes \in Chunk : WriteSome(d, bytes)

FilesNext ==
  \/ Update /\ got' = <<>>
  \/ \E d \in Fd : ReadSome(d)
  \/ UNCHANGED <<files, table>> /\ got' = <<>>

FilesSpec == FilesInit /\ [][FilesNext]_absFsVars
=============================================================================
