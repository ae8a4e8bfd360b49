-------------------------------- MODULE MCTool --------------------------------
(* Instances of Tool for TLC. *)
EXTENDS Tool

Long == [b \in 1 .. BlockSize + 1 |-> Zero]
WriteLong == [op |-> "write", buf |-> Long]
Seek(o) == [op |-> "seek", offset |-> o]

(* Scripts that open twice, write from the middle, forget to close, delete *)
(* what they just wrote, mount twice, or use a descriptor that they do not *)
(* have.                                                                   *)
Scripts ==
  {<<On("create", f), On("open", f), WriteLong, On("open", f), Seek(2), WriteLong>> : f \in Name}
    \cup {<<On("open", f), Seek(1), WriteLong, Op("close"), Op("close")>> : f \in Name}
    \cup {<<On("open", f), WriteLong, Op("close"), On("delete", f), Op("umount")>> : f \in Name}
    \cup {<<On("create", f), Op("mount")>> : f \in Name}

AllInvocations ==
  {Info} \cup {Add(f, b) : f \in Name, b \in {<<>>, Long}}
    \cup {Rm(f) : f \in Name} \cup {Stat(f) : f \in Name} \cup {Cat(f) : f \in Name}
    \cup {Script(s) : s \in Scripts}
===============================================================================
