-------------------------------- MODULE MCFs --------------------------------
(* Instances of Fs for TLC. *)
EXTENDS Fs, TLC

(* Nothing, one byte, and more than a block. *)
Buffers == {<<>>, <<1>>, <<2, 1, 2>>}

(* While nothing can kill the process, what the disk holds of the root     *)
(* directory and of the FAT does not matter until fs_umount() writes it.   *)
Running ==
  <<IF mounted /\ call.op \notin {"umount", "freed"} THEN <<>> ELSE <<dRoot, dFat>>,
    dData, root, fat, fd, fdCount, mounted, call, got>>

Symmetric == Permutations(Name)
=============================================================================
