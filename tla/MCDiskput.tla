----------------------------- MODULE MCDiskput -----------------------------
(* Instances of the image for TLC.  Two entries fill the root, so that a   *)
(* third extends it; two names give a file and a directory of the same     *)
(* name, and a depth of 2 a directory to create on the way.  Nothing tells *)
(* the names apart.                                                        *)
EXTENDS Diskput, TLC

(* The first byte of a block is read as the status of its first entry, the *)
(* second as that of the other: in the blocks of a file the first is in    *)
(* use and the second is not, in block 1 both are.                         *)
SomeBytes == {<<id, n, i>> : id \in FileIds, n \in FileSizes, i \in {1, 3}}
                 \cup {<<b, 1, 0>> : b \in Blocks} \cup {<<1, 2, 0>>}

NameSymmetry == Permutations(Names)
=============================================================================
