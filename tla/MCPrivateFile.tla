---------------------------- MODULE MCPrivateFile ----------------------------
(* Instances of PrivateFile for TLC. *)
EXTENDS PrivateFile, TLC
CONSTANTS w1, w2, r1

\* Nothing in the specification tells one inode from another.
InodeSymmetry == Permutations(Inodes)
=============================================================================
