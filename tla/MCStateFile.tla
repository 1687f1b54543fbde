---------------------------- MODULE MCStateFile -----------------------------
(***************************************************************************)
(* Small instances of StateFile: a document of one part and one of two, so *)
(* that one can be written over the other, and enough inodes for every     *)
(* name and open file to have its own.                                     *)
(***************************************************************************)
EXTENDS StateFile, TLC

CONSTANTS short, long

InodeSymmetry == Permutations(Inode)
Lengths == [d \in Doc |-> IF d = short THEN 1 ELSE 2]
=============================================================================
