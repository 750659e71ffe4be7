---------------------------- MODULE MCRootModel ------------------------------
(* Instances of RootModel for TLC: applies of two threads overlap with each   *)
(* other and with the reverts and the first check of one of them.             *)
EXTENDS RootModel, TLC

Inodes == Permutations(Inode)
==============================================================================
