------------------------------ MODULE MCNfsPool ------------------------------
(***************************************************************************)
(* A small instance of NfsPool: a pool of one entry for two files, one of  *)
(* which is created.                                                       *)
(***************************************************************************)
EXTENDS NfsPool, TLC

CONSTANTS t1, t2, t3, i1, i2, n1, n2

Symmetry == Permutations(Task) \cup Permutations(Name)
=============================================================================
