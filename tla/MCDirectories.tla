--------------------------- MODULE MCDirectories ---------------------------
(***************************************************************************)
(* A small instance of Directories: one name in the root, which may be a   *)
(* file, a directory or a link, and one name below it.                     *)
(***************************************************************************)
EXTENDS Directories

CONSTANTS t1, t2, top, leaf

Symmetry == Permutations(Task)
=============================================================================
