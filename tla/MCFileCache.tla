---------------------------- MODULE MCFileCache ----------------------------
(***************************************************************************)
(* A small instance of FileCache: two objects fit into the budget one at a *)
(* time, and a mount shares its directory with another one.                *)
(***************************************************************************)
EXTENDS FileCache

CONSTANTS m1, m2, t1, t2, t3, x, y

\* The second mount has a single task.
Homes == [t \in Task |-> IF t = t3 THEN m2 ELSE m1]
Sizes == [h \in Hash |-> IF h = x THEN 1 ELSE 2]
=============================================================================
