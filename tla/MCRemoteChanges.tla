-------------------------- MODULE MCRemoteChanges --------------------------
(***************************************************************************)
(* A small instance of RemoteChanges: a file in the root and one in a      *)
(* directory below it.                                                     *)
(***************************************************************************)
EXTENDS RemoteChanges

CONSTANTS root, sub, top, deep

Dirs == [f \in File |-> IF f = top THEN root ELSE sub]
=============================================================================
