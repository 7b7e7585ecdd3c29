------------------------------- MODULE MCReads -------------------------------
(***************************************************************************)
(* Small instances of Reads.  The objects are containers of zero to four   *)
(* bytes of plaintext, one that lost a slot, one that has a slot too many, *)
(* one cut inside a slot, one of another format and a stub.                *)
(***************************************************************************)
EXTENDS Reads

SomeObjects ==
    {[format |-> TRUE, fileSize |-> n, size |-> CiphertextSize(n)] : n \in {0, 1, 3, 4}}
    \cup {[format |-> TRUE, fileSize |-> 5, size |-> CiphertextSize(3)],
          [format |-> TRUE, fileSize |-> 1, size |-> CiphertextSize(3)],
          [format |-> TRUE, fileSize |-> 3, size |-> CiphertextSize(3) - 1],
          [format |-> FALSE, fileSize |-> 3, size |-> CiphertextSize(3)],
          [format |-> TRUE, fileSize |-> 0, size |-> 1]}
=============================================================================
