---------------------------- MODULE MCReconCache ----------------------------
(***************************************************************************)
(* A small instance of ReconCache: a file of three terms and an empty one, *)
(* ranges inside a term, across terms, up to the end, over it and past it. *)
(***************************************************************************)
EXTENDS ReconCache

CONSTANTS three, empty, c1, c2, c3

TermLens == [x \in File |-> IF x = three THEN <<2, 1, 2>> ELSE <<>>]
SomeRanges == {<<0, 2>>, <<2, 4>>, <<5, 6>>}
=============================================================================
