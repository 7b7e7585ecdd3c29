-------------------------- MODULE MCStreamingWrites --------------------------
(***************************************************************************)
(* Small instances of StreamingWrites.                                     *)
(***************************************************************************)
EXTENDS StreamingWrites, TLC

CONSTANTS a, b, c0, c1, c2, i1, i2, h1, h2, h3, r1, r2, r3

Symmetry == Permutations(Req)

\* StreamSpec with a thread left over for other requests than waiting opens.
LiveSpec ==
    /\ Init
    /\ [][/\ Writing \/ Committing \/ Linking \/ Unlinking
          /\ \E r \in Req : req'[r].op # "open"]_vars
    /\ Fairness
\* Writers of the same file only.
WriterSpec == Init /\ [][Writing \/ Committing]_vars
=============================================================================
