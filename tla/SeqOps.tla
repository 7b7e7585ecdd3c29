------------------------------- MODULE SeqOps -------------------------------
(***************************************************************************)
(* Two operations on sequences, written as recursive functions so that     *)
(* SeqOpsProofs can say what they compute for every sequence.              *)
(***************************************************************************)
EXTENDS Integers, Sequences

\* The elements of s that are not in S, in their order (retain).
Without(s, S) ==
    LET kept[n \in 0..Len(s)] ==
            IF n = 0 THEN <<>>
            ELSE IF s[n] \in S THEN kept[n - 1] ELSE Append(kept[n - 1], s[n])
    IN  kept[Len(s)]

\* The sum of a sequence of numbers.
Total(s) ==
    LET sum[n \in 0..Len(s)] == IF n = 0 THEN 0 ELSE sum[n - 1] + s[n]
    IN  sum[Len(s)]
=============================================================================
