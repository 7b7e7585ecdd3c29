--------------------------- MODULE MCStagedWrites ---------------------------
(***************************************************************************)
(* Small instances of StagedWrites, and the specifications of parts of it  *)
(* that single runs look at: each leaves out groups of actions, so that    *)
(* what the remaining ones guarantee, or break, shows on its own.          *)
(***************************************************************************)
EXTENDS StagedWrites, TLC

CONSTANTS a, b, c0, c1, c2, i1, i2, h1, h2, r1, r2

\* Requests and handles are interchangeable.
Symmetry == Permutations(Req) \cup Permutations(Handle)

\* Editing files in place, and the flush loop.
EditSpec == Init /\ [][Editing \/ FlushLoop]_vars
\* ... with truncations and resizes.
ResizeSpec == Init /\ [][Editing \/ Truncating \/ Resizing \/ FlushLoop]_vars
\* CreateSpec with remote deletes that fail.
DeleteSpec == Init /\ [][CreateNext \/ FlushDeletesFail]_vars
\* Editing with renames.
RenameSpec == Init /\ [][Editing \/ Renaming \/ Dropping \/ FlushLoop]_vars
\* Editing and resizing with staging garbage collection on release.
GcSpec == Init /\ [][Editing \/ Truncating \/ Resizing \/ Reaping \/ FlushLoop]_vars

\* Files coming and going here and on the Hub, and the poll loop.
PollSpec == Init /\ [][CreateNext \/ Polling]_vars /\ Fairness

LiveSpec ==
    /\ Init
    /\ [][Editing \/ Truncating \/ Resizing \/ Unlinking \/ Dropping \/ Reaping \/ FlushLoop]_vars
    /\ Fairness
=============================================================================
