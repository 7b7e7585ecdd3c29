---------------------------- MODULE SingleFlight ----------------------------
(***************************************************************************)
(* What a single-flight table promises its callers, whatever it fetches:   *)
(* of the callers that want the same key at the same time one fetches it   *)
(* and the others wait, and nobody waits for a key that nobody fetches.    *)
(* FileCache and ReconCache implement this specification, each with its    *)
(* own `inflight` map.                                                     *)
(***************************************************************************)
CONSTANTS Key, Caller, None

VARIABLES
    leader,     \* the caller that fetches a key
    waiting     \* the key a caller waits for

vars == <<leader, waiting>>

\* A caller leads one key or waits for one.
Busy(c) == waiting[c] # None \/ \E k \in Key : leader[k] = c

\* The keys somebody fetches.
Fetching == {k \in Key : leader[k] # None}

Init ==
    /\ leader = [k \in Key |-> None]
    /\ waiting = [c \in Caller |-> None]

\* Nobody fetches the key: the caller does.
Lead(c, k) ==
    /\ leader[k] = None
    /\ ~Busy(c)
    /\ leader' = [leader EXCEPT ![k] = c]
    /\ UNCHANGED waiting

\* Somebody does: the caller waits.
Join(c, k) ==
    /\ leader[k] # None
    /\ ~Busy(c)
    /\ waiting' = [waiting EXCEPT ![c] = k]
    /\ UNCHANGED leader

\* A caller that waits may be dropped.
Leave(c) ==
    /\ waiting[c] # None
    /\ waiting' = [waiting EXCEPT ![c] = None]
    /\ UNCHANGED leader

\* Fetches end, well or not, and everybody who waited for them goes on.
Finish(K) ==
    /\ leader' = [k \in Key |-> IF k \in K THEN None ELSE leader[k]]
    /\ waiting' = [c \in Caller |-> IF waiting[c] \in K THEN None ELSE waiting[c]]

Next ==
    \/ \E c \in Caller : Leave(c) \/ \E k \in Key : Lead(c, k) \/ Join(c, k)
    \/ \E K \in SUBSET Fetching : Finish(K)

Spec == Init /\ [][Next]_vars

-----------------------------------------------------------------------------
\* A caller waits only while its key is being fetched: what makes waiting safe.
WaitersHaveLeader == \A c \in Caller : waiting[c] # None => leader[waiting[c]] # None
=============================================================================
