---------------------------- MODULE NfsPoolProofs ----------------------------
(***************************************************************************)
(* Proofs about NfsPool, for any number of requests, inodes and handles    *)
(* and any capacity of the pool.                                           *)
(***************************************************************************)
EXTENDS NfsPool, SeqOpsProofs

\* A request in one of these steps is the only one that knows its handle.
Private == {"share", "reread", "wwrite", "publish"}

\* Types; the order names the pooled inodes, once each.
GoodPool(P) ==
    /\ \A i \in DOMAIN P.handles : i \in Ino /\ P.handles[i] \in Entry
    /\ P.order \in Seq(Ino)
    /\ ToSet(P.order) = DOMAIN P.handles /\ IsInjective(P.order)

Types ==
    /\ DOMAIN open \subseteq Handle /\ \A h \in DOMAIN open : open[h] \in OpenFile
    /\ next \in 1..(MaxHandle + 1)
    /\ dir \in [Name -> Ino \cup {None}] /\ told \subseteq Ino
    /\ hash \in [Ino -> 0..MaxHash] /\ up \in BOOLEAN /\ requests \in 0..MaxRequests

\* What a step of a request takes for granted; `dom` are the open handles.
StepOk(q, dom) ==
    /\ q.pc # "stale"
    /\ q.pc \notin {"idle", "unlink"} => q.ino \in Ino
    /\ q.pc \in Private \cup {"read", "unpin", "drop", "pwrite"} => q.fh # None
    /\ q.pc = "evict" => q.then \in {"idle", "read", "wopen"} /\ (q.then = "read" => q.fh # None)
    /\ q.pc # "evict" => q.todo = {}
    /\ q.pc \in {"unpin", "drop"} /\ q.op = "READ" /\ ~q.ok => q.fh \notin dom
    /\ q.pc = "drop" /\ q.op = "READ" => ~q.ok
    /\ q.pc = "pwrite" => q.op # "READ"
    /\ q.pc = "unlink" => /\ q.name \in Name
                          /\ q.op = "REMOVE" => q.ino \in Ino
                          /\ q.op = "RENAME" => q.from \in Name
    /\ (\/ q.pc \in {"open", "share", "read", "unpin", "reopen", "reread"}
        \/ q.pc = "evict" /\ q.then = "read") => q.op = "READ"

\* Handle numbers are not used again.
FreshInv ==
    /\ \A h \in DOMAIN open : h < next
    /\ \A i \in DOMAIN pool : pool[i].fh < next
    /\ \A h \in spawned : h < next
    /\ \A t \in Task : /\ task[t].fh # None => task[t].fh < next
                       /\ \A h \in task[t].todo : h < next

\* A private handle is open, is one of the request's inode, and is in nobody
\* else's hands: no other request knows it, and it is not pooled.
PrivateOk(t) ==
    task[t].pc \in Private =>
        /\ task[t].fh \in DOMAIN open /\ open[task[t].fh].ino = task[t].ino
        /\ task[t].fh \notin spawned
        /\ \A i \in DOMAIN pool : pool[i].fh # task[t].fh
        /\ \A u \in Task : task[t].fh \notin task[u].todo /\ (u # t => task[u].fh # task[t].fh)

\* An open handle is pooled for its own inode.
PooledInv == \A i \in DOMAIN pool : pool[i].fh \in DOMAIN open => open[pool[i].fh].ino = i

PinsInv == \A i \in DOMAIN pool : pool[i].pins <= Cardinality(Readers(i))

Located(h) ==
    \/ Peek(Pool, open[h].ino) = h
    \/ \E t \in Task : Owns(t, h)
    \/ h \in spawned

IInv ==
    /\ Types /\ GoodPool(Pool) /\ spawned \subseteq Handle /\ task \in [Task -> Request]
    /\ FreshInv /\ PooledInv /\ PinsInv
    /\ \A t \in Task : StepOk(task[t], DOMAIN open) /\ PrivateOk(t)
    /\ \A h \in DOMAIN open : Located(h)

----------------------------------------------------------------------------
(* The pool.                                                               *)

\* Dropping inodes leaves a consistent pool without them.
LEMMA DropGood ==
    ASSUME NEW P, GoodPool(P), NEW I
    PROVE  /\ GoodPool(Drop(P, I))
           /\ DOMAIN Drop(P, I).handles = DOMAIN P.handles \ I
           /\ \A i \in DOMAIN P.handles \ I : Drop(P, I).handles[i] = P.handles[i]
<1>1. /\ Without(P.order, I) \in Seq(Ino)
      /\ ToSet(Without(P.order, I)) = ToSet(P.order) \ I
      /\ IsInjective(Without(P.order, I))
    BY WithoutSeq DEF GoodPool
<1> QED
    BY <1>1 DEF GoodPool, Drop

\* Taking a pooled handle pins it once more and touches nothing else.
LEMMA AcquireGood ==
    ASSUME NEW P, GoodPool(P), NEW i \in DOMAIN P.handles
    PROVE  /\ GoodPool(AcquireShared(P, i))
           /\ DOMAIN AcquireShared(P, i).handles = DOMAIN P.handles
           /\ \A j \in DOMAIN P.handles :
                /\ AcquireShared(P, i).handles[j].fh = P.handles[j].fh
                /\ AcquireShared(P, i).handles[j].pins =
                        IF j = i THEN P.handles[j].pins + 1 ELSE P.handles[j].pins
<1> DEFINE s == Without(P.order, {i})
<1>1. i \in Ino /\ P.handles[i] \in Entry
    BY DEF GoodPool
<1>2. s \in Seq(Ino) /\ ToSet(s) = ToSet(P.order) \ {i} /\ IsInjective(s)
    BY WithoutSeq DEF GoodPool
<1>3. Append(s, i) \in Seq(Ino) /\ ToSet(Append(s, i)) = ToSet(P.order)
  <2> HIDE DEF s
  <2>1. ToSet(Append(s, i)) = ToSet(s) \cup {i}
    BY <1>1, <1>2, ToSetAppend
  <2> QED
    BY <1>1, <1>2, <2>1 DEF GoodPool
<1>4. IsInjective(Append(s, i))
  <2> HIDE DEF s
  <2> QED
    BY <1>1, <1>2, InjAppend
<1>5. /\ AcquireShared(P, i).handles = [P.handles EXCEPT ![i].pins = @ + 1]
      /\ AcquireShared(P, i).order = Append(s, i)
    BY DEF AcquireShared
<1> HIDE DEF s
<1>6. ASSUME NEW j \in DOMAIN P.handles
      PROVE  /\ AcquireShared(P, i).handles[j] \in Entry
             /\ AcquireShared(P, i).handles[j].fh = P.handles[j].fh
             /\ AcquireShared(P, i).handles[j].pins =
                    IF j = i THEN P.handles[j].pins + 1 ELSE P.handles[j].pins
    BY <1>5 DEF GoodPool, Entry
<1> QED
    BY <1>3, <1>4, <1>5, <1>6 DEF GoodPool

\* Giving a handle back takes one pin off it and touches nothing else.
LEMMA UnpinnedGood ==
    ASSUME NEW P, P = [handles |-> P.handles, order |-> P.order], GoodPool(P), NEW i
    PROVE  /\ GoodPool(Unpinned(P, i))
           /\ DOMAIN Unpinned(P, i).handles = DOMAIN P.handles
           /\ \A j \in DOMAIN P.handles :
                /\ Unpinned(P, i).handles[j].fh = P.handles[j].fh
                /\ Unpinned(P, i).handles[j].pins =
                        IF j = i /\ P.handles[j].pins > 0 THEN P.handles[j].pins - 1
                        ELSE P.handles[j].pins
<1>1. CASE ~(Has(P, i) /\ P.handles[i].pins > 0)
  <2>1. Unpinned(P, i) = P
    BY <1>1 DEF Unpinned
  <2> QED
    BY <1>1, <2>1 DEF Has
<1>2. CASE Has(P, i) /\ P.handles[i].pins > 0
  <2>1. /\ Unpinned(P, i).handles = [P.handles EXCEPT ![i].pins = @ - 1]
        /\ Unpinned(P, i).order = P.order
    BY <1>2 DEF Unpinned, Has
  <2>2. ASSUME NEW j \in DOMAIN P.handles
        PROVE  /\ Unpinned(P, i).handles[j] \in Entry
               /\ Unpinned(P, i).handles[j].fh = P.handles[j].fh
               /\ Unpinned(P, i).handles[j].pins =
                    IF j = i THEN P.handles[j].pins - 1 ELSE P.handles[j].pins
    BY <1>2, <2>1 DEF GoodPool, Entry, Has
  <2> QED
    BY <1>2, <2>1, <2>2 DEF GoodPool
<1> QED
    BY <1>1, <1>2

\* The eviction stops in front of the first entry that is pinned, or where the
\* pool is below its capacity.
LEMMA EvictionsOk ==
    ASSUME NEW P, GoodPool(P)
    PROVE  /\ Evictions(P) \in 0..Len(P.order)
           /\ \A k \in 1..Evictions(P) : ~(P.handles[P.order[k]].pins > 0)
<1> DEFINE n == Len(P.order) - Capacity + 1
           pinned == {k \in DOMAIN P.order : P.handles[P.order[k]].pins > 0}
           Stop(k) == (\A j \in 1..k : j \notin pinned) /\ (k = n \/ k + 1 \in pinned)
<1>0. Len(P.order) \in Nat /\ DOMAIN P.order = 1..Len(P.order) /\ n \in Int /\ n <= Len(P.order)
    BY BoundAssumption DEF GoodPool
<1>1. CASE n <= 0
    BY <1>0, <1>1 DEF Evictions
<1>2. CASE n > 0
  <2> DEFINE B == {k \in 0..n : k = n \/ k + 1 \in pinned}
  <2>1. B \subseteq Nat /\ n \in B
    BY <1>0, <1>2
  <2>2. PICK m \in B : \A k \in B : m <= k
    <3> HIDE DEF B
    <3> QED
      BY <2>1, MinNat
  <2>3. ASSUME NEW j \in 1..m PROVE j \notin pinned
    <3>1. j - 1 \in 0..n /\ j - 1 < m
      BY <1>0, <2>2
    <3>2. j - 1 \notin B
      BY <2>2, <3>1
    <3> QED
      BY <3>1, <3>2
  <2>4. m \in 0..n /\ Stop(m)
    <3> HIDE DEF pinned
    <3> QED
      BY <2>2, <2>3
  <2>5. Evictions(P) = CHOOSE k \in 0..n : Stop(k)
    <3>1. Evictions(P) = IF n <= 0 THEN 0 ELSE CHOOSE k \in 0..n : Stop(k)
      BY DEF Evictions
    <3> HIDE DEF n, Stop
    <3> QED
      BY <1>0, <1>2, <3>1
  <2>6. Evictions(P) \in 0..n /\ Stop(Evictions(P))
    <3> HIDE DEF Stop
    <3> QED
      BY <2>4, <2>5
  <2> QED
    BY <1>0, <2>6
<1> QED
    BY <1>0, <1>1, <1>2

\* insert(): what the new entry displaces is handed back, whole and nothing else.
LEMMA InsertGood ==
    ASSUME NEW P, GoodPool(P), NEW i \in Ino, NEW h \in Handle
    PROVE  LET R == Insert(P, i, h) IN
           /\ GoodPool(R.pool)
           /\ i \in DOMAIN R.pool.handles /\ R.pool.handles[i] = [fh |-> h, pins |-> 0]
           /\ \A j \in DOMAIN R.pool.handles \ {i} :
                j \in DOMAIN P.handles /\ R.pool.handles[j] = P.handles[j]
           /\ \A g \in R.back : \E j \in DOMAIN P.handles :
                g = P.handles[j].fh /\ (j = i \/ j \notin DOMAIN R.pool.handles)
           /\ \A j \in DOMAIN P.handles :
                j = i \/ j \notin DOMAIN R.pool.handles => P.handles[j].fh \in R.back
<1> DEFINE Q == Drop(P, {i})
           n == Evictions(Q)
           evicted == ToSet(SubSeq(Q.order, 1, n))
           S == Drop(Q, evicted)
           R == Insert(P, i, h)
<1>1. /\ GoodPool(Q) /\ DOMAIN Q.handles = DOMAIN P.handles \ {i}
      /\ \A j \in DOMAIN Q.handles : Q.handles[j] = P.handles[j]
    BY DropGood
<1>2. n \in 0..Len(Q.order) /\ Q.order \in Seq(Ino) /\ ToSet(Q.order) = DOMAIN Q.handles
  <2> HIDE DEF Q
  <2> QED
    BY <1>1, EvictionsOk DEF GoodPool
<1>3. evicted \subseteq DOMAIN Q.handles
  <2>1. evicted \subseteq ToSet(Q.order)
    <3> HIDE DEF Q, n
    <3> QED
      BY <1>2 DEF ToSet
  <2> QED
    BY <1>2, <2>1
<1>4. /\ GoodPool(S) /\ DOMAIN S.handles = DOMAIN Q.handles \ evicted
      /\ \A j \in DOMAIN S.handles : S.handles[j] = Q.handles[j]
  <2> HIDE DEF Q, evicted
  <2> QED
    BY <1>1, DropGood
<1>5. /\ R.pool.handles = [j \in DOMAIN S.handles \cup {i} |->
                              IF j = i THEN [fh |-> h, pins |-> 0] ELSE S.handles[j]]
      /\ R.pool.order = Append(S.order, i)
      /\ R.back = {Peek(P, j) : j \in evicted} \cup ({Peek(P, i)} \ {None})
    BY DEF Insert
<1> HIDE DEF Q, n, evicted, S, R
<1>6. GoodPool(R.pool)
  <2>1. S.order \in Seq(Ino) /\ ToSet(S.order) = DOMAIN S.handles /\ IsInjective(S.order)
    BY <1>4 DEF GoodPool
  <2>2. i \notin DOMAIN S.handles
    BY <1>1, <1>4
  <2>3. ToSet(Append(S.order, i)) = DOMAIN R.pool.handles
    BY <1>5, <2>1, ToSetAppend
  <2>4. IsInjective(Append(S.order, i)) /\ Append(S.order, i) \in Seq(Ino)
    BY <2>1, <2>2, InjAppend
  <2>5. \A j \in DOMAIN R.pool.handles : j \in Ino /\ R.pool.handles[j] \in Entry
    BY <1>4, <1>5 DEF GoodPool, Entry
  <2> QED
    BY <1>5, <2>3, <2>4, <2>5 DEF GoodPool
<1>7. \A j \in DOMAIN P.handles : P.handles[j].fh \in Handle /\ P.handles[j].fh # None
    BY InoAssumption, BoundAssumption DEF GoodPool, Entry, Handle
<1>8. \A g \in R.back : \E j \in DOMAIN P.handles :
            g = P.handles[j].fh /\ (j = i \/ j \notin DOMAIN R.pool.handles)
    BY <1>1, <1>3, <1>4, <1>5, <1>7 DEF Peek, Has
<1>9. \A j \in DOMAIN P.handles :
            j = i \/ j \notin DOMAIN R.pool.handles => P.handles[j].fh \in R.back
    BY <1>1, <1>3, <1>4, <1>5, <1>7 DEF Peek, Has
<1>10. /\ i \in DOMAIN R.pool.handles /\ R.pool.handles[i] = [fh |-> h, pins |-> 0]
       /\ \A j \in DOMAIN R.pool.handles \ {i} :
                j \in DOMAIN P.handles /\ R.pool.handles[j] = P.handles[j]
    BY <1>1, <1>4, <1>5
<1> QED
    BY <1>6, <1>8, <1>9, <1>10 DEF R

----------------------------------------------------------------------------
(* A step of a request.                                                    *)

\* Request q has pinned inode i and will unpin it.
IsReader(q, i) ==
    /\ q.op = "READ" /\ q.ino = i
    /\ q.pc \in {"read", "unpin"} \/ (q.pc = "evict" /\ q.then = "read")

\* What the step of request t that makes it q may do to the pool: entries stay,
\* or go, or hold the request's private handle; an entry gets a pin only with a
\* reader for it, and a reader that ends takes its pin along.
PoolStep(t, q) ==
    /\ GoodPool(Pool)'
    /\ \A i \in DOMAIN pool' :
        \/ i \in DOMAIN pool /\ pool'[i].fh = pool[i].fh
        \/ i = task[t].ino /\ pool'[i].fh = task[t].fh /\ task[t].pc \in Private
    /\ \A i \in DOMAIN pool' :
        \/ pool'[i].pins = 0
        \/ pool'[i].pins <= 1 /\ IsReader(q, i)
        \/ /\ i \in DOMAIN pool
           /\ \/ pool'[i].pins <= pool[i].pins /\ (IsReader(task[t], i) => IsReader(q, i))
              \/ pool'[i].pins <= pool[i].pins + 1 /\ ~IsReader(task[t], i) /\ IsReader(q, i)
              \/ pool'[i].pins <= pool[i].pins - 1

\* ... and to the open handles: one is opened, or some of its own are released.
OpenStep(t) ==
    /\ \/ next' = next /\ DOMAIN open' \subseteq DOMAIN open
       \/ next' = next + 1 /\ DOMAIN open' = DOMAIN open \cup {next}
    /\ \A h \in DOMAIN open : /\ h \in DOMAIN open' => open'[h] = open[h]
                              /\ h \notin task[t].todo => h \in DOMAIN open'

\* The handles request t can get at.
Reach(t) ==
    {pool[i].fh : i \in DOMAIN pool} \cup task[t].todo \cup ({task[t].fh} \ {None})
        \cup (IF next' = next THEN {} ELSE {next})

\* The other readers of an inode stay.
LEMMA ReadersStep ==
    ASSUME NEW t \in Task, NEW q \in Request, task \in [Task -> Request],
           task' = [task EXCEPT ![t] = q], NEW i
    PROVE  LET n == Cardinality(Readers(i))
               m == Cardinality(Readers(i)')
           IN  /\ n \in Nat /\ m \in Nat
               /\ IsReader(task[t], i) => n >= 1
               /\ m = n + (IF IsReader(q, i) THEN 1 ELSE 0)
                        - (IF IsReader(task[t], i) THEN 1 ELSE 0)
<1> DEFINE A == Readers(i)
           B == Readers(i)'
           C == A \ {t}
<1>1. /\ t \in A <=> IsReader(task[t], i)
      /\ t \in B <=> IsReader(q, i)
      /\ B \ {t} = C /\ A \subseteq Task /\ B \subseteq Task
    BY DEF Readers, IsReader
<1>2. IsFiniteSet(A) /\ IsFiniteSet(B)
  <2> HIDE DEF A, B
  <2> QED
    BY <1>1, TaskAssumption, FS_Subset
<1>3. /\ IsFiniteSet(C) /\ Cardinality(A) \in Nat /\ Cardinality(B) \in Nat
      /\ Cardinality(C) \in Nat
      /\ Cardinality(C) = IF t \in A THEN Cardinality(A) - 1 ELSE Cardinality(A)
      /\ Cardinality(C) = IF t \in B THEN Cardinality(B) - 1 ELSE Cardinality(B)
  <2> HIDE DEF A, B
  <2> QED
    BY <1>1, <1>2, FS_RemoveElement, FS_CardinalityType
<1> QED
    BY <1>1, <1>3

\* No handle gets out of sight: what leaves the pool, and what the request had
\* for itself, it keeps, pools or is going to release.
HandStep(t, q) ==
    /\ \A i \in DOMAIN pool : \/ i \in DOMAIN pool' /\ pool'[i].fh = pool[i].fh
                              \/ pool[i].fh \in q.todo
                              \/ pool[i].fh \notin DOMAIN open
    /\ task[t].todo \cap DOMAIN open' \subseteq q.todo
    /\ task[t].pc \in Private =>
        \/ q.pc \in Private /\ q.fh = task[t].fh
        \/ task[t].fh \in q.todo
        \/ task[t].ino \in DOMAIN pool' /\ pool'[task[t].ino].fh = task[t].fh
    /\ next' # next => q.pc \in Private /\ q.fh = next

\* After a step of one request every open handle still has an owner.
LEMMA LocatedStep ==
    ASSUME IInv, NEW t \in Task, NEW q \in Request, task' = [task EXCEPT ![t] = q],
           spawned' = spawned, OpenStep(t), HandStep(t, q), NEW h \in DOMAIN open'
    PROVE  Located(h)'
<1>0. task'[t] = q /\ \A u \in Task \ {t} : task'[u] = task[u]
    BY DEF IInv
<1>1. CASE h \notin DOMAIN open
  <2>1. next' # next /\ h = next
    BY <1>1, BoundAssumption DEF OpenStep, IInv, Types
  <2>2. Owns(t, h)'
    BY <1>0, <2>1 DEF HandStep, Owns, Private
  <2> QED
    BY <2>2 DEF Located
<1>2. CASE h \in DOMAIN open
  <2>0. open'[h] = open[h] /\ h # None
    BY <1>2, InoAssumption DEF OpenStep, IInv, Types, Handle
  <2>1. CASE Peek(Pool, open[h].ino) = h
    <3>1. open[h].ino \in DOMAIN pool /\ pool[open[h].ino].fh = h
      BY <2>0, <2>1 DEF Peek, Has, Pool
    <3>2. CASE open[h].ino \in DOMAIN pool' /\ pool'[open[h].ino].fh = h
      BY <2>0, <3>2 DEF Located, Peek, Has, Pool
    <3>3. CASE h \in q.todo
      BY <1>0, <3>3 DEF Located, Owns
    <3> QED
      BY <1>2, <3>1, <3>2, <3>3 DEF HandStep
  <2>2. CASE h \in spawned
    BY <2>2 DEF Located
  <2>3. ASSUME NEW u \in Task \ {t}, Owns(u, h) PROVE Located(h)'
    BY <1>0, <2>3 DEF Located, Owns
  <2>4. CASE h \in task[t].todo
    BY <1>0, <2>4 DEF HandStep, Located, Owns
  <2>5. CASE h = task[t].fh /\ task[t].pc \in Private
    <3>1. open[h].ino = task[t].ino
      BY <2>5 DEF IInv, PrivateOk
    <3> QED
      BY <1>0, <2>0, <2>5, <3>1 DEF HandStep, Located, Owns, Private, Peek, Has, Pool
  <2> QED
    BY <1>2, <2>1, <2>2, <2>3, <2>4, <2>5 DEF IInv, Located, Owns, Private
<1> QED
    BY <1>1, <1>2

\* The invariant over one step of a request.
LEMMA TaskStep ==
    ASSUME IInv, NEW t \in Task, NEW q \in Request, task' = [task EXCEPT ![t] = q],
           spawned' = spawned, Types', PoolStep(t, q), OpenStep(t),
           q.todo \subseteq Reach(t), q.fh \in Reach(t) \cup {None},
           StepOk(q, DOMAIN open'), PrivateOk(t)',
           HandStep(t, q)
    PROVE  IInv'
<1>0. /\ task' \in [Task -> Request] /\ task'[t] = q
      /\ \A u \in Task \ {t} : task'[u] = task[u]
    BY DEF IInv
<1>1. /\ \A h \in Reach(t) : h < next'
      /\ next' \in Nat /\ next \in Nat /\ next <= next'
  <2>1. next' \in Nat /\ next \in Nat /\ next <= next' /\ (next' # next => next' = next + 1)
    BY BoundAssumption DEF IInv, OpenStep, Types
  <2>2. /\ \A i \in DOMAIN pool : pool[i].fh \in Nat /\ pool[i].fh < next
        /\ \A h \in task[t].todo : h \in Nat /\ h < next
        /\ task[t].fh # None => task[t].fh \in Nat /\ task[t].fh < next
    <3>1. task[t] \in Request /\ \A i \in DOMAIN pool : pool[i] \in Entry
      BY DEF IInv, GoodPool, Pool
    <3> QED
      BY <3>1, BoundAssumption DEF IInv, FreshInv, Request, Entry, Handle
  <2> QED
    BY <2>1, <2>2 DEF Reach
<1>2. FreshInv'
  <2>1. \A h \in DOMAIN open' : h < next'
    BY <1>1, BoundAssumption DEF IInv, FreshInv, OpenStep, Types, Handle
  <2>2. \A i \in DOMAIN pool' : pool'[i].fh < next'
    <3> SUFFICES ASSUME NEW i \in DOMAIN pool' PROVE pool'[i].fh < next'
      OBVIOUS
    <3>1. CASE i \in DOMAIN pool /\ pool'[i].fh = pool[i].fh
      BY <1>1, <3>1 DEF Reach
    <3>2. CASE i = task[t].ino /\ pool'[i].fh = task[t].fh /\ task[t].pc \in Private
      <4>1. task[t].fh # None
        BY <3>2 DEF IInv, StepOk
      <4> QED
        BY <1>1, <3>2, <4>1 DEF Reach
    <3> QED
      BY <3>1, <3>2 DEF PoolStep
  <2>3. \A h \in spawned' : h < next'
    BY <1>1, BoundAssumption DEF IInv, FreshInv, Handle
  <2>4. ASSUME NEW u \in Task
        PROVE  (task'[u].fh # None => task'[u].fh < next') /\ \A h \in task'[u].todo : h < next'
    <3>1. CASE u = t
      BY <1>0, <1>1, <3>1
    <3>2. CASE u # t
      <4>1. task[u].fh \in Handle \cup {None} /\ task[u].todo \subseteq Handle
        BY DEF IInv, Request
      <4> QED
        BY <1>0, <1>1, <3>2, <4>1, BoundAssumption DEF IInv, FreshInv, Handle
    <3> QED
      BY <3>1, <3>2
  <2> QED
    BY <2>1, <2>2, <2>3, <2>4 DEF FreshInv
<1>3. PooledInv'
  <2> SUFFICES ASSUME NEW i \in DOMAIN pool', pool'[i].fh \in DOMAIN open'
               PROVE  open'[pool'[i].fh].ino = i
    BY DEF PooledInv
  <2>1. CASE i \in DOMAIN pool /\ pool'[i].fh = pool[i].fh
    BY <2>1, BoundAssumption DEF IInv, PooledInv, OpenStep, FreshInv, Types
  <2>2. CASE i = task[t].ino /\ pool'[i].fh = task[t].fh /\ task[t].pc \in Private
    BY <2>2 DEF IInv, PrivateOk, OpenStep
  <2> QED
    BY <2>1, <2>2 DEF PoolStep
<1>4. PinsInv'
  <2> SUFFICES ASSUME NEW i \in DOMAIN pool' PROVE pool'[i].pins <= Cardinality(Readers(i)')
    BY DEF PinsInv
  <2> DEFINE n == Cardinality(Readers(i))
             m == Cardinality(Readers(i)')
  <2>1. /\ n \in Nat /\ m \in Nat
        /\ IsReader(task[t], i) => n >= 1
        /\ m = n + (IF IsReader(q, i) THEN 1 ELSE 0) - (IF IsReader(task[t], i) THEN 1 ELSE 0)
    BY ReadersStep DEF IInv
  <2>2. pool'[i].pins \in Nat /\ (i \in DOMAIN pool => pool[i].pins \in Nat /\ pool[i].pins <= n)
    BY DEF PoolStep, GoodPool, Pool, Entry, IInv, PinsInv
  <2> HIDE DEF n, m
  <2>3. \/ pool'[i].pins = 0
        \/ pool'[i].pins <= 1 /\ IsReader(q, i)
        \/ /\ i \in DOMAIN pool
           /\ \/ pool'[i].pins <= pool[i].pins /\ (IsReader(task[t], i) => IsReader(q, i))
              \/ pool'[i].pins <= pool[i].pins + 1 /\ ~IsReader(task[t], i) /\ IsReader(q, i)
              \/ pool'[i].pins <= pool[i].pins - 1
    BY DEF PoolStep
  <2> QED
    BY <2>1, <2>2, <2>3 DEF m
<1>5. ASSUME NEW u \in Task PROVE StepOk(task'[u], DOMAIN open') /\ PrivateOk(u)'
  <2>1. CASE u = t
    BY <1>0, <2>1
  <2>2. CASE u # t
    <3>1. task'[u] = task[u] /\ StepOk(task[u], DOMAIN open) /\ PrivateOk(u)
      BY <1>0, <2>2 DEF IInv
    <3>2. task[u].fh \in DOMAIN open' => task[u].fh \in DOMAIN open \/ task[u].fh = None
      <4>1. task[u].fh \in Handle \cup {None}
        BY DEF IInv, Request
      <4> QED
        BY <4>1, BoundAssumption, InoAssumption DEF IInv, FreshInv, OpenStep, Types, Handle
    <3>3. StepOk(task'[u], DOMAIN open')
      BY <3>1, <3>2 DEF StepOk
    <3>4. ASSUME task[u].pc \in Private
          PROVE  /\ task[u].fh \in DOMAIN open /\ task[u].fh \notin Reach(t)
                 /\ task[u].fh # None
      BY <2>2, <3>1, <3>4, BoundAssumption, InoAssumption
         DEF PrivateOk, Reach, IInv, FreshInv, StepOk, Types, Handle
    <3>5. ASSUME task[u].pc \in Private
          PROVE  /\ task[u].fh \in DOMAIN open' /\ open'[task[u].fh].ino = task[u].ino
      BY <3>1, <3>4, <3>5 DEF PrivateOk, OpenStep, Reach
    <3>6. ASSUME task[u].pc \in Private, NEW i \in DOMAIN pool'
          PROVE  pool'[i].fh # task[u].fh
      BY <2>2, <3>1, <3>4, <3>6 DEF PrivateOk, PoolStep
    <3>7. ASSUME task[u].pc \in Private, NEW x \in Task
          PROVE  task[u].fh \notin task'[x].todo /\ (x # u => task'[x].fh # task[u].fh)
      <4>1. CASE x = t
        BY <1>0, <2>2, <3>4, <3>7, <4>1
      <4>2. CASE x # t
        BY <1>0, <2>2, <3>1, <3>7, <4>2 DEF PrivateOk
      <4> QED
        BY <4>1, <4>2
    <3>8. PrivateOk(u)'
      BY <3>1, <3>5, <3>6, <3>7 DEF PrivateOk
    <3> QED
      BY <3>3, <3>8
  <2> QED
    BY <2>1, <2>2
<1>6. \A h \in DOMAIN open' : Located(h)'
    BY LocatedStep
<1> QED
    BY <1>0, <1>2, <1>3, <1>4, <1>5, <1>6 DEF IInv, PoolStep

\* A step that only moves the request on, without ending a reader.
LEMMA QuietStep ==
    ASSUME IInv, NEW t \in Task, NEW q \in Request, task' = [task EXCEPT ![t] = q],
           UNCHANGED <<pool, order, open, next, spawned>>, Types',
           \A i : IsReader(task[t], i) => IsReader(q, i),
           q.todo \subseteq Reach(t), q.fh \in Reach(t) \cup {None},
           StepOk(q, DOMAIN open),
           q.pc \in Private => task[t].pc \in Private /\ q.fh = task[t].fh /\ q.ino = task[t].ino,
           q.pc \in Private => q.todo = {},
           task[t].todo \subseteq q.todo,
           task[t].pc \in Private => (q.pc \in Private /\ q.fh = task[t].fh) \/ task[t].fh \in q.todo
    PROVE  IInv'
<1>0. task'[t] = q /\ \A u \in Task \ {t} : task'[u] = task[u]
    BY DEF IInv
<1>1. PoolStep(t, q)
  <2>1. \A i \in DOMAIN pool : pool[i] \in Entry
    BY DEF IInv, GoodPool, Pool
  <2> QED
    BY <2>1 DEF PoolStep, IInv, Pool, GoodPool, Entry
<1>2. OpenStep(t)
    BY DEF OpenStep
<1>3. HandStep(t, q)
    BY DEF HandStep
<1>4. PrivateOk(t)'
    BY <1>0 DEF IInv, PrivateOk
<1> QED
    BY <1>1, <1>2, <1>3, <1>4, TaskStep

\* The request is answered: it has given back what it had.
LEMMA ReplyStep ==
    ASSUME IInv, NEW t \in Task, task' = [task EXCEPT ![t] = Idle],
           UNCHANGED <<pool, order, open, next, spawned>>, Types',
           ~\E i : IsReader(task[t], i),
           task[t].todo = {}, task[t].pc \notin Private
    PROVE  IInv'
<1>1. Idle \in Request
    BY DEF Idle, Request, Step
<1>2. StepOk(Idle, DOMAIN open)
    BY DEF StepOk, Idle, Private
<1>3. Idle.todo = {} /\ Idle.fh = None /\ Idle.pc \notin Private
    BY DEF Idle, Private
<1> QED
    BY <1>1, <1>2, <1>3, QuietStep


----------------------------------------------------------------------------
(* The ways a request moves on.                                            *)

\* A request goes on to another step with the handle it has.
LEMMA GotoForm ==
    ASSUME IInv, NEW t \in Task, NEW pc \in Step, Goto(t, pc)
    PROVE  \E q \in Request :
              /\ task' = [task EXCEPT ![t] = q]
              /\ q.pc = pc /\ q.op = task[t].op /\ q.then = task[t].then /\ q.ino = task[t].ino
              /\ q.fh = task[t].fh /\ q.ok = task[t].ok /\ q.todo = task[t].todo
<1> DEFINE q == [task[t] EXCEPT !.pc = pc]
<1>1. task[t] \in Request /\ task \in [Task -> Request]
    BY DEF IInv
<1>2. q \in Request /\ task' = [task EXCEPT ![t] = q]
    BY <1>1 DEF Goto, Request
<1>3. /\ q.pc = pc /\ q.op = task[t].op /\ q.then = task[t].then /\ q.ino = task[t].ino
      /\ q.fh = task[t].fh /\ q.ok = task[t].ok /\ q.todo = task[t].todo
    BY <1>1 DEF Request
<1> HIDE DEF q
<1> QED
    BY <1>2, <1>3

\* A request goes on to another step with a given handle.
LEMMA WithForm ==
    ASSUME IInv, NEW t \in Task, NEW pc \in Step, NEW h \in Handle \cup {None}, With(t, pc, h)
    PROVE  \E q \in Request :
              /\ task' = [task EXCEPT ![t] = q]
              /\ q.pc = pc /\ q.op = task[t].op /\ q.then = task[t].then /\ q.ino = task[t].ino
              /\ q.fh = h /\ q.ok = task[t].ok /\ q.todo = task[t].todo
<1> DEFINE q == [task[t] EXCEPT !.pc = pc, !.fh = h]
<1>1. task[t] \in Request /\ task \in [Task -> Request]
    BY DEF IInv
<1>2. q \in Request /\ task' = [task EXCEPT ![t] = q]
    BY <1>1 DEF With, Request
<1>3. /\ q.pc = pc /\ q.op = task[t].op /\ q.then = task[t].then /\ q.ino = task[t].ino
      /\ q.fh = h /\ q.ok = task[t].ok /\ q.todo = task[t].todo
    BY <1>1 DEF Request
<1> HIDE DEF q
<1> QED
    BY <1>2, <1>3

\* Evicting, with another handle to go on with.
EvictingFor(t, back, then, h) ==
    task' = [task EXCEPT ![t].pc = "evict", ![t].todo = back, ![t].then = then, ![t].fh = h]

\* A request takes handles to close, then goes on.
LEMMA EvictingForm ==
    ASSUME IInv, NEW t \in Task, NEW back \in SUBSET Handle, NEW then \in Step,
           NEW h \in Handle \cup {None}, EvictingFor(t, back, then, h)
    PROVE  \E q \in Request :
              /\ task' = [task EXCEPT ![t] = q]
              /\ q.pc = "evict" /\ q.op = task[t].op /\ q.then = then /\ q.ino = task[t].ino
              /\ q.fh = h /\ q.ok = task[t].ok /\ q.todo = back
<1> DEFINE q == [task[t] EXCEPT !.pc = "evict", !.todo = back, !.then = then, !.fh = h]
<1>1. task[t] \in Request /\ task \in [Task -> Request] /\ "evict" \in Step
    BY DEF IInv, Step
<1>2. q \in Request /\ task' = [task EXCEPT ![t] = q]
    BY <1>1 DEF Request, EvictingFor
<1>3. /\ q.pc = "evict" /\ q.op = task[t].op /\ q.then = then /\ q.ino = task[t].ino
      /\ q.fh = h /\ q.ok = task[t].ok /\ q.todo = back
    BY <1>1 DEF Request
<1> HIDE DEF q
<1> QED
    BY <1>2, <1>3

\* Evicting keeps the request's handle.
LEMMA EvictingKeeps ==
    ASSUME IInv, NEW t \in Task, NEW back \in SUBSET Handle, NEW then \in Step,
           Evicting(t, back, then)
    PROVE  \E q \in Request :
              /\ task' = [task EXCEPT ![t] = q]
              /\ q.pc = "evict" /\ q.op = task[t].op /\ q.then = then /\ q.ino = task[t].ino
              /\ q.fh = task[t].fh /\ q.ok = task[t].ok /\ q.todo = back
<1> DEFINE q == [task[t] EXCEPT !.pc = "evict", !.todo = back, !.then = then]
<1>1. task[t] \in Request /\ task \in [Task -> Request] /\ "evict" \in Step
    BY DEF IInv, Step
<1>2. q \in Request /\ task' = [task EXCEPT ![t] = q]
    BY <1>1 DEF Evicting, Request
<1>3. /\ q.pc = "evict" /\ q.op = task[t].op /\ q.then = then /\ q.ino = task[t].ino
      /\ q.fh = task[t].fh /\ q.ok = task[t].ok /\ q.todo = back
    BY <1>1 DEF Request
<1> HIDE DEF q
<1> QED
    BY <1>2, <1>3

\* A request that starts was idle, owned no handle and read nothing.
LEMMA StartForm ==
    ASSUME IInv, NEW t \in Task, NEW op \in {"READ", "WRITE", "CREATE", "REMOVE"},
           NEW i \in Ino, NEW pc \in Step, NEW h \in Handle \cup {None}, Start(t, op, i, pc, h)
    PROVE  /\ task[t].pc = "idle" /\ task[t].todo = {}
           /\ ~\E j : IsReader(task[t], j)
           /\ requests' \in 0..MaxRequests
           /\ \E q \in Request :
              /\ task' = [task EXCEPT ![t] = q]
              /\ q.pc = pc /\ q.op = op /\ q.then = "idle" /\ q.ino = i
              /\ q.fh = h /\ q.ok = TRUE /\ q.todo = {}
<1> DEFINE q == [Idle EXCEPT !.op = op, !.pc = pc, !.ino = i, !.fh = h]
<1>1. task[t].pc = "idle" /\ task' = [task EXCEPT ![t] = q]
    BY DEF Start, Begin
<1>2. task[t].todo = {} /\ ~\E j : IsReader(task[t], j)
    BY <1>1 DEF IInv, StepOk, IsReader
<1>3. requests' \in 0..MaxRequests
    BY BoundAssumption DEF Start, Begin, IInv, Types
<1>4. /\ q \in Request
      /\ q.pc = pc /\ q.op = op /\ q.then = "idle" /\ q.ino = i
      /\ q.fh = h /\ q.ok = TRUE /\ q.todo = {}
    BY DEF Idle, Request, Step
<1> HIDE DEF q
<1> QED
    BY <1>1, <1>2, <1>3, <1>4

----------------------------------------------------------------------------
(* The steps of a request, one by one.                                     *)

\* READ: the first read of the file.
LEMMA ReadFileStep ==
    ASSUME IInv, NEW t \in Task, ReadFile(t) PROVE IInv'
<1> DEFINE q == [task[t] EXCEPT !.pc = "unpin", !.ok = IsOpen(task[t].fh)]
<1>1. task[t] \in Request /\ StepOk(task[t], DOMAIN open) /\ task[t].pc = "read"
    BY DEF IInv, ReadFile
<1>0. IsOpen(task[t].fh) \in BOOLEAN
    BY DEF IsOpen
<1>2. q \in Request /\ task' = [task EXCEPT ![t] = q]
    BY <1>0, <1>1 DEF ReadFile, IInv, Request, Step
<1>3. /\ q.op = task[t].op /\ q.pc = "unpin" /\ q.ino = task[t].ino /\ q.fh = task[t].fh
      /\ q.todo = task[t].todo /\ (q.ok <=> task[t].fh \in DOMAIN open)
    BY <1>1 DEF Request, IsOpen
<1>4. Types'
    BY DEF IInv, Types, ReadFile
<1>5. \A i : IsReader(task[t], i) => IsReader(q, i)
    BY <1>3 DEF IsReader
<1>6. StepOk(q, DOMAIN open)
    BY <1>1, <1>3 DEF StepOk, Private
<1> HIDE DEF q
<1> QED
    BY <1>1, <1>2, <1>3, <1>4, <1>5, <1>6, QuietStep DEF Private, Reach, ReadFile

\* WRITE with the pooled handle.
LEMMA PWriteStep ==
    ASSUME IInv, NEW t \in Task, PWrite(t) PROVE IInv'
<1>0. task[t] \in Request /\ StepOk(task[t], DOMAIN open) /\ task[t].pc = "pwrite"
    BY DEF IInv, PWrite
<1>1. Types'
    BY DEF IInv, Types, PWrite
<1>2. CASE task' = [task EXCEPT ![t] = Idle]
  <2>1. ~(\E i : IsReader(task[t], i)) /\ task[t].todo = {} /\ task[t].pc \notin Private
    BY <1>0 DEF IsReader, StepOk, Private
  <2> QED
    BY <1>1, <1>2, <2>1, ReplyStep DEF PWrite
<1>3. CASE task' = [task EXCEPT ![t].pc = "drop"]
  <2> DEFINE q == [task[t] EXCEPT !.pc = "drop"]
  <2>1. q \in Request /\ task' = [task EXCEPT ![t] = q]
    BY <1>0, <1>3 DEF IInv, Request, Step
  <2>2. /\ q.op = task[t].op /\ q.pc = "drop" /\ q.ino = task[t].ino /\ q.fh = task[t].fh
        /\ q.todo = task[t].todo /\ q.ok = task[t].ok
    BY <1>0 DEF Request
  <2> HIDE DEF q
  <2>3. StepOk(q, DOMAIN open) /\ \A i : ~IsReader(task[t], i)
    BY <1>0, <2>2 DEF StepOk, Private, IsReader
  <2> QED
    BY <1>0, <1>1, <2>1, <2>2, <2>3, QuietStep DEF Private, Reach, PWrite
<1> QED
    BY <1>2, <1>3 DEF PWrite, Reply, Goto

\* WRITE starts.
LEMMA WriteStep ==
    ASSUME IInv, NEW t \in Task, NEW i \in Ino, Write(t, i) PROVE IInv'
<1> DEFINE h == Peek(Pool, i)
           pc == IF h = None THEN "wopen" ELSE "pwrite"
<1>1. h \in Handle \cup {None} /\ h \in Reach(t) \cup {None}
    BY DEF Peek, Has, Pool, IInv, GoodPool, Entry, Reach
<1>2. pc \in Step /\ (pc = "wopen" \/ (pc = "pwrite" /\ h # None))
    BY DEF Step
<1>3. Start(t, "WRITE", i, pc, h)
    BY DEF Write
<1> HIDE DEF h, pc
<1>4. PICK q \in Request : /\ task' = [task EXCEPT ![t] = q]
                           /\ q.pc = pc /\ q.op = "WRITE" /\ q.then = "idle" /\ q.ino = i
                           /\ q.fh = h /\ q.ok = TRUE /\ q.todo = {}
    BY <1>1, <1>2, <1>3, StartForm
<1>5. /\ task[t].pc = "idle" /\ task[t].todo = {} /\ requests' \in 0..MaxRequests
      /\ ~\E j : IsReader(task[t], j)
    BY <1>1, <1>2, <1>3, StartForm
<1>6. Types'
    BY <1>5 DEF IInv, Types, Write
<1>7. StepOk(q, DOMAIN open) /\ q.pc \notin Private
    BY <1>2, <1>4 DEF StepOk, Private
<1> QED
    BY <1>1, <1>4, <1>5, <1>6, <1>7, QuietStep DEF Private, Write

\* REMOVE and RENAME start.
LEMMA RemoveStep ==
    ASSUME IInv, NEW t \in Task, NEW q \in Request, Begin(t, q),
           q.pc = "unlink", q.op \in {"REMOVE", "RENAME"}, q.fh = None, q.todo = {},
           q.name \in Name, q.op = "REMOVE" => q.ino \in Ino, q.op = "RENAME" => q.from \in Name,
           UNCHANGED <<pool, order, open, next, dir, hash, told, spawned, up>>
    PROVE  IInv'
<1>1. /\ task[t].pc = "idle" /\ task[t].todo = {} /\ requests' \in 0..MaxRequests
      /\ task' = [task EXCEPT ![t] = q] /\ ~\E j : IsReader(task[t], j)
    BY BoundAssumption DEF Begin, IInv, Types, StepOk, IsReader
<1>2. Types'
    BY <1>1 DEF IInv, Types
<1>3. StepOk(q, DOMAIN open) /\ q.pc \notin Private
    BY DEF StepOk, Private
<1> QED
    BY <1>1, <1>2, <1>3, QuietStep DEF Private

\* REMOVE or RENAME changes the names, or fails.
LEMMA UnlinkStep ==
    ASSUME IInv, NEW t \in Task, Unlink(t) PROVE IInv'
<1>1. /\ task[t] \in Request /\ StepOk(task[t], DOMAIN open) /\ task[t].pc = "unlink"
      /\ UNCHANGED <<pool, order, open, next, hash, told, spawned, up, requests>>
    BY DEF IInv, Unlink
<1>2. dir' \in [Name -> Ino \cup {None}]
    BY <1>1 DEF Unlink, IInv, Types, StepOk
<1>3. Types'
    BY <1>1, <1>2 DEF IInv, Types
<1>4. task[t].todo = {} /\ task[t].pc \notin Private /\ ~\E j : IsReader(task[t], j)
    BY <1>1 DEF StepOk, Private, IsReader
<1>5. CASE Reply(t)
    BY <1>1, <1>3, <1>4, <1>5, ReplyStep DEF Reply
<1>6. CASE Goto(t, "purge") /\ task[t].ino \in Ino
  <2>1. "purge" \in Step
    BY DEF Step
  <2>2. PICK q \in Request : /\ task' = [task EXCEPT ![t] = q]
              /\ q.pc = "purge" /\ q.op = task[t].op /\ q.then = task[t].then /\ q.ino = task[t].ino
              /\ q.fh = task[t].fh /\ q.ok = task[t].ok /\ q.todo = task[t].todo
    BY <1>6, <2>1, GotoForm
  <2>3. StepOk(q, DOMAIN open) /\ q.pc \notin Private
    BY <1>4, <1>6, <2>2 DEF StepOk, Private
  <2> QED
    BY <1>1, <1>3, <1>4, <2>2, <2>3, QuietStep DEF Private, Reach
<1> QED
    BY <1>1, <1>5, <1>6 DEF Unlink, StepOk, Request

\* READ with a handle of its own: nobody has closed it.
LEMMA RereadStep ==
    ASSUME IInv, NEW t \in Task, Reread(t) PROVE IInv'
<1> DEFINE h == task[t].fh
<1>1. task[t] \in Request /\ StepOk(task[t], DOMAIN open) /\ task[t].pc = "reread"
    BY DEF IInv, Reread
<1>2. h \in DOMAIN open /\ h \in Handle /\ h # None
    BY <1>1, InoAssumption DEF IInv, PrivateOk, Private, Types, Handle
<1>3. Evicting(t, {h}, "idle")
    BY <1>2 DEF Reread, IsOpen
<1> HIDE DEF h
<1>4. PICK q \in Request : /\ task' = [task EXCEPT ![t] = q]
                           /\ q.pc = "evict" /\ q.op = task[t].op /\ q.then = "idle"
                           /\ q.ino = task[t].ino
                           /\ q.fh = task[t].fh /\ q.ok = task[t].ok /\ q.todo = {h}
  <2>1. "idle" \in Step /\ {h} \in SUBSET Handle
    BY <1>2 DEF Step
  <2> QED
    BY <1>3, <2>1, EvictingKeeps
<1>5. Types'
    BY DEF IInv, Types, Reread
<1>6. StepOk(q, DOMAIN open) /\ task[t].todo = {} /\ ~\E j : IsReader(task[t], j)
    BY <1>1, <1>4 DEF StepOk, Private, IsReader
<1> QED
    BY <1>1, <1>2, <1>4, <1>5, <1>6, QuietStep DEF Private, Reach, Reread, h

\* WRITE's handle is open still; it goes on to be published, or back.
LEMMA WriteFileStep ==
    ASSUME IInv, NEW t \in Task, WriteFile(t) PROVE IInv'
<1> DEFINE h == task[t].fh
<1>1. task[t] \in Request /\ StepOk(task[t], DOMAIN open) /\ task[t].pc = "wwrite"
    BY DEF IInv, WriteFile
<1>2. h \in DOMAIN open /\ h \in Handle /\ h # None
    BY <1>1, InoAssumption DEF IInv, PrivateOk, Private, Types, Handle
<1>3. Types'
    BY DEF IInv, Types, WriteFile
<1>4. task[t].todo = {} /\ ~\E j : IsReader(task[t], j)
    BY <1>1 DEF StepOk, IsReader
<1>5. CASE Goto(t, "publish")
  <2>0. "publish" \in Step
    BY DEF Step
  <2>1. PICK q \in Request : /\ task' = [task EXCEPT ![t] = q]
              /\ q.pc = "publish" /\ q.op = task[t].op /\ q.then = task[t].then /\ q.ino = task[t].ino
              /\ q.fh = task[t].fh /\ q.ok = task[t].ok /\ q.todo = task[t].todo
    BY <1>5, <2>0, GotoForm
  <2>2. StepOk(q, DOMAIN open)
    BY <1>1, <1>2, <2>1 DEF StepOk, Private
  <2> QED
    BY <1>1, <1>2, <1>3, <1>4, <2>1, <2>2, QuietStep DEF Private, Reach, WriteFile
<1>6. CASE Evicting(t, {h}, "idle")
  <2> HIDE DEF h
  <2>1. PICK q \in Request : /\ task' = [task EXCEPT ![t] = q]
                             /\ q.pc = "evict" /\ q.op = task[t].op /\ q.then = "idle"
                             /\ q.ino = task[t].ino
                             /\ q.fh = task[t].fh /\ q.ok = task[t].ok /\ q.todo = {h}
    <3>1. "idle" \in Step /\ {h} \in SUBSET Handle
      BY <1>2 DEF Step
    <3> QED
      BY <1>6, <3>1, EvictingKeeps
  <2>2. StepOk(q, DOMAIN open)
    BY <1>1, <2>1 DEF StepOk, Private
  <2> QED
    BY <1>1, <1>2, <1>3, <1>4, <2>1, <2>2, QuietStep DEF Private, Reach, WriteFile, h
<1> QED
    BY <1>2, <1>5, <1>6 DEF WriteFile, IsOpen

\* All handed back: the request goes on.
LEMMA EvictedStep ==
    ASSUME IInv, NEW t \in Task, Evicted(t) PROVE IInv'
<1>1. task[t] \in Request /\ StepOk(task[t], DOMAIN open) /\ task[t].pc = "evict" /\ task[t].todo = {}
    BY DEF IInv, Evicted
<1>2. Types'
    BY DEF IInv, Types, Evicted
<1>3. CASE task[t].then = "idle"
  <2>1. ~(\E i : IsReader(task[t], i)) /\ task[t].pc \notin Private
    BY <1>1, <1>3 DEF IsReader, Private
  <2> QED
    BY <1>1, <1>2, <1>3, <2>1, ReplyStep DEF Evicted, Reply
<1>4. CASE task[t].then # "idle"
  <2> DEFINE q == [task[t] EXCEPT !.pc = task[t].then, !.then = "idle"]
  <2>1. q \in Request /\ task' = [task EXCEPT ![t] = q]
    BY <1>1, <1>4 DEF Evicted, IInv, Request, Step
  <2>2. /\ q.op = task[t].op /\ q.pc = task[t].then /\ q.ino = task[t].ino /\ q.fh = task[t].fh
        /\ q.todo = task[t].todo /\ q.ok = task[t].ok
    BY <1>1 DEF Request
  <2> HIDE DEF q
  <2>3. StepOk(q, DOMAIN open) /\ q.pc \notin Private /\ \A i : IsReader(task[t], i) => IsReader(q, i)
    BY <1>1, <1>4, <2>2 DEF StepOk, Private, IsReader
  <2> QED
    BY <1>1, <1>2, <2>1, <2>2, <2>3, QuietStep DEF Private, Reach, Evicted
<1> QED
    BY <1>3, <1>4

\* A handle is opened, and is the request's own.
LEMMA OpenedStep ==
    ASSUME IInv, NEW t \in Task, NEW q \in Request, task' = [task EXCEPT ![t] = q],
           NEW i \in Ino, NEW w \in BOOLEAN, OpenNew(i, w),
           UNCHANGED <<pool, order, told, spawned, up>>,
           hash' \in [Ino -> 0..MaxHash], dir' \in [Name -> Ino \cup {None}], requests' \in 0..MaxRequests,
           q.pc \in Private, q.fh = next, q.ino = i, q.todo = {},
           q.pc \in {"share", "reread"} => q.op = "READ",
           task[t].todo = {}, task[t].pc \notin Private, ~\E j : IsReader(task[t], j)
    PROVE  IInv'
<1>0. task'[t] = q /\ \A u \in Task \ {t} : task'[u] = task[u]
    BY DEF IInv
<1>1. /\ next \in Handle /\ next # None /\ next' = next + 1 /\ next \notin DOMAIN open
      /\ DOMAIN open' = DOMAIN open \cup {next}
      /\ \A h \in DOMAIN open : open'[h] = open[h]
      /\ open'[next] = [ino |-> i, write |-> w, hash |-> hash[i]]
    BY BoundAssumption, InoAssumption DEF OpenNew, IInv, Types, FreshInv, Handle
<1>2. Types'
  <2>1. open'[next] \in OpenFile
    BY <1>1, BoundAssumption DEF OpenFile, IInv, Types
  <2>2. DOMAIN open' \subseteq Handle /\ \A h \in DOMAIN open' : open'[h] \in OpenFile
    BY <1>1, <2>1 DEF IInv, Types
  <2>3. next' \in 1..(MaxHandle + 1)
    BY <1>1, BoundAssumption DEF Handle
  <2> QED
    BY <2>2, <2>3 DEF IInv, Types
<1>3. PoolStep(t, q)
  <2>1. \A j \in DOMAIN pool : pool[j] \in Entry
    BY DEF IInv, GoodPool, Pool
  <2> QED
    BY <2>1 DEF PoolStep, IInv, Pool, GoodPool, Entry
<1>4. OpenStep(t)
    BY <1>1 DEF OpenStep
<1>5. next \in Reach(t)
    BY <1>1, BoundAssumption DEF Reach, Handle
<1>6. StepOk(q, DOMAIN open')
    BY <1>1 DEF StepOk, Private
<1>7. HandStep(t, q)
    BY DEF HandStep
<1>8. /\ \A u \in Task : next \notin task[u].todo /\ task[u].fh # next
      /\ \A j \in DOMAIN pool : pool[j].fh # next
      /\ next \notin spawned
  <2>1. next \in Nat /\ ~(next < next)
    BY <1>1, BoundAssumption DEF Handle
  <2> QED
    BY <1>1, <2>1 DEF IInv, FreshInv
<1>9. PrivateOk(t)'
    BY <1>0, <1>1, <1>8 DEF PrivateOk
<1> QED
    BY <1>2, <1>3, <1>4, <1>5, <1>6, <1>7, <1>9, TaskStep

\* The pooled handle is shared, and pinned for the request.
LEMMA SharedStep ==
    ASSUME IInv, NEW t \in Task, NEW q \in Request, task' = [task EXCEPT ![t] = q],
           NEW i \in DOMAIN pool, SetPool(AcquireShared(Pool, i)),
           UNCHANGED <<open, next, spawned>>, Types',
           IsReader(q, i), ~\E j : IsReader(task[t], j),
           q.fh = pool[i].fh, StepOk(q, DOMAIN open),
           task[t].todo \subseteq q.todo, q.todo \subseteq Reach(t),
           task[t].pc \in Private => task[t].fh \in q.todo
    PROVE  IInv'
<1>0. task'[t] = q /\ \A u \in Task \ {t} : task'[u] = task[u]
    BY DEF IInv
<1>1. /\ GoodPool(Pool)' /\ DOMAIN pool' = DOMAIN pool
      /\ \A j \in DOMAIN pool : pool[j].pins \in Nat
      /\ \A j \in DOMAIN pool :
            /\ pool'[j].fh = pool[j].fh
            /\ pool'[j].pins = IF j = i THEN pool[j].pins + 1 ELSE pool[j].pins
  <2> DEFINE P == Pool
             R == AcquireShared(P, i)
  <2>1. GoodPool(P) /\ P.handles = pool /\ \A j \in DOMAIN pool : pool[j].pins \in Nat
    BY DEF IInv, Pool, GoodPool, Entry
  <2>2. pool' = R.handles /\ order' = R.order
    BY DEF SetPool
  <2> HIDE DEF P
  <2>3. /\ GoodPool(R) /\ DOMAIN R.handles = DOMAIN P.handles
        /\ \A j \in DOMAIN P.handles :
                /\ R.handles[j].fh = P.handles[j].fh
                /\ R.handles[j].pins = IF j = i THEN P.handles[j].pins + 1 ELSE P.handles[j].pins
    BY <2>1, AcquireGood
  <2> HIDE DEF R
  <2>4. GoodPool(Pool)'
    BY <2>2, <2>3 DEF GoodPool, Pool
  <2> QED
    BY <2>1, <2>2, <2>3, <2>4
<1>2. PoolStep(t, q)
    BY <1>1 DEF PoolStep
<1>3. OpenStep(t)
    BY DEF OpenStep
<1>4. q.fh \in Reach(t) /\ q.pc \notin Private
    BY DEF Reach, IsReader, Private
<1>5. HandStep(t, q)
    BY <1>1 DEF HandStep
<1>6. PrivateOk(t)'
    BY <1>0, <1>4 DEF PrivateOk
<1> QED
    BY <1>2, <1>3, <1>4, <1>5, <1>6, TaskStep

\* Entries go from the pool, and their handles are released or were closed.
LEMMA DroppedStep ==
    ASSUME IInv, NEW t \in Task, NEW q \in Request, task' = [task EXCEPT ![t] = q],
           NEW i \in Ino, SetPool(Drop(Pool, {i})),
           UNCHANGED <<open, next, spawned>>, Types',
           ~\E j : IsReader(task[t], j), task[t].pc \notin Private, q.pc \notin Private,
           q.fh \in {task[t].fh, None}, StepOk(q, DOMAIN open),
           task[t].todo \subseteq q.todo, q.todo \subseteq Reach(t),
           i \in DOMAIN pool => pool[i].fh \in q.todo \/ pool[i].fh \notin DOMAIN open
    PROVE  IInv'
<1>0. task'[t] = q /\ \A u \in Task \ {t} : task'[u] = task[u]
    BY DEF IInv
<1>1. /\ GoodPool(Pool)' /\ DOMAIN pool' = DOMAIN pool \ {i}
      /\ \A j \in DOMAIN pool \ {i} : pool'[j] = pool[j] /\ pool[j].pins \in Nat
  <2> DEFINE P == Pool
             R == Drop(P, {i})
  <2>1. GoodPool(P) /\ P.handles = pool /\ \A j \in DOMAIN pool : pool[j].pins \in Nat
    BY DEF IInv, Pool, GoodPool, Entry
  <2>2. pool' = R.handles /\ order' = R.order
    BY DEF SetPool
  <2> HIDE DEF P
  <2>3. /\ GoodPool(R) /\ DOMAIN R.handles = DOMAIN P.handles \ {i}
        /\ \A j \in DOMAIN P.handles \ {i} : R.handles[j] = P.handles[j]
    BY <2>1, DropGood
  <2> HIDE DEF R
  <2>4. GoodPool(Pool)'
    BY <2>2, <2>3 DEF GoodPool, Pool
  <2> QED
    BY <2>1, <2>2, <2>3, <2>4
<1>2. PoolStep(t, q)
    BY <1>1 DEF PoolStep
<1>3. OpenStep(t)
    BY DEF OpenStep
<1>4. q.fh \in Reach(t) \cup {None}
    BY DEF Reach
<1>5. HandStep(t, q)
    BY <1>1 DEF HandStep
<1>6. PrivateOk(t)'
    BY <1>0 DEF PrivateOk
<1> QED
    BY <1>2, <1>3, <1>4, <1>5, <1>6, TaskStep

\* The pool becomes H, where reader q may have pinned the entry of inode i.
PinnedFrom(H, i, q) ==
    /\ DOMAIN pool' = DOMAIN H
    /\ \A j \in DOMAIN pool' :
          /\ pool'[j].fh = H[j].fh
          /\ \/ pool'[j].pins = H[j].pins
             \/ pool'[j].pins = H[j].pins + 1 /\ j = i /\ IsReader(q, j)

\* What then is left of the pool P to which the entry of inode i was added.
LEMMA PinnedPool ==
    ASSUME NEW H, NEW i, NEW q, PinnedFrom(H, i, q), NEW h, NEW P,
           i \in DOMAIN H, H[i] = [fh |-> h, pins |-> 0],
           \A j \in DOMAIN H \ {i} : j \in DOMAIN P /\ H[j] = P[j]
    PROVE  /\ DOMAIN pool' = DOMAIN H /\ pool'[i].fh = h
           /\ pool'[i].pins = 0 \/ (pool'[i].pins = 1 /\ IsReader(q, i))
           /\ \A j \in DOMAIN H \ {i} :
                 j \in DOMAIN P /\ pool'[j].fh = P[j].fh /\ pool'[j].pins = P[j].pins
    BY DEF PinnedFrom

\* The request's own handle becomes the pooled one of its inode.
LEMMA InsertedStep ==
    ASSUME IInv, NEW t \in Task, NEW q \in Request, task' = [task EXCEPT ![t] = q],
           task[t].pc \in Private, task[t].pc # "evict",
           NEW R, R = Insert(Pool, task[t].ino, task[t].fh),
           UNCHANGED <<open, next, spawned>>, Types',
           GoodPool(Pool)', PinnedFrom(R.pool.handles, task[t].ino, q),
           q.pc = "evict", q.todo = R.back, q.fh = task[t].fh, StepOk(q, DOMAIN open)
    PROVE  IInv'
<1> DEFINE i == task[t].ino
           h == task[t].fh
           P == Pool
<1>0. task'[t] = q /\ \A u \in Task \ {t} : task'[u] = task[u]
    BY DEF IInv
<1>1. /\ i \in Ino /\ h \in Handle /\ h # None /\ GoodPool(P) /\ P.handles = pool
      /\ task[t].todo = {} /\ ~\E j : IsReader(task[t], j)
      /\ \A j \in DOMAIN pool : pool[j].pins \in Nat
  <2>1. task[t] \in Request /\ StepOk(task[t], DOMAIN open) /\ GoodPool(P) /\ P.handles = pool
    BY DEF IInv, Pool
  <2>2. i \in Ino /\ h \in Handle /\ h # None /\ task[t].todo = {}
    BY <2>1 DEF StepOk, Private, Request
  <2>3. ~\E j : IsReader(task[t], j)
    BY DEF IsReader, Private
  <2> QED
    BY <2>1, <2>2, <2>3 DEF GoodPool, Entry
<1>2. R = Insert(P, i, h)
    OBVIOUS
<1>3. i = task[t].ino /\ h = task[t].fh
    OBVIOUS
<1> HIDE DEF i, h, P
<1>4. /\ i \in DOMAIN R.pool.handles /\ R.pool.handles[i] = [fh |-> h, pins |-> 0]
      /\ \A j \in DOMAIN R.pool.handles \ {i} :
            j \in DOMAIN P.handles /\ R.pool.handles[j] = P.handles[j]
      /\ \A g \in R.back : \E j \in DOMAIN P.handles :
            g = P.handles[j].fh /\ (j = i \/ j \notin DOMAIN R.pool.handles)
      /\ \A j \in DOMAIN P.handles :
            j = i \/ j \notin DOMAIN R.pool.handles => P.handles[j].fh \in R.back
    BY <1>1, <1>2, InsertGood
<1>a. /\ DOMAIN pool' = DOMAIN R.pool.handles /\ i \in DOMAIN pool' /\ pool'[i].fh = h
      /\ pool'[i].pins = 0 \/ (pool'[i].pins = 1 /\ IsReader(q, i))
      /\ \A j \in DOMAIN pool' \ {i} :
            j \in DOMAIN pool /\ pool'[j].fh = pool[j].fh /\ pool'[j].pins = pool[j].pins
  <2> DEFINE H == R.pool.handles
  <2>1. /\ PinnedFrom(H, i, q) /\ i \in DOMAIN H /\ H[i] = [fh |-> h, pins |-> 0]
        /\ \A j \in DOMAIN H \ {i} : j \in DOMAIN pool /\ H[j] = pool[j]
    BY <1>1, <1>3, <1>4
  <2> HIDE DEF H
  <2>2. /\ DOMAIN pool' = DOMAIN H /\ pool'[i].fh = h
        /\ pool'[i].pins = 0 \/ (pool'[i].pins = 1 /\ IsReader(q, i))
        /\ \A j \in DOMAIN H \ {i} :
              j \in DOMAIN pool /\ pool'[j].fh = pool[j].fh /\ pool'[j].pins = pool[j].pins
    BY <2>1, PinnedPool
  <2> QED
    BY <2>1, <2>2 DEF H
<1>5. PoolStep(t, q)
  <2>1. ASSUME NEW j \in DOMAIN pool', j # i
        PROVE  /\ j \in DOMAIN pool /\ pool'[j].fh = pool[j].fh /\ pool'[j].pins = pool[j].pins
    BY <1>a, <2>1
  <2>2. pool'[i].pins = 0 \/ (pool'[i].pins <= 1 /\ IsReader(q, i))
    BY <1>a
  <2>3. \A j \in DOMAIN pool' :
            \/ j \in DOMAIN pool /\ pool'[j].fh = pool[j].fh
            \/ j = task[t].ino /\ pool'[j].fh = task[t].fh /\ task[t].pc \in Private
    BY <1>3, <1>a, <2>1
  <2>4. ASSUME NEW j \in DOMAIN pool', j # i
        PROVE  /\ j \in DOMAIN pool /\ pool'[j].pins <= pool[j].pins
               /\ (IsReader(task[t], j) => IsReader(q, j))
    BY <1>1, <2>1, <2>4
  <2> QED
    BY <2>2, <2>3, <2>4 DEF PoolStep
<1>6. OpenStep(t)
    BY DEF OpenStep
<1>7. q.todo \subseteq Reach(t) /\ q.fh \in Reach(t)
  <2>1. q.todo \subseteq {pool[j].fh : j \in DOMAIN pool}
    <3> SUFFICES ASSUME NEW g \in R.back PROVE \E j \in DOMAIN pool : g = pool[j].fh
      OBVIOUS
    <3> QED
      BY <1>1, <1>4
  <2> QED
    BY <1>1, <1>3, <2>1 DEF Reach
<1>8. HandStep(t, q)
  <2>1. \A j \in DOMAIN pool : \/ j \in DOMAIN pool' /\ pool'[j].fh = pool[j].fh
                               \/ pool[j].fh \in q.todo
    BY <1>1, <1>4, <1>a
  <2> QED
    BY <1>1, <1>3, <1>a, <2>1 DEF HandStep
<1>9. PrivateOk(t)'
    BY <1>0 DEF PrivateOk, Private
<1> QED
    BY <1>5, <1>6, <1>7, <1>8, <1>9, TaskStep

\* READ starts.
LEMMA ReadStep ==
    ASSUME IInv, NEW t \in Task, NEW i \in Ino, Read(t, i) PROVE IInv'
<1>1. CASE Has(Pool, i)
  <2> DEFINE h == Peek(Pool, i)
  <2>0. i \in DOMAIN pool /\ h = pool[i].fh /\ h \in Handle \cup {None} /\ h # None
    BY <1>1, InoAssumption DEF Has, Peek, Pool, IInv, GoodPool, Entry, Handle
  <2>1. SetPool(AcquireShared(Pool, i))
    BY <1>1 DEF Read
  <2>a. /\ "read" \in Step /\ h \in Handle \cup {None} /\ "READ" \in {"READ", "WRITE", "CREATE", "REMOVE"}
        /\ Start(t, "READ", i, "read", h)
    BY <1>1, <2>0 DEF Read, Step
  <2> HIDE DEF h
  <2>2. PICK q \in Request : /\ task' = [task EXCEPT ![t] = q]
                             /\ q.pc = "read" /\ q.op = "READ" /\ q.then = "idle" /\ q.ino = i
                             /\ q.fh = h /\ q.ok = TRUE /\ q.todo = {}
    BY <2>a, StartForm
  <2>3. /\ task[t].pc = "idle" /\ task[t].todo = {} /\ requests' \in 0..MaxRequests
        /\ ~\E j : IsReader(task[t], j)
    BY <2>a, StartForm
  <2>4. Types'
    BY <2>3 DEF IInv, Types, Read
  <2>5. StepOk(q, DOMAIN open) /\ IsReader(q, i)
    BY <2>0, <2>2 DEF StepOk, Private, IsReader
  <2> QED
    BY <2>0, <2>1, <2>2, <2>3, <2>4, <2>5, SharedStep DEF Private, Read
<1>2. CASE ~Has(Pool, i)
  <2>1. "open" \in Step /\ Start(t, "READ", i, "open", None) /\ None \in Handle \cup {None}
    BY <1>2 DEF Read, Step
  <2>2. PICK q \in Request : /\ task' = [task EXCEPT ![t] = q]
                             /\ q.pc = "open" /\ q.op = "READ" /\ q.then = "idle" /\ q.ino = i
                             /\ q.fh = None /\ q.ok = TRUE /\ q.todo = {}
    BY <2>1, StartForm
  <2>3. /\ task[t].pc = "idle" /\ task[t].todo = {} /\ requests' \in 0..MaxRequests
        /\ ~\E j : IsReader(task[t], j)
    BY <2>1, StartForm
  <2>4. Types'
    BY <2>3 DEF IInv, Types, Read
  <2>5. StepOk(q, DOMAIN open) /\ q.pc \notin Private
    BY <2>2 DEF StepOk, Private
  <2>6. UNCHANGED <<pool, order, open, next, spawned>>
    BY <1>2 DEF Read
  <2> QED
    BY <2>2, <2>3, <2>4, <2>5, <2>6, QuietStep DEF Private
<1> QED
    BY <1>1, <1>2

\* CREATE starts with a handle of its own.
LEMMA CreateStep ==
    ASSUME IInv, NEW t \in Task, NEW i \in Ino, NEW n \in Name, Create(t, n, i) PROVE IInv'
<1>1. /\ "publish" \in Step /\ Start(t, "CREATE", i, "publish", next)
      /\ next \in Handle \cup {None}
    BY BoundAssumption DEF Create, Step, OpenNew, IInv, Types, Handle
<1>2. PICK q \in Request : /\ task' = [task EXCEPT ![t] = q]
                           /\ q.pc = "publish" /\ q.op = "CREATE" /\ q.then = "idle" /\ q.ino = i
                           /\ q.fh = next /\ q.ok = TRUE /\ q.todo = {}
    BY <1>1, StartForm
<1>3. /\ task[t].pc = "idle" /\ task[t].todo = {} /\ requests' \in 0..MaxRequests
      /\ ~\E j : IsReader(task[t], j)
    BY <1>1, StartForm
<1>4. hash' \in [Ino -> 0..MaxHash] /\ dir' \in [Name -> Ino \cup {None}]
    BY BoundAssumption DEF Create, IInv, Types
<1>5. OpenNew(i, TRUE) /\ UNCHANGED <<pool, order, told, spawned, up>>
    BY DEF Create
<1>6. q.pc \in Private /\ ~(q.pc \in {"share", "reread"}) /\ task[t].pc \notin Private
    BY <1>2, <1>3 DEF Private
<1> QED
    BY <1>2, <1>3, <1>4, <1>5, <1>6, OpenedStep

\* An open within a request: of READ, the second one of READ, of WRITE.
LEMMA OpenWithStep ==
    ASSUME IInv, NEW t \in Task, task[t].pc \in {"open", "reopen", "wopen"},
           NEW pc \in {"share", "reread", "wwrite"}, NEW w \in BOOLEAN,
           pc # "wwrite" => task[t].pc # "wopen",
           OpenNew(task[t].ino, w), With(t, pc, next),
           UNCHANGED <<pool, order, dir, hash, told, spawned, up, requests>>
    PROVE  IInv'
<1>1. task[t] \in Request /\ StepOk(task[t], DOMAIN open)
    BY DEF IInv
<1>2. pc \in Step /\ pc \in Private /\ next \in Handle \cup {None}
    BY BoundAssumption DEF Step, Private, OpenNew, IInv, Types, Handle
<1>3. PICK q \in Request : /\ task' = [task EXCEPT ![t] = q]
              /\ q.pc = pc /\ q.op = task[t].op /\ q.then = task[t].then /\ q.ino = task[t].ino
              /\ q.fh = next /\ q.ok = task[t].ok /\ q.todo = task[t].todo
    BY <1>2, WithForm
<1>4. /\ task[t].todo = {} /\ task[t].pc \notin Private /\ ~\E j : IsReader(task[t], j)
      /\ task[t].ino \in Ino /\ (q.pc \in {"share", "reread"} => q.op = "READ")
    BY <1>1, <1>3 DEF StepOk, Private, IsReader
<1>5. hash' \in [Ino -> 0..MaxHash] /\ dir' \in [Name -> Ino \cup {None}] /\ requests' \in 0..MaxRequests
    BY DEF IInv, Types
<1>6. UNCHANGED <<pool, order, told, spawned, up>>
    OBVIOUS
<1> QED
    BY <1>2, <1>3, <1>4, <1>5, <1>6, OpenedStep

\* READ opens a handle after its pooled one turned out to be gone.
LEMMA ReopenStep ==
    ASSUME IInv, NEW t \in Task, Reopen(t) PROVE IInv'
<1>1. task[t] \in Request /\ StepOk(task[t], DOMAIN open) /\ task[t].pc = "reopen"
    BY DEF IInv, Reopen
<1>2. CASE OpenNew(task[t].ino, FALSE) /\ With(t, "reread", next)
    BY <1>1, <1>2, OpenWithStep DEF Reopen
<1>3. CASE Reply(t) /\ UNCHANGED <<open, next>>
  <2>1. ~(\E i : IsReader(task[t], i)) /\ task[t].todo = {} /\ task[t].pc \notin Private
    BY <1>1 DEF IsReader, StepOk, Private
  <2>2. Types'
    BY <1>3 DEF IInv, Types, Reopen
  <2> QED
    BY <1>3, <2>1, <2>2, ReplyStep DEF Reopen, Reply
<1> QED
    BY <1>2, <1>3 DEF Reopen

\* WRITE opens a handle for an inode that has none in the pool.
LEMMA WriteOpenStep ==
    ASSUME IInv, NEW t \in Task, WriteOpen(t) PROVE IInv'
<1>1. task[t] \in Request /\ StepOk(task[t], DOMAIN open) /\ task[t].pc = "wopen"
    BY DEF IInv, WriteOpen
<1>2. CASE OpenNew(task[t].ino, TRUE) /\ With(t, "wwrite", next)
    BY <1>1, <1>2, OpenWithStep DEF WriteOpen
<1>3. CASE Reply(t) /\ UNCHANGED <<open, next>>
  <2>1. ~(\E i : IsReader(task[t], i)) /\ task[t].todo = {} /\ task[t].pc \notin Private
    BY <1>1 DEF IsReader, StepOk, Private
  <2>2. Types'
    BY <1>3 DEF IInv, Types, WriteOpen
  <2> QED
    BY <1>3, <2>1, <2>2, ReplyStep DEF WriteOpen, Reply
<1> QED
    BY <1>2, <1>3 DEF WriteOpen

\* READ opens a handle, or finds one that another READ has pooled since.
LEMMA ReadOpenStep ==
    ASSUME IInv, NEW t \in Task, ReadOpen(t) PROVE IInv'
<1> DEFINE i == task[t].ino
<1>1. task[t] \in Request /\ StepOk(task[t], DOMAIN open) /\ task[t].pc = "open"
    BY DEF IInv, ReadOpen
<1>2. CASE OpenNew(i, FALSE) /\ With(t, "share", next) /\ UNCHANGED <<pool, order>>
    BY <1>1, <1>2, OpenWithStep DEF ReadOpen
<1>a. ASSUME UNCHANGED <<open, next>> PROVE Types'
    BY <1>a DEF IInv, Types, ReadOpen
<1>b. /\ ~(\E j : IsReader(task[t], j)) /\ task[t].todo = {} /\ task[t].pc \notin Private
      /\ i \in Ino /\ task[t].op = "READ"
    BY <1>1 DEF IsReader, StepOk, Private
<1>3. CASE Reply(t) /\ UNCHANGED <<pool, order, open, next>>
    BY <1>3, <1>a, <1>b, ReplyStep DEF ReadOpen, Reply
<1>4. CASE /\ Has(Pool, i) /\ With(t, "read", Peek(Pool, i)) /\ SetPool(AcquireShared(Pool, i))
           /\ UNCHANGED <<open, next>>
  <2> DEFINE h == Peek(Pool, i)
  <2>0. i \in DOMAIN pool /\ h = pool[i].fh /\ h \in Handle /\ h # None /\ With(t, "read", h)
    BY <1>4, InoAssumption DEF Has, Peek, Pool, IInv, GoodPool, Entry, Handle
  <2>1. "read" \in Step /\ i = task[t].ino
    BY DEF Step
  <2> HIDE DEF h
  <2>2. PICK q \in Request : /\ task' = [task EXCEPT ![t] = q]
              /\ q.pc = "read" /\ q.op = task[t].op /\ q.then = task[t].then /\ q.ino = task[t].ino
              /\ q.fh = h /\ q.ok = task[t].ok /\ q.todo = task[t].todo
    BY <2>0, <2>1, WithForm
  <2> HIDE DEF i
  <2>3. StepOk(q, DOMAIN open) /\ IsReader(q, i)
    BY <1>b, <2>0, <2>1, <2>2 DEF StepOk, Private, IsReader
  <2>4. UNCHANGED <<open, next, spawned>> /\ SetPool(AcquireShared(Pool, i))
    BY <1>4 DEF ReadOpen
  <2> QED
    BY <1>4, <1>a, <1>b, <2>0, <2>2, <2>3, <2>4, SharedStep
<1> QED
    BY <1>2, <1>3, <1>4 DEF ReadOpen

\* What a request inserts and gets back.
LEMMA InsertTypes ==
    ASSUME IInv, NEW i \in Ino, NEW h \in Handle
    PROVE  LET R == Insert(Pool, i, h) IN
           /\ GoodPool(R.pool) /\ i \in DOMAIN R.pool.handles
           /\ R.back \in SUBSET Handle
<1> DEFINE P == Pool
<1>1. GoodPool(P) /\ P.handles = pool /\ \A j \in DOMAIN pool : pool[j].fh \in Handle
    BY DEF IInv, Pool, GoodPool, Entry
<1>2. P = Pool
    OBVIOUS
<1> HIDE DEF P
<1>3. LET R == Insert(P, i, h) IN
      /\ GoodPool(R.pool)
      /\ i \in DOMAIN R.pool.handles /\ R.pool.handles[i] = [fh |-> h, pins |-> 0]
      /\ \A j \in DOMAIN R.pool.handles \ {i} :
            j \in DOMAIN P.handles /\ R.pool.handles[j] = P.handles[j]
      /\ \A g \in R.back : \E j \in DOMAIN P.handles :
            g = P.handles[j].fh /\ (j = i \/ j \notin DOMAIN R.pool.handles)
      /\ \A j \in DOMAIN P.handles :
            j = i \/ j \notin DOMAIN R.pool.handles => P.handles[j].fh \in R.back
    BY <1>1, InsertGood
<1> QED
    BY <1>1, <1>2, <1>3

\* The opened handle is pooled, or given back where another is pooled already.
LEMMA ShareStep ==
    ASSUME IInv, NEW t \in Task, Share(t) PROVE IInv'
<1> DEFINE i == task[t].ino
           h == task[t].fh
           ins == Insert(Pool, i, h)
<1>1. task[t] \in Request /\ StepOk(task[t], DOMAIN open) /\ task[t].pc = "share"
    BY DEF IInv, Share
<1>2. /\ ~(\E j : IsReader(task[t], j)) /\ task[t].todo = {} /\ task[t].pc \in Private
      /\ i \in Ino /\ task[t].op = "READ" /\ h \in Handle /\ h # None
    BY <1>1 DEF IsReader, StepOk, Private, Request
<1>3. Types' /\ UNCHANGED <<open, next, spawned>> /\ "read" \in Step
    BY DEF IInv, Types, Share, Step
<1>4. CASE Has(Pool, i)
  <2> DEFINE g == Peek(Pool, i)
  <2>0. i \in DOMAIN pool /\ g = pool[i].fh /\ g \in Handle \cup {None} /\ g # None
    BY <1>4, InoAssumption DEF Has, Peek, Pool, IInv, GoodPool, Entry, Handle
  <2>1. /\ EvictingFor(t, {h}, "read", g)
        /\ SetPool(AcquireShared(Pool, i)) /\ {h} \in SUBSET Handle
    BY <1>2, <1>4 DEF Share, EvictingFor
  <2> HIDE DEF h, g
  <2>2. PICK q \in Request : /\ task' = [task EXCEPT ![t] = q]
              /\ q.pc = "evict" /\ q.op = task[t].op /\ q.then = "read" /\ q.ino = task[t].ino
              /\ q.fh = g /\ q.ok = task[t].ok /\ q.todo = {h}
    BY <1>3, <2>0, <2>1, EvictingForm
  <2>3. StepOk(q, DOMAIN open) /\ IsReader(q, i)
    BY <1>2, <2>0, <2>2 DEF StepOk, Private, IsReader
  <2>4. {h} \subseteq Reach(t) /\ h = task[t].fh
    BY <1>2 DEF Reach, h
  <2> HIDE DEF i
  <2> QED
    BY <1>2, <1>3, <2>0, <2>1, <2>2, <2>3, <2>4, SharedStep
<1>5. CASE ~Has(Pool, i)
  <2>1. Evicting(t, ins.back, "read") /\ SetPool(AcquireShared(ins.pool, i))
    BY <1>5 DEF Share
  <2>2. /\ GoodPool(ins.pool) /\ i \in DOMAIN ins.pool.handles
        /\ ins.back \in SUBSET Handle
    BY <1>2, InsertTypes
  <2>3. ins = Insert(Pool, task[t].ino, task[t].fh) /\ i = task[t].ino
    OBVIOUS
  <2> HIDE DEF ins, i
  <2>4. PICK q \in Request : /\ task' = [task EXCEPT ![t] = q]
              /\ q.pc = "evict" /\ q.op = task[t].op /\ q.then = "read" /\ q.ino = task[t].ino
              /\ q.fh = task[t].fh /\ q.ok = task[t].ok /\ q.todo = ins.back
    <3> DEFINE back == ins.back
    <3>1. back \in SUBSET Handle /\ Evicting(t, back, "read")
      BY <2>1, <2>2
    <3> HIDE DEF back
    <3>2. PICK q \in Request : /\ task' = [task EXCEPT ![t] = q]
              /\ q.pc = "evict" /\ q.op = task[t].op /\ q.then = "read" /\ q.ino = task[t].ino
              /\ q.fh = task[t].fh /\ q.ok = task[t].ok /\ q.todo = back
      BY <1>3, <3>1, EvictingKeeps
    <3> QED
      BY <3>2 DEF back
  <2>5. StepOk(q, DOMAIN open) /\ IsReader(q, i)
    BY <1>2, <2>3, <2>4 DEF StepOk, Private, IsReader
  <2> DEFINE P == ins.pool
             R == AcquireShared(P, i)
  <2>6. pool' = R.handles /\ order' = R.order
    BY <2>1 DEF SetPool
  <2>7. /\ GoodPool(R) /\ DOMAIN R.handles = DOMAIN P.handles
        /\ \A j \in DOMAIN P.handles :
                /\ R.handles[j].fh = P.handles[j].fh
                /\ R.handles[j].pins = IF j = i THEN P.handles[j].pins + 1 ELSE P.handles[j].pins
    <3>1. GoodPool(P) /\ i \in DOMAIN P.handles
      BY <2>2
    <3> HIDE DEF P
    <3> QED
      BY <3>1, AcquireGood
  <2> HIDE DEF R
  <2>8. GoodPool(Pool)'
    BY <2>6, <2>7 DEF GoodPool, Pool
  <2>9. PinnedFrom(ins.pool.handles, task[t].ino, q)
      BY <2>3, <2>5, <2>6, <2>7 DEF PinnedFrom
  <2> QED
    BY <1>1, <1>2, <1>3, <2>3, <2>4, <2>5, <2>8, <2>9, InsertedStep
<1> QED
    BY <1>4, <1>5

\* WRITE's or CREATE's handle is pooled.
LEMMA PublishStep ==
    ASSUME IInv, NEW t \in Task, Publish(t) PROVE IInv'
<1> DEFINE i == task[t].ino
           h == task[t].fh
           ins == Insert(Pool, i, h)
<1>1. task[t] \in Request /\ StepOk(task[t], DOMAIN open) /\ task[t].pc = "publish"
    BY DEF IInv, Publish
<1>2. i \in Ino /\ h \in Handle /\ task[t].pc \in Private
    BY <1>1 DEF StepOk, Private, Request
<1>3. Types' /\ UNCHANGED <<open, next, spawned>> /\ "idle" \in Step
    BY DEF IInv, Types, Publish, Step
<1>4. Evicting(t, ins.back, "idle") /\ SetPool(ins.pool)
    BY DEF Publish
<1>5. GoodPool(ins.pool) /\ ins.back \in SUBSET Handle
    BY <1>2, InsertTypes
<1>6. ins = Insert(Pool, task[t].ino, task[t].fh) /\ i = task[t].ino
    OBVIOUS
<1> HIDE DEF ins, i
<1>7. PICK q \in Request : /\ task' = [task EXCEPT ![t] = q]
              /\ q.pc = "evict" /\ q.op = task[t].op /\ q.then = "idle" /\ q.ino = task[t].ino
              /\ q.fh = task[t].fh /\ q.ok = task[t].ok /\ q.todo = ins.back
    <3> DEFINE back == ins.back
    <3>1. back \in SUBSET Handle /\ Evicting(t, back, "idle")
      BY <1>4, <1>5
    <3> HIDE DEF back
    <3>2. PICK q \in Request : /\ task' = [task EXCEPT ![t] = q]
              /\ q.pc = "evict" /\ q.op = task[t].op /\ q.then = "idle" /\ q.ino = task[t].ino
              /\ q.fh = task[t].fh /\ q.ok = task[t].ok /\ q.todo = back
      BY <1>3, <3>1, EvictingKeeps
    <3> QED
      BY <3>2 DEF back
<1>8. StepOk(q, DOMAIN open)
    BY <1>2, <1>6, <1>7 DEF StepOk, Private
<1>9. /\ pool' = ins.pool.handles /\ order' = ins.pool.order
    BY <1>4 DEF SetPool
<1>10. GoodPool(Pool)'
    BY <1>5, <1>9 DEF GoodPool, Pool
<1>11. PinnedFrom(ins.pool.handles, task[t].ino, q)
    BY <1>9 DEF PinnedFrom
<1> QED
    BY <1>1, <1>2, <1>3, <1>6, <1>7, <1>8, <1>10, <1>11, InsertedStep

\* The pin goes by inode: from an entry with a pin, if there is one.
LEMMA UnpinStep ==
    ASSUME IInv, NEW t \in Task, Unpin(t) PROVE IInv'
<1> DEFINE i == task[t].ino
<1>1. task[t] \in Request /\ StepOk(task[t], DOMAIN open) /\ task[t].pc = "unpin"
    BY DEF IInv, Unpin
<1>2. Types' /\ UNCHANGED <<open, next, spawned>>
    BY DEF IInv, Types, Unpin
<1>3. PICK q \in Request : /\ task' = [task EXCEPT ![t] = q] /\ q.todo = {}
                           /\ q.fh \in {task[t].fh, None} /\ q.pc \notin Private
                           /\ StepOk(q, DOMAIN open)
  <2>1. CASE task[t].ok
    <3>1. Idle \in Request /\ task' = [task EXCEPT ![t] = Idle]
      BY <2>1 DEF Unpin, Reply, Idle, Request, Step
    <3>2. StepOk(Idle, DOMAIN open) /\ Idle.todo = {} /\ Idle.fh = None /\ Idle.pc \notin Private
      BY DEF StepOk, Idle, Private
    <3> QED
      BY <3>1, <3>2
  <2>2. CASE ~task[t].ok
    <3>1. "drop" \in Step /\ Goto(t, "drop")
      BY <2>2 DEF Unpin, Step
    <3>2. PICK q \in Request : /\ task' = [task EXCEPT ![t] = q]
              /\ q.pc = "drop" /\ q.op = task[t].op /\ q.then = task[t].then /\ q.ino = task[t].ino
              /\ q.fh = task[t].fh /\ q.ok = task[t].ok /\ q.todo = task[t].todo
      BY <3>1, GotoForm
    <3>3. StepOk(q, DOMAIN open) /\ q.todo = {} /\ q.pc \notin Private
      BY <1>1, <2>2, <3>2 DEF StepOk, Private
    <3> QED
      BY <3>2, <3>3
  <2> QED
    BY <2>1, <2>2
<1>4. task'[t] = q /\ \A u \in Task \ {t} : task'[u] = task[u]
    BY <1>3 DEF IInv
<1>5. /\ GoodPool(Pool)' /\ DOMAIN pool' = DOMAIN pool
      /\ \A j \in DOMAIN pool :
            /\ pool'[j].fh = pool[j].fh /\ pool[j].pins \in Nat
            /\ pool'[j].pins = IF j = i /\ pool[j].pins > 0 THEN pool[j].pins - 1 ELSE pool[j].pins
  <2> DEFINE P == Pool
             R == Unpinned(P, i)
  <2>1. GoodPool(P) /\ P.handles = pool /\ \A j \in DOMAIN pool : pool[j].pins \in Nat
    BY DEF IInv, Pool, GoodPool, Entry
  <2>2. pool' = R.handles /\ order' = R.order
    BY DEF SetPool, Unpin
  <2>3. P = [handles |-> P.handles, order |-> P.order]
    BY DEF Pool
  <2> HIDE DEF P, i
  <2>4. /\ GoodPool(R) /\ DOMAIN R.handles = DOMAIN P.handles
        /\ \A j \in DOMAIN P.handles :
                /\ R.handles[j].fh = P.handles[j].fh
                /\ R.handles[j].pins =
                        IF j = i /\ P.handles[j].pins > 0 THEN P.handles[j].pins - 1
                        ELSE P.handles[j].pins
    BY <2>1, <2>3, UnpinnedGood
  <2> HIDE DEF R
  <2>5. GoodPool(Pool)'
    BY <2>2, <2>4 DEF GoodPool, Pool
  <2> QED
    BY <2>1, <2>2, <2>4, <2>5
<1>6. \A j : IsReader(task[t], j) => j = i
    BY DEF IsReader
<1>7. PoolStep(t, q)
  <2> HIDE DEF i
  <2>1. ASSUME NEW j \in DOMAIN pool'
        PROVE  \/ pool'[j].pins = 0
               \/ /\ j \in DOMAIN pool
                  /\ \/ pool'[j].pins <= pool[j].pins /\ (IsReader(task[t], j) => IsReader(q, j))
                     \/ pool'[j].pins <= pool[j].pins - 1
    <3>1. CASE j # i
      BY <1>5, <1>6, <3>1
    <3>2. CASE j = i
      BY <1>5, <3>2
    <3> QED
      BY <3>1, <3>2
  <2> QED
    BY <1>5, <2>1 DEF PoolStep
<1>8. OpenStep(t)
    BY <1>2 DEF OpenStep
<1>9. task[t].todo = {} /\ task[t].pc \notin Private
    BY <1>1 DEF StepOk, Private
<1>10. HandStep(t, q)
    BY <1>2, <1>3, <1>5, <1>9 DEF HandStep
<1>11. PrivateOk(t)' /\ StepOk(q, DOMAIN open')
    BY <1>2, <1>3, <1>4 DEF PrivateOk
<1>12. q.todo \subseteq Reach(t) /\ q.fh \in Reach(t) \cup {None}
    BY <1>3 DEF Reach
<1> QED
    BY <1>2, <1>3, <1>7, <1>8, <1>10, <1>11, <1>12, TaskStep

\* EBADF: READ forgets the handle, which is closed; WRITE gives it back.
LEMMA DropEntryStep ==
    ASSUME IInv, NEW t \in Task, DropEntry(t) PROVE IInv'
<1> DEFINE i == task[t].ino
           h == task[t].fh
<1>1. task[t] \in Request /\ StepOk(task[t], DOMAIN open) /\ task[t].pc = "drop"
    BY DEF IInv, DropEntry
<1>2. Types' /\ UNCHANGED <<open, next, spawned>>
    BY DEF IInv, Types, DropEntry
<1>3. /\ i \in Ino /\ h \in Handle /\ h # None /\ task[t].todo = {} /\ task[t].pc \notin Private
      /\ ~\E j : IsReader(task[t], j)
    BY <1>1 DEF StepOk, Private, Request, IsReader
<1>4. PICK q \in Request : /\ task' = [task EXCEPT ![t] = q]
                           /\ q.pc \notin Private /\ q.fh \in {task[t].fh, None}
                           /\ StepOk(q, DOMAIN open) /\ q.todo \subseteq {h}
                           /\ h \in q.todo \/ h \notin DOMAIN open
  <2>1. CASE task[t].op = "READ"
    <3>1. With(t, "reopen", None) /\ "reopen" \in Step /\ None \in Handle \cup {None}
      BY <2>1 DEF DropEntry, Step
    <3>2. PICK q \in Request : /\ task' = [task EXCEPT ![t] = q]
              /\ q.pc = "reopen" /\ q.op = task[t].op /\ q.then = task[t].then /\ q.ino = task[t].ino
              /\ q.fh = None /\ q.ok = task[t].ok /\ q.todo = task[t].todo
      BY <3>1, WithForm
    <3>3. StepOk(q, DOMAIN open) /\ q.pc \notin Private /\ h \notin DOMAIN open /\ q.todo = {}
      BY <1>1, <1>3, <2>1, <3>2 DEF StepOk, Private
    <3> QED
      BY <3>2, <3>3
  <2>2. CASE task[t].op # "READ"
    <3>1. /\ EvictingFor(t, {h}, "wopen", None) /\ "wopen" \in Step /\ None \in Handle \cup {None}
          /\ {h} \in SUBSET Handle
      BY <1>3, <2>2 DEF DropEntry, EvictingFor, Step
    <3> HIDE DEF h
    <3>2. PICK q \in Request : /\ task' = [task EXCEPT ![t] = q]
              /\ q.pc = "evict" /\ q.op = task[t].op /\ q.then = "wopen" /\ q.ino = task[t].ino
              /\ q.fh = None /\ q.ok = task[t].ok /\ q.todo = {h}
      BY <3>1, EvictingForm
    <3>3. StepOk(q, DOMAIN open) /\ q.pc \notin Private
      BY <1>1, <1>3, <3>2 DEF StepOk, Private
    <3> QED
      BY <3>2, <3>3
  <2> QED
    BY <2>1, <2>2
<1>5. q.todo \subseteq Reach(t)
    BY <1>3, <1>4 DEF Reach
<1>6. CASE Peek(Pool, i) = h
  <2>1. i \in DOMAIN pool /\ pool[i].fh = h
    BY <1>3, <1>6 DEF Peek, Has, Pool
  <2>2. SetPool(Drop(Pool, {i}))
    BY <1>6 DEF DropEntry
  <2> HIDE DEF i, h
  <2> QED
    BY <1>2, <1>3, <1>4, <1>5, <2>1, <2>2, DroppedStep
<1>7. CASE Peek(Pool, i) # h
  <2>1. UNCHANGED <<pool, order>>
    BY <1>7 DEF DropEntry
  <2> HIDE DEF i, h
  <2>2. q.fh \in Reach(t) \cup {None}
    BY <1>3, <1>4 DEF Reach, h
  <2> QED
    BY <1>2, <1>3, <1>4, <1>5, <2>1, <2>2, QuietStep
<1> QED
    BY <1>6, <1>7

\* REMOVE takes the entry away and gives its handle back.
LEMMA PurgeStep ==
    ASSUME IInv, NEW t \in Task, Purge(t) PROVE IInv'
<1> DEFINE i == task[t].ino
           back == {Peek(Pool, i)} \ {None}
<1>1. task[t] \in Request /\ StepOk(task[t], DOMAIN open) /\ task[t].pc = "purge"
    BY DEF IInv, Purge
<1>2. Types' /\ UNCHANGED <<open, next, spawned>>
    BY DEF IInv, Types, Purge
<1>3. /\ i \in Ino /\ task[t].todo = {} /\ task[t].pc \notin Private
      /\ ~\E j : IsReader(task[t], j)
    BY <1>1 DEF StepOk, Private, IsReader
<1>4. /\ back \in SUBSET Handle /\ back \subseteq Reach(t)
      /\ i \in DOMAIN pool => pool[i].fh \in back
    BY InoAssumption DEF Peek, Has, Pool, IInv, GoodPool, Entry, Reach, Handle
<1>5. Evicting(t, back, "idle") /\ SetPool(Drop(Pool, {i})) /\ "idle" \in Step
    BY DEF Purge, Step
<1> HIDE DEF i, back
<1>6. PICK q \in Request : /\ task' = [task EXCEPT ![t] = q]
              /\ q.pc = "evict" /\ q.op = task[t].op /\ q.then = "idle" /\ q.ino = task[t].ino
              /\ q.fh = task[t].fh /\ q.ok = task[t].ok /\ q.todo = back
    BY <1>4, <1>5, EvictingKeeps
<1>7. StepOk(q, DOMAIN open) /\ q.pc \notin Private
    BY <1>3, <1>6 DEF StepOk, Private, i
<1> QED
    BY <1>2, <1>3, <1>4, <1>5, <1>6, <1>7, DroppedStep

\* One handle is released.
LEMMA EvictHandleStep ==
    ASSUME IInv, NEW t \in Task, NEW h \in Handle, EvictHandle(t, h) PROVE IInv'
<1> DEFINE q == [task[t] EXCEPT !.todo = @ \ {h}]
<1>1. /\ task[t] \in Request /\ StepOk(task[t], DOMAIN open) /\ task[t].pc = "evict"
      /\ h \in task[t].todo
    BY DEF IInv, EvictHandle
<1>2. q \in Request /\ task' = [task EXCEPT ![t] = q]
    BY <1>1 DEF EvictHandle, IInv, Request
<1>3. /\ q.op = task[t].op /\ q.pc = "evict" /\ q.then = task[t].then /\ q.ino = task[t].ino
      /\ q.fh = task[t].fh /\ q.todo = task[t].todo \ {h} /\ q.ok = task[t].ok
    BY <1>1 DEF Request
<1> HIDE DEF q
<1>4. /\ DOMAIN open' = DOMAIN open \ {h} /\ \A g \in DOMAIN open' : open'[g] = open[g]
      /\ UNCHANGED <<pool, order, next, dir, hash, told, spawned, up, requests>>
    BY DEF EvictHandle, Release
<1>5. Types'
    BY <1>4 DEF IInv, Types
<1>6. PoolStep(t, q)
  <2>1. \A j \in DOMAIN pool : pool[j] \in Entry
    BY DEF IInv, GoodPool, Pool
  <2>2. \A j : IsReader(task[t], j) => IsReader(q, j)
    BY <1>1, <1>3 DEF IsReader
  <2> QED
    BY <1>4, <2>1, <2>2 DEF PoolStep, IInv, Pool, GoodPool, Entry
<1>7. OpenStep(t)
    BY <1>1, <1>4 DEF OpenStep
<1>8. HandStep(t, q)
    BY <1>1, <1>3, <1>4 DEF HandStep, Private
<1>9. StepOk(q, DOMAIN open')
    BY <1>1, <1>3 DEF StepOk, Private
<1>10. PrivateOk(t)'
  <2>1. task'[t] = q
    BY <1>2 DEF IInv
  <2> QED
    BY <1>3, <2>1 DEF PrivateOk, Private
<1>11. q.todo \subseteq Reach(t) /\ q.fh \in Reach(t) \cup {None}
    BY <1>3 DEF Reach
<1> QED
    BY <1>2, <1>4, <1>5, <1>6, <1>7, <1>8, <1>9, <1>10, <1>11, TaskStep

----------------------------------------------------------------------------
(* The steps of the poll loop, the invalidator and the shutdown.           *)

\* Entries of I go from the pool to the tasks that release their handles.
LEMMA TakenStep ==
    ASSUME IInv, NEW I, SetPool(Drop(Pool, I)),
           spawned' = spawned \cup {pool[i].fh : i \in DOMAIN pool \cap I},
           UNCHANGED <<open, next, task>>, Types'
    PROVE  IInv'
<1>1. /\ GoodPool(Pool)' /\ DOMAIN pool' = DOMAIN pool \ I
      /\ \A j \in DOMAIN pool \ I : pool'[j] = pool[j]
      /\ \A j \in DOMAIN pool : pool[j] \in Entry
  <2> DEFINE P == Pool
             R == Drop(P, I)
  <2>1. GoodPool(P) /\ P.handles = pool /\ \A j \in DOMAIN pool : pool[j] \in Entry
    BY DEF IInv, Pool, GoodPool
  <2>2. pool' = R.handles /\ order' = R.order
    BY DEF SetPool
  <2> HIDE DEF P
  <2>3. /\ GoodPool(R) /\ DOMAIN R.handles = DOMAIN P.handles \ I
        /\ \A j \in DOMAIN P.handles \ I : R.handles[j] = P.handles[j]
    BY <2>1, DropGood
  <2> HIDE DEF R
  <2>4. GoodPool(Pool)'
    BY <2>2, <2>3 DEF GoodPool, Pool
  <2> QED
    BY <2>1, <2>2, <2>3, <2>4
<1>2. spawned' \subseteq Handle /\ spawned' \subseteq spawned \cup {pool[j].fh : j \in DOMAIN pool}
    BY <1>1 DEF IInv, Entry
<1>3. FreshInv'
    BY <1>1, <1>2 DEF IInv, FreshInv
<1>4. PooledInv'
    BY <1>1 DEF IInv, PooledInv
<1>5. PinsInv'
  <2>1. \A j : Readers(j)' = Readers(j)
    BY DEF Readers
  <2> QED
    BY <1>1, <2>1 DEF IInv, PinsInv
<1>6. \A t \in Task : StepOk(task'[t], DOMAIN open') /\ PrivateOk(t)'
  <2> SUFFICES ASSUME NEW t \in Task PROVE StepOk(task[t], DOMAIN open) /\ PrivateOk(t)'
    OBVIOUS
  <2>1. StepOk(task[t], DOMAIN open) /\ PrivateOk(t)
    BY DEF IInv
  <2> QED
    BY <1>1, <1>2, <2>1 DEF PrivateOk
<1>7. \A h \in DOMAIN open' : Located(h)'
  <2> SUFFICES ASSUME NEW h \in DOMAIN open PROVE Located(h)'
    OBVIOUS
  <2>0. Located(h) /\ h # None
    BY InoAssumption DEF IInv, Types, Handle
  <2>1. CASE Peek(Pool, open[h].ino) = h
    <3>1. open[h].ino \in DOMAIN pool /\ pool[open[h].ino].fh = h
      BY <2>0, <2>1 DEF Peek, Has, Pool
    <3>2. CASE open[h].ino \in I
      BY <3>1, <3>2 DEF Located
    <3>3. CASE open[h].ino \notin I
      BY <1>1, <3>1, <3>3 DEF Located, Peek, Has, Pool
    <3> QED
      BY <3>2, <3>3
  <2>2. CASE \E t \in Task : Owns(t, h)
    BY <2>2 DEF Located, Owns
  <2>3. CASE h \in spawned
    BY <2>3 DEF Located
  <2> QED
    BY <2>0, <2>1, <2>2, <2>3 DEF Located
<1> QED
    BY <1>1, <1>2, <1>3, <1>4, <1>5, <1>6, <1>7 DEF IInv

\* The invalidator drops the pooled handle of an inode that changed.
LEMMA InvalidateStep ==
    ASSUME IInv, NEW i \in Ino, Invalidate(i) PROVE IInv'
<1>1. Types'
    BY DEF IInv, Types, Invalidate
<1>2. {Peek(Pool, i)} \ {None} = {pool[j].fh : j \in DOMAIN pool \cap {i}}
    BY InoAssumption DEF Peek, Has, Pool, IInv, GoodPool, Entry, Handle
<1>3. /\ SetPool(Drop(Pool, {i})) /\ UNCHANGED <<open, next, task>>
      /\ spawned' = spawned \cup {pool[j].fh : j \in DOMAIN pool \cap {i}}
    BY <1>2 DEF Invalidate
<1> QED
    BY <1>1, <1>3, TakenStep

\* The shutdown empties the pool.
LEMMA DrainStep ==
    ASSUME IInv, Drain PROVE IInv'
<1>1. Types'
    BY DEF IInv, Types, Drain
<1>2. DOMAIN pool \cap Ino = DOMAIN pool
    BY DEF IInv, GoodPool, Pool
<1>3. /\ SetPool(Drop(Pool, Ino)) /\ UNCHANGED <<open, next, task>>
      /\ spawned' = spawned \cup {pool[j].fh : j \in DOMAIN pool \cap Ino}
    BY <1>2 DEF Drain
<1> QED
    BY <1>1, <1>3, TakenStep

\* A handle is released that is in no request's own hands.
LEMMA ReleaseSpawnedStep ==
    ASSUME IInv, NEW h \in Handle, ReleaseSpawned(h) PROVE IInv'
<1>1. /\ DOMAIN open' = DOMAIN open \ {h} /\ \A g \in DOMAIN open' : open'[g] = open[g]
      /\ spawned' = spawned \ {h} /\ h \in spawned
      /\ UNCHANGED <<pool, order, next, dir, hash, told, up, requests, task>>
    BY DEF ReleaseSpawned, Release
<1>2. Types' /\ FreshInv' /\ PooledInv' /\ GoodPool(Pool)' /\ spawned' \subseteq Handle
    BY <1>1 DEF IInv, Types, FreshInv, PooledInv, GoodPool, Pool
<1>3. PinsInv'
  <2>1. \A j : Readers(j)' = Readers(j)
    BY <1>1 DEF Readers
  <2> QED
    BY <1>1, <2>1 DEF IInv, PinsInv
<1>4. ASSUME NEW t \in Task PROVE StepOk(task'[t], DOMAIN open') /\ PrivateOk(t)'
  <2>1. StepOk(task[t], DOMAIN open) /\ PrivateOk(t)
    BY DEF IInv
  <2>2. StepOk(task'[t], DOMAIN open')
    BY <1>1, <2>1 DEF StepOk
  <2>3. PrivateOk(t)'
    BY <1>1, <2>1 DEF PrivateOk
  <2> QED
    BY <2>2, <2>3
<1>5. ASSUME NEW g \in DOMAIN open' PROVE Located(g)'
  <2>1. Located(g) /\ g # h /\ open'[g] = open[g]
    BY <1>1 DEF IInv
  <2> QED
    BY <1>1, <2>1 DEF Located, Owns, Peek, Has, Pool
<1> QED
    BY <1>1, <1>2, <1>3, <1>4, <1>5 DEF IInv

\* A remote change touches no handle.
LEMMA RemoteUpdateStep ==
    ASSUME IInv, NEW i \in Ino, RemoteUpdate(i) PROVE IInv'
<1>1. Types' /\ UNCHANGED <<pool, order, open, next, spawned, task>>
    BY BoundAssumption DEF IInv, Types, RemoteUpdate
<1>2. \A j : Readers(j)' = Readers(j)
    BY <1>1 DEF Readers
<1> QED
    BY <1>1, <1>2 DEF IInv, FreshInv, PooledInv, PinsInv, GoodPool, Pool, PrivateOk,
                      Located, Owns, Peek, Has

----------------------------------------------------------------------------

\* The invariant holds at the start.
LEMMA InitIInv == Init => IInv
<1> SUFFICES ASSUME Init PROVE IInv
    OBVIOUS
<1>1. Idle \in Request /\ StepOk(Idle, DOMAIN open) /\ Idle.pc \notin Private
      /\ Idle.fh = None /\ Idle.todo = {}
    BY DEF Idle, Request, Step, StepOk, Private
<1>2. Types /\ spawned \subseteq Handle /\ task \in [Task -> Request]
    BY <1>1, BoundAssumption, InoAssumption DEF Init, Types
<1>3. GoodPool(Pool)
    BY DEF Init, GoodPool, Pool, ToSet, IsInjective
<1>4. DOMAIN pool = {} /\ DOMAIN open = {} /\ spawned = {}
    BY DEF Init
<1>5. FreshInv /\ PooledInv /\ PinsInv
    BY <1>1, <1>4 DEF Init, FreshInv, PooledInv, PinsInv
<1>6. \A t \in Task : StepOk(task[t], DOMAIN open) /\ PrivateOk(t)
    BY <1>1 DEF Init, PrivateOk
<1> QED
    BY <1>2, <1>3, <1>4, <1>5, <1>6 DEF IInv

\* Every step keeps the invariant.
LEMMA NextIInv == IInv /\ [Next]_vars => IInv'
<1> SUFFICES ASSUME IInv, [Next]_vars PROVE IInv'
    OBVIOUS
<1>1. ASSUME NEW t \in Task, NEW i \in Ino, Read(t, i) PROVE IInv'
    BY <1>1, ReadStep
<1>2. ASSUME NEW t \in Task, NEW i \in Ino, Write(t, i) PROVE IInv'
    BY <1>2, WriteStep
<1>3. ASSUME NEW t \in Task, NEW i \in Ino, NEW n \in Name, Create(t, n, i) PROVE IInv'
    BY <1>3, CreateStep
<1>4. ASSUME NEW t \in Task, NEW n \in Name, RemoveFile(t, n) PROVE IInv'
  <2>1. PICK q : q = [Idle EXCEPT !.op = "REMOVE", !.pc = "unlink", !.ino = dir[n], !.name = n]
    OBVIOUS
  <2>2. q \in Request /\ q.pc = "unlink" /\ q.op = "REMOVE" /\ q.fh = None /\ q.todo = {}
        /\ q.name \in Name /\ q.ino \in Ino
    BY <1>4, <2>1 DEF RemoveFile, IInv, Types, Idle, Request, Step
  <2> QED
    BY <1>4, <2>1, <2>2, RemoveStep DEF RemoveFile
<1>5. ASSUME NEW t \in Task, NEW n \in Name, NEW m \in Name, Rename(t, m, n) PROVE IInv'
  <2>0. PICK i \in {dir[n], None} : Begin(t, [Idle EXCEPT !.op = "RENAME", !.pc = "unlink",
                                                        !.ino = i, !.name = n, !.from = m])
    BY <1>5 DEF Rename
  <2>1. PICK q : q = [Idle EXCEPT !.op = "RENAME", !.pc = "unlink", !.ino = i, !.name = n,
                                  !.from = m]
    OBVIOUS
  <2>2. q \in Request /\ q.pc = "unlink" /\ q.op = "RENAME" /\ q.fh = None /\ q.todo = {}
        /\ q.name \in Name /\ q.from \in Name
    BY <2>1 DEF IInv, Types, Idle, Request, Step
  <2> QED
    BY <1>5, <2>0, <2>1, <2>2, RemoveStep DEF Rename
<1>6. ASSUME NEW t \in Task,
             \/ ReadOpen(t) \/ Share(t) \/ ReadFile(t) \/ Unpin(t) \/ DropEntry(t)
             \/ Reopen(t) \/ Reread(t)
      PROVE  IInv'
    BY <1>6, ReadOpenStep, ShareStep, ReadFileStep, UnpinStep, DropEntryStep, ReopenStep, RereadStep
<1>7. ASSUME NEW t \in Task,
             \/ PWrite(t) \/ WriteOpen(t) \/ WriteFile(t) \/ Publish(t) \/ Unlink(t) \/ Purge(t)
             \/ (\E h \in Handle : EvictHandle(t, h)) \/ Evicted(t)
      PROVE  IInv'
    BY <1>7, PWriteStep, WriteOpenStep, WriteFileStep, PublishStep, UnlinkStep, PurgeStep, EvictHandleStep,
       EvictedStep
<1>8. ASSUME NEW i \in Ino, RemoteUpdate(i) \/ Invalidate(i) PROVE IInv'
    BY <1>8, RemoteUpdateStep, InvalidateStep
<1>9. ASSUME NEW h \in Handle, ReleaseSpawned(h) PROVE IInv'
    BY <1>9, ReleaseSpawnedStep
<1>10. CASE Drain
    BY <1>10, DrainStep
<1>11. CASE UNCHANGED vars
  <2>1. UNCHANGED <<pool, order, open, next, dir, hash, told, spawned, up, requests, task>>
    BY <1>11 DEF vars
  <2>2. \A j : Readers(j)' = Readers(j)
    BY <2>1 DEF Readers
  <2> QED
    BY <2>1, <2>2 DEF IInv, Types, FreshInv, PooledInv, PinsInv, GoodPool, Pool, PrivateOk,
                      Located, Owns, Peek, Has
<1> QED
    BY <1>1, <1>2, <1>3, <1>4, <1>5, <1>6, <1>7, <1>8, <1>9, <1>10, <1>11 DEF Next

\* IInv holds always.
LEMMA Invariant == Spec => []IInv
    BY InitIInv, NextIInv, PTL DEF Spec

\* The pool is consistent, and no entry is pinned without a reader that will
\* take the pin away (HandlePool, src/src/nfs.rs): for any number of requests,
\* inodes and handles.
THEOREM PoolIsConsistent == Spec => []PoolInv
<1>1. IInv => PoolInv
  <2> SUFFICES ASSUME IInv PROVE PoolInv
    OBVIOUS
  <2>1. /\ order \in Seq(Ino) /\ ToSet(order) = DOMAIN pool /\ IsInjective(order)
        /\ \A i \in DOMAIN pool : i \in Ino /\ pool[i] \in Entry
    BY DEF IInv, GoodPool, Pool
  <2>2. Len(order) = Cardinality(DOMAIN pool)
    BY <2>1, InjectiveLen
  <2> QED
    BY <2>1, <2>2 DEF IInv, Types, PinsInv, PoolInv
<1> QED
    BY <1>1, Invariant, PTL

\* Each open handle is in the pool, or with one who releases or publishes it.
THEOREM HandlesAreKept == Spec => []NoHandleLost
<1>1. IInv => NoHandleLost
    BY DEF IInv, NoHandleLost, Located
<1> QED
    BY <1>1, Invariant, PTL

\* No request is answered NFS3ERR_STALE for a handle of its own.
THEOREM OwnHandlesStayOpen == Spec => []NeverStale
<1>1. IInv => NeverStale
    BY DEF IInv, NeverStale, StepOk
<1> QED
    BY <1>1, Invariant, PTL
=============================================================================
