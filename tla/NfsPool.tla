------------------------------- MODULE NfsPool -------------------------------
(***************************************************************************)
(* The NFS server of src/src/nfs.rs and its pool of file handles.  NFS has *)
(* no open and no close: every READ and WRITE names an inode, so the       *)
(* server opens handles of the virtual file system on its own account,     *)
(* keeps the latest one for an inode in a pool, and gives back what the    *)
(* pool evicts or replaces.  READ pins the pooled handle by inode number;  *)
(* WRITE uses it without a pin.                                            *)
(*                                                                         *)
(* Each request runs in a task, on several threads: the pool's mutex is    *)
(* held within a step only, and every call of the virtual file system is a *)
(* step of its own.  What open, read, write and release do to a file is in *)
(* the other modules; here a handle is open or not, and writable or not.   *)
(***************************************************************************)
EXTENDS Integers, Sequences, FiniteSets, SequencesExt, SeqOps

CONSTANTS
    Task,       \* requests being served
    Ino,        \* inodes of files
    First,      \* those there at first
    Name,       \* names of files
    Capacity,   \* HANDLE_POOL_CAPACITY
    MaxHandle,  \* bound: handles opened
    MaxHash,    \* bound: contents
    MaxRequests,\* bound: requests
    None

ASSUME TaskAssumption == IsFiniteSet(Task)
ASSUME InoAssumption == First \subseteq Ino /\ None \notin Nat
ASSUME BoundAssumption == Capacity \in Nat \ {0} /\ MaxHandle \in Nat
                          /\ MaxHash \in Nat \ {0} /\ MaxRequests \in Nat

VARIABLES
    pool,       \* HandlePool::handles, by inode: the handle and its pins
    order,      \* HandlePool::order, least recently used first
    open,       \* open_files of the virtual file system
    next,       \* next handle number
    dir,        \* the inode that has a name, or None
    hash,       \* content of an inode's remote side
    told,       \* inodes whose change the invalidator has still to hear of
    spawned,    \* handles that spawned tasks, or the shutdown, will release
    up,         \* not shutting down
    requests,   \* requests so far
    task        \* where the requests stand

vars == <<pool, order, open, next, dir, hash, told, spawned, up, requests, task>>

Handle == 1..MaxHandle

Entry == [fh : Handle, pins : Nat]

\* write: opened for writing; hash: what a reader of it gets.
OpenFile == [ino : Ino, write : BOOLEAN, hash : Nat]

\* "open", "share", "read", "unpin", "drop", "reopen", "reread": READ;
\* "pwrite", "drop", "wopen", "wwrite", "publish": WRITE (and CREATE);
\* "unlink", "purge": REMOVE and RENAME; "evict": releases `todo`, then goes on as `then`;
\* "stale": about to answer NFS3ERR_STALE for a handle of its own.
Step == {"idle", "open", "share", "read", "unpin", "drop", "reopen", "reread",
         "pwrite", "wopen", "wwrite", "publish", "unlink", "purge", "evict", "stale"}

Request == [op : {None, "READ", "WRITE", "CREATE", "REMOVE", "RENAME"},
            pc : Step, then : Step,
            ino : Ino \cup {None},
            name : Name \cup {None}, from : Name \cup {None},
            fh : Handle \cup {None},
            ok : BOOLEAN,               \* the first read succeeded
            todo : SUBSET Handle]

Idle == [op |-> None, pc |-> "idle", then |-> "idle", ino |-> None,
         name |-> None, from |-> None, fh |-> None, ok |-> TRUE, todo |-> {}]

Init ==
    /\ pool = <<>> /\ order = <<>>
    /\ open = <<>> /\ next = 1
    /\ dir \in [Name -> First \cup {None}]
    /\ \A i \in First : \E n \in Name : dir[n] = i
    /\ \A m, n \in Name : m # n => dir[m] # dir[n] \/ dir[n] = None
    /\ hash = [i \in Ino |-> 0]
    /\ told = {} /\ spawned = {} /\ up = TRUE /\ requests = 0
    /\ task = [t \in Task |-> Idle]

-----------------------------------------------------------------------------
\* HandlePool.  P is a pool with its order.

Pool == [handles |-> pool, order |-> order]
SetPool(P) == pool' = P.handles /\ order' = P.order

Has(P, i) == i \in DOMAIN P.handles
Peek(P, i) == IF Has(P, i) THEN P.handles[i].fh ELSE None

Drop(P, I) == [handles |-> [i \in DOMAIN P.handles \ I |-> P.handles[i]],
               order |-> Without(P.order, I)]

AcquireShared(P, i) ==
    [handles |-> [P.handles EXCEPT ![i].pins = @ + 1],
     order |-> Append(Without(P.order, {i}), i)]

\* unpin() counts down whichever entry the inode has by now.
Unpinned(P, i) ==
    IF Has(P, i) /\ P.handles[i].pins > 0
    THEN [P EXCEPT !.handles[i].pins = @ - 1] ELSE P

\* How many entries insert() evicts: from the oldest on, down to below the
\* capacity, but not past one that is pinned.
Evictions(P) ==
    LET n == Len(P.order) - Capacity + 1
        pinned == {k \in DOMAIN P.order : P.handles[P.order[k]].pins > 0}
    IN  IF n <= 0 THEN 0
        ELSE CHOOSE k \in 0..n :
                /\ \A j \in 1..k : j \notin pinned
                /\ k = n \/ k + 1 \in pinned

\* Mutant: an entry starts out pinned for its inserter.
InsertPinned(P, i, h) ==
    LET Q == Drop(P, {i})
        n == Evictions(Q)
        evicted == ToSet(SubSeq(Q.order, 1, n))
        R == Drop(Q, evicted)
    IN  [pool |-> [handles |-> [j \in DOMAIN R.handles \cup {i} |->
                                    IF j = i THEN [fh |-> h, pins |-> 1] ELSE R.handles[j]],
                   order |-> Append(R.order, i)],
         back |-> {Peek(P, j) : j \in evicted} \cup ({Peek(P, i)} \ {None})]

\* insert(): the pool it leaves, and the handles the caller must give back.
Insert(P, i, h) ==
    LET Q == Drop(P, {i})
        n == Evictions(Q)
        evicted == ToSet(SubSeq(Q.order, 1, n))
        R == Drop(Q, evicted)
    IN  [pool |-> [handles |-> [j \in DOMAIN R.handles \cup {i} |->
                                    IF j = i THEN [fh |-> h, pins |-> 0] ELSE R.handles[j]],
                   order |-> Append(R.order, i)],
         back |-> {Peek(P, j) : j \in evicted} \cup ({Peek(P, i)} \ {None})]

-----------------------------------------------------------------------------
\* The virtual file system

\* Inodes that have a name.
there == {dir[n] : n \in Name} \ {None}

\* An unlinked inode lives on with its handles.
Exists(i) == i \in there \/ \E h \in DOMAIN open : open[h].ino = i

OpenNew(i, write) ==
    /\ next <= MaxHandle
    /\ next' = next + 1
    /\ open' = [h \in DOMAIN open \cup {next} |->
                    IF h = next THEN [ino |-> i, write |-> write, hash |-> hash[i]] ELSE open[h]]

Release(h) == open' = [g \in DOMAIN open \ {h} |-> open[g]]

IsOpen(h) == h \in DOMAIN open

-----------------------------------------------------------------------------
Goto(t, pc) == task' = [task EXCEPT ![t].pc = pc]
With(t, pc, h) == task' = [task EXCEPT ![t].pc = pc, ![t].fh = h]
Reply(t) == task' = [task EXCEPT ![t] = Idle]
\* The handles in `back` are released one by one, then the task goes on.
Evicting(t, back, then) ==
    task' = [task EXCEPT ![t].pc = "evict", ![t].todo = back, ![t].then = then]

Begin(t, q) ==
    /\ task[t].pc = "idle"
    /\ requests < MaxRequests
    /\ requests' = requests + 1
    /\ task' = [task EXCEPT ![t] = q]
Start(t, op, i, pc, h) == Begin(t, [Idle EXCEPT !.op = op, !.pc = pc, !.ino = i, !.fh = h])

\* Clients name files they have looked up, also after they are gone.
Known(i) == i \in First \/ hash[i] > 0

\* read(): the pooled handle, or an open.
Read(t, i) ==
    /\ Known(i)
    /\ IF Has(Pool, i)
       THEN Start(t, "READ", i, "read", Peek(Pool, i)) /\ SetPool(AcquireShared(Pool, i))
       ELSE Start(t, "READ", i, "open", None) /\ UNCHANGED <<pool, order>>
    /\ UNCHANGED <<open, next, dir, hash, told, spawned, up>>

\* get_or_open_handle(): a second look at the pool, before the open or after it
\* failed, may find another reader's handle.
ReadOpen(t) ==
    LET i == task[t].ino IN
    /\ task[t].pc = "open"
    /\ \/ /\ Exists(i)
          /\ OpenNew(i, FALSE)
          /\ With(t, "share", next)
          /\ UNCHANGED <<pool, order>>
       \/ /\ IF Has(Pool, i)
             THEN With(t, "read", Peek(Pool, i)) /\ SetPool(AcquireShared(Pool, i))
             ELSE Reply(t) /\ UNCHANGED <<pool, order>>
          /\ UNCHANGED <<open, next>>
    /\ UNCHANGED <<dir, hash, told, spawned, up, requests>>

\* Mutant: the handle that lost the race is left open.
ShareLeaking(t) ==
    LET i == task[t].ino
        ins == Insert(Pool, i, task[t].fh)
    IN
    /\ task[t].pc = "share"
    /\ IF Has(Pool, i)
       THEN With(t, "read", Peek(Pool, i)) /\ SetPool(AcquireShared(Pool, i))
       ELSE Evicting(t, ins.back, "read") /\ SetPool(AcquireShared(ins.pool, i))
    /\ UNCHANGED <<open, next, dir, hash, told, spawned, up, requests>>

\* Another reader was faster: its handle is shared and this one's released.
\* Otherwise this one's becomes the pooled one.
Share(t) ==
    LET i == task[t].ino
        h == task[t].fh
        ins == Insert(Pool, i, h)
    IN
    /\ task[t].pc = "share"
    /\ IF Has(Pool, i)
       THEN /\ task' = [task EXCEPT ![t].pc = "evict", ![t].todo = {h}, ![t].then = "read",
                                    ![t].fh = Peek(Pool, i)]
            /\ SetPool(AcquireShared(Pool, i))
       ELSE /\ Evicting(t, ins.back, "read")
            /\ SetPool(AcquireShared(ins.pool, i))
    /\ UNCHANGED <<open, next, dir, hash, told, spawned, up, requests>>

\* read() of the virtual file system, which holds the file from here on ...
ReadFile(t) ==
    /\ task[t].pc = "read"
    /\ task' = [task EXCEPT ![t].pc = "unpin", ![t].ok = IsOpen(task[t].fh)]
    /\ UNCHANGED <<pool, order, open, next, dir, hash, told, spawned, up, requests>>

\* ... and the pin goes, by inode.
Unpin(t) ==
    /\ task[t].pc = "unpin"
    /\ SetPool(Unpinned(Pool, task[t].ino))
    /\ IF task[t].ok THEN Reply(t) ELSE Goto(t, "drop")
    /\ UNCHANGED <<open, next, dir, hash, told, spawned, up, requests>>

\* EBADF: if the pool still has this handle, it has it no longer.  WRITE also
\* releases it (it may just be read-only), READ does not.
DropEntry(t) ==
    LET i == task[t].ino
        h == task[t].fh
    IN
    /\ task[t].pc = "drop"
    /\ IF Peek(Pool, i) = h THEN SetPool(Drop(Pool, {i})) ELSE UNCHANGED <<pool, order>>
    /\ IF task[t].op = "READ" THEN With(t, "reopen", None)
       ELSE task' = [task EXCEPT ![t].pc = "evict", ![t].todo = {h}, ![t].then = "wopen",
                                 ![t].fh = None]
    /\ UNCHANGED <<open, next, dir, hash, told, spawned, up, requests>>

\* READ tries once more with a handle of its own.
Reopen(t) ==
    /\ task[t].pc = "reopen"
    /\ \/ /\ Exists(task[t].ino)
          /\ OpenNew(task[t].ino, FALSE)
          /\ With(t, "reread", next)
       \/ /\ Reply(t)
          /\ UNCHANGED <<open, next>>
    /\ UNCHANGED <<pool, order, dir, hash, told, spawned, up, requests>>

Reread(t) ==
    LET h == task[t].fh IN
    /\ task[t].pc = "reread"
    /\ IF IsOpen(h) THEN Evicting(t, {h}, "idle") ELSE Goto(t, "stale")
    /\ UNCHANGED <<pool, order, open, next, dir, hash, told, spawned, up, requests>>

-----------------------------------------------------------------------------
\* write(): the pooled handle, without a pin.
Write(t, i) ==
    LET h == Peek(Pool, i) IN
    /\ Known(i)
    /\ Start(t, "WRITE", i, IF h = None THEN "wopen" ELSE "pwrite", h)
    /\ UNCHANGED <<pool, order, open, next, dir, hash, told, spawned, up>>

\* EBADF if the handle is read-only, or closed since it was looked up.
PWrite(t) ==
    LET h == task[t].fh IN
    /\ task[t].pc = "pwrite"
    /\ IF IsOpen(h) /\ open[h].write THEN Reply(t) ELSE Goto(t, "drop")
    /\ UNCHANGED <<pool, order, open, next, dir, hash, told, spawned, up, requests>>

\* Slow path: open, write, publish.
WriteOpen(t) ==
    /\ task[t].pc = "wopen"
    /\ \/ /\ Exists(task[t].ino)
          /\ OpenNew(task[t].ino, TRUE)
          /\ With(t, "wwrite", next)
       \/ /\ Reply(t)
          /\ UNCHANGED <<open, next>>
    /\ UNCHANGED <<pool, order, dir, hash, told, spawned, up, requests>>

\* Mutant: the handle is published before the write.
WriteFilePublished(t) ==
    LET h == task[t].fh
        ins == Insert(Pool, task[t].ino, h)
    IN
    /\ task[t].pc = "wwrite"
    /\ IF task[t].ok
       THEN /\ SetPool(ins.pool)
            /\ task' = [task EXCEPT ![t].pc = "evict", ![t].todo = ins.back,
                                    ![t].then = "wwrite", ![t].ok = FALSE]
       ELSE /\ IF IsOpen(h) THEN Reply(t) ELSE Goto(t, "stale")
            /\ UNCHANGED <<pool, order>>
    /\ UNCHANGED <<open, next, dir, hash, told, spawned, up, requests>>

\* The write succeeds, or fails for another reason: the handle is given back.
WriteFile(t) ==
    LET h == task[t].fh IN
    /\ task[t].pc = "wwrite"
    /\ \/ IF IsOpen(h) THEN Goto(t, "publish") ELSE Goto(t, "stale")
       \/ IsOpen(h) /\ Evicting(t, {h}, "idle")
    /\ UNCHANGED <<pool, order, open, next, dir, hash, told, spawned, up, requests>>

\* insert_handle()
Publish(t) ==
    LET ins == Insert(Pool, task[t].ino, task[t].fh) IN
    /\ task[t].pc = "publish"
    /\ SetPool(ins.pool)
    /\ Evicting(t, ins.back, "idle")
    /\ UNCHANGED <<open, next, dir, hash, told, spawned, up, requests>>

\* create(): a new inode, with a writable handle.
Create(t, n, i) ==
    /\ ~Known(i)        \* inode numbers are not used again
    /\ dir[n] = None
    /\ OpenNew(i, TRUE)
    /\ dir' = [dir EXCEPT ![n] = i]
    /\ hash' = [hash EXCEPT ![i] = 1]
    /\ Start(t, "CREATE", i, "publish", next)
    /\ UNCHANGED <<pool, order, told, spawned, up>>

\* remove(): a lookup of the name,
RemoveFile(t, n) ==
    /\ dir[n] # None
    /\ Begin(t, [Idle EXCEPT !.op = "REMOVE", !.pc = "unlink", !.ino = dir[n], !.name = n])
    /\ UNCHANGED <<pool, order, open, next, dir, hash, told, spawned, up>>

\* rename(): lookups of the destination, which may fail, and, if there is one,
\* of the source.  It is another inode, since none has two names, unless a
\* rename came between the two: then nothing is purged, as if there were none.
Rename(t, m, n) ==
    /\ m # n /\ dir[m] # None
    /\ \E i \in {dir[n], None} :
        Begin(t, [Idle EXCEPT !.op = "RENAME", !.pc = "unlink", !.ino = i, !.name = n,
                              !.from = m])
    /\ UNCHANGED <<pool, order, open, next, dir, hash, told, spawned, up>>

\* then the change, whatever the names stand for by now, which may fail,
Unlink(t) ==
    LET q == task[t] IN
    /\ q.pc = "unlink"
    /\ \/ /\ q.op = "REMOVE" /\ dir[q.name] # None
          /\ dir' = [dir EXCEPT ![q.name] = None]
          /\ Goto(t, "purge")
       \/ /\ q.op = "RENAME" /\ dir[q.from] # None
          /\ dir' = [dir EXCEPT ![q.name] = dir[q.from], ![q.from] = None]
          /\ IF q.ino = None THEN Reply(t) ELSE Goto(t, "purge")
       \/ Reply(t) /\ UNCHANGED dir
    /\ UNCHANGED <<pool, order, open, next, hash, told, spawned, up, requests>>

\* and the inode that was looked up is taken from the pool.
Purge(t) ==
    LET i == task[t].ino IN
    /\ task[t].pc = "purge"
    /\ SetPool(Drop(Pool, {i}))
    /\ Evicting(t, {Peek(Pool, i)} \ {None}, "idle")
    /\ UNCHANGED <<open, next, dir, hash, told, spawned, up, requests>>

\* evict_handle(), process_insert_result(): a handle that is closed already
\* is no matter.
EvictHandle(t, h) ==
    /\ task[t].pc = "evict" /\ h \in task[t].todo
    /\ Release(h)
    /\ task' = [task EXCEPT ![t].todo = @ \ {h}]
    /\ UNCHANGED <<pool, order, next, dir, hash, told, spawned, up, requests>>

Evicted(t) ==
    /\ task[t].pc = "evict" /\ task[t].todo = {}
    /\ IF task[t].then = "idle" THEN Reply(t)
       ELSE task' = [task EXCEPT ![t].pc = task[t].then, ![t].then = "idle"]
    /\ UNCHANGED <<pool, order, open, next, dir, hash, told, spawned, up, requests>>

-----------------------------------------------------------------------------
\* The poll loop updates the inode table, and tells the server afterwards.
RemoteUpdate(i) ==
    /\ i \in there /\ hash[i] < MaxHash
    /\ hash' = [hash EXCEPT ![i] = @ + 1]
    /\ told' = told \cup {i}
    /\ UNCHANGED <<pool, order, open, next, dir, spawned, up, requests, task>>

\* The invalidator takes the entry away; a task of its own releases the handle.
Invalidate(i) ==
    /\ i \in told
    /\ told' = told \ {i}
    /\ SetPool(Drop(Pool, {i}))
    /\ spawned' = spawned \cup ({Peek(Pool, i)} \ {None})
    /\ UNCHANGED <<open, next, dir, hash, up, requests, task>>

\* The mount goes away: what is pooled is released.  Requests under way are
\* not waited for.
Drain ==
    /\ up
    /\ up' = FALSE
    /\ SetPool(Drop(Pool, Ino))
    /\ spawned' = spawned \cup {pool[i].fh : i \in DOMAIN pool}
    /\ UNCHANGED <<open, next, dir, hash, told, requests, task>>

ReleaseSpawned(h) ==
    /\ h \in spawned
    /\ spawned' = spawned \ {h}
    /\ Release(h)
    /\ UNCHANGED <<pool, order, next, dir, hash, told, up, requests, task>>

Next ==
    \/ \E t \in Task :
        \/ up /\ \E i \in Ino : Read(t, i) \/ Write(t, i) \/ \E n \in Name : Create(t, n, i)
        \/ up /\ \E n \in Name : RemoveFile(t, n) \/ \E m \in Name : Rename(t, m, n)
        \/ ReadOpen(t) \/ Share(t) \/ ReadFile(t) \/ Unpin(t) \/ DropEntry(t)
        \/ Reopen(t) \/ Reread(t)
        \/ PWrite(t) \/ WriteOpen(t) \/ WriteFile(t) \/ Publish(t) \/ Unlink(t) \/ Purge(t)
        \/ (\E h \in Handle : EvictHandle(t, h)) \/ Evicted(t)
    \/ \E i \in Ino : RemoteUpdate(i) \/ Invalidate(i)
    \/ \E h \in Handle : ReleaseSpawned(h)
    \/ Drain

Spec == Init /\ [][Next]_vars

-----------------------------------------------------------------------------
\* Properties

\* The requests that have pinned inode i and will unpin it.
Readers(i) ==
    {t \in Task : /\ task[t].op = "READ" /\ task[t].ino = i
                  /\ \/ task[t].pc \in {"read", "unpin"}
                     \/ task[t].pc = "evict" /\ task[t].then = "read"}

\* Types; handles and order have the same inodes, once each; and a pin has a
\* reader that will take it away, though unpin() counts by inode and entries
\* are replaced under their readers: no entry stays pinned for ever, which
\* would keep the pool over its capacity.
PoolInv ==
    /\ \A i \in DOMAIN pool : i \in Ino /\ pool[i] \in Entry
    /\ ToSet(order) = DOMAIN pool /\ Len(order) = Cardinality(DOMAIN pool)
    /\ DOMAIN open \subseteq Handle /\ \A h \in DOMAIN open : open[h] \in OpenFile
    /\ next \in 1..(MaxHandle + 1)
    /\ dir \in [Name -> Ino \cup {None}] /\ told \subseteq Ino /\ spawned \subseteq Handle
    /\ hash \in [Ino -> 0..MaxHash] /\ up \in BOOLEAN /\ requests \in 0..MaxRequests
    /\ task \in [Task -> Request]
    /\ \A i \in DOMAIN pool : pool[i].pins <= Cardinality(Readers(i))

\* A request has handle h for itself, or is about to release it.
Owns(t, h) ==
    \/ h \in task[t].todo
    \/ h = task[t].fh /\ task[t].pc \in {"share", "reread", "wwrite", "publish"}

\* No handle is lost: each open one is in the pool, with one request that will
\* release or publish it, or with the invalidator; over replaced and evicted
\* entries, lost races of two opens, and entries dropped for EBADF.
NoHandleLost ==
    \A h \in DOMAIN open :
        \/ Peek(Pool, open[h].ino) = h
        \/ \E t \in Task : Owns(t, h)
        \/ h \in spawned

\* No request is answered NFS3ERR_STALE, which makes clients drop what they
\* had to write: the handle of the last attempt is never closed by others.
NeverStale == \A t \in Task : task[t].pc # "stale"

\* "... we always drop the pooled handle so the next read re-opens at the new
\* xet_hash" (mount_nfs): a pooled reading handle has the inode's content, or
\* the invalidator is about to hear of the change.
PooledIsCurrent ==
    \A i \in DOMAIN pool :
        IsOpen(pool[i].fh) /\ ~open[pool[i].fh].write =>
            open[pool[i].fh].hash = hash[i] \/ i \in told

\* "Without this, deleted files' handles linger until LRU-evicted" (remove()):
\* when no request is under way, the files in the pool have names.
RemovedIsUnpooled == (\A t \in Task : task[t].pc = "idle") => DOMAIN pool \subseteq there

\* "Pinned entries (pin_count > 0) are skipped during LRU eviction so that
\* concurrent reads never encounter a released handle": what a publishing
\* request evicts, no request is about to read.
EvictionSparesReaders ==
    [][\A t, u \in Task :
        task[t].pc \in {"share", "publish"} /\ task'[t].pc = "evict" /\ task[u].pc = "read"
            => \A h \in task'[t].todo : h # task[t].fh /\ open[h].ino # task[t].ino
                                            => h # task[u].fh]_vars
=============================================================================
