------------------------------ MODULE FileCache ------------------------------
(***************************************************************************)
(* The whole-file cache of src/src/file_cache.rs: objects of the CAS,      *)
(* keyed by hash, in a directory that the mounts of one machine share.     *)
(* Each mount has a FileCache of its own: an index with an LRU order and a *)
(* byte budget, and a table of downloads in flight.  Index and directory   *)
(* change in separate steps: a file is renamed into place before its entry *)
(* is inserted, and unlinked after its entry is gone.                      *)
(*                                                                         *)
(* Tasks are the opens of readers (try_open) and the background downloads  *)
(* that a miss spawns (populate).  A task yields at every await, and other *)
(* threads run between any two of its steps.                               *)
(***************************************************************************)
EXTENDS Integers, Sequences, FiniteSets, FiniteSetsExt, SequencesExt, SeqOps

CONSTANTS
    Mount,      \* the FileCache instances on one directory
    Task,       \* the tasks that use them
    Home,       \* the instance a task uses
    Hash,       \* objects
    Size,       \* their sizes in bytes
    Capacity,   \* the byte budget of an instance
    Permits,    \* MAX_CONCURRENT_POPULATES
    None

ASSUME HomeAssumption == Home \in [Task -> Mount]
ASSUME HashAssumption == IsFiniteSet(Hash)
ASSUME SizeAssumption == Size \in [Hash -> Nat \ {0}]
ASSUME BudgetAssumption == Capacity \in Nat /\ Permits \in Nat \ {0}
ASSUME NoneAssumption == None \notin Nat \cup Hash \cup Task \cup (Mount \X Hash)

VARIABLES
    items,      \* per mount, the entries of State::items, least recently used first
    total,      \* per mount, State::total_bytes
    inflight,   \* per mount, the hashes in `inflight`
    disk,       \* length of the file of a hash in the shared directory, or None
    task        \* where a task stands

vars == <<items, total, inflight, disk, task>>

Item == [hash : Hash, size : Nat]

\* Where a task stands, and on which hash; `victims` are the files it still
\* has to unlink after an eviction.
Step == {"idle", "probe", "lead", "fetch", "publish", "reap",   \* populate, leading
         "wait",                                                \* populate, following
         "open", "forget", "unlink"}                            \* try_open

TaskState == [pc : Step, hash : Hash \cup {None}, victims : SUBSET Hash]

Idle == [pc |-> "idle", hash |-> None, victims |-> {}]

TypeOK ==
    /\ items \in [Mount -> Seq(Item)]
    /\ total \in [Mount -> Nat]
    /\ inflight \in [Mount -> SUBSET Hash]
    /\ disk \in [Hash -> Nat \cup {None}]
    /\ task \in [Task -> TaskState]

-----------------------------------------------------------------------------
\* Helpers

Hashes(s) == {s[i].hash : i \in DOMAIN s}
Bytes(s) == Total([i \in DOMAIN s |-> s[i].size])

\* The entries for a hash, the index without them, and what they take.
Entries(s, h) == {e \in ToSet(s) : e.hash = h}
Rest(s, h) == Without(s, Entries(s, h))
Only(s, h) == Without(s, ToSet(s) \ Entries(s, h))
SizeIn(s, h) == Bytes(Only(s, h))
\* The access is the newest: last_access gets the next tick.
Touched(s, h) == Rest(s, h) \o Only(s, h)

Cached(m, h) == h \in Hashes(items[m])

Saturating(n) == IF n < 0 THEN 0 ELSE n

Goto(t, pc) == [task EXCEPT ![t].pc = pc]
Return(t) == [task EXCEPT ![t] = Idle]

\* How many entries, oldest first, evict_locked() takes from index s of b bytes.
Victims(s, b) ==
    Min({n \in 0..Len(s) : b - Bytes(SubSeq(s, 1, n)) <= Capacity \/ n = Len(s)})

\* Dropping the InflightGuard: the hash leaves the table, its followers go on
\* and return what a last look at the index tells them.
Broadcast(t, h) ==
    LET followers == {u \in Task : /\ Home[u] = Home[t]
                                   /\ task[u].pc = "wait"
                                   /\ task[u].hash = h}
    IN  [u \in Task |-> IF u \in followers \cup {t} THEN Idle ELSE task[u]]

\* Mutant: the entry leaves the table, nobody is told.
DropGuardSilent(t) ==
    /\ inflight' = [inflight EXCEPT ![Home[t]] = @ \ {task[t].hash}]
    /\ task' = Return(t)

DropGuard(t) ==
    LET h == task[t].hash IN
    /\ inflight' = [inflight EXCEPT ![Home[t]] = @ \ {h}]
    /\ task' = Broadcast(t, h)

Init ==
    /\ items = [m \in Mount |-> <<>>]
    /\ total = [m \in Mount |-> 0]
    /\ inflight = [m \in Mount |-> {}]
    /\ disk = [h \in Hash |-> None]
    /\ task = [t \in Task |-> Idle]

-----------------------------------------------------------------------------
\* try_open and forget

\* A hit in the index, under the read lock.
TryOpen(t, h) ==
    /\ task[t].pc = "idle"
    /\ Cached(Home[t], h)
    /\ items' = [items EXCEPT ![Home[t]] = Touched(@, h)]
    /\ task' = [task EXCEPT ![t] = [pc |-> "open", hash |-> h, victims |-> {}]]
    /\ UNCHANGED <<total, inflight, disk>>

\* File::open, without a lock: the reader has its file, or the file is gone.
OpenFile(t) ==
    /\ task[t].pc = "open"
    /\ task' = IF disk[task[t].hash] # None THEN Return(t) ELSE Goto(t, "forget")
    /\ UNCHANGED <<items, total, inflight, disk>>

\* Mutant: subtracts the size whether the entry is still there or not.
ForgetTwice(t) ==
    LET h == task[t].hash IN
    /\ task[t].pc = "forget"
    /\ items' = [items EXCEPT ![Home[t]] = Rest(@, h)]
    /\ total' = [total EXCEPT ![Home[t]] = @ - Size[h]]
    /\ task' = Goto(t, "unlink")
    /\ UNCHANGED <<inflight, disk>>

\* forget() takes the entry away under the write lock ...
Forget(t) ==
    LET h == task[t].hash IN
    /\ task[t].pc = "forget"
    /\ items' = [items EXCEPT ![Home[t]] = Rest(@, h)]
    /\ total' = [total EXCEPT ![Home[t]] = Saturating(@ - SizeIn(items[Home[t]], h))]
    /\ task' = Goto(t, "unlink")
    /\ UNCHANGED <<inflight, disk>>

\* ... and the file after the lock.
ForgetFile(t) ==
    /\ task[t].pc = "unlink"
    /\ disk' = [disk EXCEPT ![task[t].hash] = None]
    /\ task' = Return(t)
    /\ UNCHANGED <<items, total, inflight>>

-----------------------------------------------------------------------------
\* populate and populate_inner

\* The object could fit and is not in the index: up to the inflight lock.
Populate(t, h) ==
    /\ task[t].pc = "idle"
    /\ Size[h] <= Capacity
    /\ ~Cached(Home[t], h)
    /\ task' = [task EXCEPT ![t] = [pc |-> "probe", hash |-> h, victims |-> {}]]
    /\ UNCHANGED <<items, total, inflight, disk>>

\* Some writer may be inside the state lock, so that try_read() fails.
WriterInside(t) == \E u \in Task \ {t} : Home[u] = Home[t] /\ task[u].pc \in {"publish", "forget"}

\* Mutant: every task that finds the index without the hash downloads it.
EnterAlways(t) ==
    LET h == task[t].hash IN
    /\ task[t].pc = "probe"
    /\ \/ /\ Cached(Home[t], h)
          /\ task' = Return(t)
          /\ UNCHANGED inflight
       \/ /\ ~Cached(Home[t], h)
          /\ inflight' = [inflight EXCEPT ![Home[t]] = @ \cup {h}]
          /\ task' = Goto(t, "lead")
    /\ UNCHANGED <<items, total, disk>>

\* Under the inflight lock, with a second look at the index that fails while
\* a writer holds the state lock: done, a follower or the leader.
Enter(t) ==
    LET h == task[t].hash IN
    /\ task[t].pc = "probe"
    /\ \/ /\ Cached(Home[t], h)
          /\ task' = Return(t)
          /\ UNCHANGED inflight
       \/ /\ ~Cached(Home[t], h) \/ WriterInside(t)
          /\ h \in inflight[Home[t]]
          /\ task' = Goto(t, "wait")
          /\ UNCHANGED inflight
       \/ /\ ~Cached(Home[t], h) \/ WriterInside(t)
          /\ h \notin inflight[Home[t]]
          /\ inflight' = [inflight EXCEPT ![Home[t]] = @ \cup {h}]
          /\ task' = Goto(t, "lead")
    /\ UNCHANGED <<items, total, disk>>

\* The leader gets a permit and starts the download into its own tmp file.
Acquire(t) ==
    /\ task[t].pc = "lead"
    /\ Cardinality({u \in Task : Home[u] = Home[t] /\ task[u].pc \in {"fetch", "publish", "reap"}})
            < Permits
    /\ task' = Goto(t, "fetch")
    /\ UNCHANGED <<items, total, inflight, disk>>

\* Mutant: the length is not looked at.
FetchedUnchecked(t, short) ==
    /\ task[t].pc = "fetch"
    /\ disk' = [disk EXCEPT ![task[t].hash] = Size[task[t].hash] - short]
    /\ task' = Goto(t, "publish")
    /\ UNCHANGED <<items, total, inflight>>

\* The download succeeds with the whole object or less.  If the length is the
\* expected one, the tmp file is renamed into place; if not, it is removed and
\* populate fails.
Fetched(t, short) ==
    LET h == task[t].hash
        n == Size[h] - short
    IN
    /\ task[t].pc = "fetch"
    /\ \/ /\ n = Size[h]
          /\ disk' = [disk EXCEPT ![h] = n]
          /\ task' = Goto(t, "publish")
          /\ UNCHANGED inflight
       \/ /\ n # Size[h]
          /\ DropGuard(t)
          /\ UNCHANGED disk
    /\ UNCHANGED <<items, total>>

\* The download fails: the tmp file is removed, the guard dropped.  The task is
\* spawned, so that its future is dropped elsewhere only with the runtime: Restart.
FetchFail(t) ==
    /\ task[t].pc = "fetch"
    /\ DropGuard(t)
    /\ UNCHANGED <<items, total, disk>>

\* Mutant: an earlier entry for the hash stays on the books.
PublishTwice(t) ==
    LET h == task[t].hash
        s == Append(Rest(items[Home[t]], h), [hash |-> h, size |-> Size[h]])
        b == total[Home[t]] + Size[h]
        n == IF b <= Capacity THEN 0 ELSE Victims(s, b)
    IN
    /\ task[t].pc = "publish"
    /\ items' = [items EXCEPT ![Home[t]] = SubSeq(s, n + 1, Len(s))]
    /\ total' = [total EXCEPT ![Home[t]] = Saturating(b - Bytes(SubSeq(s, 1, n)))]
    /\ task' = [task EXCEPT ![t].pc = "reap", ![t].victims = Hashes(SubSeq(s, 1, n))]
    /\ UNCHANGED <<inflight, disk>>

\* Under the write lock: the entry is inserted as the newest, an earlier one
\* for the hash leaves the books, and the oldest entries are evicted.
Publish(t) ==
    LET h == task[t].hash
        s == Append(Rest(items[Home[t]], h), [hash |-> h, size |-> Size[h]])
        b == Saturating(total[Home[t]] - SizeIn(items[Home[t]], h)) + Size[h]
        n == IF b <= Capacity THEN 0 ELSE Victims(s, b)
    IN
    /\ task[t].pc = "publish"
    /\ items' = [items EXCEPT ![Home[t]] = SubSeq(s, n + 1, Len(s))]
    /\ total' = [total EXCEPT ![Home[t]] = Saturating(b - Bytes(SubSeq(s, 1, n)))]
    /\ task' = [task EXCEPT ![t].pc = "reap", ![t].victims = Hashes(SubSeq(s, 1, n))]
    /\ UNCHANGED <<inflight, disk>>

\* The victims' files are unlinked one by one, after the lock.
Reap(t, h) ==
    /\ task[t].pc = "reap"
    /\ h \in task[t].victims
    /\ disk' = [disk EXCEPT ![h] = None]
    /\ task' = [task EXCEPT ![t].victims = @ \ {h}]
    /\ UNCHANGED <<items, total, inflight>>

\* populate() returns: permit and guard are dropped.
Finish(t) ==
    /\ task[t].pc = "reap"
    /\ task[t].victims = {}
    /\ DropGuard(t)
    /\ UNCHANGED <<items, total, disk>>

-----------------------------------------------------------------------------
\* Mutant: the new instance starts with an empty index.
RestartEmpty(m) ==
    /\ items' = [items EXCEPT ![m] = <<>>]
    /\ total' = [total EXCEPT ![m] = 0]
    /\ inflight' = [inflight EXCEPT ![m] = {}]
    /\ task' = [t \in Task |-> IF Home[t] = m THEN Idle ELSE task[t]]
    /\ UNCHANGED disk

\* The mount is killed and started again: FileCache::new indexes the files it
\* finds, in the order of their modification times, and evicts nothing.
Restart(m) ==
    LET found == {[hash |-> h, size |-> disk[h]] : h \in {x \in Hash : disk[x] # None}} IN
    /\ \E s \in SetToSeqs(found) : /\ items' = [items EXCEPT ![m] = s]
                                   /\ total' = [total EXCEPT ![m] = Bytes(s)]
    /\ inflight' = [inflight EXCEPT ![m] = {}]
    /\ task' = [t \in Task |-> IF Home[t] = m THEN Idle ELSE task[t]]
    /\ UNCHANGED disk

Next ==
    \/ \E t \in Task :
        \/ OpenFile(t) \/ Forget(t) \/ ForgetFile(t)
        \/ Enter(t) \/ Acquire(t) \/ FetchFail(t) \/ Publish(t) \/ Finish(t)
        \/ \E short \in 0..1 : Fetched(t, short)
        \/ \E h \in Hash : TryOpen(t, h) \/ Populate(t, h) \/ Reap(t, h)
    \/ \E m \in Mount : Restart(m)

Spec == Init /\ [][Next]_vars

-----------------------------------------------------------------------------
\* Properties

\* The tasks that download object h for mount m.
Leaders(m, h) ==
    {t \in Task : /\ Home[t] = m
                  /\ task[t].hash = h
                  /\ task[t].pc \in {"lead", "fetch", "publish", "reap"}}

\* "Concurrent populates for the same hash share a single download": the
\* in-flight table names exactly the downloads under way, one for each hash.
OneDownload ==
    \A m \in Mount, h \in Hash :
        Cardinality(Leaders(m, h)) = (IF h \in inflight[m] THEN 1 ELSE 0)

\* The byte counter is the sum of the entries' sizes, over inserts, repeated
\* inserts, evictions, forgotten entries and restarts; it never saturates.
Accounting == \A m \in Mount : total[m] = Bytes(items[m])

\* A file that an index entry can lead a reader to is the whole object.
HitsAreWhole == \A h \in Hash : disk[h] \in {None, Size[h]}

\* No file escapes the budget: each is in the index of some mount, or a task
\* is about to insert its entry or to unlink it.
NoLeak ==
    \A h \in Hash : disk[h] # None =>
        \/ \E m \in Mount : Cached(m, h)
        \/ \E t \in Task :
            \/ task[t].pc \in {"publish", "unlink"} /\ task[t].hash = h
            \/ h \in task[t].victims

\* The table of downloads in flight is a single-flight table.
LeaderOf(k) ==
    LET L == Leaders(k[1], k[2]) IN
    IF L = {} THEN None ELSE CHOOSE t \in L : TRUE
WaitsFor(t) ==
    IF task[t].pc = "wait" THEN <<Home[t], task[t].hash>> ELSE None

Flight == INSTANCE SingleFlight WITH
    Key <- Mount \X Hash,
    Caller <- Task,
    leader <- [k \in Mount \X Hash |-> LeaderOf(k)],
    waiting <- [t \in Task |-> WaitsFor(t)]

\* populate() implements single-flight: one task downloads, the others wait,
\* and the end of the download, for whatever reason, releases all of them.
ImplementsSingleFlight == Flight!Init /\ [][Flight!Next]_Flight!vars
=============================================================================
