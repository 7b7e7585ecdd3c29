----------------------------- MODULE Directories -----------------------------
(***************************************************************************)
(* Names of the mount: the inode table (src/src/virtual_fs/inode.rs) and   *)
(* the operations that fill and empty it (src/src/virtual_fs/mod.rs):      *)
(* lookup with its HEAD probe, revalidation and negative cache, readdir    *)
(* with the lazy loading of directories, create, mkdir, symlink and rmdir, *)
(* open and release, the kernel's forget, and the LRU sweep.               *)
(*                                                                         *)
(* Every request runs in a task of its own.  It holds the table's lock     *)
(* only within a step; between two steps, and above all while the Hub      *)
(* answers, the other tasks, the sweep, the flush loop and other clients   *)
(* of the bucket go on.  What the Hub answers is fixed in one step, and    *)
(* applied to the table in a later one.                                    *)
(*                                                                         *)
(* The tree has two levels.  The bucket has files only: a directory is     *)
(* there while a file is below it.  Hard links, renames and unlink are in  *)
(* StagedWrites and StreamingWrites, so that nlink is 1 here.              *)
(***************************************************************************)
EXTENDS Integers, Sequences, FiniteSets, FiniteSetsExt, SequencesExt, TLC

CONSTANTS
    Task,           \* tasks that serve kernel requests
    Top, Leaf,      \* names in the root directory, and below it
    MaxInode,       \* bound: inode numbers
    MaxVersion,     \* bound: contents put into the bucket
    MaxRequests,    \* bound: requests of the kernel
    SoftLimit,      \* --inode-soft-limit
    NegCapacity,    \* NEG_CACHE_CAPACITY
    None

ASSUME BoundsAssumption ==
    /\ MaxInode \in Nat \ {0} /\ MaxVersion \in Nat /\ MaxRequests \in Nat
    /\ SoftLimit \in Nat /\ NegCapacity \in Nat \ {0}
ASSUME NoneAssumption == None \notin Nat

VARIABLES
    remote,     \* the bucket: version of the file at a path, 0 if there is none
    version,    \* last version put into the bucket
    table,      \* InodeTable: inodes, path_to_inode, next_inode
    neg,        \* unexpired entries of negative_cache
    kernel,     \* references the kernel holds, per inode number
    task,       \* where the tasks stand
    sweep,      \* candidates of the LRU sweep under way
    requests    \* requests so far

vars == <<remote, version, table, neg, kernel, task, sweep, requests>>

RootInode == 1
RootPath == <<>>
Path == {<<n>> : n \in Top} \cup {<<n, l>> : n \in Top, l \in Leaf}
ChildPath(p, n) == Append(p, n)
Names(p) == IF p = RootPath THEN Top ELSE IF Len(p) = 1 THEN Leaf ELSE {}

Inode == RootInode..MaxInode
Kind == {"file", "dir", "link"}

Entry == [path : Path \cup {RootPath}, parent : Inode, kind : Kind,
          hash : 0..MaxVersion,     \* xet_hash; 0 before the first commit
          dirty : BOOLEAN,
          fresh : BOOLEAN,          \* last_revalidated is within metadata_ttl
          loaded : BOOLEAN,         \* children_loaded_at is set
          listed : BOOLEAN,         \* children_from_remote
          children : SUBSET Inode,
          open : Nat,               \* open_handles
          nlookup : Nat,
          pending : BOOLEAN]        \* evict_pending

\* A directory listing: what the Hub has under a path, per name.
Answer == [kind : Kind \cup {"none"}, hash : 0..MaxVersion]
Listing == UNION {[N -> Answer] : N \in {Top, Leaf, {}}}

Step == {"idle", "reval", "head", "apply", "read",              \* lookup
         "miss", "mhead", "mlist", "slow", "shead", "find",
         "insert", "insertdir", "neg", "reply",
         "load", "lock", "list", "install",                     \* ensure_children_loaded
         "make", "clear", "empty", "rmdir",
         "handles", "mark", "evict", "close", "reap"}           \* forget, release

\* What a request carries from step to step.
Request == [op : {None, "lookup", "readdir", "rmdir", "forget", "release"} \cup Kind,
            pc : Step,
            dir : Inode \cup {None},    \* the directory it was sent for
            path : Path \cup {RootPath},\* the name it is about
            ino : Inode \cup {None},    \* the inode it works on
            hash : 0..MaxVersion,       \* current_hash, as read before the HEAD
            ans : Answer,               \* what the HEAD answered
            list : Listing,             \* what the tree listing answered
            flag : BOOLEAN,             \* local_only; this call installed the listing
            steady : BOOLEAN,           \* history: nothing came or went at `path`
            blind : SUBSET {"file", "dir"}] \* history: kinds its probes could not see

NoAnswer == [kind |-> "none", hash |-> 0]
Idle == [op |-> None, pc |-> "idle", dir |-> None, path |-> RootPath, ino |-> None,
         hash |-> 0, ans |-> NoAnswer, list |-> <<>>, flag |-> FALSE, steady |-> TRUE,
         blind |-> {}]

TypeOK ==
    /\ remote \in [Path -> 0..MaxVersion]
    /\ version \in 0..MaxVersion
    /\ DOMAIN table.inodes \subseteq Inode
    /\ \A i \in DOMAIN table.inodes : table.inodes[i] \in Entry
    /\ DOMAIN table.paths \subseteq Path \cup {RootPath}
    /\ \A p \in DOMAIN table.paths : table.paths[p] \in Inode
    /\ table.next \in 2..(MaxInode + 1)
    /\ neg \subseteq Path /\ Cardinality(neg) <= NegCapacity
    /\ kernel \in [Inode -> Nat]
    /\ task \in [Task -> Request]
    /\ sweep \subseteq Inode
    /\ requests \in 0..MaxRequests

-----------------------------------------------------------------------------
\* The bucket, as HEAD and the tree listing show it

RemoteKind(r, p) ==
    CASE r[p] > 0 -> "file"
      [] r[p] = 0 /\ \E q \in Path : Front(q) = p /\ r[q] > 0 -> "dir"
      [] OTHER -> "none"

\* No file has a file below it.
IsTree(r) == \A p \in Path : r[p] > 0 => \A q \in Path : Front(q) = p => r[q] = 0

\* The resolve endpoint knows files only.
HeadFile(p) == [kind |-> IF remote[p] > 0 THEN "file" ELSE "none", hash |-> remote[p]]

ListTree(p) == [n \in Names(p) |-> [kind |-> RemoteKind(remote, ChildPath(p, n)),
                                    hash |-> remote[ChildPath(p, n)]]]

-----------------------------------------------------------------------------
\* InodeTable.  Its operations map a table to the table they leave.

Has(T, i) == i \in DOMAIN T.inodes
Live(T, S) == S \cap DOMAIN T.inodes

LookupChild(T, d, p) ==
    LET C == {c \in Live(T, T.inodes[d].children) : T.inodes[c].path = p}
    IN  IF C = {} THEN None ELSE CHOOSE c \in C : TRUE

NewEntry(d, p, kind, hash) ==
    [path |-> p, parent |-> d, kind |-> kind, hash |-> hash,
     dirty |-> FALSE, fresh |-> TRUE, loaded |-> FALSE, listed |-> FALSE,
     children |-> {}, open |-> 0, nlookup |-> 0, pending |-> FALSE]

\* A path that is known keeps its inode, whatever its kind; it counts as
\* revalidated.
Insert(T, d, p, kind, hash) ==
    IF p \in DOMAIN T.paths
    THEN [T EXCEPT !.inodes[T.paths[p]].fresh = TRUE]
    ELSE [inodes |-> [i \in DOMAIN T.inodes \cup {T.next} |->
                        IF i = T.next THEN NewEntry(d, p, kind, hash)
                        ELSE IF i = d THEN [T.inodes[d] EXCEPT !.children = @ \cup {T.next}]
                        ELSE T.inodes[i]],
          paths |-> [q \in DOMAIN T.paths \cup {p} |-> IF q = p THEN T.next ELSE T.paths[q]],
          next |-> T.next + 1]

\* Room for n more inodes: a bound of the model, not of the code.
Room(n) == table.next + n <= MaxInode + 1

\* Taking the inodes S away, with their paths, and from their parents' lists.
Without(T, S) ==
    [T EXCEPT !.inodes = [i \in DOMAIN T.inodes \ S |->
                            [T.inodes[i] EXCEPT !.children = @ \ S]],
              !.paths = [p \in DOMAIN T.paths \ {T.inodes[i].path : i \in Live(T, S)} |->
                            T.paths[p]]]

\* The inode and all its descendants.
Below(T, S) == Live(T, UNION {T.inodes[i].children : i \in Live(T, S)})
Subtree(T, i) == LET kids == Below(T, {i}) IN Live(T, {i}) \cup kids \cup Below(T, kids)

HasDirtyOrOpenDescendants(T, i) ==
    \E j \in Subtree(T, i) : T.inodes[j].dirty \/ T.inodes[j].open > 0

\* Mutant: the children of a removed directory stay in the table.
RemoveOne(T, i) == Without(T, Live(T, {i}))

RemoveInode(T, i) == Without(T, Subtree(T, i))

Evictable(T, i) ==
    /\ Has(T, i)
    /\ T.inodes[i].kind = "file"
    /\ T.inodes[i].nlookup = 0
    /\ ~T.inodes[i].dirty

\* An eviction drops the parents' listings, so that the next access lists again.
Evict(T, S) ==
    LET dirs == {T.inodes[i].parent : i \in S}
        U == Without(T, S)
    IN  [U EXCEPT !.inodes = [i \in DOMAIN U.inodes |->
                                [U.inodes[i] EXCEPT !.loaded = @ /\ i \notin dirs]]]

EvictIfSafe(T, i) == IF Evictable(T, i) THEN Evict(T, {i}) ELSE T

EvictBatchIfSafe(T, S) == Evict(T, {i \in S : Evictable(T, i) /\ T.inodes[i].open = 0})

UpdateRemoteFile(T, i, h) ==
    IF Has(T, i) /\ ~T.inodes[i].dirty THEN [T EXCEPT !.inodes[i].hash = h] ELSE T

\* Mutant: stale entries go whatever is open or unflushed below them.
InstallRough(T, d, lst) ==
    LET p == T.inodes[d].path
        seen == {n \in DOMAIN lst : lst[n].kind # "none"}
        Add(U, n) == Insert(U, d, ChildPath(p, n), lst[n].kind, lst[n].hash)
        added == FoldLeft(Add, T, SetToSeq(seen))
        stale == {c \in added.inodes[d].children :
                    Last(added.inodes[c].path) \notin seen /\ ~added.inodes[c].dirty}
        left == FoldLeft(RemoveInode, added, SetToSeq(stale))
    IN  [left EXCEPT !.inodes[d].loaded = TRUE, !.inodes[d].listed = TRUE]

\* The listing lst becomes the children of d: what it names is inserted, and
\* what it does not name goes, unless it is dirty or something below it is
\* dirty or open.
Install(T, d, lst) ==
    LET p == T.inodes[d].path
        seen == {n \in DOMAIN lst : lst[n].kind # "none"}
        Add(U, n) == Insert(U, d, ChildPath(p, n), lst[n].kind, lst[n].hash)
        added == FoldLeft(Add, T, SetToSeq(seen))
        stale == {c \in added.inodes[d].children :
                    /\ Last(added.inodes[c].path) \notin seen
                    /\ ~added.inodes[c].dirty
                    /\ ~HasDirtyOrOpenDescendants(added, c)}
        left == FoldLeft(RemoveInode, added, SetToSeq(stale))
    IN  [left EXCEPT !.inodes[d].loaded = TRUE, !.inodes[d].listed = TRUE]

-----------------------------------------------------------------------------
Init ==
    /\ remote \in {r \in [Path -> 0..1] : IsTree(r)}
    /\ version = 1
    /\ table = [inodes |-> (RootInode :> [NewEntry(RootInode, RootPath, "dir", 0)
                                              EXCEPT !.nlookup = 1]),
                paths |-> (RootPath :> RootInode),
                next |-> RootInode + 1]
    /\ neg = {}
    /\ kernel = [i \in Inode |-> IF i = RootInode THEN 1 ELSE 0]
    /\ task = [t \in Task |-> Idle]
    /\ sweep = {}
    /\ requests = 0

\* The history: for whom nothing came to or left the path they are about,
\* neither in the bucket nor in the table.
Noted(f, T, r) ==
    [u \in Task |->
        IF f[u].op # "lookup" \/ f[u].path = RootPath THEN f[u]
        ELSE [f[u] EXCEPT !.steady =
                /\ @
                /\ RemoteKind(r, f[u].path) = RemoteKind(remote, f[u].path)
                /\ f[u].path \in DOMAIN table.paths => f[u].path \in DOMAIN T.paths]]

\* Task t goes on as q, the table becomes T.
Proceed(t, q, T) ==
    /\ table' = T
    /\ task' = Noted([task EXCEPT ![t] = q], T, remote)

\* Task t goes on as q and leaves the table alone.
Goto(t, q) == task' = [task EXCEPT ![t] = q] /\ UNCHANGED table

At(t, pc) == task[t].pc = pc
To(t, pc) == [task[t] EXCEPT !.pc = pc]
\* ... with inode i, and nothing else in hand.
ToInode(t, pc, i) == [Idle EXCEPT !.op = task[t].op, !.pc = pc, !.ino = i]
Reply(t, i) == ToInode(t, "reply", i)
\* ... with its path alone.
ToNegative(t) == [Idle EXCEPT !.op = task[t].op, !.pc = "neg", !.path = task[t].path,
                              !.steady = task[t].steady, !.blind = task[t].blind]

-----------------------------------------------------------------------------
\* Requests arrive.  The kernel names inodes it has a reference to.

Begin(t) ==
    /\ task[t].pc = "idle"
    /\ requests < MaxRequests
    /\ requests' = requests + 1

Known(i) == kernel[i] > 0 /\ Has(table, i)
IsDir(i) == Known(i) /\ table.inodes[i].kind = "dir"

\* Handles of i that no release() is closing.
InUse(i) == table.inodes[i].open
            - Cardinality({t \in Task : At(t, "close") /\ task[t].ino = i})

\* lookup(): what the table knows, under the read lock.
Lookup(t, d, n) ==
    LET p == ChildPath(table.inodes[d].path, n)
        q == [Idle EXCEPT !.op = "lookup", !.dir = d, !.path = p]
        c == LookupChild(table, d, p)
        e == table.inodes[c]
    IN
    /\ Begin(t)
    /\ Goto(t, CASE c # None /\ e.kind = "file" /\ ~e.dirty ->
                        [q EXCEPT !.pc = "reval", !.ino = c, !.hash = e.hash]
                 [] c # None /\ (e.kind = "file" => e.dirty)
                             /\ (e.kind = "file" \/ table.inodes[d].loaded) ->
                        [q EXCEPT !.pc = "reply", !.ino = c]
                 [] c = None /\ table.inodes[d].loaded ->
                        [q EXCEPT !.pc = "miss", !.flag = ~table.inodes[d].listed]
                 [] OTHER -> [q EXCEPT !.pc = "slow"])
    /\ UNCHANGED <<remote, version, neg, kernel, sweep>>

\* readdir(): the directory is loaded, then read.
Readdir(t, d) ==
    /\ Begin(t)
    /\ Goto(t, [Idle EXCEPT !.op = "readdir", !.pc = "load", !.dir = d, !.ino = d])
    /\ UNCHANGED <<remote, version, neg, kernel, sweep>>

\* create(), mkdir(), symlink() and rmdir() begin by loading the directory.
Change(t, op, d, n) ==
    /\ Begin(t)
    /\ Goto(t, [Idle EXCEPT !.op = op, !.pc = "load", !.dir = d, !.ino = d,
                            !.path = ChildPath(table.inodes[d].path, n)])
    /\ UNCHANGED <<remote, version, neg, kernel, sweep>>

-----------------------------------------------------------------------------
\* lookup() of a file the table knows: revalidate_file()

\* Validated within the TTL: served as it is.  Otherwise a HEAD goes out.
Revalidate(t) ==
    /\ At(t, "reval")
    /\ Goto(t, IF Has(table, task[t].ino) /\ table.inodes[task[t].ino].fresh
               THEN ToInode(t, "read", task[t].ino) ELSE To(t, "head"))
    /\ UNCHANGED <<remote, version, neg, kernel, sweep, requests>>

\* The Hub answers, or fails, and the cached state is used.
RevalidateHead(t) ==
    /\ At(t, "head")
    /\ \/ Goto(t, [task[t] EXCEPT !.pc = "apply", !.ans = HeadFile(task[t].path)])
       \/ Goto(t, ToInode(t, "read", task[t].ino))
    /\ UNCHANGED <<remote, version, neg, kernel, sweep, requests>>

\* A 404 removes the inode, whatever has become of it since.  A hash other
\* than the one read before the HEAD replaces the inode's, unless it is dirty.
RevalidateApply(t) ==
    LET r == task[t]
        U == IF r.ans.hash # r.hash THEN UpdateRemoteFile(table, r.ino, r.ans.hash) ELSE table
    IN
    /\ At(t, "apply")
    /\ Proceed(t, ToInode(t, "read", r.ino),
               CASE r.ans.kind = "none" -> RemoveInode(table, r.ino)
                 [] r.ans.kind # "none" /\ Has(U, r.ino) ->
                        [U EXCEPT !.inodes[r.ino].fresh = TRUE]
                 [] OTHER -> U)
    /\ UNCHANGED <<remote, version, neg, kernel, sweep, requests>>

RevalidateDone(t) ==
    /\ At(t, "read")
    /\ Goto(t, IF Has(table, task[t].ino) THEN Reply(t, task[t].ino) ELSE Idle)
    /\ UNCHANGED <<remote, version, neg, kernel, sweep, requests>>

-----------------------------------------------------------------------------
\* lookup() of a name the listing lacks

\* Without a probe when the negative cache has it, or the directory was made
\* here and has no remote side.
Miss(t) ==
    /\ At(t, "miss")
    /\ Goto(t, IF task[t].path \in neg \/ task[t].flag THEN Idle ELSE To(t, "mhead"))
    /\ UNCHANGED <<remote, version, neg, kernel, sweep, requests>>

\* head_probe(): a file is told by a hit that has its size.  A 404, a hit
\* without a size and a permanent failure are inconclusive: a listing is asked.
\* A transient failure is handed to the caller.
MissHead(t) ==
    LET a == HeadFile(task[t].path) IN
    /\ At(t, "mhead")
    /\ \/ Goto(t, [task[t] EXCEPT !.pc = IF a.kind = "file" THEN "insert" ELSE "mlist",
                                  !.ans = a])
       \/ Goto(t, [task[t] EXCEPT !.pc = "mlist", !.blind = {"file"}])
       \/ Goto(t, Idle)
    /\ UNCHANGED <<remote, version, neg, kernel, sweep, requests>>

\* The permanent failure of a listing: it counts as an empty one.
ListBlind(t) == [ToNegative(t) EXCEPT !.blind = @ \cup {"dir"}]

\* Mutant: so does a transient failure.
MissListSwallow(t) ==
    /\ At(t, "mlist")
    /\ \/ Goto(t, IF RemoteKind(remote, task[t].path) = "dir"
                  THEN To(t, "insertdir") ELSE ToNegative(t))
       \/ Goto(t, ListBlind(t))
       \/ Goto(t, ToNegative(t))
    /\ UNCHANGED <<remote, version, neg, kernel, sweep, requests>>

\* The resolve endpoint does not know directories: only a listing tells, of
\* what is below the path, so that a file the HEAD did not tell stays unseen.
\* A transient failure is handed to the caller.
MissList(t) ==
    /\ At(t, "mlist")
    /\ \/ Goto(t, IF RemoteKind(remote, task[t].path) = "dir"
                  THEN To(t, "insertdir") ELSE ToNegative(t))
       \/ Goto(t, ListBlind(t))
       \/ Goto(t, Idle)
    /\ UNCHANGED <<remote, version, neg, kernel, sweep, requests>>

\* insert_file_from_head(): an entry that is no file makes way, unless that
\* would lose something.
InsertFile(t) ==
    LET r == task[t]
        c == LookupChild(table, r.dir, r.path)
        keep == c # None /\ (table.inodes[c].kind = "file" \/ HasDirtyOrOpenDescendants(table, c))
        U == Insert(IF c = None THEN table ELSE RemoveInode(table, c), r.dir, r.path, "file", r.ans.hash)
    IN
    /\ At(t, "insert")
    /\ CASE ~Has(table, r.dir) -> Goto(t, Idle)
         [] Has(table, r.dir) /\ keep -> Goto(t, Reply(t, c))
         [] OTHER -> Room(1) /\ Proceed(t, Reply(t, U.paths[r.path]), U)
    /\ UNCHANGED <<remote, version, neg, kernel, sweep, requests>>

\* insert_dir()
InsertDir(t) ==
    LET r == task[t]
        c == LookupChild(table, r.dir, r.path)
        U == Insert(table, r.dir, r.path, "dir", 0)
    IN
    /\ At(t, "insertdir")
    /\ CASE ~Has(table, r.dir) -> Goto(t, Idle)
         [] Has(table, r.dir) /\ c # None -> Goto(t, Reply(t, c))
         [] OTHER -> Room(1) /\ Proceed(t, Reply(t, U.paths[r.path]), U)
    /\ UNCHANGED <<remote, version, neg, kernel, sweep, requests>>

\* negative_cache_insert(): a full cache drops an entry first.
NegativeCacheInsert(t) ==
    /\ At(t, "neg")
    /\ IF Cardinality(neg) >= NegCapacity
       THEN \E p \in neg : neg' = (neg \ {p}) \cup {task[t].path}
       ELSE neg' = neg \cup {task[t].path}
    /\ Goto(t, Idle)
    /\ UNCHANGED <<remote, version, kernel, sweep, requests>>

-----------------------------------------------------------------------------
\* lookup() below a directory that is not loaded

Slow(t) ==
    /\ At(t, "slow")
    /\ Goto(t, IF task[t].path \in neg \/ ~Has(table, task[t].dir) THEN Idle ELSE To(t, "shead"))
    /\ UNCHANGED <<remote, version, neg, kernel, sweep, requests>>

\* A file is inserted alone; otherwise, or when the HEAD fails, the whole
\* directory is loaded.
SlowHead(t) ==
    LET a == HeadFile(task[t].path)
        load == [task[t] EXCEPT !.pc = "load", !.ino = task[t].dir]
    IN
    /\ At(t, "shead")
    /\ \/ Goto(t, IF a.kind = "file" THEN [task[t] EXCEPT !.pc = "insert", !.ans = a] ELSE load)
       \/ Goto(t, load)
    /\ UNCHANGED <<remote, version, neg, kernel, sweep, requests>>

\* After loading.  A miss is cached only when this very call listed.
Find(t) ==
    LET r == task[t]
        c == IF Has(table, r.dir) THEN LookupChild(table, r.dir, r.path) ELSE None
    IN
    /\ At(t, "find")
    /\ Goto(t, CASE c # None -> Reply(t, c)
                 [] c = None /\ r.flag -> ToNegative(t)
                 [] OTHER -> Idle)
    /\ UNCHANGED <<remote, version, neg, kernel, sweep, requests>>

\* Whatever made the inode, the kernel gets a reference to it, counted under
\* a lock of its own: bump_nlookup(), then reply.entry().
ReplyEntry(t) ==
    LET i == task[t].ino IN
    /\ At(t, "reply")
    /\ kernel' = [kernel EXCEPT ![i] = @ + 1]
    /\ table' = IF Has(table, i) THEN [table EXCEPT !.inodes[i].nlookup = @ + 1] ELSE table
    /\ task' = [task EXCEPT ![t] = Idle]
    /\ UNCHANGED <<remote, version, neg, sweep, requests>>

-----------------------------------------------------------------------------
\* ensure_children_loaded() of directory task[t].ino

\* The caller goes on; `listed` tells it whether this call listed.
Loaded(t, listed) ==
    LET r == [task[t] EXCEPT !.flag = listed /\ task[t].op = "lookup", !.list = <<>>] IN
    CASE r.op = "readdir" -> Idle
      [] r.op = "lookup" -> [r EXCEPT !.pc = "find"]
      [] r.op = "rmdir" -> [r EXCEPT !.pc = IF r.ino = r.dir THEN "empty" ELSE "rmdir"]
      [] OTHER -> [r EXCEPT !.pc = "make"]

LoadCheck(t, next) ==
    LET i == task[t].ino IN
    Goto(t, CASE ~Has(table, i) -> Idle
              [] Has(table, i) /\ table.inodes[i].loaded -> Loaded(t, FALSE)
              [] OTHER -> To(t, next))

LoadFast(t) ==
    /\ At(t, "load")
    /\ LoadCheck(t, "lock")
    /\ UNCHANGED <<remote, version, neg, kernel, sweep, requests>>

\* dir_loading_lock(): one listing of a directory at a time, then a second look.
LoadLock(t) ==
    /\ At(t, "lock")
    /\ ~\E u \in Task : task[u].pc \in {"list", "install"} /\ task[u].ino = task[t].ino
    /\ LoadCheck(t, "list")
    /\ UNCHANGED <<remote, version, neg, kernel, sweep, requests>>

\* list_tree() answers, or its error goes to the caller.
LoadList(t) ==
    /\ At(t, "list")
    /\ \/ /\ Has(table, task[t].ino)    \* else nobody will use the answer
          /\ Goto(t, [task[t] EXCEPT !.pc = "install",
                                     !.list = ListTree(table.inodes[task[t].ino].path)])
       \/ Goto(t, Idle)
    /\ UNCHANGED <<remote, version, neg, kernel, sweep, requests>>

LoadInstall(t) ==
    LET r == task[t] IN
    /\ At(t, "install")
    /\ IF Has(table, r.ino) /\ ~table.inodes[r.ino].loaded
       THEN /\ Room(Cardinality({n \in DOMAIN r.list :
                        /\ r.list[n].kind # "none"
                        /\ ChildPath(table.inodes[r.ino].path, n) \notin DOMAIN table.paths}))
            /\ Proceed(t, Loaded(t, TRUE), Install(table, r.ino, r.list))
       ELSE LoadCheck(t, "idle")
    /\ UNCHANGED <<remote, version, neg, kernel, sweep, requests>>

-----------------------------------------------------------------------------
\* create(), mkdir(), symlink(), rmdir()

\* The name is free: the entry is made.  A new file is dirty and open, a new
\* directory has nothing to fetch.
Make(t) ==
    LET r == task[t]
        free == Has(table, r.dir) /\ LookupChild(table, r.dir, r.path) = None
        U == Insert(table, r.dir, r.path, r.op, 0)
        i == U.paths[r.path]
    IN
    /\ At(t, "make")
    /\ IF free
       THEN /\ Room(1)
            /\ Proceed(t, [ToInode(t, "clear", i) EXCEPT !.path = r.path],
                       [U EXCEPT !.inodes[i].dirty = (r.op = "file"),
                                 !.inodes[i].open = IF r.op = "file" THEN 1 ELSE 0,
                                 !.inodes[i].loaded = (r.op = "dir")])
       ELSE Goto(t, Idle)
    /\ UNCHANGED <<remote, version, neg, kernel, sweep, requests>>

\* negative_cache_remove()
NegativeCacheRemove(t) ==
    /\ At(t, "clear")
    /\ neg' = neg \ {task[t].path}
    /\ Goto(t, Reply(t, task[t].ino))
    /\ UNCHANGED <<remote, version, kernel, sweep, requests>>

\* rmdir(): a first look, before the directory itself is loaded.
RmdirCheck(t) ==
    LET r == task[t]
        c == IF Has(table, r.dir) THEN LookupChild(table, r.dir, r.path) ELSE None
        ok == /\ c # None
              /\ table.inodes[c].kind = "dir"
              /\ table.inodes[c].children = {}
    IN
    /\ At(t, "empty")
    /\ Goto(t, IF ok THEN [r EXCEPT !.pc = "load", !.ino = c] ELSE Idle)
    /\ UNCHANGED <<remote, version, neg, kernel, sweep, requests>>

\* The second look and the removal, under the write lock.
Rmdir(t) ==
    LET i == task[t].ino IN
    /\ At(t, "rmdir")
    /\ IF Has(table, i) /\ table.inodes[i].children = {}
       THEN Proceed(t, ToNegative(t), RemoveInode(table, i))
       ELSE Goto(t, Idle)
    /\ UNCHANGED <<remote, version, neg, kernel, sweep, requests>>

-----------------------------------------------------------------------------
\* Handles and references

\* open() pins the inode; a write makes it dirty.
Open(i) ==
    /\ Known(i) /\ table.inodes[i].kind = "file"
    /\ table.inodes[i].open = 0     \* bound: one handle per inode
    /\ table' = [table EXCEPT !.inodes[i].open = 1]
    /\ UNCHANGED <<remote, version, neg, kernel, task, sweep, requests>>

Write(i) ==
    /\ Has(table, i) /\ InUse(i) > 0 /\ ~table.inodes[i].dirty
    /\ table' = [table EXCEPT !.inodes[i].dirty = TRUE]
    /\ UNCHANGED <<remote, version, neg, kernel, task, sweep, requests>>

\* release(): the count drops late, then the last handle finishes what a
\* forget() had to leave.
Release(t, i) ==
    /\ Has(table, i) /\ InUse(i) > 0
    /\ Begin(t)
    /\ Goto(t, [Idle EXCEPT !.op = "release", !.pc = "close", !.ino = i])
    /\ UNCHANGED <<remote, version, neg, kernel, sweep>>

DropHandle(t) ==
    LET i == task[t].ino IN
    /\ At(t, "close")
    /\ IF Has(table, i)
       THEN Proceed(t, To(t, "reap"), [table EXCEPT !.inodes[i].open = @ - 1])
       ELSE Goto(t, Idle)
    /\ UNCHANGED <<remote, version, neg, kernel, sweep, requests>>

ReapOnLastRelease(t) ==
    LET i == task[t].ino
        last == Has(table, i) /\ table.inodes[i].open = 0 /\ table.inodes[i].pending
    IN
    /\ At(t, "reap")
    /\ IF last
       THEN Proceed(t, Idle, EvictIfSafe([table EXCEPT !.inodes[i].pending = FALSE], i))
       ELSE Goto(t, Idle)
    /\ UNCHANGED <<remote, version, neg, kernel, sweep, requests>>

\* forget(): the kernel gives all its references back, but none of a file it
\* has open.
Forget(t, i) ==
    /\ i # RootInode /\ kernel[i] > 0
    /\ Has(table, i) => InUse(i) <= 0
    /\ Begin(t)
    /\ kernel' = [kernel EXCEPT ![i] = 0]
    /\ IF Has(table, i)
       THEN LET n == Max({0, table.inodes[i].nlookup - kernel[i]})
                q == [Idle EXCEPT !.op = "forget", !.pc = "handles", !.ino = i]
            IN  Proceed(t, IF n = 0 THEN q ELSE Idle,
                        [table EXCEPT !.inodes[i].nlookup = n])
       ELSE Goto(t, Idle)
    /\ UNCHANGED <<remote, version, neg, sweep>>

ForgetHandles(t) ==
    LET i == task[t].ino IN
    /\ At(t, "handles")
    /\ Goto(t, To(t, IF Has(table, i) /\ table.inodes[i].open > 0 THEN "mark" ELSE "evict"))
    /\ UNCHANGED <<remote, version, neg, kernel, sweep, requests>>

ForgetMark(t) ==
    LET i == task[t].ino IN
    /\ At(t, "mark")
    /\ IF Has(table, i)
       THEN Proceed(t, Idle, [table EXCEPT !.inodes[i].pending = TRUE])
       ELSE Goto(t, Idle)
    /\ UNCHANGED <<remote, version, neg, kernel, sweep, requests>>

ForgetEvict(t) ==
    /\ At(t, "evict")
    /\ Proceed(t, Idle, EvictIfSafe(table, task[t].ino))
    /\ UNCHANGED <<remote, version, neg, kernel, sweep, requests>>

-----------------------------------------------------------------------------
\* In the background

\* lru_evict_sweep(): over the soft limit, candidates under the read lock.
\* The order of recency is abstracted: any of the clean, closed files.
SweepScan ==
    LET eligible == {i \in DOMAIN table.inodes : /\ table.inodes[i].kind = "file"
                                                 /\ ~table.inodes[i].dirty
                                                 /\ table.inodes[i].open = 0}
        over == Cardinality(DOMAIN table.inodes) - SoftLimit
    IN
    /\ sweep = {} /\ over > 0
    /\ \E S \in SUBSET eligible \ {{}} : Cardinality(S) <= over /\ sweep' = S
    /\ UNCHANGED <<remote, version, table, neg, kernel, task, requests>>

\* After the kernel was told to drop its entries, without a lock; the notify
\* channel may refuse the last ones.
SweepEvict ==
    /\ sweep # {}
    /\ \E S \in SUBSET sweep : table' = EvictBatchIfSafe(table, S)
    /\ sweep' = {}
    /\ task' = Noted(task, table', remote)
    /\ UNCHANGED <<remote, version, neg, kernel, requests>>

PutRemote(p) ==
    /\ version < MaxVersion
    /\ IsTree([remote EXCEPT ![p] = version + 1])
    /\ version' = version + 1
    /\ remote' = [remote EXCEPT ![p] = version + 1]

\* The flush loop commits a dirty file: StagedWrites has its steps.
Commit(i) ==
    /\ Has(table, i) /\ table.inodes[i].dirty
    /\ PutRemote(table.inodes[i].path)
    /\ table' = [table EXCEPT !.inodes[i].dirty = FALSE, !.inodes[i].hash = version + 1]
    /\ task' = Noted(task, table', remote')
    /\ UNCHANGED <<neg, kernel, sweep, requests>>

\* Another client of the bucket.
RemoteEdit(p) ==
    /\ \/ PutRemote(p)
       \/ remote[p] > 0 /\ remote' = [remote EXCEPT ![p] = 0] /\ UNCHANGED version
    /\ task' = Noted(task, table, remote')
    /\ UNCHANGED <<table, neg, kernel, sweep, requests>>

\* The nearest directory above p that the table knows.
NearestDir(p) ==
    LET u == Front(p) IN
    IF u \in DOMAIN table.paths /\ table.inodes[table.paths[u]].kind = "dir"
    THEN table.paths[u] ELSE RootInode

\* The poll or the follow stream reports a path that is no file of the table:
\* the listing that should have it is dropped, and what the negative cache
\* has of a path that came.  Changes of files in the table are in StagedWrites.
InvalidateChildren(p) ==
    LET known == IF p \in DOMAIN table.paths THEN table.inodes[table.paths[p]].kind ELSE "none"
        d == NearestDir(p)
    IN
    /\ known # "file" /\ known # RemoteKind(remote, p)
    /\ table.inodes[d].loaded
    /\ table' = [table EXCEPT !.inodes[d].loaded = FALSE]
    /\ neg' = IF remote[p] > 0 THEN neg \ {p, Front(p)} ELSE neg
    /\ UNCHANGED <<remote, version, kernel, task, sweep, requests>>

\* metadata_ttl and negative_ttl run out.
ExpireMetadata(i) ==
    /\ Has(table, i) /\ table.inodes[i].kind = "file" /\ table.inodes[i].fresh
    /\ table' = [table EXCEPT !.inodes[i].fresh = FALSE]
    /\ UNCHANGED <<remote, version, neg, kernel, task, sweep, requests>>

ExpireNegative(p) ==
    /\ p \in neg
    /\ neg' = neg \ {p}
    /\ UNCHANGED <<remote, version, table, kernel, task, sweep, requests>>

-----------------------------------------------------------------------------
Arrive(t) ==
    \/ \E d \in {i \in Inode : IsDir(i)} :
        \/ Readdir(t, d)
        \/ \E n \in Names(table.inodes[d].path) :
            \/ Lookup(t, d, n)
            \/ \E op \in {"file", "link"} : Change(t, op, d, n)
            \/ n \in Top /\ \E op \in {"dir", "rmdir"} : Change(t, op, d, n)
    \/ \E i \in Inode : Release(t, i) \/ Forget(t, i)

Serve(t) ==
    \/ Revalidate(t) \/ RevalidateHead(t) \/ RevalidateApply(t) \/ RevalidateDone(t)
    \/ Miss(t) \/ MissHead(t) \/ MissList(t) \/ InsertFile(t) \/ InsertDir(t)
    \/ NegativeCacheInsert(t) \/ Slow(t) \/ SlowHead(t) \/ Find(t) \/ ReplyEntry(t)
    \/ LoadFast(t) \/ LoadLock(t) \/ LoadList(t) \/ LoadInstall(t)
    \/ Make(t) \/ NegativeCacheRemove(t) \/ RmdirCheck(t) \/ Rmdir(t)
    \/ DropHandle(t) \/ ReapOnLastRelease(t)
    \/ ForgetHandles(t) \/ ForgetMark(t) \/ ForgetEvict(t)

Next ==
    \/ \E t \in Task : Arrive(t) \/ Serve(t)
    \/ \E i \in Inode : Open(i) \/ Write(i) \/ Commit(i) \/ ExpireMetadata(i)
    \/ \E p \in Path : RemoteEdit(p) \/ InvalidateChildren(p) \/ ExpireNegative(p)
    \/ SweepScan \/ SweepEvict

Spec == Init /\ [][Next]_vars

-----------------------------------------------------------------------------
\* Properties

\* The table is one tree: the path map, the parent links and the child lists
\* of inode.rs name the same inodes, whatever requests, listings, evictions
\* and remote answers were applied in between.  TypeOK is part of it.
TreeInv ==
    LET I == table.inodes IN
    /\ TypeOK
    /\ RootInode \in DOMAIN I
    /\ \A i \in DOMAIN I :
        /\ I[i].path \in DOMAIN table.paths /\ table.paths[I[i].path] = i
        /\ \A c \in I[i].children : c \in DOMAIN I /\ I[c].parent = i
        /\ i # RootInode =>
            /\ I[i].parent \in DOMAIN I /\ i \in I[I[i].parent].children
            /\ I[i].path \in {ChildPath(I[I[i].parent].path, n) : n \in Top \cup Leaf}
    /\ \A p \in DOMAIN table.paths : table.paths[p] \in DOMAIN I

\* A lookup caches a miss only for a path that really is not there: if nothing
\* came to or left the path while it ran, neither in the bucket nor in the
\* table, the bucket does not have it (lookup(), negative_cache_insert()), not
\* even after a transient failure of a probe.  Excepted is what the probes could
\* not see: a file, if the HEAD failed permanently or told no size, and a
\* directory, if the listing failed permanently; see MissIsCertain.
MissIsReal ==
    \A t \in Task :
        At(t, "neg") /\ task[t].op = "lookup" /\ task[t].steady
            => RemoteKind(remote, task[t].path) \in {"none"} \cup task[t].blind

\* The same without the exceptions: swallowing an error "would cache a false
\* negative" (head_probe()).  No miss is cached for a path that the bucket had all
\* the time.
MissIsCertain ==
    \A t \in Task :
        At(t, "neg") /\ task[t].op = "lookup" /\ task[t].steady
            => RemoteKind(remote, task[t].path) = "none"

\* "insert(): path exists with different kind" (debug_assert of insert()): what
\* a listing names and the table has is of one kind.
InsertKeepsKind ==
    \A t \in Task :
        At(t, "install") /\ Has(table, task[t].ino) /\ ~table.inodes[task[t].ino].loaded =>
            \A n \in DOMAIN task[t].list :
                LET p == ChildPath(table.inodes[task[t].ino].path, n) IN
                task[t].list[n].kind # "none" /\ p \in DOMAIN table.paths
                    => table.inodes[table.paths[p]].kind = task[t].list[n].kind

Gone(i) == i \notin DOMAIN table'.inodes
Precious(i) == table.inodes[i].dirty \/ InUse(i) > 0

\* Local work is not dropped with its name: no listing, no eviction and no
\* removal of a directory takes away an inode that is dirty or in use.  The
\* 404 of a revalidation does: see WorkSurvives.
ListingsKeepWork ==
    [][\A i \in DOMAIN table.inodes : Precious(i) /\ Gone(i)
            => \E t \in Task : At(t, "apply") /\ task'[t].pc = "read"]_vars

\* "Dirty files, ... and inodes with live file handles are never dropped"
\* (README): nothing takes away an inode that is dirty or in use.
WorkSurvives == [][\A i \in DOMAIN table.inodes : Precious(i) => ~Gone(i)]_vars

\* An eviction mark is there for a handle whose release will act on it
\* (forget(): "otherwise it would leak").
MarkHasHandle ==
    \A i \in DOMAIN table.inodes : table.inodes[i].pending =>
        \/ table.inodes[i].open > 0
        \/ \E t \in Task : At(t, "reap") /\ task[t].ino = i

\* The kernel has no reference to an inode that an eviction took away
\* (bump_nlookup(): "Calling this on an unknown inode is a bug").
EvictedIsUnknown ==
    \A t \in Task : At(t, "reply") => Has(table, task[t].ino)
=============================================================================
