---------------------------- MODULE StagedWrites ----------------------------
(***************************************************************************)
(* The advanced-writes path of the mount: files are edited in a staging    *)
(* file on disk, and a background flush loop uploads dirty files to the    *)
(* content-addressed store and commits them to the Hub.                    *)
(*                                                                         *)
(* Actors: the requests of the kernel (Req: open, write, release, setattr, *)
(* create, unlink, rename), the flush loop, the poll loop, and another     *)
(* client of the same bucket.  A step is what one of them does between two *)
(* points where others may run: an await, or the end of a critical section *)
(* of the inode table, of the delete queue or of a per-inode staging lock. *)
(*                                                                         *)
(* All files live in one directory whose children are loaded, so a path is *)
(* a name.  The kernel holds the directory's lock over create, unlink and  *)
(* rename, so at most one of these is in flight; everything else           *)
(* interleaves.  A file's xet hash is its content (the store is content    *)
(* addressed); Empty is the content of length zero.                        *)
(***************************************************************************)
EXTENDS Naturals, FiniteSets

CONSTANTS
    Ino,        \* inode numbers, handed out once each
    Path,       \* names of files
    Content,    \* what a file can contain
    Empty,      \* the content of length zero
    Handle,     \* writable file handles
    Req,        \* concurrent kernel requests
    Flusher,    \* the flush loop, as a holder of staging locks
    None,       \* no content, no inode, no lock holder
    SeedIno, SeedPath, SeedContent,  \* a clean file that exists at mount time
    GcArmed,    \* --max-staging-size > 0: the staging budget can be exceeded
    Rewrites,   \* may an application write a content that was stored before?
    MaxOps,     \* bound: operations begun by applications and other clients
    MaxFaults   \* bound: uploads, commits and downloads that fail

ASSUME ValueAssumption ==
    /\ Empty \in Content
    /\ None \notin Content /\ None \notin Ino /\ None \notin Req /\ None \notin Path
    /\ Flusher \notin Req /\ Flusher # None
ASSUME SeedAssumption ==
    SeedIno \in Ino /\ SeedPath \in Path /\ SeedContent \in Content
ASSUME BoundAssumption ==
    /\ GcArmed \in BOOLEAN /\ Rewrites \in BOOLEAN
    /\ MaxOps \in Nat /\ MaxFaults \in Nat

VARIABLES
    used,    \* inode numbers handed out
    table,   \* the inode table: Ino -> Entry
    disk,    \* staging directory: Ino -> content, or None when no file
    fd,      \* open_files: Handle -> Ino or None
    cut,     \* handles whose staging file has been unlinked under them
    lock,    \* per-inode staging locks: Ino -> holder or None
    req,     \* what each request is doing
    chan,    \* flush channel: inodes signalled dirty and not yet received
    wake,    \* flush channel: a WakeDeletes signal is pending
    delq,    \* FlushManager.pending_deletes
    errs,    \* FlushManager.errors: inodes with a deferred flush error
    fpc,     \* where the flush loop is
    batch,   \* inodes received in this flush cycle
    dels,    \* paths of the remote delete request in flight
    snap,    \* FlushItem of each inode of the batch being flushed, or NoItem
    gcq,     \* staging_gc_candidates still to visit
    poll,    \* the poll loop: its listing and the diff computed from it
    remote,  \* the Hub: Path -> content, or None when there is no file
    \* history, read by properties and bounds only
    data,    \* Ino -> the content applications last gave the file
    seen,    \* contents that have been in some file
    ops, faults

ivars == <<used, table, disk, fd, cut, lock, req>>
qvars == <<chan, wake, delq, errs>>
fvars == <<fpc, batch, dels, snap, gcq>>
hvars == <<data, seen, ops, faults>>
vars == <<ivars, qvars, fvars, poll, remote, hvars>>

Hash == Content \cup {None}

Entry == [here : BOOLEAN, named : BOOLEAN, nlink : {0, 1}, path : Path,
          gen : Nat, hash : Hash, zero : BOOLEAN, cur : BOOLEAN, pdel : SUBSET Path]

\* What a request is doing: each but an idle one works on an inode, and a rename
\* between two paths.
ReqState ==
    {q \in [op : {"idle", "open", "fetch", "write", "close", "reap", "resize", "set",
                  "unlink", "rename", "renamed", "drop"},
            ino : Ino \cup {None}, fh : Handle \cup {None},
            path : Path \cup {None}, to : Path \cup {None},
            hash : Hash, zero : BOOLEAN, flag : BOOLEAN, reuse : BOOLEAN] :
        /\ q.op # "idle" => q.ino \in Ino
        /\ q.op \in {"rename", "renamed"} => q.path \in Path /\ q.to \in Path}

Item == [on : BOOLEAN, path : Path \cup {None}, gen : Nat, prev : Hash,
         pdel : SUBSET Path, up : Hash]

PollState == [pc : {"idle", "listed", "diffed"}, listing : [Path -> Hash],
              upd : [Ino -> Hash], gone : SUBSET Ino]

Idle == [op |-> "idle", ino |-> None, fh |-> None, path |-> None, to |-> None,
         hash |-> None, zero |-> FALSE, flag |-> FALSE, reuse |-> FALSE]
NoItem == [on |-> FALSE, path |-> None, gen |-> 0, prev |-> None,
           pdel |-> {}, up |-> None]
NoPoll == [pc |-> "idle", listing |-> [p \in Path |-> None],
           upd |-> [i \in Ino |-> None], gone |-> {}]
\* A free slot of the table, before insert() and after remove().
NoEntry == [here |-> FALSE, named |-> FALSE, nlink |-> 0, path |-> SeedPath,
            gen |-> 0, hash |-> None, zero |-> TRUE, cur |-> FALSE, pdel |-> {}]

TypeOK ==
    /\ used \subseteq Ino
    /\ table \in [Ino -> Entry]
    /\ disk \in [Ino -> Hash]
    /\ fd \in [Handle -> Ino \cup {None}]
    /\ cut \subseteq Handle
    /\ lock \in [Ino -> Req \cup {Flusher, None}]
    /\ req \in [Req -> ReqState]
    /\ chan \subseteq Ino /\ wake \in BOOLEAN
    /\ delq \subseteq Path /\ errs \subseteq Ino
    /\ fpc \in {"recv", "deleting", "lock", "upload", "uploaded", "commit",
                "committed", "gc"}
    /\ batch \subseteq Ino /\ dels \subseteq Path
    /\ snap \in [Ino -> Item]
    /\ gcq \subseteq Ino
    /\ poll \in PollState
    /\ remote \in [Path -> Hash]
    /\ data \in [Ino -> Hash] /\ seen \subseteq Content
    /\ ops \in Nat /\ faults \in Nat

Init ==
    /\ used = {SeedIno}
    /\ table = [i \in Ino |->
          IF i = SeedIno
          THEN [here |-> TRUE, named |-> TRUE, nlink |-> 1, path |-> SeedPath,
                gen |-> 0, hash |-> SeedContent, zero |-> SeedContent = Empty,
                cur |-> FALSE, pdel |-> {}]
          ELSE NoEntry]
    /\ disk = [i \in Ino |-> None]
    /\ fd = [h \in Handle |-> None]
    /\ cut = {}
    /\ lock = [i \in Ino |-> None]
    /\ req = [r \in Req |-> Idle]
    /\ chan = {} /\ wake = FALSE /\ delq = {} /\ errs = {}
    /\ fpc = "recv" /\ batch = {} /\ dels = {} /\ gcq = {}
    /\ snap = [i \in Ino |-> NoItem]
    /\ poll = NoPoll
    /\ remote = [p \in Path |-> IF p = SeedPath THEN SeedContent ELSE None]
    /\ data = [i \in Ino |-> IF i = SeedIno THEN SeedContent ELSE None]
    /\ seen = {SeedContent, Empty}
    /\ ops = 0 /\ faults = 0

----------------------------------------------------------------------------
(* The inode table and the staging directory.                              *)

Dirty(i) == table[i].gen > 0
Linked(i) == table[i].here /\ table[i].nlink > 0
Handles(i) == {h \in Handle : fd[h] = i}
HasOpenHandles(i) == Handles(i) # {}
LookupChild(p) == {i \in Ino : table[i].here /\ table[i].named /\ table[i].path = p}

\* What open(2), write(2) and a resize do to an entry: set_dirty(), the size, the
\* staging_is_current flag, and the hash of a file truncated to 0.
Opened(e, mirrors, trunc) ==
    [e EXCEPT !.gen = @ + 1, !.cur = @ \/ mirrors, !.zero = @ \/ trunc]
NotCurrent(e) == [e EXCEPT !.cur = FALSE]
WrittenSameGen(e) == [e EXCEPT !.zero = FALSE]              \* mutant
Written(e) == [e EXCEPT !.gen = @ + 1, !.zero = FALSE]
Resized(e, zero) ==
    [e EXCEPT !.gen = @ + 1, !.zero = zero, !.hash = IF zero THEN None ELSE @]

ApplyCommitAlways(e, item) ==                               \* mutant
    IF e.here
    THEN [e EXCEPT !.gen = 0, !.hash = item.up, !.zero = item.up = Empty,
                   !.cur = TRUE, !.pdel = {}]
    ELSE e

\* InodeEntry::apply_commit: only an unchanged generation takes the hash and
\* clears the dirty flag.
ApplyCommit(e, item) ==
    IF e.here /\ e.gen = item.gen
    THEN [e EXCEPT !.gen = 0, !.hash = item.up, !.zero = item.up = Empty,
                   !.cur = TRUE, !.pdel = {}]
    ELSE e

UnlinkOneWrapping(e) == [e EXCEPT !.named = FALSE, !.nlink = @ - 1]   \* mutant

\* InodeTable::unlink_one, for a file with one name.
UnlinkOne(e) == [e EXCEPT !.named = FALSE, !.nlink = 0]

UpdateRemoteKeepingFlag(e, hash) ==                         \* mutant
    [e EXCEPT !.hash = hash, !.zero = hash = Empty]

\* InodeTable::update_remote_file, for a clean entry.
UpdateRemote(e, hash) ==
    [e EXCEPT !.hash = hash, !.zero = hash = Empty, !.cur = FALSE]

\* Removing a staging file leaves the handles open on it without a name.
Unstage(i) ==
    /\ disk' = [disk EXCEPT ![i] = None]
    /\ cut' = cut \cup Handles(i)

\* One more operation of an application or of another client.
BeginOp == ops < MaxOps /\ ops' = ops + 1

Begin(r, rec) == req[r] = Idle /\ BeginOp /\ req' = [req EXCEPT ![r] = rec]
Finish(r) == req' = [req EXCEPT ![r] = Idle]

\* A request that fails: an I/O error of the store or of the Hub.
Fault == faults < MaxFaults /\ faults' = faults + 1

\* Bound: handles are opened and created while there are free ones.
HandleFree == Cardinality({h \in Handle : fd[h] = None})
                > Cardinality({r \in Req : req[r].op \in {"open", "fetch"}})

\* The kernel's lock on the directory.
DirFree == \A r \in Req : req[r].op \notin {"unlink", "rename", "renamed", "drop"}

----------------------------------------------------------------------------
(* open(2) for writing: open() + open_advanced_write().                    *)

\* open(): get_file_entry() reads the hash and the size (zero: it is 0) before
\* the staging lock is taken.  flag is O_TRUNC.
OpenStart(r, i, trunc) ==
    /\ table[i].here /\ HandleFree
    /\ table[i].named \/ HasOpenHandles(i)
    /\ Begin(r, [Idle EXCEPT !.op = "open", !.ino = i, !.flag = trunc,
                             !.hash = table[i].hash, !.zero = table[i].zero])
    /\ UNCHANGED <<used, table, disk, fd, cut, lock, qvars, fvars, poll, remote,
                   data, seen, faults>>

\* open_advanced_write(): lock, check the inode, decide whether the staging
\* file can be reused, clear staging_is_current when it cannot.
OpenLock(r) ==
    LET i == req[r].ino
        e == table[i]
        reuse == ~req[r].flag /\ (e.gen > 0 \/ e.cur) /\ disk[i] # None
    IN  /\ req[r].op = "open"
        /\ lock[i] = None
        /\ IF e.here
           THEN /\ lock' = [lock EXCEPT ![i] = r]
                /\ req' = [req EXCEPT ![r] = [@ EXCEPT !.op = "fetch", !.reuse = reuse]]
                /\ table' = IF reuse THEN table ELSE [table EXCEPT ![i] = NotCurrent(@)]
           ELSE Finish(r) /\ UNCHANGED <<table, lock>>
        /\ UNCHANGED <<used, disk, fd, cut, qvars, fvars, poll, remote, hvars>>

NeedsDownload(q) == ~q.reuse /\ ~q.flag /\ q.hash # None /\ ~q.zero

\* The staging file is reused, downloaded or created empty; the flag is set
\* again if the download mirrors the remote and the hash did not move
\* meanwhile; the inode becomes dirty and the handle is installed.
OpenDone(r, h) ==
    LET q == req[r]
        i == q.ino
        base == IF q.reuse THEN disk[i] ELSE IF NeedsDownload(q) THEN q.hash ELSE Empty
        mirrors == /\ ~q.reuse
                   /\ NeedsDownload(q) \/ (q.hash = None /\ q.zero)
                   /\ table[i].hash = q.hash
    IN  /\ q.op = "fetch"
        /\ base # None
        /\ disk' = [disk EXCEPT ![i] = base]
        /\ IF table[i].here
           THEN /\ fd[h] = None
                /\ fd' = [fd EXCEPT ![h] = i]
                /\ table' = [table EXCEPT ![i] = Opened(@, mirrors, q.flag)]
                /\ data' = [data EXCEPT ![i] = IF q.flag THEN Empty ELSE @]
           ELSE UNCHANGED <<table, fd, data>>
        /\ lock' = [lock EXCEPT ![i] = None]
        /\ Finish(r)
        /\ UNCHANGED <<used, cut, qvars, fvars, poll, remote, seen, ops, faults>>

\* EIO: the download fails and leaves the file alone or some part of the content
\* in it, or a staging file to be reused has vanished.
OpenFail(r) ==
    LET i == req[r].ino
    IN  /\ req[r].op = "fetch"
        /\ \/ /\ req[r].reuse /\ disk[i] = None
              /\ UNCHANGED <<disk, faults>>
           \/ /\ NeedsDownload(req[r]) /\ Fault
              /\ \E left \in {disk[i]} \cup Content : disk' = [disk EXCEPT ![i] = left]
        /\ lock' = [lock EXCEPT ![i] = None]
        /\ Finish(r)
        /\ UNCHANGED <<used, table, fd, cut, qvars, fvars, poll, remote,
                       data, seen, ops>>

----------------------------------------------------------------------------
(* write(2), close(2), ftruncate(2).                                       *)

\* Some write() has put bytes in i's staging file and not yet marked i dirty.
Writing(i) == \E r \in Req : req[r].op = "write" /\ req[r].ino = i
Closing(h) == \E r \in Req : req[r].op = "close" /\ req[r].fh = h

\* write(): pwrite to the staging file.
PWrite(r, h, c) ==
    LET i == fd[h]
    IN  /\ i # None /\ c # Empty
        /\ ~Closing(h)
        /\ Rewrites \/ c \notin seen
        /\ Begin(r, [Idle EXCEPT !.op = "write", !.ino = i, !.fh = h])
        /\ disk' = IF h \in cut THEN disk ELSE [disk EXCEPT ![i] = c]
        /\ data' = [data EXCEPT ![i] = c]
        /\ seen' = seen \cup {c}
        /\ UNCHANGED <<used, table, fd, cut, lock, qvars, fvars, poll, remote, faults>>

\* write(): then, under the table lock, the size and the dirty generation.
WriteDone(r) ==
    LET i == req[r].ino
    IN  /\ req[r].op = "write"
        /\ table' = IF table[i].here
                    THEN [table EXCEPT ![i] = Written(@)] ELSE table
        /\ Finish(r)
        /\ UNCHANGED <<used, disk, fd, cut, lock, qvars, fvars, poll, remote, hvars>>

\* flush() of an advanced-mode handle (every close(2) calls it): check_error()
\* hands a deferred error to the caller once.
FlushHandle(h) ==
    /\ fd[h] # None /\ ~Closing(h)
    /\ fd[h] \in errs
    /\ errs' = errs \ {fd[h]}
    /\ UNCHANGED <<ivars, chan, wake, delq, fvars, poll, remote, hvars>>

\* release(): the last close of a handle signals the flush loop, unless the
\* inode is unlinked.  The kernel sends no other request for the handle.
Release(r, h) ==
    LET i == fd[h]
    IN  /\ i # None
        /\ req[r] = Idle
        /\ \A s \in Req : req[s].fh # h
        /\ req' = [req EXCEPT ![r] = [Idle EXCEPT !.op = "close", !.ino = i, !.fh = h]]
        /\ chan' = IF table[i].here /\ table[i].nlink = 0 THEN chan ELSE chan \cup {i}
        /\ UNCHANGED <<used, table, disk, fd, cut, lock, wake, delq, errs, fvars, poll,
                       remote, hvars>>

\* release(): then the handle count goes down, and reap_on_last_release() removes
\* an orphan, whose staging file goes without its lock, or goes on to gc_one().
ReleaseDone(r) ==
    LET h == req[r].fh
        i == req[r].ino
        e == table[i]
        last == Handles(i) = {h}
        orphan == last /\ e.here /\ e.nlink = 0
    IN  /\ req[r].op = "close"
        /\ fd' = [fd EXCEPT ![h] = None]
        /\ table' = IF orphan THEN [table EXCEPT ![i] = NoEntry] ELSE table
        /\ disk' = IF orphan THEN [disk EXCEPT ![i] = None] ELSE disk
        /\ req' = [req EXCEPT ![r] =
                     IF last /\ e.here /\ ~orphan /\ e.gen = 0 /\ GcArmed
                     THEN [Idle EXCEPT !.op = "reap", !.ino = i] ELSE Idle]
        /\ cut' = cut \ {h}
        /\ UNCHANGED <<used, lock, qvars, fvars, poll, remote, hvars>>

\* StagingCoordinator::gc_one() called by release(): if over the limit, take the
\* lock and remove the staging file of an inode that is still clean.
ReapGc(r) ==
    LET i == req[r].ino
    IN  /\ req[r].op = "reap"
        /\ \/ /\ lock[i] = None
              /\ IF table[i].here /\ ~Dirty(i) THEN Unstage(i) ELSE UNCHANGED <<disk, cut>>
           \/ UNCHANGED <<disk, cut>>       \* not over the limit
        /\ Finish(r)
        /\ UNCHANGED <<used, table, fd, lock, qvars, fvars, poll, remote, hvars>>

\* setattr(size): the inode exists.  flag is a truncation to 0.
SetattrStart(r, i, zero) ==
    /\ table[i].here
    /\ table[i].named \/ HasOpenHandles(i)
    /\ Begin(r, [Idle EXCEPT !.op = "resize", !.ino = i, !.flag = zero])
    /\ UNCHANGED <<used, table, disk, fd, cut, lock, qvars, fvars, poll, remote,
                   data, seen, faults>>

\* setattr(size): the staging lock, then a look at the staging file (reuse: it
\* exists, whatever staging_is_current says) and the entry.  A missing staging
\* file of a removed inode cannot be resized: ENOENT.
SetattrLock(r) ==
    LET q == req[r]
        i == q.ino
    IN  /\ q.op = "resize"
        /\ lock[i] = None
        /\ IF table[i].here \/ q.flag \/ disk[i] # None
           THEN /\ lock' = [lock EXCEPT ![i] = r]
                /\ req' = [req EXCEPT ![r] = [q EXCEPT !.op = "set", !.hash = table[i].hash,
                              !.zero = table[i].zero, !.reuse = disk[i] # None]]
           ELSE Finish(r) /\ UNCHANGED lock
        /\ UNCHANGED <<used, table, disk, fd, cut, qvars, fvars, poll, remote, hvars>>

\* setattr(size): a missing staging file is downloaded or created, then resized
\* to content c (the one it has, or another), the inode becomes dirty, and the
\* flush loop is signalled.  A truncation to 0 forgets the hash.
SetattrDone(r, c) ==
    LET q == req[r]
        i == q.ino
        base == IF q.reuse THEN disk[i] ELSE IF NeedsDownload(q) THEN q.hash ELSE Empty
    IN  /\ q.op = "set"
        /\ IF q.flag THEN c = Empty
           ELSE base # None /\ c # Empty /\ (c = base \/ Rewrites \/ c \notin seen)
        /\ disk' = [disk EXCEPT ![i] = c]
        /\ seen' = seen \cup {c}
        /\ IF table[i].here
           THEN /\ table' = [table EXCEPT ![i] = Resized(@, q.flag)]
                /\ data' = [data EXCEPT ![i] = IF c = base /\ ~q.flag THEN @ ELSE c]
           ELSE UNCHANGED <<table, data>>
        /\ chan' = chan \cup {i}
        /\ lock' = [lock EXCEPT ![i] = None]
        /\ Finish(r)
        /\ UNCHANGED <<used, fd, cut, wake, delq, errs, fvars, poll, remote,
                       ops, faults>>

SetattrFail(r) ==
    LET i == req[r].ino
    IN  /\ req[r].op = "set"
        /\ \/ /\ ~req[r].flag /\ req[r].reuse /\ disk[i] = None
              /\ UNCHANGED <<disk, faults>>
           \/ /\ NeedsDownload(req[r]) /\ Fault
              /\ \E left \in {disk[i]} \cup Content : disk' = [disk EXCEPT ![i] = left]
        /\ lock' = [lock EXCEPT ![i] = None]
        /\ Finish(r)
        /\ UNCHANGED <<used, table, fd, cut, qvars, fvars, poll, remote,
                       data, seen, ops>>

----------------------------------------------------------------------------
(* create, unlink, rename.                                                 *)

\* create(): insert a dirty inode, cancel a queued delete of its path, create
\* the staging file, install the handle.
Create(p, i, h) ==
    /\ DirFree /\ LookupChild(p) = {}
    /\ i \notin used /\ HandleFree /\ fd[h] = None
    /\ BeginOp
    /\ used' = used \cup {i}
    /\ table' = [table EXCEPT ![i] =
          [here |-> TRUE, named |-> TRUE, nlink |-> 1, path |-> p, gen |-> 1,
           hash |-> None, zero |-> TRUE, cur |-> FALSE, pdel |-> {}]]
    /\ delq' = delq \ {p}
    /\ disk' = [disk EXCEPT ![i] = Empty]
    /\ fd' = [fd EXCEPT ![h] = i]
    /\ data' = [data EXCEPT ![i] = Empty]
    /\ UNCHANGED <<cut, lock, req, chan, wake, errs, fvars, poll, remote, seen, faults>>

\* unlink(), advanced mode: no lock.  The remote delete is queued, and the loop
\* woken, if the inode has a hash.
Unlink(r, i) ==
    LET p == table[i].path
        needsRemote == table[i].hash # None /\ table[i].nlink <= 1
    IN  /\ DirFree
        /\ table[i].here /\ table[i].named
        /\ Begin(r, [Idle EXCEPT !.op = "unlink", !.ino = i, !.path = p])
        /\ IF needsRemote
           THEN delq' = delq \cup {p} /\ wake' = TRUE
           ELSE UNCHANGED <<delq, wake>>
        /\ UNCHANGED <<used, table, disk, fd, cut, lock, chan, errs, fvars, poll,
                       remote, data, seen, faults>>

\* unlink(): then the name goes, and with no open handle the inode too.
UnlinkLocal(r) ==
    LET i == req[r].ino
        found == i \in LookupChild(req[r].path)
        gone == found /\ ~HasOpenHandles(i)
    IN  /\ req[r].op = "unlink"
        /\ table' = IF gone THEN [table EXCEPT ![i] = NoEntry]
                    ELSE IF found THEN [table EXCEPT ![i] = UnlinkOne(@)] ELSE table
        /\ req' = [req EXCEPT ![r] =
                     IF gone THEN [Idle EXCEPT !.op = "drop", !.ino = i] ELSE Idle]
        /\ UNCHANGED <<used, disk, fd, cut, lock, qvars, fvars, poll, remote, hvars>>

\* StagingCoordinator::drop_locked().
DropLocked(r) ==
    /\ req[r].op = "drop"
    /\ lock[req[r].ino] = None
    /\ Unstage(req[r].ino)
    /\ Finish(r)
    /\ UNCHANGED <<used, table, fd, lock, qvars, fvars, poll, remote, hvars>>

\* rename() phase 1, rename_validate(): what phases 2 and 3 use is read here.
\* flag: the file was dirty.
RenameValidate(r, i, to) ==
    /\ DirFree
    /\ table[i].here /\ table[i].named /\ table[i].path # to
    /\ Begin(r, [Idle EXCEPT !.op = "rename", !.ino = i, !.path = table[i].path,
                             !.to = to, !.hash = table[i].hash, !.flag = Dirty(i)])
    /\ UNCHANGED <<used, table, disk, fd, cut, lock, qvars, fvars, poll, remote,
                   data, seen, faults>>

\* rename() phase 2, rename_remote(): a clean file is renamed on the Hub by one
\* commit; nothing is sent for a dirty one.  When the Hub fails, having
\* committed or not, rename() returns the error.
RenameRemote(r) ==
    LET q == req[r]
        moved == [remote EXCEPT ![q.to] = q.hash, ![q.path] = None]
        sends == ~q.flag /\ q.hash # None
    IN  /\ q.op = "rename"
        /\ \/ /\ remote' = IF sends THEN moved ELSE remote
              /\ req' = [req EXCEPT ![r] = [@ EXCEPT !.op = "renamed"]]
              /\ UNCHANGED faults
           \/ /\ sends /\ Fault
              /\ remote' \in {remote, moved}
              /\ Finish(r)
        /\ UNCHANGED <<used, table, disk, fd, cut, lock, qvars, fvars, poll,
                       data, seen, ops>>

Moved(e, q) ==
    [e EXCEPT !.named = TRUE, !.path = q.to,
              !.pdel = IF q.flag /\ q.hash # None THEN @ \cup {q.path} ELSE @]

\* rename() phase 3, rename_apply_local(): cancel a queued delete of the
\* destination, replace the target, remember the old path of a dirty file that
\* had a hash, move the name.
RenameLocal(r) ==
    LET q == req[r]
        i == q.ino
        target == LookupChild(q.to) \ {i}
        gone == {j \in target : ~HasOpenHandles(j)}
    IN  /\ q.op = "renamed"
        /\ delq' = delq \ {q.to}
        /\ IF ~table[i].here \/ i \in LookupChild(q.to)
           THEN Finish(r) /\ UNCHANGED table
           ELSE /\ table' = [j \in Ino |->
                     IF j = i THEN Moved(table[i], q)
                     ELSE IF j \in gone THEN NoEntry
                     ELSE IF j \in target THEN UnlinkOne(table[j])
                     ELSE table[j]]
                /\ req' = [req EXCEPT ![r] =
                     IF gone = {} THEN Idle
                     ELSE [Idle EXCEPT !.op = "drop", !.ino = CHOOSE j \in gone : TRUE]]
        /\ UNCHANGED <<used, disk, fd, cut, lock, chan, wake, errs, fvars, poll,
                       remote, hvars>>

----------------------------------------------------------------------------
(* The flush loop: flush_loop(), flush_pending_deletes(), flush_batch().   *)

FlushRecvLast(i) ==                                         \* mutant
    /\ fpc = "recv" /\ i \in chan
    /\ chan' = chan \ {i} /\ batch' = {i}
    /\ UNCHANGED <<ivars, wake, delq, errs, fpc, dels, snap, gcq, poll, remote, hvars>>

\* rx.recv(): the first signal and those of the debounce window.  flush_batch
\* drops duplicates, so the channel is the set of what it holds.
FlushRecv(i) ==
    /\ fpc = "recv" /\ i \in chan
    /\ chan' = chan \ {i} /\ batch' = batch \cup {i}
    /\ UNCHANGED <<ivars, wake, delq, errs, fpc, dels, snap, gcq, poll, remote, hvars>>

\* The debounce window closes: flush_pending_deletes() takes the queue.
FlushTakeDeletes ==
    /\ fpc = "recv" /\ (batch # {} \/ wake)
    /\ wake' = FALSE
    /\ IF delq # {}
       THEN dels' = delq /\ delq' = {} /\ fpc' = "deleting"
       ELSE fpc' = "lock" /\ UNCHANGED <<delq, dels>>
    /\ UNCHANGED <<ivars, chan, errs, batch, snap, gcq, poll, remote, hvars>>

\* The Hub answers the batched delete.
AfterDeletes == [p \in Path |-> IF p \in dels THEN None ELSE remote[p]]

FlushDeletesDone ==
    /\ fpc = "deleting"
    /\ remote' = AfterDeletes
    /\ dels' = {} /\ fpc' = "lock"
    /\ UNCHANGED <<ivars, qvars, batch, snap, gcq, poll, hvars>>

\* The delete fails, having been applied by the Hub or not: the paths are
\* queued again, and the loop is not woken for them.
FlushDeletesFail ==
    /\ fpc = "deleting" /\ Fault
    /\ remote' \in {remote, AfterDeletes}
    /\ delq' = delq \cup dels
    /\ dels' = {} /\ fpc' = "lock"
    /\ UNCHANGED <<ivars, chan, wake, errs, batch, snap, gcq, poll, data, seen, ops>>

\* flush_batch(): take the staging locks of the batch one after the other.
FlushLock(i) ==
    /\ fpc = "lock" /\ i \in batch
    /\ lock[i] = None
    /\ lock' = [lock EXCEPT ![i] = Flusher]
    /\ UNCHANGED <<used, table, disk, fd, cut, req, qvars, fvars, poll, remote, hvars>>

Flushable(i) == Linked(i) /\ Dirty(i)
ReleaseLocks == lock' = [i \in Ino |-> IF lock[i] = Flusher THEN None ELSE lock[i]]

\* flush_batch(): then snapshot the inodes that are linked and dirty and have a
\* staging file.
FlushSnapshot ==
    LET items == {i \in batch : Flushable(i) /\ disk[i] # None}
        missing == {i \in batch : Flushable(i) /\ disk[i] = None}
    IN  /\ fpc = "lock"
        /\ \A i \in batch : lock[i] = Flusher
        /\ errs' = errs \cup missing
        /\ IF items = {}
           THEN /\ fpc' = IF batch = {} THEN "recv" ELSE "gc"
                /\ ReleaseLocks
                /\ UNCHANGED snap
           ELSE /\ fpc' = "upload"
                /\ snap' = [i \in Ino |->
                     IF i \in items
                     THEN [on |-> TRUE, path |-> table[i].path, gen |-> table[i].gen,
                           prev |-> table[i].hash, pdel |-> table[i].pdel, up |-> None]
                     ELSE NoItem]
                /\ UNCHANGED lock
        /\ batch' = {}
        /\ UNCHANGED <<used, table, disk, fd, cut, req, chan, wake, delq, dels, gcq,
                       poll, remote, hvars>>

Items == {i \in Ino : snap[i].on}
UnchangedAny == {i \in Items : snap[i].pdel = {}}            \* mutant
Unchanged == {i \in Items : snap[i].pdel = {} /\ snap[i].prev = snap[i].up}
DropItems(S) == snap' = [i \in Ino |-> IF i \in S THEN NoItem ELSE snap[i]]

\* upload_files() reads the staging files; the locks are dropped after it.
FlushUpload ==
    /\ fpc = "upload"
    /\ \A i \in Items : disk[i] # None
    /\ snap' = [i \in Ino |-> IF i \in Items THEN [snap[i] EXCEPT !.up = disk[i]] ELSE snap[i]]
    /\ ReleaseLocks
    /\ fpc' = "uploaded"
    /\ UNCHANGED <<used, table, disk, fd, cut, req, qvars, batch, dels, gcq, poll, remote, hvars>>

FlushUploadFailSilent ==                                    \* mutant
    /\ fpc = "upload"
    /\ IF \E i \in Items : disk[i] = None THEN UNCHANGED faults ELSE Fault
    /\ DropItems(Ino) /\ ReleaseLocks
    /\ fpc' = "recv"
    /\ UNCHANGED <<used, table, disk, fd, cut, req, chan, wake, delq, errs, batch, dels,
                   gcq, poll, remote, data, seen, ops>>

\* An upload fails, or a staging file is gone: every item gets an error, the
\* batch is abandoned and nothing is signalled again.
FlushUploadFail ==
    /\ fpc = "upload"
    /\ IF \E i \in Items : disk[i] = None THEN UNCHANGED faults ELSE Fault
    /\ errs' = errs \cup Items
    /\ DropItems(Ino) /\ ReleaseLocks
    /\ fpc' = "recv"
    /\ UNCHANGED <<used, table, disk, fd, cut, req, chan, wake, delq, batch, dels, gcq,
                   poll, remote, data, seen, ops>>

\* Items whose upload has the hash of the entry at snapshot time need no
\* commit: they are clean now.
FlushUnchanged ==
    /\ fpc = "uploaded"
    /\ table' = [i \in Ino |-> IF i \in Unchanged THEN ApplyCommit(table[i], snap[i])
                               ELSE table[i]]
    /\ DropItems(Unchanged)
    /\ fpc' = IF Items = Unchanged THEN "gc" ELSE "commit"
    /\ UNCHANGED <<used, disk, fd, cut, lock, req, qvars, batch, dels, gcq, poll,
                   remote, hvars>>

\* batch_operations(): all adds, then all deletes of old paths.
AfterCommit(p) ==
    IF \E i \in Items : p \in snap[i].pdel THEN None
    ELSE IF \E i \in Items : snap[i].path = p
         THEN snap[CHOOSE i \in Items : snap[i].path = p].up
         ELSE remote[p]

FlushCommit ==
    /\ fpc = "commit"
    /\ remote' = [p \in Path |-> AfterCommit(p)]
    /\ fpc' = "committed"
    /\ UNCHANGED <<ivars, qvars, batch, dels, snap, gcq, poll, hvars>>

\* The commit fails, having been applied by the Hub or not.
FlushCommitFail ==
    /\ fpc = "commit" /\ Fault
    /\ \/ remote' = remote
       \/ remote' = [p \in Path |-> AfterCommit(p)]
    /\ errs' = errs \cup Items
    /\ DropItems(Ino)
    /\ fpc' = "recv"
    /\ UNCHANGED <<ivars, chan, wake, delq, batch, dels, gcq, poll, data, seen, ops>>

\* apply_commit() for the committed items.
FlushApply ==
    /\ fpc = "committed"
    /\ table' = [i \in Ino |-> IF i \in Items THEN ApplyCommit(table[i], snap[i])
                               ELSE table[i]]
    /\ DropItems(Ino)
    /\ fpc' = "gc"
    /\ UNCHANGED <<used, disk, fd, cut, lock, req, qvars, batch, dels, gcq, poll,
                   remote, hvars>>

\* StagingCoordinator::gc(): when over the limit, visit the clean, closed files
\* that have a staging file; otherwise go back to the channel.
GcCandidatesOpen == {i \in Ino : /\ Linked(i) /\ ~Dirty(i) /\ table[i].pdel = {}   \* mutant
                                 /\ disk[i] \notin {None, Empty}}
GcCandidates == {i \in Ino : /\ Linked(i) /\ ~Dirty(i) /\ table[i].pdel = {}
                             /\ ~HasOpenHandles(i) /\ disk[i] \notin {None, Empty}}
FlushGc ==
    /\ fpc = "gc" /\ gcq = {}
    /\ IF GcArmed /\ GcCandidates # {}
       THEN \/ gcq' = GcCandidates /\ UNCHANGED fpc
            \/ fpc' = "recv" /\ UNCHANGED gcq
       ELSE fpc' = "recv" /\ UNCHANGED gcq
    /\ UNCHANGED <<ivars, qvars, batch, dels, snap, poll, remote, hvars>>

FlushGcOne(i) ==
    /\ fpc = "gc" /\ i \in gcq
    /\ lock[i] = None
    /\ IF table[i].here /\ ~Dirty(i) THEN Unstage(i) ELSE UNCHANGED <<disk, cut>>
    /\ gcq' \in {gcq \ {i}, {}}             \* go on, or below the limit
    /\ fpc' = IF gcq' = {} THEN "recv" ELSE fpc
    /\ UNCHANGED <<used, table, fd, lock, req, qvars, batch, dels, snap, poll,
                   remote, hvars>>

----------------------------------------------------------------------------
(* Other clients of the bucket, and the poll loop.                         *)

RemoteEdit(p, c) ==
    /\ BeginOp
    /\ Rewrites \/ c \notin seen
    /\ c # remote[p]
    /\ remote' = [remote EXCEPT ![p] = c]
    /\ seen' = seen \cup ({c} \ {None})
    /\ UNCHANGED <<ivars, qvars, fvars, poll, data, faults>>

\* poll_round(): list_tree() answers.
PollList ==
    /\ poll.pc = "idle"
    /\ poll' = [poll EXCEPT !.pc = "listed", !.listing = remote]
    /\ UNCHANGED <<ivars, qvars, fvars, remote, hvars>>

\* apply_poll_diff(): the diff, from a snapshot of the table.
PollDiff ==
    LET clean == {i \in Ino : table[i].here /\ table[i].gen = 0}
        here(i) == poll.listing[table[i].path]
    IN  /\ poll.pc = "listed"
        /\ poll' = [pc |-> "diffed", listing |-> NoPoll.listing,
                    upd |-> [i \in Ino |-> IF i \in clean /\ here(i) # table[i].hash
                                           THEN here(i) ELSE None],
                    gone |-> {i \in clean : here(i) = None}]
        /\ UNCHANGED <<ivars, qvars, fvars, remote, hvars>>

\* The diff is applied under the table lock: update_remote_file() and
\* remove_remote_file() skip entries that are dirty by now.  A file that is gone
\* but open loses its name: unlink_one() takes it from whichever inode has it.
PollApply ==
    LET clean(i) == table[i].here /\ table[i].gen = 0
        updated == {i \in Ino : poll.upd[i] # None /\ clean(i)}
        gone == {i \in poll.gone : clean(i)}
        removed == {i \in gone : ~HasOpenHandles(i)}
        unnamed == UNION {LookupChild(table[i].path) : i \in gone \ removed}
    IN  /\ poll.pc = "diffed"
        /\ table' = [i \in Ino |->
              IF i \in updated THEN UpdateRemote(table[i], poll.upd[i])
              ELSE IF i \in removed THEN NoEntry
              ELSE IF i \in unnamed THEN UnlinkOne(table[i])
              ELSE table[i]]
        /\ data' = [i \in Ino |-> IF i \in updated /\ ~Writing(i) THEN poll.upd[i] ELSE data[i]]
        /\ poll' = NoPoll
        /\ UNCHANGED <<used, disk, fd, cut, lock, req>>
        /\ UNCHANGED <<qvars, fvars, remote, seen, ops, faults>>

----------------------------------------------------------------------------
(* Actions of the parts, and the whole.                                    *)

Editing ==
    \/ \E r \in Req, i \in Ino : OpenStart(r, i, FALSE)
    \/ \E r \in Req : OpenLock(r) \/ OpenFail(r) \/ WriteDone(r) \/ ReleaseDone(r)
    \/ \E r \in Req, h \in Handle : OpenDone(r, h) \/ Release(r, h)
    \/ \E r \in Req, h \in Handle, c \in Content : PWrite(r, h, c)
    \/ \E h \in Handle : FlushHandle(h)
    \/ \E p \in Path, i \in Ino, h \in Handle : Create(p, i, h)

Truncating ==
    \/ \E r \in Req, i \in Ino : OpenStart(r, i, TRUE)
    \/ \E r \in Req, i \in Ino : SetattrStart(r, i, TRUE)
    \/ \E r \in Req : SetattrLock(r) \/ SetattrFail(r)
    \/ \E r \in Req, c \in Content : SetattrDone(r, c)

Resizing == \E r \in Req, i \in Ino : SetattrStart(r, i, FALSE)

Unlinking ==
    \/ \E r \in Req, i \in Ino : Unlink(r, i)
    \/ \E r \in Req : UnlinkLocal(r)

Renaming ==
    \/ \E r \in Req, i \in Ino, to \in Path : RenameValidate(r, i, to)
    \/ \E r \in Req : RenameRemote(r) \/ RenameLocal(r)

Dropping == \E r \in Req : DropLocked(r)
Reaping == \E r \in Req : ReapGc(r)

FlushLoop ==
    \/ \E i \in Ino : FlushRecv(i) \/ FlushLock(i) \/ FlushGcOne(i)
    \/ FlushTakeDeletes \/ FlushDeletesDone
    \/ FlushSnapshot \/ FlushUpload \/ FlushUploadFail
    \/ FlushUnchanged \/ FlushCommit \/ FlushCommitFail \/ FlushApply
    \/ FlushGc

Polling ==
    \/ \E p \in Path, c \in Hash : RemoteEdit(p, c)
    \/ PollList \/ PollDiff \/ PollApply

\* A mount that no other client writes to, with unlimited staging space (the
\* default), whose applications resize files only to zero.
LocalNext ==
    \/ Editing \/ Truncating \/ Unlinking \/ Renaming \/ Dropping
    \/ FlushLoop \/ FlushDeletesFail

Next == LocalNext \/ Resizing \/ Reaping \/ Polling

\* ... whose applications create, write and unlink files and never truncate or
\* rename one, and whose remote deletes do not fail.
CreateNext == Editing \/ Unlinking \/ Dropping \/ FlushLoop

CreateSpec == Init /\ [][CreateNext]_vars
LocalSpec == Init /\ [][LocalNext]_vars
Spec == Init /\ [][Next]_vars

----------------------------------------------------------------------------
(* Properties.                                                             *)

\* staging_is_current means what its declaration says: the staging file of a
\* clean inode flagged current holds the content of its xet_hash, so the next
\* open may reuse it.  open, setattr, poll, commit and failed downloads all
\* touch the flag, the file or the hash under different locks.
StagingCurrent ==
    \A i \in Ino : table[i].here /\ table[i].cur /\ table[i].gen = 0 /\ ~Writing(i)
                   => disk[i] \in {None, table[i].hash}

\* No acknowledged write is lost: while a file has a name, a dirty file's staging
\* file holds what applications last gave it, and a clean file's hash is it.
Durable ==
    \A i \in Ino : Linked(i) =>
        IF Dirty(i) THEN disk[i] = data[i]
        ELSE Writing(i) \/ table[i].hash = data[i]

\* Nothing is under way or left to do for the file i.
Settled(i) ==
    /\ ~HasOpenHandles(i) /\ i \notin chan
    /\ \A r \in Req : req[r].ino # i
Quiet ==
    /\ \A r \in Req : req[r] = Idle
    /\ fpc = "recv" /\ batch = {} /\ chan = {} /\ ~wake

\* When the flush loop has nothing left to do, every clean file is on the Hub
\* with the content the mount shows.
RemoteSynced ==
    Quiet => \A i \in Ino : Linked(i) /\ ~Dirty(i)
                            => remote[table[i].path] = table[i].hash

\* When the flush loop has nothing left to do, the Hub has no file that the
\* mount does not show.
NothingExtra ==
    Quiet /\ delq = {} => \A p \in Path : remote[p] # None => LookupChild(p) # {}

\* A closed file is never dirty and forgotten: it is in the channel or in the
\* batch, or an error waits for the next close.
ClosedDirtyIsPending ==
    \A i \in Ino : Flushable(i) /\ Settled(i)
                   => i \in batch \cup Items \cup errs

\* The staging files being uploaded stay in place: flush_batch() holds their
\* locks so that xet-core never sees one vanish.
UploadStable == fpc = "upload" => \A i \in Items : disk[i] # None

\* Staging garbage collection takes only files that nobody needs: a named file
\* that is dirty or open keeps its staging file, under its handles.
WritersKeepStaging ==
    \A i \in Ino : Linked(i) /\ (Dirty(i) \/ \E h \in Handles(i) : ~Closing(h))
                   => disk[i] # None /\ Handles(i) \cap cut = {}

\* Local writes take precedence until flushed: the poll loop leaves dirty files
\* as they are.
PollKeepsDirty ==
    [][poll'.pc = "idle" /\ poll.pc = "diffed" =>
          \A i \in Ino : table[i].here /\ Dirty(i) => table'[i] = table[i]]_vars

\* A commit of the flush loop does not delete a path that it adds.
NoSelfDelete ==
    fpc = "commit" => \A i, j \in Items : snap[i].path \notin snap[j].pdel

\* A closed dirty file is eventually clean, reopened, unlinked, or reported as
\* failed by a deferred error.
EventuallyFlushed ==
    \A i \in Ino : Flushable(i) /\ i \in chan
                   ~> ~Flushable(i) \/ HasOpenHandles(i) \/ i \in errs

\* The runtime polls every task that can go on: the flush loop, and each request
\* that has begun.
RequestStep(r) ==
    \/ OpenLock(r) \/ OpenFail(r) \/ \E h \in Handle : OpenDone(r, h)
    \/ WriteDone(r) \/ ReleaseDone(r) \/ ReapGc(r)
    \/ SetattrLock(r) \/ SetattrFail(r) \/ \E c \in Content : SetattrDone(r, c)
    \/ UnlinkLocal(r) \/ DropLocked(r)
    \/ RenameRemote(r) \/ RenameLocal(r)
Fairness == WF_vars(FlushLoop) /\ \A r \in Req : WF_vars(RequestStep(r))

----------------------------------------------------------------------------
(* The inductive invariant behind StagingCurrent, for unlimited staging    *)
(* space.                                                                  *)

\* Inode numbers that mean anything have been handed out.
UsedOK ==
    /\ \A i \in Ino : table[i].here \/ snap[i].on => i \in used
    /\ \A r \in Req : req[r].op # "idle" => req[r].ino \in used
    /\ \A h \in Handle : fd[h] # None => fd[h] \in used

\* Each staging lock protects what its holder is doing.
LocksOK ==
    /\ \A r \in Req : req[r].op \in {"fetch", "set"} => lock[req[r].ino] = r
    /\ fpc = "upload" => \A i \in Items : lock[i] = Flusher

\* Only inodes that are gone are waiting for drop_locked(), and the garbage
\* collector is idle.
DropsOK ==
    /\ \A r \in Req : req[r].op = "drop" => ~table[req[r].ino].here
    /\ gcq = {} /\ \A r \in Req : req[r].op # "reap"

InFlight(i) == snap[i].on /\ fpc \in {"uploaded", "commit", "committed"}
Matches(i) == table[i].here /\ table[i].gen = snap[i].gen

\* An item keeps a generation that the entry has not left downwards, so a match
\* at apply_commit() time means that nobody finished a change since the snapshot;
\* then the staging file still is what was uploaded.
ItemsOK ==
    /\ \A i \in Items : /\ fpc \in {"upload", "uploaded", "commit", "committed"}
                        /\ snap[i].gen > 0
                        /\ table[i].here => table[i].gen >= snap[i].gen
    /\ \A i \in Ino : InFlight(i) =>
          /\ snap[i].up # None
          /\ Matches(i) => disk[i] = snap[i].up \/ Writing(i)

\* A clean file flagged current has a hash, and its staging file is that content
\* unless a write is about to mark it dirty.
CacheOK ==
    \A i \in Ino : table[i].here /\ table[i].cur /\ table[i].gen = 0 =>
        table[i].hash # None /\ (disk[i] = table[i].hash \/ Writing(i))

\* The staging file of i is relied upon: by the commit under way, or by the next
\* open.
AtStake(i) ==
    \/ InFlight(i) /\ Matches(i)
    \/ table[i].here /\ table[i].cur /\ table[i].gen = 0

\* A download overwrites no staging file that is relied upon.
DownloadsOK ==
    \A r \in Req : req[r].op \in {"fetch", "set"} /\ NeedsDownload(req[r])
                   => Writing(req[r].ino) \/ ~AtStake(req[r].ino)

CacheInv == TypeOK /\ UsedOK /\ LocksOK /\ DropsOK /\ ItemsOK /\ CacheOK /\ DownloadsOK

----------------------------------------------------------------------------
(* The inductive invariant behind ClosedDirtyIsPending.                    *)

\* A write or a release under way belongs to an open handle, and nobody else uses
\* a handle that is being released.
HandlesOK ==
    /\ \A r \in Req : req[r].op \in {"write", "close"} =>
          req[r].fh \in Handle /\ fd[req[r].fh] = req[r].ino
    /\ \A r \in Req : req[r].op = "close" =>
          req[r].fh # None /\ \A s \in Req \ {r} : req[s].fh # req[r].fh

\* Somebody will see to i: a handle that has yet to be released, the channel, the
\* batch or a deferred error, or an item that will clear the dirty flag.  An item
\* whose generation has moved will not clear it, so it does not count.
Pending(i) ==
    \/ \E h \in Handles(i) : ~Closing(h)
    \/ i \in chan \cup batch \cup errs
    \/ i \in Items /\ Matches(i)

PendingOK ==
    /\ TypeOK /\ HandlesOK
    /\ \A i \in Ino : Flushable(i) => Pending(i)

\* There are items only from the snapshot to apply_commit(), so that a snapshot
\* overwrites none.
ItemsBusy == \A i \in Items : fpc \in {"upload", "uploaded", "commit", "committed"}

PendingInv == PendingOK /\ ItemsBusy

----------------------------------------------------------------------------
(* The inductive invariant behind WritersKeepStaging.                      *)

\* gc_one() called by release() runs while nobody has the file open.
ReapsClosed == \A r \in Req : ReapGc(r) => ~HasOpenHandles(req[r].ino)

\* A named file that is dirty or open keeps its staging file, under its handles.
KeepAt(i) ==
    Linked(i) /\ (Dirty(i) \/ HasOpenHandles(i))
        => disk[i] # None /\ Handles(i) \cap cut = {}

\* A file that gc() has yet to visit was clean and closed when gc() began; nothing
\* is committed meanwhile, so one that has been opened since is dirty.
VisitsOK ==
    /\ gcq # {} => fpc = "gc"
    /\ \A i \in gcq : Linked(i) /\ ~Dirty(i) => ~HasOpenHandles(i)

\* Inodes and handles in use have been handed out, and what is dropped is gone.
HandedOut ==
    /\ \A i \in Ino : table[i].here => i \in used
    /\ \A r \in Req : req[r].op # "idle" => req[r].ino \in used
    /\ \A r \in Req : req[r].op = "drop" => ~table[req[r].ino].here
    /\ \A h \in Handle : fd[h] # None => fd[h] \in used
    /\ \A h \in cut : fd[h] # None

KeepInv ==
    PendingInv /\ HandedOut /\ VisitsOK /\ \A i \in Ino : KeepAt(i)

----------------------------------------------------------------------------
(* The inductive invariant behind Durable, for a mount that no other       *)
(* client writes to.                                                       *)

\* Every setattr(size) is a truncation to 0.
RequestsOK ==
    /\ HandlesOK
    /\ \A r \in Req : req[r].op \in {"resize", "set"} => req[r].flag

\* Only the handles of inodes that are gone have lost their staging file.
CutOK == \A h \in cut : fd[h] # None /\ ~table[fd[h]].here

\* An open with O_TRUNC has cleared i's staging_is_current and will make i dirty.
Emptying(i) ==
    \E r \in Req : req[r].op = "fetch" /\ req[r].flag /\ req[r].ino = i

\* Nobody has opened i for writing yet: its content is on the Hub only.
Pristine(i) == Linked(i) /\ ~Dirty(i) /\ ~table[i].cur /\ ~Emptying(i)

\* A staging file that open(2) would reuse, or that a handle writes to, holds what
\* applications gave the file; a clean file's hash is that content.
StagedAt(i) ==
    Linked(i) =>
        /\ data[i] # None
        /\ Dirty(i) \/ table[i].cur \/ HasOpenHandles(i) => disk[i] = data[i]
        /\ Dirty(i) \/ Writing(i) \/ table[i].hash = data[i]
        /\ Pristine(i) => ~HasOpenHandles(i) /\ (table[i].zero => data[i] = Empty)
StagedOK == \A i \in Ino : StagedAt(i)

\* What open() read of i before it had the staging lock is still true when it is
\* used: a file whose hash has moved since is dirty or current, and is reused.
OpenAt(r, i) ==
    /\ req[r].op \in {"open", "fetch"} /\ Pristine(i) =>
          req[r].hash = table[i].hash /\ req[r].zero = table[i].zero
    /\ req[r].op = "fetch" /\ Linked(i) =>
          IF req[r].reuse THEN ~req[r].flag /\ (Dirty(i) \/ table[i].cur)
          ELSE req[r].flag \/ Pristine(i)
OpensOK == \A r \in Req, i \in Ino : req[r].ino = i => OpenAt(r, i)

LocalInv == CacheInv /\ RequestsOK /\ CutOK /\ StagedOK /\ OpensOK

----------------------------------------------------------------------------
(* The inductive invariant behind RemoteSynced, for files that are created,*)
(* written and unlinked, with no content written twice.                    *)

\* An unlink of i is under way.
Leaving(i) == \E r \in Req : req[r].op = "unlink" /\ req[r].ino = i

\* One file has a name, it keeps it until the unlink under way takes it, and the
\* kernel unlinks one file at a time.
NamesOK ==
    /\ \A i \in Ino : /\ table[i].here => (table[i].named <=> table[i].nlink > 0)
                      /\ Linked(i) => table[i].pdel = {}
    /\ \A i, j \in Ino : Linked(i) /\ Linked(j) /\ table[i].path = table[j].path => i = j
    /\ \A r \in Req :
          /\ req[r].op \in {"idle", "open", "fetch", "write", "close", "unlink", "drop"}
          /\ req[r].op \in {"open", "fetch"} => ~req[r].flag
          /\ req[r].op = "unlink" =>
                /\ Linked(req[r].ino) /\ table[req[r].ino].path = req[r].path
                /\ \A s \in Req \ {r} : req[s].op # "unlink"

\* A queued delete is of a file that is going; one that is in flight may be
\* overtaken by a new file of that name, which is not on the Hub yet.
DeleteAt(i) ==
    Linked(i) => /\ table[i].path \in delq => Leaving(i)
                 /\ table[i].path \in dels => Leaving(i) \/ table[i].hash = None
DeletesOK == (dels # {} => fpc = "deleting") /\ \A i \in Ino : DeleteAt(i)

\* The commit under way adds each path once, for the file that has that name or
\* had it; a file that took the name meanwhile is not on the Hub yet.
CommitAt(j) ==
    /\ snap[j].pdel = {} /\ snap[j].path \in Path
    /\ fpc \in {"commit", "committed"} => snap[j].prev # snap[j].up
    /\ fpc = "committed" => remote[snap[j].path] = snap[j].up
    /\ \A i \in Items : snap[i].path = snap[j].path => i = j
    /\ \A i \in Ino : Linked(i) /\ table[i].path = snap[j].path
                       => i = j \/ table[i].hash = None
CommitOK == \A j \in Items : CommitAt(j)

\* A file that applications have moved on from its hash never gets that content
\* again, so a commit that the mount does not know of is not mistaken for it.
ContentAt(i) ==
    Linked(i) =>
        /\ data[i] \in seen /\ table[i].hash \in seen \cup {None}
        /\ i \in Items => snap[i].path = table[i].path /\ snap[i].prev = table[i].hash
        /\ InFlight(i) => /\ snap[i].up \in seen
                          /\ snap[i].up # table[i].hash => data[i] # table[i].hash
ContentOK == Empty \in seen /\ \A i \in Ino : ContentAt(i)

\* A file that is as its hash says is on the Hub.
SyncedAt(i) ==
    Linked(i) /\ ~Leaving(i) /\ table[i].hash # None /\ data[i] = table[i].hash
        => remote[table[i].path] = table[i].hash
SyncedOK == \A i \in Ino : SyncedAt(i)

SyncInv == LocalInv /\ NamesOK /\ DeletesOK /\ CommitOK /\ ContentOK /\ SyncedOK

=============================================================================
