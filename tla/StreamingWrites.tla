--------------------------- MODULE StreamingWrites ---------------------------
(***************************************************************************)
(* The default write path of the mount.  A writer appends to a channel     *)
(* that a background worker feeds to the store; flush(), link() or         *)
(* release() finishes the upload and commits the file to the Hub.          *)
(*                                                                         *)
(* Actors: the requests of the kernel (Req) and the workers.  A step is    *)
(* what one of them does between two awaits or critical sections.  Every   *)
(* open for writing has a handle and a StreamingChannel of its own, so a   *)
(* Handle stands for both; the channel outlives the handle while release() *)
(* works on it.  Files live in one directory whose children are loaded; a  *)
(* file's xet hash is its content.                                         *)
(***************************************************************************)
EXTENDS Naturals, FiniteSets

CONSTANTS
    Ino,        \* inode numbers, handed out once each
    Path,       \* names of files
    Content,    \* what a file can contain
    Empty,      \* the content of length zero
    Handle,     \* file handles of writers, handed out once each
    Req,        \* concurrent kernel requests
    None,
    SeedIno, SeedPath, SeedContent,  \* a clean file that exists at mount time
    MaxOps,     \* bound: operations begun by applications
    MaxFaults   \* bound: calls of the store and of the Hub that fail

ASSUME ValueAssumption ==
    /\ Empty \in Content
    /\ None \notin Content /\ None \notin Ino /\ None \notin Req
    /\ None \notin Path /\ None \notin Handle
ASSUME SeedAssumption ==
    SeedIno \in Ino /\ SeedPath \in Path /\ SeedContent \in Content
ASSUME BoundAssumption == MaxOps \in Nat /\ MaxFaults \in Nat

VARIABLES
    used,     \* inode numbers handed out
    table,    \* the inode table: Ino -> Entry
    wr,       \* the writers: Handle -> Writer
    pending,  \* pending_commits: Ino -> the writer whose hook is registered
    lock,     \* per-inode staging locks: Ino -> holder or None
    req,      \* what each request is doing
    remote,   \* the Hub: Path -> content, or None when there is no file
    \* history, read by properties and bounds only
    last,     \* Ino -> the writer that opened the file last
    reused,   \* inodes of which two writers that owe a commit got one generation
    good,     \* Ino -> the content committed last
    ops, faults

hvars == <<last, reused, good, ops, faults>>
vars == <<used, table, wr, pending, lock, req, remote, hvars>>

Hash == Content \cup {None}
Entry == [here : BOOLEAN, named : BOOLEAN, nlink : {0, 1}, path : Path,
          gen : Nat, hash : Hash, pdel : SUBSET Path]
\* InodeSnapshot: what revert_inode() restores.
Snapshot == [hash : Hash, pdel : SUBSET Path, existed : BOOLEAN]
State == {"writing", "deferred", "committing", "committed", "failed"}
\* StreamingChannel, with the handle (open: in open_files; held: counted in the
\* inode's open_handles), the content accepted so far and the worker.
Writer == [ino : Ino \cup {None}, open : BOOLEAN, held : BOOLEAN, state : State,
           gen : Nat, snapshot : Snapshot, data : Content,
           worker : {"running", "failed", "done"}, info : Hash, hook : BOOLEAN]
\* A request: job says who drives a commit, fh is the writer it works on, old the
\* writer an open waits for or supersedes, again whether release() has retried.
Request ==
    {q \in [op : {"idle", "open", "setup", "defer", "deferred", "commit", "upload",
                  "send", "hub", "apply", "retry", "closing", "close", "drop", "source",
                  "linkadd", "linked", "unlink", "undelete", "unname", "rename", "renamed"},
            job : {"flush", "link", "release", "none"},
            ino : Ino \cup {None}, fh : Handle \cup {None}, old : Handle \cup {None},
            path : Path \cup {None}, to : Path \cup {None}, hash : Hash,
            dels : SUBSET Path, snapshot : Snapshot, flag : BOOLEAN, again : BOOLEAN] :
        /\ q.op # "idle" => q.ino \in Ino
        /\ q.op \in {"upload", "send", "hub", "apply", "linkadd", "linked"}
              => q.hash \in Content
        /\ q.job = "link" \/ q.op \in {"source", "linkadd", "linked", "rename", "renamed"}
              => q.to \in Path
        /\ q.op \in {"rename", "renamed"} => q.path \in Path}

NoSnapshot == [hash |-> None, pdel |-> {}, existed |-> FALSE]
NoEntry == [here |-> FALSE, named |-> FALSE, nlink |-> 0, path |-> SeedPath,
            gen |-> 0, hash |-> None, pdel |-> {}]
NoWriter == [ino |-> None, open |-> FALSE, held |-> FALSE, state |-> "writing",
             gen |-> 0, snapshot |-> NoSnapshot, data |-> Empty,
             worker |-> "running", info |-> None, hook |-> FALSE]
Idle == [op |-> "idle", job |-> "none", ino |-> None, fh |-> None, old |-> None,
         path |-> None, to |-> None, hash |-> None, dels |-> {},
         snapshot |-> NoSnapshot, flag |-> FALSE, again |-> FALSE]

TypeOK ==
    /\ used \subseteq Ino
    /\ table \in [Ino -> Entry]
    /\ wr \in [Handle -> Writer]
    /\ pending \in [Ino -> Handle \cup {None}]
    /\ lock \in [Ino -> Req \cup {None}]
    /\ req \in [Req -> Request]
    /\ remote \in [Path -> Hash]
    /\ last \in [Ino -> Handle \cup {None}] /\ reused \subseteq Ino
    /\ good \in [Ino -> Hash]
    /\ ops \in Nat /\ faults \in Nat

Init ==
    /\ used = {SeedIno}
    /\ table = [i \in Ino |->
          IF i = SeedIno
          THEN [NoEntry EXCEPT !.here = TRUE, !.named = TRUE, !.nlink = 1,
                               !.hash = SeedContent]
          ELSE NoEntry]
    /\ wr = [h \in Handle |-> NoWriter]
    /\ pending = [i \in Ino |-> None]
    /\ lock = [i \in Ino |-> None]
    /\ req = [r \in Req |-> Idle]
    /\ remote = [p \in Path |-> IF p = SeedPath THEN SeedContent ELSE None]
    /\ last = [i \in Ino |-> None] /\ reused = {}
    /\ good = [i \in Ino |-> IF i = SeedIno THEN SeedContent ELSE None]
    /\ ops = 0 /\ faults = 0

----------------------------------------------------------------------------
(* Inodes, writers and commit hooks.                                       *)

Dirty(i) == table[i].gen > 0
Linked(i) == table[i].here /\ table[i].nlink > 0
LookupChild(p) == {i \in Ino : table[i].here /\ table[i].named /\ table[i].path = p}
HasOpenHandles(i) == \E h \in Handle : wr[h].held /\ wr[h].ino = i

Terminal(w) == w.state \in {"committed", "failed"}
OwnsGeneration(w) == w.gen = table[w.ino].gen
\* The writers that were given a generation of the inode and are not terminal.
Owing(i, gen) == {h \in Handle : wr[h].ino = i /\ wr[h].gen = gen /\ ~Terminal(wr[h])}

ActiveAnyState(i) == {h \in Handle : /\ wr[h].open /\ wr[h].ino = i /\ table[i].here   \* mutant
                                     /\ OwnsGeneration(wr[h])}

\* streaming_channel_for(): the open writers that own the inode's dirty bytes.
Active(i) == {h \in Handle : /\ wr[h].open /\ wr[h].ino = i /\ table[i].here
                             /\ OwnsGeneration(wr[h]) /\ ~Terminal(wr[h])}

\* install_commit_hook(): the first hook of an inode is the registered one.
InstallHook(h) ==
    LET i == wr[h].ino
    IN  pending' = IF ~wr[h].hook /\ pending[i] = None
                   THEN [pending EXCEPT ![i] = h] ELSE pending

KeepRegistered(h) == UNCHANGED pending                      \* mutant

\* fulfill_commit_hook(): only the writer's own registration is removed.  The
\* hook itself is taken by setting wr[h].hook to FALSE.
FulfillHook(h) ==
    LET i == wr[h].ino
    IN  pending' = IF wr[h].hook /\ pending[i] = h
                   THEN [pending EXCEPT ![i] = None] ELSE pending

ApplyCommit(e, gen, hash) ==
    IF e.here /\ e.gen = gen THEN [e EXCEPT !.gen = 0, !.hash = hash, !.pdel = {}] ELSE e

\* revert_inode(): a created file goes, an overwritten one gets its snapshot back.
RevertInode(e, snapshot) ==
    IF ~snapshot.existed THEN NoEntry
    ELSE IF e.here THEN [e EXCEPT !.hash = snapshot.hash, !.pdel = snapshot.pdel, !.gen = 0]
    ELSE e

BeginOp == ops < MaxOps /\ ops' = ops + 1
Begin(r, rec) == req[r] = Idle /\ BeginOp /\ req' = [req EXCEPT ![r] = rec]
Finish(r) == req' = [req EXCEPT ![r] = Idle]
Step(r, op) == req' = [req EXCEPT ![r].op = op]
Unlock(i) == lock' = [lock EXCEPT ![i] = None]
Fault == faults < MaxFaults /\ faults' = faults + 1

\* alloc_file_handle() counts up: a handle that was never handed out.
NewHandles == {h \in Handle : wr[h].ino = None}
AllocFileHandle == CHOOSE h \in NewHandles : TRUE

\* The kernel's lock on the directory.
DirFree == \A r \in Req : req[r].job # "link"
              /\ req[r].op \notin {"linkadd", "linked", "unlink", "undelete", "unname",
                                   "rename", "renamed"}

----------------------------------------------------------------------------
(* open(O_TRUNC): open_streaming_write(); create().                        *)

\* open(), then await_pending_commit() clones the registered hook.
OpenStart(r, i) ==
    /\ table[i].here
    /\ table[i].named \/ HasOpenHandles(i)
    /\ NewHandles # {}
    /\ Begin(r, [Idle EXCEPT !.op = "open", !.ino = i, !.old = pending[i]])
    /\ UNCHANGED <<used, table, wr, pending, lock, remote, last, reused, good, faults>>

\* The hook is fulfilled; the staging lock is taken, and the snapshot read: that of
\* the active writer, if any, or the entry's.
OpenLock(r) ==
    LET q == req[r]
        i == q.ino
        e == table[i]
    IN  /\ q.op = "open"
        /\ q.old # None => ~wr[q.old].hook
        /\ lock[i] = None
        /\ IF ~e.here
           THEN Finish(r) /\ UNCHANGED lock
           ELSE /\ lock' = [lock EXCEPT ![i] = r]
                /\ \E old \in IF Active(i) = {} THEN {None} ELSE Active(i) :
                     req' = [req EXCEPT ![r] =
                       [q EXCEPT !.op = "setup", !.old = old,
                          !.snapshot = IF old # None THEN wr[old].snapshot
                                       ELSE [hash |-> e.hash, pdel |-> e.pdel,
                                             existed |-> TRUE]]]
        /\ UNCHANGED <<used, table, wr, pending, remote, hvars>>

\* The writer is set up: the active writer fails, its hook is fulfilled, the inode
\* becomes dirty and loses its hash, the handle is installed.
OpenDone(r) ==
    LET q == req[r]
        h == AllocFileHandle
        i == q.ino
        e == table[i]
        gen == IF e.here THEN e.gen + 1 ELSE 0
        new == [NoWriter EXCEPT !.ino = i, !.open = TRUE, !.held = e.here,
                                !.gen = gen, !.snapshot = q.snapshot]
        superseded == IF q.old = None THEN wr
                      ELSE [wr EXCEPT ![q.old].state = "failed", ![q.old].hook = FALSE]
    IN  /\ q.op = "setup"
        /\ NewHandles # {}
        /\ wr' = [superseded EXCEPT ![h] = new]
        /\ IF q.old = None THEN UNCHANGED pending ELSE FulfillHook(q.old)
        /\ table' = IF e.here THEN [table EXCEPT ![i].gen = gen, ![i].hash = None] ELSE table
        /\ last' = [last EXCEPT ![i] = h]
        /\ reused' = IF e.here /\ Owing(i, gen) \ {q.old} # {} THEN reused \cup {i} ELSE reused
        /\ Unlock(i)
        /\ Finish(r)
        /\ UNCHANGED <<used, remote, good, ops, faults>>

\* create_streaming_writer() fails.
OpenFail(r) ==
    /\ req[r].op = "setup" /\ Fault
    /\ Unlock(req[r].ino)
    /\ Finish(r)
    /\ UNCHANGED <<used, table, wr, pending, remote, last, reused, good, ops>>

\* create(): nobody else knows the inode before its handle is installed.
Create(p, i) ==
    LET h == AllocFileHandle
    IN  /\ DirFree /\ LookupChild(p) = {}
        /\ i \notin used /\ NewHandles # {}
        /\ BeginOp
        /\ used' = used \cup {i}
        /\ table' = [table EXCEPT ![i] = [NoEntry EXCEPT !.here = TRUE, !.named = TRUE,
                                             !.nlink = 1, !.path = p, !.gen = 1]]
        /\ wr' = [wr EXCEPT ![h] = [NoWriter EXCEPT !.ino = i, !.open = TRUE,
                                                    !.held = TRUE, !.gen = 1]]
        /\ last' = [last EXCEPT ![i] = h]
        /\ UNCHANGED <<pending, lock, req, remote, reused, good, faults>>

----------------------------------------------------------------------------
(* write() and the worker.                                                 *)

WriteBehindFinish(h, c) ==                                  \* mutant
    LET w == wr[h]
    IN  /\ w.open /\ c # Empty /\ c # w.data
        /\ w.worker = "running"
        /\ w.state \in {"writing", "deferred", "committing"}
        /\ BeginOp
        /\ wr' = [wr EXCEPT ![h].data = c]
        /\ UNCHANGED <<used, table, pending, lock, req, remote, last, reused, good, faults>>

\* write(): the state is checked and the data sent under the state mutex.
Write(h, c) ==
    LET w == wr[h]
    IN  /\ w.open /\ c # Empty /\ c # w.data
        /\ w.worker = "running"
        /\ w.state \in {"writing", "deferred"}
        /\ BeginOp
        /\ wr' = [wr EXCEPT ![h].data = c]
        /\ UNCHANGED <<used, table, pending, lock, req, remote, last, reused, good, faults>>

\* streaming_worker(): add_data() fails; later writes and flushes see the error.
WorkerFail(h) ==
    /\ wr[h].worker = "running" /\ wr[h].data # Empty
    /\ Fault
    /\ wr' = [wr EXCEPT ![h].worker = "failed"]
    /\ UNCHANGED <<used, table, pending, lock, req, remote, last, reused, good, ops>>

----------------------------------------------------------------------------
(* flush() and the deferral of a commit.                                   *)

\* flush() of a writer without error that is not terminal: the commit is deferred
\* for a duplicated descriptor (dup) and when nothing was written.
Flush(r, h, dup) ==
    /\ wr[h].open /\ wr[h].worker # "failed" /\ ~Terminal(wr[h])
    /\ req[r] = Idle
    /\ req' = [req EXCEPT ![r] =
          IF dup \/ wr[h].data = Empty
          THEN [Idle EXCEPT !.op = "defer", !.ino = wr[h].ino, !.fh = h]
          ELSE [Idle EXCEPT !.op = "commit", !.ino = wr[h].ino, !.fh = h, !.job = "flush"]]
    /\ UNCHANGED <<used, table, wr, pending, lock, remote, hvars>>

\* defer_commit(): install the hook, without the staging lock.
DeferHook(r) ==
    LET h == req[r].fh
    IN  /\ req[r].op = "defer"
        /\ InstallHook(h)
        /\ wr' = [wr EXCEPT ![h].hook = TRUE]
        /\ Step(r, "deferred")
        /\ UNCHANGED <<used, table, lock, remote, hvars>>

DeferDoneAlways(r) ==                                       \* mutant
    /\ req[r].op = "deferred"
    /\ UNCHANGED pending
    /\ wr' = [wr EXCEPT ![req[r].fh].state = "deferred"]
    /\ Finish(r)
    /\ UNCHANGED <<used, table, lock, remote, hvars>>

DeferDoneUnfulfilled(r) ==                                  \* mutant
    /\ req[r].op = "deferred"
    /\ UNCHANGED pending
    /\ wr' = [wr EXCEPT ![req[r].fh].state = IF @ = "writing" THEN "deferred" ELSE @]
    /\ Finish(r)
    /\ UNCHANGED <<used, table, lock, remote, hvars>>

\* defer_commit(): a writer that is terminal by now has its hook fulfilled on the
\* spot, one still writing is demoted.
DeferDone(r) ==
    LET h == req[r].fh
        w == wr[h]
    IN  /\ req[r].op = "deferred"
        /\ IF Terminal(w)
           THEN FulfillHook(h) /\ wr' = [wr EXCEPT ![h].hook = FALSE]
           ELSE /\ UNCHANGED pending
                /\ wr' = [wr EXCEPT ![h].state = IF @ = "writing" THEN "deferred" ELSE @]
        /\ Finish(r)
        /\ UNCHANGED <<used, table, lock, remote, hvars>>

----------------------------------------------------------------------------
(* Commits: commit_streaming_now() for flush() and link(), and release().  *)

\* release(): the handle leaves open_files and, unless the writer is terminal, its
\* hook is installed, in one critical section.  The kernel sends no other request
\* for the handle; a link() may be at work on the writer.
Release(r, h) ==
    LET w == wr[h]
    IN  /\ w.open /\ req[r] = Idle
        /\ \A s \in Req : req[s].fh = h => req[s].job = "link"
        /\ IF Terminal(w) THEN UNCHANGED pending ELSE InstallHook(h)
        /\ wr' = [wr EXCEPT ![h].open = FALSE, ![h].hook = @ \/ ~Terminal(w)]
        /\ req' = [req EXCEPT ![r] = [Idle EXCEPT !.op = IF Terminal(w) THEN "drop" ELSE "closing",
                                                  !.ino = w.ino, !.fh = h, !.job = "release"]]
        /\ UNCHANGED <<used, table, lock, remote, hvars>>

\* A hook installed on a writer that has become terminal is fulfilled on the spot,
\* and the commit is skipped.
ReleaseCheck(r) ==
    LET h == req[r].fh
    IN  /\ req[r].op = "closing"
        /\ IF Terminal(wr[h])
           THEN /\ FulfillHook(h) /\ wr' = [wr EXCEPT ![h].hook = FALSE]
                /\ Step(r, "drop")
           ELSE Step(r, "close") /\ UNCHANGED <<pending, wr>>
        /\ UNCHANGED <<used, table, lock, remote, hvars>>

\* What a driver does next when its commit is done.
Done(q) == CASE q.job = "flush" -> Idle
             [] q.job = "link" -> [q EXCEPT !.op = "source"]
             [] q.job = "release" -> [q EXCEPT !.op = "drop"]

\* The driver marks the writer committed, fulfils its hook and drops the lock.
Committed(r) ==
    LET q == req[r]
    IN  /\ FulfillHook(q.fh)
        /\ wr' = [wr EXCEPT ![q.fh].state = "committed", ![q.fh].hook = FALSE]
        /\ req' = [req EXCEPT ![r] = Done(q)]
        /\ Unlock(q.ino)

SkipUnlinkedOnly(h) ==                                      \* mutant
    LET e == table[wr[h].ino] IN ~e.here \/ e.nlink = 0

\* streaming_commit(): an unlinked file, or one with a newer writer, is skipped.
SkipCommit(h) ==
    LET e == table[wr[h].ino]
    IN  ~e.here \/ e.nlink = 0 \/ ~OwnsGeneration(wr[h])

\* streaming_commit() under the staging lock: skip, or let no more data in and
\* send Finish behind what was accepted.  A retry uses the file uploaded before.
StartCommit(r) ==
    LET q == req[r]
        w == wr[q.fh]
    IN  IF SkipCommit(q.fh) THEN Committed(r)
        ELSE /\ InstallHook(q.fh)
             /\ wr' = [wr EXCEPT ![q.fh].state = "committing", ![q.fh].hook = TRUE]
             /\ lock' = [lock EXCEPT ![q.ino] = r]
             /\ req' = [req EXCEPT ![r] = [q EXCEPT !.op = "upload",
                          !.hash = IF w.info # None THEN w.info ELSE w.data]]

\* commit_streaming_now(): the lock, then the error and the state.
CommitLock(r) ==
    LET q == req[r]
        w == wr[q.fh]
    IN  /\ q.op = "commit"
        /\ lock[q.ino] = None
        /\ IF w.worker = "failed" \/ w.state = "failed"
           THEN Finish(r) /\ UNCHANGED <<wr, pending, lock>>
           ELSE IF w.state = "committed"
           THEN req' = [req EXCEPT ![r] = Done(q)] /\ UNCHANGED <<wr, pending, lock>>
           ELSE StartCommit(r)
        /\ UNCHANGED <<used, table, remote, hvars>>

\* release(): the lock, then the state.
ReleaseLock(r) ==
    LET q == req[r]
    IN  /\ q.op = "close"
        /\ lock[q.ino] = None
        /\ IF Terminal(wr[q.fh]) THEN Step(r, "drop") /\ UNCHANGED <<wr, pending, lock>>
           ELSE StartCommit(r)
        /\ UNCHANGED <<used, table, remote, hvars>>

\* The worker has uploaded what came before Finish, and exits.
Upload(r) ==
    LET h == req[r].fh
        w == wr[h]
    IN  /\ req[r].op = "upload"
        /\ w.info # None \/ w.worker = "running"
        /\ Step(r, "send")
        /\ wr' = [wr EXCEPT ![h].info = None, ![h].worker = "done"]
        /\ UNCHANGED <<used, table, pending, lock, remote, hvars>>

\* A commit fails, with info the uploaded file, if there is one.  flush() and
\* link() return the error and leave the hook; release() tries again once if there
\* is an uploaded file, and else reverts the inode.
CommitFails(r, info) ==
    LET q == req[r]
        h == q.fh
        failed == [wr EXCEPT ![h].info = info, ![h].worker = "done"]
    IN  IF q.job # "release"
        THEN wr' = failed /\ Unlock(q.ino) /\ Finish(r) /\ UNCHANGED <<table, pending>>
        ELSE IF info # None /\ ~q.again
        THEN /\ wr' = failed
             /\ req' = [req EXCEPT ![r].op = "retry", ![r].again = TRUE]
             /\ UNCHANGED <<table, pending, lock>>
        ELSE /\ table' = [table EXCEPT ![q.ino] = RevertInode(@, wr[h].snapshot)]
             /\ FulfillHook(h)
             /\ wr' = [failed EXCEPT ![h].state = "failed", ![h].hook = FALSE]
             /\ Unlock(q.ino) /\ Step(r, "drop")

\* The worker had failed, fails now, or is gone since an earlier attempt.
UploadFail(r) ==
    LET w == wr[req[r].fh]
    IN  /\ req[r].op = "upload" /\ w.info = None
        /\ IF w.worker = "running" THEN Fault ELSE UNCHANGED faults
        /\ CommitFails(r, None)
        /\ UNCHANGED <<used, remote, last, reused, good, ops>>

\* The path and the pending deletes are read for the request to the Hub; ENOENT
\* when the inode is gone.
Send(r) ==
    LET e == table[req[r].ino]
    IN  /\ req[r].op = "send"
        /\ IF e.here
           THEN /\ req' = [req EXCEPT ![r].op = "hub", ![r].path = e.path, ![r].dels = e.pdel]
                /\ UNCHANGED <<table, wr, pending, lock>>
           ELSE CommitFails(r, None)
        /\ UNCHANGED <<used, remote, hvars>>

\* batch_operations(): one AddFile, then the deletes.
AfterCommit(q) == [p \in Path |-> IF p \in q.dels THEN None
                                  ELSE IF p = q.path THEN q.hash ELSE remote[p]]

HubCommit(r) ==
    /\ req[r].op = "hub"
    /\ remote' = AfterCommit(req[r])
    /\ Step(r, "apply")
    /\ UNCHANGED <<used, table, wr, pending, lock, hvars>>

\* The commit fails, having been applied by the Hub or not.
HubFail(r) ==
    /\ req[r].op = "hub" /\ Fault
    /\ remote' \in {remote, AfterCommit(req[r])}
    /\ CommitFails(r, req[r].hash)
    /\ UNCHANGED <<used, last, reused, good, ops>>

\* apply_commit(), and the driver's end.
Apply(r) ==
    LET q == req[r]
    IN  /\ q.op = "apply"
        /\ table' = [table EXCEPT ![q.ino] = ApplyCommit(@, wr[q.fh].gen, q.hash)]
        /\ good' = [good EXCEPT ![q.ino] = q.hash]
        /\ Committed(r)
        /\ UNCHANGED <<used, remote, last, reused, ops, faults>>

\* release() calls streaming_commit() again, a second later, under the same lock.
Retry(r) ==
    /\ req[r].op = "retry"
    /\ StartCommit(r)
    /\ UNCHANGED <<used, table, remote, hvars>>

\* release(): drop_open_handles(), then reap_on_last_release().
Drop(r) ==
    LET h == req[r].fh
        i == req[r].ino
        others == \E g \in Handle \ {h} : wr[g].held /\ wr[g].ino = i
        orphan == ~others /\ table[i].here /\ table[i].nlink = 0
    IN  /\ req[r].op = "drop"
        /\ wr' = [wr EXCEPT ![h].held = FALSE]
        /\ table' = IF orphan THEN [table EXCEPT ![i] = NoEntry] ELSE table
        /\ Finish(r)
        /\ UNCHANGED <<used, pending, lock, remote, hvars>>

----------------------------------------------------------------------------
(* link(), unlink(), rename().                                             *)

LinkSourceDirty(i) == table[i].here                         \* mutant
LinkSource(i) == table[i].here /\ ~Dirty(i) /\ table[i].hash # None

\* link(): a clean source is taken as it is, a dirty one with an active writer is
\* committed first.  The destination does not exist.
Link(r, i, to) ==
    /\ DirFree /\ LookupChild(to) = {}
    /\ table[i].here /\ table[i].named
    /\ Ino \ used # {}
    /\ \/ /\ LinkSource(i)
          /\ Begin(r, [Idle EXCEPT !.op = "linkadd", !.job = "link", !.ino = i, !.to = to,
                                   !.hash = table[i].hash])
       \/ /\ ~LinkSource(i)
          /\ \E h \in Active(i) :
               Begin(r, [Idle EXCEPT !.op = "commit", !.job = "link", !.ino = i, !.fh = h,
                                     !.to = to])
    /\ UNCHANGED <<used, table, wr, pending, lock, remote, last, reused, good, faults>>

\* link_source() again after the commit: ENOTSUP if the file is dirty again.
LinkAgain(r) ==
    LET q == req[r]
    IN  /\ q.op = "source"
        /\ IF LinkSource(q.ino)
           THEN req' = [req EXCEPT ![r] = [q EXCEPT !.op = "linkadd", !.fh = None,
                                                    !.hash = table[q.ino].hash]]
           ELSE Finish(r)
        /\ UNCHANGED <<used, table, wr, pending, lock, remote, hvars>>

\* The alias is committed to the Hub.
LinkAdd(r) ==
    LET q == req[r]
        added == [remote EXCEPT ![q.to] = q.hash]
    IN  /\ q.op = "linkadd"
        /\ \/ remote' = added /\ Step(r, "linked") /\ UNCHANGED faults
           \/ Fault /\ remote' \in {remote, added} /\ Finish(r)
        /\ UNCHANGED <<used, table, wr, pending, lock, last, reused, good, ops>>

\* The alias is inserted, unless something has its name by now.
LinkInsert(r, j) ==
    LET q == req[r]
    IN  /\ q.op = "linked"
        /\ j \notin used
        /\ IF LookupChild(q.to) = {}
           THEN /\ used' = used \cup {j}
                /\ table' = [table EXCEPT ![j] =
                     [NoEntry EXCEPT !.here = TRUE, !.named = TRUE, !.nlink = 1,
                                     !.path = q.to, !.hash = q.hash]]
                /\ good' = [good EXCEPT ![j] = q.hash]
           ELSE UNCHANGED <<used, table, good>>
        /\ Finish(r)
        /\ UNCHANGED <<wr, pending, lock, remote, last, reused, ops, faults>>

Unlink(r, i) ==
    /\ DirFree
    /\ table[i].here /\ table[i].named
    /\ Begin(r, [Idle EXCEPT !.op = "unlink", !.ino = i, !.path = table[i].path])
    /\ UNCHANGED <<used, table, wr, pending, lock, remote, last, reused, good, faults>>

UnlinkLockDirty(r) ==                                       \* mutant
    LET q == req[r]
        i == q.ino
        owner == LookupChild(q.path)
    IN  /\ q.op = "unlink"
        /\ lock[i] = None
        /\ IF i \notin owner
           THEN Finish(r) /\ UNCHANGED lock
           ELSE /\ lock' = [lock EXCEPT ![i] = r]
                /\ Step(r, IF table[i].hash # None THEN "undelete" ELSE "unname")
        /\ UNCHANGED <<used, table, wr, pending, remote, hvars>>

\* unlink(): the staging lock of the inode that has the name, looked up again
\* after the wait; EPERM for a dirty file with open handles.
UnlinkLock(r) ==
    LET q == req[r]
        i == q.ino
        owner == LookupChild(q.path)
    IN  /\ q.op = "unlink"
        /\ lock[i] = None
        /\ IF owner = {} \/ (owner = {i} /\ Dirty(i) /\ HasOpenHandles(i))
           THEN Finish(r) /\ UNCHANGED lock
           ELSE IF i \notin owner
           THEN /\ \E j \in owner : req' = [req EXCEPT ![r].ino = j]
                /\ UNCHANGED lock
           ELSE /\ lock' = [lock EXCEPT ![i] = r]
                /\ Step(r, IF table[i].hash # None THEN "undelete" ELSE "unname")
        /\ UNCHANGED <<used, table, wr, pending, remote, hvars>>

\* The remote file is deleted first; an error leaves the local one.
UnlinkRemote(r) ==
    LET q == req[r]
        deleted == [remote EXCEPT ![q.path] = None]
    IN  /\ q.op = "undelete"
        /\ \/ remote' = deleted /\ Step(r, "unname") /\ UNCHANGED <<lock, faults>>
           \/ Fault /\ remote' \in {remote, deleted} /\ Finish(r) /\ Unlock(q.ino)
        /\ UNCHANGED <<used, table, wr, pending, last, reused, good, ops>>

Unnamed(e) == [e EXCEPT !.named = FALSE, !.nlink = 0]

\* unlink_one(), and with no open handle remove_orphan().
UnlinkLocal(r) ==
    LET q == req[r]
        i == q.ino
        owner == LookupChild(q.path)
    IN  /\ q.op = "unname"
        /\ table' = [j \in Ino |-> IF j \in owner
                                   THEN IF j = i /\ ~HasOpenHandles(i) THEN NoEntry
                                        ELSE Unnamed(table[j])
                                   ELSE table[j]]
        /\ Unlock(i)
        /\ Finish(r)
        /\ UNCHANGED <<used, wr, pending, remote, hvars>>

\* rename() takes no staging lock.  flag: the file was dirty.
RenameValidate(r, i, to) ==
    /\ DirFree
    /\ table[i].here /\ table[i].named /\ table[i].path # to
    /\ Begin(r, [Idle EXCEPT !.op = "rename", !.ino = i, !.path = table[i].path, !.to = to,
                             !.hash = table[i].hash, !.flag = Dirty(i)])
    /\ UNCHANGED <<used, table, wr, pending, lock, remote, last, reused, good, faults>>

\* rename_remote(): one commit for a clean file, none for a dirty one.
RenameRemote(r) ==
    LET q == req[r]
        sends == ~q.flag /\ q.hash # None
        moved == [remote EXCEPT ![q.to] = q.hash, ![q.path] = None]
    IN  /\ q.op = "rename"
        /\ \/ /\ remote' = IF sends THEN moved ELSE remote
              /\ Step(r, "renamed") /\ UNCHANGED faults
           \/ sends /\ Fault /\ remote' \in {remote, moved} /\ Finish(r)
        /\ UNCHANGED <<used, table, wr, pending, lock, last, reused, good, ops>>

\* rename_apply_local(): the target is replaced, the old path of a dirty file that
\* has a hash is remembered, the name moves.
RenameLocal(r) ==
    LET q == req[r]
        i == q.ino
        target == LookupChild(q.to) \ {i}
        old == IF q.flag /\ q.hash # None THEN {q.path} ELSE {}
    IN  /\ q.op = "renamed"
        /\ table' = IF ~table[i].here \/ i \in LookupChild(q.to) THEN table
                    ELSE [j \in Ino |->
                       IF j = i THEN [table[i] EXCEPT !.named = TRUE, !.path = q.to,
                                                      !.pdel = @ \cup old]
                       ELSE IF j \notin target THEN table[j]
                       ELSE IF HasOpenHandles(j) THEN Unnamed(table[j]) ELSE NoEntry]
        /\ Finish(r)
        /\ UNCHANGED <<used, wr, pending, lock, remote, hvars>>

----------------------------------------------------------------------------
Writing ==
    \/ \E r \in Req, i \in Ino : OpenStart(r, i)
    \/ \E r \in Req : \/ OpenLock(r) \/ OpenDone(r) \/ OpenFail(r)
                       \/ DeferHook(r) \/ DeferDone(r)
    \/ \E r \in Req, h \in Handle : Release(r, h)
    \/ \E r \in Req, h \in Handle, dup \in BOOLEAN : Flush(r, h, dup)
    \/ \E h \in Handle, c \in Content : Write(h, c)
    \/ \E h \in Handle : WorkerFail(h)
    \/ \E p \in Path, i \in Ino : Create(p, i)

Committing ==
    \E r \in Req : \/ ReleaseCheck(r) \/ CommitLock(r) \/ ReleaseLock(r)
                   \/ Upload(r) \/ UploadFail(r) \/ Send(r) \/ HubCommit(r) \/ HubFail(r)
                   \/ Apply(r) \/ Retry(r) \/ Drop(r)

Linking ==
    \/ \E r \in Req, i \in Ino, to \in Path : Link(r, i, to)
    \/ \E r \in Req : LinkAgain(r) \/ LinkAdd(r)
    \/ \E r \in Req, j \in Ino : LinkInsert(r, j)

Unlinking ==
    \/ \E r \in Req, i \in Ino : Unlink(r, i)
    \/ \E r \in Req : UnlinkLock(r) \/ UnlinkRemote(r) \/ UnlinkLocal(r)

Renaming ==
    \/ \E r \in Req, i \in Ino, to \in Path : RenameValidate(r, i, to)
    \/ \E r \in Req : RenameRemote(r) \/ RenameLocal(r)

Next == Writing \/ Committing \/ Linking \/ Unlinking \/ Renaming
Spec == Init /\ [][Next]_vars
\* Without renames, which take no staging lock.
StreamSpec == Init /\ [][Writing \/ Committing \/ Linking \/ Unlinking]_vars

----------------------------------------------------------------------------
(* Properties.                                                             *)

\* A close(2) that succeeded means what it says: when the writer that opened a
\* linked file last is committed, the file is clean and is what that writer's
\* writes made it.  No write was dropped behind Finish, no older writer and no
\* revert came after it.  The exception are inodes of which a generation was
\* given out twice.
CommittedIsFile ==
    \A i \in Ino \ reused :
        Linked(i) /\ last[i] # None /\ wr[last[i]].state = "committed"
            => ~Dirty(i) /\ table[i].hash = wr[last[i]].data

\* A generation stands for one writer.  It does not: apply_commit() and
\* revert_inode() start again at zero, while an older writer may still be on its
\* way to its commit.
NoReuse == reused = {}

\* revert_inode() gives back the last committed content: a linked file is never
\* left clean with another one, nor without any.
CleanIsGood == \A i \in Ino : Linked(i) /\ ~Dirty(i) => table[i].hash = good[i]

\* Terminal states never regress, so that release() may read them without a lock.
TerminalStable ==
    [][\A h \in Handle : Terminal(wr[h]) => wr'[h].state = wr[h].state]_vars

\* A registration in pending_commits belongs to a live hook: no open waits for a
\* writer that nobody will finish.
PendingIsLive == \A i \in Ino : pending[i] # None => wr[pending[i]].hook /\ wr[pending[i]].ino = i

\* A writer that owes a commit after its handle left open_files can be found in
\* pending_commits, which is how shutdown waits for it: either its own hook is
\* registered there, or a newer writer of the inode has replaced it.
ReleasedIsPending ==
    \A h \in Handle :
        wr[h].ino # None /\ ~wr[h].open /\ ~Terminal(wr[h]) /\ OwnsGeneration(wr[h])
            => pending[wr[h].ino] = h

\* At most one writer owns an inode's dirty bytes, with the same exception.
OneActive == \A i \in Ino \ reused : Cardinality(Active(i)) <= 1

Settled(i) == \A r \in Req : req[r].ino # i /\ req[r].to # table[i].path

\* While no call has failed, a clean file that nobody works on is on the Hub.
RemoteSynced ==
    faults = 0 => \A i \in Ino : Linked(i) /\ ~Dirty(i) /\ Settled(i)
                                 => remote[table[i].path] = table[i].hash

\* ... and between requests the Hub has no file that the mount does not show,
\* unless a later commit is going to delete it.
NothingExtra ==
    faults = 0 /\ (\A r \in Req : req[r] = Idle)
        => \A p \in Path : remote[p] # None
              => LookupChild(p) # {} \/ \E i \in Ino : p \in table[i].pdel

\* The runtime goes on with every request that has begun, and each handle is
\* closed in the end.
RequestStep(r) ==
    \/ OpenLock(r) \/ OpenFail(r) \/ OpenDone(r)
    \/ DeferHook(r) \/ DeferDone(r)
    \/ ReleaseCheck(r) \/ CommitLock(r) \/ ReleaseLock(r)
    \/ Upload(r) \/ UploadFail(r) \/ Send(r) \/ HubCommit(r) \/ HubFail(r)
    \/ Apply(r) \/ Retry(r) \/ Drop(r)
    \/ LinkAgain(r) \/ LinkAdd(r) \/ \E j \in Ino : LinkInsert(r, j)
    \/ UnlinkLock(r) \/ UnlinkRemote(r) \/ UnlinkLocal(r)
    \/ RenameRemote(r) \/ RenameLocal(r)
Fairness ==
    /\ \A r \in Req : WF_vars(RequestStep(r))
    /\ \A h \in Handle : SF_vars(\E r \in Req : Release(r, h))

\* A file opened for writing is never waited for for ever.
OpenProceeds == \A r \in Req : req[r].op = "open" ~> req[r].op # "open"
=============================================================================
