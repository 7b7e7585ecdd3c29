# Verification of hf-mount-encrypted

hf-mount-encrypted mounts a Hugging Face bucket or repository as a file system (FUSE or
NFS). Reads are fetched lazily from a content-addressed store (xet/CAS); writes
go back as an upload to the store followed by a commit of the file's hash to
the Hub. This directory holds TLA+ models of the parts where several activities
share state, the TLC runs that check them on small instances, and TLAPS proofs
of what matters most for every instance.

    tlc -workers 2 -config MCCache.cfg MCStagedWrites     # a run
    tlc -workers 2 -config MCStreaming.cfg MCStreamingWrites
    tlc -workers 2 -config MCNfsPool.cfg MCNfsPool
    tlapm StreamingWritesProofs.tla                       # the proofs of a module

Line numbers refer to `src/src/virtual_fs/` unless a path says otherwise.

## 1. Inventory

| Part | State it keeps | Operations | Talks to |
|---|---|---|---|
| Virtual file system (`mod.rs`) | open files by handle, inode table, negative cache | lookup, readdir, open, read, write, flush, release, create, unlink, rename, link, setattr, mkdir, rmdir, forget | everything below |
| Inode table (`inode.rs`) | inodes by number and by path, children, nlink, nlookup, dirty generation, xet hash, `staging_is_current`, pending deletes | insert, remove, unlink_one, move_child, update_remote_file, apply_commit, evict | shared under one RwLock by requests, flush loop, poll loop, evictor |
| Staging coordinator (`staging.rs`, `src/src/xet.rs`) | a mutex per inode, one staging file per inode, a byte budget | lock, drop_locked, gc_one, gc | open, setattr, unlink, rename, release, flush loop |
| Flush manager (`flush.rs`) | a channel of signals, the queue of remote deletes, deferred errors per inode | enqueue, enqueue_delete, cancel_delete, check_error, flush_deletes, shutdown; the background loop | Hub, store, inode table, staging |
| Streaming writes (`mod.rs`) | a channel to a worker per writer, its commit state, commit hooks | write, flush, release, link, drain | Hub, store, inode table |
| Poll (`poll.rs`) | last revision, backoff | revision probe; poll round: list, diff, apply | Hub, inode table, kernel cache |
| Follow stream (`poll.rs`, `src/src/follow.rs`) | resume position, sessions without `ready` | apply events, reconnect, reconcile by a poll round, give up for the interval poll | Hub, inode table |
| File cache (`src/src/file_cache.rs`) | files on disk, shared by mounts; LRU index, byte counter, downloads in flight of each mount | try_open, populate, forget, the scan at start | reads |
| Cached xet client (`src/src/cached_xet_client.rs`) | reconstruction plans by file and range, requests in flight | get_reconstruction | store, reads |
| Prefetch (`prefetch.rs`) | forward buffer, seek window, kept stream of a handle | serve, drain, plan and store a fetch | reads |
| NFS server (`src/src/nfs.rs`) | pool of handles with pins and an LRU order | the NFS procedures, the invalidator | virtual file system, poll |
| FUSE adapter (`src/src/fuse.rs`) | none of its own | the FUSE requests | virtual file system |
| Overlay (`src/src/overlay.rs`) | a user directory of local changes | read and write local files | virtual file system |
| Encryption (`src/src/encryption/`, `src/src/base91.rs`) | keys | content container, path names | staging, Hub |
| Hub client (`src/src/hub_api.rs`) | tokens | list_tree, head, batch_operations, watch | the Hub |
| Daemon, setup, binaries | process state | start, stop, supervise | all |

What is hard about this system:

* **Concurrency.** A request runs on any runtime thread and is suspended at every
  await. It may decide from what it read before a Hub round trip. The
  table lock, the per-inode staging lock, the delete queue's mutex and the
  channel protect different parts of what is one file's state.
* **Failure.** Downloads, uploads and commits fail. A commit may have been
  applied although its answer was an error. A failed download leaves a partial file.
* **Ordering.** A delete queued in the past, a commit in flight, a listing
  fetched before a commit, a deferred error: each meets a newer local state.

What makes the parts correct: no acknowledged write is lost while its file has a
name; the Hub catches up with the mount; a cached staging file is used only if
it is the content it stands for; remote changes do not override local
ones; nothing waits for ever.

PROJECT.json lists the parts with their status, and the hazards with their lines.

## 2. Plan

Done: **StagedWrites** (the `--advanced-writes` path with the flush loop, staging
files, delete queue, garbage collection and one poll round; it came first since it
carries the user's data and has most of the interleavings), **StreamingWrites** (the
default write path), **Directories** (inode table as a tree, lookup, listing,
revalidation, eviction), **RemoteChanges** (feed and poll loop), **FileCache** and
**ReconCache** with the abstract **SingleFlight** both implement, **Reads** over
**Container** (prefetch and encrypted reads), **NfsPool**. Proved (section 5): the safety
properties of StagedWrites, StreamingWrites, FileCache, ReconCache,
Reads, RemoteChanges and NfsPool, and both refinements of SingleFlight.

To come, in this order:

1. Proofs: TreeInv and MissIsReal of Directories.
2. The shutdown drain of streaming writes and the final flush.
3. Encrypted staging files (`encrypted_local_write`, `ensure_encrypted_staging`), and
   renames of directories against lookups in flight.
4. An abstract store of last acknowledged contents, which StagedWrites (without
   the behaviours of section 6) implements by a refinement mapping.

## 3. Modules

| Module | Content |
|---|---|
| `StagedWrites` | state, actions, the specifications `Spec`, `LocalSpec` and `CreateSpec` with all or some groups of actions, properties, the inductive invariants; operators marked *mutant* are plausible mistakes, each standing before the definition it can replace, and are used by nothing else |
| `MCStagedWrites` | model values, symmetry, and the specifications of `staging_gc_and_liveness` and of the counterexamples of section 6 |
| `StagedWritesProofs` | theorems and lemmas |
| `StreamingWrites` | state, actions and properties of the default write mode, laid out in the same way |
| `MCStreamingWrites` | model values, symmetry, and specifications with some groups of actions only |
| `StreamingWritesProofs` | theorems and lemmas |
| `SeqOps`, `SeqOpsProofs` | two operations on sequences that the caches and the pool share (removal of elements, a sum), and what they compute for every sequence |
| `SingleFlight` | abstract specification: for a key one caller leads, others wait, the end of the lead releases all of them at once |
| `FileCache`, `MCFileCache`, `FileCacheProofs` | the on-disk cache of whole files |
| `ReconCache`, `MCReconCache`, `ReconCacheProofs` | the cache in front of the store's reconstruction query |
| `Container` | sizes and slots of an encrypted object (operators only) |
| `Reads`, `MCReads`, `ReadsProofs` | reads of remote files, plain and encrypted; extends Container |
| `Directories`, `MCDirectories` | the inode table as a tree, lookups, listings, revalidation, eviction |
| `RemoteChanges`, `MCRemoteChanges`, `RemoteChangesProofs` | the feed and the poll loop |
| `NfsPool`, `MCNfsPool`, `NfsPoolProofs` | the NFS server's pool of handles |

### StagedWrites: state

| Variable | Code |
|---|---|
| `table` | `InodeTable`: per inode `here` (present), `named` (its directory has its name), `nlink`, `path`, `gen` = `dirty_generation`, `hash` = `xet_hash`, `zero` (size is 0), `cur` = `staging_is_current`, `pdel` = `pending_deletes` |
| `used` | numbers given by `insert` |
| `disk`, `cut` | staging files; handles whose file was unlinked under them |
| `fd` | `open_files` with their `open_handles` counts |
| `lock` | `StagingCoordinator::lock` per inode |
| `req` | for each kernel request where it is suspended and what it has read |
| `chan`, `wake` | `FlushSignal`s in the channel |
| `delq`, `errs` | `FlushManager::pending_deletes`, `errors` |
| `fpc`, `batch`, `dels`, `snap`, `gcq` | the flush loop: its place, its batch, the delete request in flight, `FlushItem`s, candidates of `gc` |
| `poll` | the listing, then the diff |
| `remote` | the bucket |
| `data`, `seen`, `ops`, `faults` | history for properties and bounds |

### StagedWrites: actions

A step is what the code does between two points where others may run.

| Code | Actions |
|---|---|
| `open`, `open_advanced_write` (mod.rs 2045-2195) | OpenStart, OpenLock, OpenDone, OpenFail |
| `write` (3195-3284) | PWrite, WriteDone |
| `flush`, `release`, `reap_on_last_release` (3352-3588) | FlushHandle, Release, ReleaseDone, ReapGc |
| `setattr` of a size (4924-5061) | SetattrStart, SetattrLock, SetattrDone, SetattrFail |
| `create` (3730-3830) | Create |
| `unlink` (4199-4358), `drop_locked` | Unlink, UnlinkLocal, DropLocked |
| `rename` (4484-4921) | RenameValidate, RenameRemote, RenameLocal, DropLocked |
| `flush_loop`, `flush_pending_deletes`, `flush_batch` (flush.rs 203-528) | FlushRecv, FlushTakeDeletes, FlushDeletesDone, FlushDeletesFail, FlushLock, FlushSnapshot, FlushUpload, FlushUploadFail, FlushUnchanged, FlushCommit, FlushCommitFail, FlushApply |
| `gc`, `gc_one` (staging.rs 78-118) | FlushGc, FlushGcOne, ReapGc |
| `poll_round`, `apply_poll_diff` (poll.rs) | PollList, PollDiff, PollApply |
| another client (external) | RemoteEdit |

Abstractions:

* A content stands for its xet hash: the store is content addressed. `Empty` is the
  content of length 0.
* One directory whose children are loaded, so a path is a name. A hard link
  is a server-side copy with an inode of its own, so `nlink` is 0 or 1.
* The kernel serialises create, unlink and rename in a directory (external,
  `DirFree`); it sends `release` when no other request uses the handle.
* Handles are the writable ones. A read-only handle also counts as open in
  the code, which only keeps orphans longer.
* An upload reads each staging file at once. A write that hits the middle of an
  upload raises the generation afterwards like one that comes after it.
* Creation of the staging file, and other local disk operations, do not fail.
* The store's budget is a choice: with `GcArmed`, staging may be over its limit
  whenever the code asks.
* `PollApply` counts the content of a remote update as given to the file by an
  application; with two writers the bucket's last one wins.

Left out of this module: shutdown, link, rmdir's `flush_deletes`, lookup of new
remote files, forget and eviction, overlay and encryption. The poll round's
invalidation of directories and kernel caches changes no state kept here.

### StreamingWrites: state

| Variable | Code |
|---|---|
| `table`, `used`, `lock`, `remote` | as above; an entry has no staging file here |
| `wr` | one record per open for writing: the handle (`open`: in `open_files`, `held`: counted in `open_handles`) and its `StreamingChannel`: `state` = `CommitState`, `gen` = `dirty_generation_at_open`, `snapshot`, `info` = `pending_info`, `hook` = `commit_hook` is installed, `data` the content accepted so far, `worker` |
| `pending` | `pending_commits`: per inode the writer whose hook is registered |
| `req` | for each kernel request where it is suspended and what it has read; `job` says who drives a commit |
| `last`, `good`, `ops`, `faults` | history for properties and bounds |
| `reused` | history: inodes where an open was given a generation that another writer, which has yet to commit, was given before |

### StreamingWrites: actions

| Code | Actions |
|---|---|
| `open_streaming_write`, `await_pending_commit`, `setup_streaming_writer` (mod.rs 2198-2263, 1340-1410) | OpenStart, OpenLock, OpenDone, OpenFail |
| `create` (3730-3862) | Create |
| `write`, `streaming_worker` (3289-3349, 5359-5398) | Write, WorkerFail |
| `flush`, `defer_commit` (3352-3404, 4000-4019) | Flush, DeferHook, DeferDone |
| `commit_streaming_now`, `streaming_commit` (4021-4056, 3612-3728) | CommitLock, Upload, UploadFail, Send, HubCommit, HubFail, Apply |
| `release`, `revert_inode`, `reap_on_last_release` (3416-3610) | Release, ReleaseCheck, ReleaseLock, Retry, Drop |
| `link` (4068-4197) | Link, LinkAgain, LinkAdd, LinkInsert |
| `unlink` (4199-4358) | Unlink, UnlinkLock, UnlinkRemote, UnlinkLocal |
| `rename` (4484-4921) | RenameValidate, RenameRemote, RenameLocal |

Abstractions, beside those above:

* `data` is the whole content accepted, not a list of messages: the channel is
  first-in first-out and the worker is its only reader. What counts is which writes
  came before Finish: StartCommit takes the content of that moment.
* A flush of another process (a duplicated descriptor) is a free choice. It
  also stands for a flush that reads `bytes_written` just before the write adds to it.
* `create` is one step: the kernel holds the directory until it returns, so nobody
  knows the inode before its handle is there. A failed create leaves nothing.
* A hook and the state it belongs to change together when a writer becomes
  terminal; in the code the state comes first. Whoever installs a hook in between
  checks the state again (ReleaseCheck, DeferDone), and fulfilling twice is harmless.
* Left out: read-only handles, fsync, the poll loop, the shutdown drain.

### SingleFlight, FileCache and ReconCache

`SingleFlight` has `leader` (per key) and `waiting` (per caller). A caller leads a
key nobody leads, or waits for one; a leader's end frees the key and releases all
its waiters. Both caches implement it. FileCache maps the task between Enter and the drop
of its `InflightGuard` to the leader and its followers to the waiters; ReconCache
maps the caller whose CAS request runs and those that subscribed to its channel.

| FileCache | Code (src/src/file_cache.rs) |
|---|---|
| `items`, `total` | `State`, in order of `last_access` |
| `inflight` | `inflight`: the broadcast channels by hash |
| `disk` | the shared directory: the length of each object's file |
| TryOpen, OpenFile, Forget, ForgetFile | `try_open`, `forget`: index, file, index, file, in four steps |
| Populate, Enter, Acquire, Fetched, FetchFail, Publish, Reap, Finish | `populate` and `populate_inner`: look, look again under the inflight lock, permit, download and rename into place, index entry and eviction, unlinks, drop of the guard |
| Restart | a mount stops anywhere and starts again: `scan_existing` |

A download that is too short ends in Fetched, one that fails or is dropped while it runs in FetchFail.
The only caller of `populate` is a spawned task that gives the expected size (mod.rs 1471-1483). So
its future is dropped with the runtime only, which is Restart, also between the rename and the index
entry, and the path for an unknown size (src/src/file_cache.rs 308-319) has no caller.
`try_read` may fail while a writer has the index (`WriterInside`). Sizes count in units; which of
several equally old files a scan finds first is free. `Without` of SeqOps removes every occurrence
of an element, where some of the code removes the first; entries occur once (proved), so
that is the same.

| ReconCache | Code (src/src/cached_xet_client.rs) |
|---|---|
| `cache`, `order`, `inflight` | the fields of `CachedXetClient`; freshness is a flag that Expire clears |
| Call, Check, Enter, CasDone, CasFail, Return | `get_reconstruction`: cache or derived range, lead or wait, answer |
| Derive, Overlaps | `derive_range_response` |
| Cancel | a caller that leads is dropped (with `Cancels` only) |

### Reads and Container

Container translates the arithmetic of src/src/encryption/content.rs, with small constants for
the header and chunk sizes. In Reads the byte at position p is the number p, so that a
wrong byte shows. One handle, whose mutex orders its reads.

| Reads | Code |
|---|---|
| `pf` | `PrefetchState`: chunks, consumed bytes of the first, seek window, window size, stream |
| `rd` | the locals of `read` and `fetch_data` |
| `enc` | `EncReadState` |
| Read, Plan, OpenStream, Chunk, Fetched, Exhausted, FetchFail, Serve, Return | `read` and `fetch_data` (mod.rs 2912-3191): serve from buffers, `prepare_fetch`, attempts with streams that end early, fail or time out, `store_fetched`, assembly |
| EncryptedRead, EncryptedFail | `encrypted_read` and `fetch_object_range_with` (mod.rs 2440-2553): header, plan, fetch, decrypt. A fetch may fail, and may end early, which the code does not tell from a whole one: the slots up to any point, or a header that is short and stays in the cache |

### Directories

| Directories | Code |
|---|---|
| `table` | `InodeTable`: inodes with parent, children, `children_loaded_at`, `nlookup`, `open_handles`, dirty flag, eviction mark; `path_to_inode` |
| `neg` | the negative cache, without what has expired |
| `kernel` | references the kernel believes it has |
| `task` | for each request where it is suspended and what the Hub answered it; `steady` and `blind` are history: whether the path stayed as it was, and what kinds the probes could not see |
| Lookup, Revalidate*, Miss*, InsertFile, InsertDir, NegativeCacheInsert, Slow*, Find, ReplyEntry | `lookup` (mod.rs 1528-1890) and the count after the reply |
| Load* | `ensure_children_loaded` (968-1160), for lookup, readdir, mkdir, create, symlink and rmdir |
| Make, RmdirCheck, Rmdir | `mkdir`, `create`, `symlink`, `rmdir` |
| Open, Write, Commit, Release, DropHandle, ReapOnLastRelease | what handles do to the entry |
| Forget, ForgetHandles, ForgetMark, ForgetEvict, SweepScan, SweepEvict | `forget` (1960-2001), `lru_evict_sweep` (577-662) |
| RemoteEdit, InvalidateChildren, ExpireMetadata, ExpireNegative | other clients, the feed's effect, time |

A tree of a directory and a leaf below it, each of which may also be a file. Contents are version
numbers. Unlink and rename of files are in StagedWrites and StreamingWrites.

### RemoteChanges

The bucket is a log of changes; revisions and cursors are positions in it. `Trim` lets the
feed forget old changes. `loop` has the variables of `poll_remote_changes`,
`follow_remote_changes` and of the round under way. List and Install are
`ensure_children_loaded` beside the loop. `late` and `behind` are history: listings in
flight that the loop has overtaken, and directories it has lost track of since (see
NothingMissed). There are no local writes here.

RoundDone takes `apply_poll_diff`'s snapshot under the read lock and its application under the write
lock together. A listing installed between the two concerns a directory that was not loaded when the
round began, of which the round has no listing: the diff does not touch its files, so the
order of the two does not matter.

### NfsPool

| NfsPool | Code (src/src/nfs.rs) |
|---|---|
| `pool`, `order` | `HandlePool` |
| `open`, `dir`, `hash` | what VirtualFs knows: open handles with the content they are bound to, names with their inodes, the contents |
| `told`, `spawned` | changes the invalidator has not heard of; handles its tasks, or the shutdown, will release |
| Read, ReadOpen, Share, ReadFile, Unpin, DropEntry, Reopen, Reread | `read` and `get_or_open_handle` |
| Write, PWrite, DropEntry, WriteOpen, WriteFile, Publish | `write` and `insert_handle` |
| Create, RemoveFile, Rename, Unlink, Purge | `create_file`, `remove`, `rename`: the lookups, then the change of the names as they are by then, then the pool |
| EvictHandle, Evicted | `evict_handle`, `process_insert_result`, one handle per step |
| RemoteUpdate, Invalidate, ReleaseSpawned, Drain | the poll loop, the invalidator, the end of the mount |

NFS mounts always use `--advanced-writes` (src/src/setup.rs 609), so no handle is a streaming
one. An open may fail for any reason. Left out: the error that `evict_handle` swallows
from flush, and SETATTR, which leaves pooled handles alone. A handle that a request under way
pools after Drain stays there; NoHandleLost counts it as kept, since the process is about to end.

## 4. Runs

`CHECK_DEADLOCK FALSE` where a mount nobody uses stops for good: requests done,
channel empty, or the bound on requests reached. That nothing gets stuck before is what
EventuallyFlushed, OpenProceeds and Returns say.

| Run | What it shows |
|---|---|
| `staging_cache` (Spec) | StagingCurrent: the flag never vouches for a wrong file. All actions together, two requests, faults, another client, contents written again. Also CacheInv, the invariant the proof needs |
| `durable` (LocalSpec) | Durable: no acknowledged content of a named file is lost over open, write, truncate, create, unlink, rename, flush and failures of uploads, commits, deletes and downloads. Two files, two paths, two requests |
| `remote_sync` (CreateSpec) | RemoteSynced: when the loop is quiet the Hub has each clean file. ClosedDirtyIsPending: no closed dirty file is forgotten. Two files, two handles, two requests, five operations |
| `staging_gc_and_liveness` (LiveSpec) | WritersKeepStaging: gc takes nothing from a writer, as long as one request at a time runs beside the flush loop. With two it does (`MCGcUnderWriter`); in which case exactly, the theorem OnlyLateReapsTakeStaging says. EventuallyFlushed: a signalled dirty file is flushed or reported |
| `streaming` (Spec of StreamingWrites) | CommittedIsFile: after a close that succeeded, a file is what its last writer wrote, over races of writes, flushes, links, supersessions, renames, failed and retried commits. TerminalStable, PendingIsLive, OneActive: the rules that release, open and link rely on when they look without a lock. CommittedIsFile and OneActive except inodes where a generation was given out twice (`MCGenerationReuse`). Two files, two writers, two requests, four operations |
| `streaming_sync_and_liveness` (LiveSpec) | RemoteSynced, NothingExtra: without renames the Hub has the files of the mount and no others. OpenProceeds: no open waits for ever. Three writers |
| `file_cache` | OneDownload, ImplementsSingleFlight: concurrent populates share a download and its end, however it ends, releases all. Accounting: the byte counter is the sum of the entries. HitsAreWhole: a hit is a whole object. NoLeak: each file in the directory is in some index or about to be, restarts at any point included |
| `recon_cache` | AnswerIsRange: cached, derived, shared and fresh answers reconstruct the bytes asked for. ImplementsSingleFlight, Returns: nobody waits for a request that has ended. TypeOK includes the size limit |
| `reads` | ReadIsExact: the right bytes, and no short read before the end. StreamIsAligned: a kept stream stands where the next sequential read goes on. DecryptSucceeds: what is asked for is enough to decrypt whatever the probe lets through; if less comes, the read fails and is not short. Returns: a read ends |
| `directories` | TreeInv: path map, parents and children agree. MissIsReal: a miss that is cached was one, and no transient error is cached as an absence; permanent errors and HEAD answers without a size are, which the definition excepts (MissIsCertain, section 6). ListingsKeepWork: no listing, eviction or rmdir drops an inode that is dirty or in use |
| `remote_changes` (LiveSpec) | NothingMissed: what the loop counts as applied, the mount shows, with the exceptions the definition lists. CatchesUp: at rest the mount comes to show the bucket |
| `nfs_pool` | NoHandleLost: an open handle is pooled or has one who will release it. NeverStale: the handle a request opened for itself is not released by others. PoolInv: no pin without a reader |

**Bounds.** `MaxOps` bounds what applications and other clients begin, `MaxFaults`
failures, `Handle` open handles, `Ino` created files. In StreamingWrites three operations
are three competing opens or an open, a write and a second writer; flush and release
are free. Three operations on one
file of StagedWrites allow open, write and a competing open, resize or remote change around one
flush; four or five on two files add deletion and re-creation of a name and
a rename onto another. Every counterexample known (section 6) needs at most
five. `Rewrites` FALSE makes each written content new: it
removes the coincidence that a file gets an earlier content again, which has a
counterexample of its own (`MCSkippedCommit`). Three contents are the empty
one, the initial one and a new one.

FileCache has no bound but its sets: two objects of sizes 1 and 2, a budget of 2, so that the
second evicts the first, and one permit. ReconCache makes four calls with a cache of
two entries: enough for two leaders to come back to a full cache, and for a
waiter to find its result evicted. Reads are unbounded over a file of seven
bytes; windows, chunk lengths and skips are such that each strategy, an overflowing
seek window and a stream that ends in the middle of a fetch occur. `FirstAt` fixes where a
handle's first read starts: 0 in the run (see `MCSeekWindow`). In Directories three requests
overlap with free remote edits of two versions, expiry and sweeps; three inode numbers are the
root, the directory and the leaf. RemoteChanges has two changes;
the limit on dead sessions is 2 instead of 3. NfsPool
has three requests, four handles, two files, two names, room for one handle: two requests race, the third evicts.

**Fairness.** `EventuallyFlushed` assumes weak fairness of the flush loop and of
each request already begun. The tokio runtime polls every task that can go on, and
its mutexes are fair. Nothing is assumed about requests starting, about
other clients or about the poll loop; faults are bounded. `Returns` of Reads and ReconCache assumes
the same of a call under way: chunks come or time out, attempts are counted, CAS requests
have timeouts.

`OpenProceeds` assumes weak fairness of each request begun and strong fairness of the
release of each handle: an application closes its file some time, and the kernel
sends the release when no other request uses the handle. LiveSpec also
keeps one request free of waiting opens. The code does not guarantee that: `open` blocks a
thread of the FUSE session (src/src/fuse.rs 240) of which there are `max_threads`, and when all
of them wait for deferred commits no thread is left to take the releases.

`CatchesUp` assumes weak fairness of the loop, which is a task that never ends, and
strong fairness of the successful outcomes of the probe, the listing of each directory, the
subscription and the delivery of changes: the Hub does not refuse for ever what is asked for
again and again. Changes are bounded, so the bucket comes to rest.

## 5. Proofs

All theorems hold for every value of the constants that meets the modules' named assumptions:
types of bounds, `None` and the seed values distinct from what they are compared with, positive
capacities and limits, and, where a cardinality or an eviction is involved, finite sets of
objects (FileCache) or requests (NfsPool). None of them bounds the number of steps, requests
or failures.

| Module | Theorem | States |
|---|---|---|
| `StagedWritesProofs` | TypeCorrect | TypeOK |
| | StagingCurrentCorrect | StagingCurrent, with unlimited staging space (`~GcArmed`, the default of `--max-staging-size`). With a budget it does not hold (`MCResizeAfterGc`) |
| | StagingCacheSound | CacheInv, its inductive invariant, with `~GcArmed` |
| | DurableCorrect | Durable of LocalSpec: no acknowledged content of a named file is lost, with `~GcArmed` |
| | ClosedDirtyIsPendingCorrect | ClosedDirtyIsPending of Spec, with all its actions, gc and other clients included |
| | RemoteSyncedCorrect | RemoteSynced of CreateSpec, with `~GcArmed` and `~Rewrites`. With contents written again it does not hold (`MCSkippedCommit`) |
| | OnlyLateReapsTakeStaging | WritersKeepStaging of Spec, for any number of requests, as long as no file is opened between the end of its last `release` and the `gc_one` it calls (`ReapsClosed`). That race is real (`MCGcUnderWriter`), and by this theorem it is the only one |
| `StreamingWritesProofs` | TypeCorrect | TypeOK |
| | CommitsAreFiles | CommittedIsFile: what close(2) acknowledged is the file |
| | HooksAreLive | PendingIsLive |
| | OneOwner | OneActive |
| | StatesAreFinal | TerminalStable, an action property |
| | CleanFilesAreOnTheHub, HubFilesAreShown | RemoteSynced, NothingExtra of StreamSpec, which has no renames: until a call fails the Hub has the clean files of the mount and no others |
| `FileCacheProofs` | TypeCorrect, CounterIsExact, FilesAreWhole, FilesAreAccountedFor, DownloadsAreShared | TypeOK, Accounting, HitsAreWhole, NoLeak, OneDownload |
| | SingleFlightImplemented | the refinement of SingleFlight |
| `ReconCacheProofs` | CacheStaysWithinLimit | TypeOK with the size limit |
| | AnswersAreExact | AnswerIsRange: every derived range is the bytes asked for, whatever the terms of the file |
| | SingleFlightImplemented | the refinement of SingleFlight, with `~Cancels`. With cancelled leaders it does not hold (`MCReconCancel`) |
| `ReadsProofs` | TypeCorrect, StreamsAreAligned | TypeOK, StreamIsAligned |
| | PlansSuffice | DecryptSucceeds, for containers of every chunk size and overhead |
| | ReadsAreExact | ReadIsExact, with `FirstAt \subseteq {0}`: handles first read at their start. For others it does not hold (`MCSeekWindow`) |
| `RemoteChangesProofs` | TypeCorrect | TypeOK |
| | ChangesAreShown | NothingMissed: what the loop counts as applied, the mount shows |
| `NfsPoolProofs` | PoolIsConsistent, HandlesAreKept, OwnHandlesStayOpen | PoolInv, NoHandleLost, NeverStale |

**StagedWrites.** StagingCurrent is not inductive. When `apply_commit` sets the flag, the staging file
must still be what was uploaded, though the staging locks were released before. `CacheInv`
adds why:

* `ItemsOK`: the generation in a flush item is never above the entry's. So equal
  generations mean no completed change since the snapshot, and the staging file is what was
  uploaded, or a write has put its bytes there and is about to raise the generation.
* `LocksOK`: whoever downloads or uploads holds the staging lock.
* `DownloadsOK`: no download overwrites a staging file that a commit in flight or the
  next open relies on (`AtStake`).
* `DropsOK`, `UsedOK`: files are removed only for inodes that are gone, whose numbers do not come back.
* `CacheOK`: a clean current file has a hash, and the staging file is that content or is
  being written to.

`Keeping` is the frame lemma: a step that changes none of the pieces the invariant
reads for an inode preserves it. The other lemmas each treat a group of
actions, and `CacheStep` puts them together. TLC checks CacheInv in
`staging_cache`.

*Durable.* `LocalInv` adds to CacheInv that a staging file which open(2) would reuse, or which a
handle writes to, has what applications gave the file, and that a clean file's hash is that content
(`StagedOK`); that what `open` read before it had the lock, hash and size, is still true when it is used,
since a file whose hash has moved since is dirty or current and gets reused (`OpensOK`); that only
handles of inodes that are gone have lost their staging file (`CutOK`).

*ClosedDirtyIsPending.* `PendingInv` says who will see to a dirty file: a handle still to be released, a
signal, a deferred error, or a flush item. An item whose generation has moved will not
clear the dirty flag, so it does not count: whoever moved the generation has left a handle or a signal.

*RemoteSynced.* `SyncInv` adds to LocalInv what the flush loop may still do to the Hub. Queued deletes are of files
that are leaving, and a delete under way can be overtaken only by a new file that has no hash yet
(`DeletesOK`). A file that has moved on from its hash does not come back to it when contents are
not written again (`ContentOK`); so a commit that was reported as failed but was applied does no
harm: its file's content is not its hash, and the file is dirty until a later commit (`SyncedOK`, `CommitOK`).

*WritersKeepStaging.* `KeepInv` has the property without its exception for handles that are closing
(`KeepAt`), and that a file which `gc` has yet to visit was clean and closed when it was
chosen; since the flush loop is in `gc`, nothing is committed meanwhile, so a file opened
since then is dirty and `gc_one` leaves it alone (`VisitsOK`). Staging files dropped by unlink and rename are of inodes
that are gone (`HandedOut`). `gc_one` called by `release` has no such argument: it looks at the dirty
flag only, which a commit may have cleared under a handle opened in between.

**StreamingWrites.** CommittedIsFile looks at the end of a commit only. `IInv` follows the writer
there: a request that uploads or sends holds the staging lock, its writer is `committing`, owns the
entry's generation, and the request carries the content the writer accepted (`Holds`); an upload
kept for a retry is still that content, since no write is accepted in that state (`WriterOk`);
the last writer of an inode owns its generation until it is terminal (`LastOk`); and two writers
that owe a commit have different generations (`Distinct`), so no other writer's `apply_commit` or
revert gets past the generation check. StatesAreFinal and HooksAreLive need `Holds` too: the open that
fails the writer it supersedes has held the lock since it looked.

`Distinct` is not true of the code. The attempt to prove it led to a behaviour of 17 steps that
the bounds of the runs exclude: generations start again at zero after a commit, so a new writer may get the
generation of an older one that was released but has not queued for the lock yet
(`MCGenerationReuse`, section 6). The history variable `reused` marks the inodes where that
happened, and CommittedIsFile and OneActive are stated, checked and proved for the others.

RemoteSynced and NothingExtra need `HubInv`, on top of `IInv`: while no call has failed, a named
clean file is on the Hub unless an unlink has deleted it there and not yet here (`SyncedIs`); what each
request has read of the directory is still so, since one at a time changes it (`RequestIs`, `OneInDir`);
and a file of the Hub has an inode or a `link` that is about to give it one (`ShownIs`).

**FileCache.** `IInv` is the conjunction of the properties themselves with `FlightInv` (a task
that downloads or waits is on a hash in the table; each hash there has exactly one that
downloads it) and `TaskInv` (only a task that reaps has victims). Each action's lemma
shows the invariant and the step of SingleFlight, or its stuttering, at once.

**ReconCache.** `OrderInv`: the order of use is a sequence without repetition of exactly the cached
keys, within the limit; so eviction finds a key to take. `DataInv`: every entry is the answer the CAS
gave for its key. That a range derived from a whole-file plan is exact is a fact about partial sums of
term lengths: which terms overlap the range, what lies before the first of them.

**Reads.** `IInv` says, of every handle, that the chunks of the buffer behind its consumed bytes are the
bytes of the file from `start` on (`BufferOk`), and that a fetch under way has brought the bytes from the
cursor on, and its stream stands behind them or has nothing left (`FetchOk`). `ExactInv` adds, for handles first
read at their start, that the seek window has the bytes it says (`SeekOk`), which needs that an empty window is at
position 0 with nothing before it, and that the read has the bytes from its offset to the cursor. The
lemmas are about the chain of chunks: what `Flat` computes for every chain, over `Append`,
concatenation and popping (`FlatConcat`, `FlatBehind`); that slices and concatenations of
consecutive positions are consecutive positions; and about what each operation of
PrefetchState makes of a good one (`PoppedOk`, `SeekStep`, `DrainOk`, `PreparedOk`, `StoredOk`). For
containers: the chunk count of an object that probes is that of its file (`CountIsChunks`), and
division keeps the order, so that the planned slots enclose the decrypted ones (`PlanHasSlots`).

**RemoteChanges.** NothingMissed is about the last resume point; a round moves it only at its end,
over several steps and beside listings made on demand. `IInv` carries the claim through the
round: the resume points are ordered and none is in the future (`OrderInv`); a listing in
flight that is not marked `late` shows the bucket at or after the point the round works towards (`ListingInv`);
a directory loaded since the round began lacks only files that were not there at such a point
(`RoundInv`), so the round's diff, made from an older listing, may pass over them; a shown
file's directory is known, and loaded before the first probe (`InodeInv`). `ShownInv` is NothingMissed with
the point that is safe in every phase: in a round started by the feed it stays at the last complete round,
since this one may still turn out incomplete.

**NfsPool.** `IInv` says for each handle who owns it: the pool, a request (`PrivateOk`: nobody else
knows it), or a release under way (`Located`); that numbers are not used again (`FreshInv`); and
that the pins of an entry are at most the readers of its inode (`PinsInv`).

**SeqOps.** Removal and sum are recursive functions. `SeqOpsProofs` derives least
elements of sets of numbers, induction over a set of numbers (`Induct`, `InductTo`) and the
recursion equation (`Recursion`) from the well-foundedness of the finite subsets, and from
these what `Without` and `Total` compute for every sequence.

Only model-checked: liveness (EventuallyFlushed, OpenProceeds, Returns, CatchesUp), since fairness is
out of the prover's reach; and TreeInv, MissIsReal and ListingsKeepWork of Directories, which has
no proofs yet. Durable and both RemoteSynced are proved for the groups of actions that the runs have
and no others: with the rest they do not hold (section 6).

## 6. What the code does and its comments do not say

Each of these is a behaviour of the model that TLC prints. Their configurations are
kept beside those of the runs (run them as above with the module's MC module;
each ends with the violation; where there is none, the property as an INVARIANT
of the module's run does) and are the exceptions to keep in mind when reading
the properties above.

| Configuration | Property | What happens |
|---|---|---|
| `MCRequeuedDelete` | RemoteSynced | rm a; the batch delete is in flight; create a cancels nothing; the delete fails and is queued again; the new a is committed and clean; the next cycle deletes it from the Hub. flush.rs 271 calls this self-healing since "recreated files are dirty" |
| `MCRenameWhileFlushing` | RemoteSynced | a dirty file is renamed after flush_batch's snapshot: the commit adds the old path, apply_commit marks the renamed file clean and clears its pending deletes |
| `MCReapDuringUpload` | UploadStable | the last close of an unlinked file removes the staging file without the lock that flush_batch holds for the upload |
| `MCTruncateRename` | NothingExtra | open(a, O_TRUNC), rename(a, b), close: the open has set xet_hash to None, so the rename takes a for a file without remote presence, and the Hub keeps it next to b |
| `MCGhostRevert` | CleanIsGood | two opens pass await_pending_commit together; the first writer is released and not yet committed when the second open looks for it in open_files; the second snapshots the stripped entry, and its failed commit reverts the file to clean and without a hash |
| `MCGenerationReuse` | NoReuse | writer A (generation 1) is released and has not queued for the staging lock; B opens with generation 2 and commits, which sets the generation to 0; C opens and gets generation 1. A's late commit now passes the check that should skip it, puts A's content over B's on the Hub and in the entry, and resets the generation, so that C's own commit is skipped and yet counts as committed (mod.rs 2229: "The generation bump below makes the old channel's bytes uncommittable") |
| `MCPollUnlinksDirty` | PollKeepsDirty | the remote deletion of a file that is open and locally unlinked unlinks whichever inode has its name, a new dirty file included |
| `MCStreamingRename` | RemoteSynced | mv a b while a close is committing the old b: the commit of b reaches the Hub after the rename's |
| `MCReleasedPending` | ReleasedIsPending | the first hook registered for an inode stays when a newer writer is released, so the shutdown drain, which looks in pending_commits, does not wait for the newer writer's commit (mod.rs 3420: "there must be no window where a committing handle is in neither map") |
| `MCSkippedCommit` | RemoteSynced | the content is c1, then c2, then c1 again while c2 is being committed: apply_commit skips the entry, whose hash stays c1, and the upload of c1 is taken for unchanged |
| `MCLostDelete` | NothingExtra | rm a, create a, rm a: the create cancels the queued delete, the new inode has no hash, no delete is sent |
| `MCStaleDownload` | Durable | (staging budget) open reads the hash, waits for the lock while a write is committed and its staging file reclaimed, and downloads the old content |
| `MCGcUnderWriter` | WritersKeepStaging | (staging budget) gc_one re-checks the dirty flag only; a commit made an open file clean, and its handle loses the file |
| `MCResizeAfterGc` | StagingCurrent | (staging budget) the flag survives gc; a resize whose download fails leaves a partial file under it |
| `MCPartialDownload` | Durable | a failed open leaves a partial staging file; setattr(size) reuses any staging file |
| `MCRenameBack` | NoSelfDelete | a dirty file renamed away and back is added and deleted by one commit |
| `MCSeekWindow` | ReadIsExact | (MCReads) a handle whose first read is not at the start: drain_to_seek takes an empty seek window for contiguous (prefetch.rs 243) and leaves `seek_start` at 0, so that the bytes it keeps are later served for the start of the file (prefetch.rs 75: "Backward seek window: bytes [seek_start .. seek_start + seek_data.len())") |
| `MCReconCancel` | Returns | (MCReconCache) a leader whose future is dropped during the CAS request leaves its key in `inflight`; later callers subscribe to a channel whose sender is gone, and try again for ever |
| `MCRevalidateDirty` | WorkSurvives | (MCDirectories) the HEAD of a revalidation answers 404; before it is applied, an application opens and writes the file; the removal does not look at that (mod.rs 847-863; src/README.md 268: "Dirty files, ... and inodes with live file handles are never dropped") |
| none | MarkHasHandle | (MCDirectories) forget sees an open handle, the handle is released, forget sets the mark: nobody is left to act on it (mod.rs 1983-1991) |
| none | EvictedIsUnknown | (MCDirectories) the lookup count is raised after the reply; an eviction between the lookup and that takes away the inode the kernel just got (inode.rs 332: "Calling this on an unknown inode is a bug") |
| none | MissIsCertain | (MCDirectories) a file that is there all the time, in a directory that was listed before it came: its HEAD fails permanently or tells no size, "the caller defers to a listing" (mod.rs 1753), the listing of a file's path is empty, and the file is cached as absent. So is a directory when its listing fails permanently (mod.rs 1671-1672: "Other permanent failures also fall through to the negative cache") |
| none | InsertKeepsKind | (MCDirectories) a listing in flight has a directory; it becomes a file, which a lookup's HEAD inserts; the listing is installed and insert() meets a file of that path: its debug_assert (inode.rs 598) fails, and builds without it keep the file |
| none | HeaderIsWhole | (MCReads) the stream of the header ends early, which counts as fetched (mod.rs 2464-2473), and the short header is cached for the handle (2525): each later read through the handle is EIO, though the object is fine |
| none | EveryChangeSeen | (MCRemoteChanges) a directory listed while changes are applied, or before the first probe, may keep a file older than the resume point until a later round (poll.rs 355-358: "so nothing between the round and the subscription is missed") |
| none | PooledIsCurrent | (MCNfsPool) a READ opens at the old hash; the poll loop updates the inode and the invalidator finds nothing pooled; the READ pools its handle, and later READs get the old content until it is evicted (src/src/nfs.rs 515: "so the next read re-opens at the new xet_hash") |
| none | EvictionSparesReaders | (MCNfsPool) unpin counts by inode: a reader of a replaced handle takes the pin off another reader's entry, which is evicted under it. The reader retries with a handle of its own, so clients see nothing |
| none | RemovedIsUnpooled | (MCNfsPool) a CREATE or WRITE has its handle and has not pooled it when REMOVE unlinks the file and clears the pool; the handle is pooled afterwards and keeps the removed file until it is evicted (src/src/nfs.rs 415: "Without this, deleted files' handles linger until LRU-evicted") |

Further observations without a configuration: encrypted_local_write (mod.rs 2656) applies
the new size after it let go of the lock that orders the writes; two mounts on one cache
directory each count their own budget, so together they may fill twice of it; a listing in flight across a
flush commit removes the file that was just committed and is clean by then, until the next listing; a
replay from an older resume point may show an older version for a while.

## 7. Not modelled

* The shutdown drain and the final flush: planned (section 2). What the drain needs of
  the handlers is stated as ReleasedIsPending.
* Encrypted staging files, renames of directories and hard links across directories, the size
  probes during listings: planned.
* Hub HTTP with pagination and token refresh, the SSE parser, FUSE translation, mount
  commands, command line, daemon, sidecar and binaries: I/O without protocol state.
* Path names and base91: a pure coder around a library cipher, without shared state.
* Steps taken together where nobody can look in between: OpenDone of StagedWrites (truncation, dirty
  flag and handle, under the staging lock), CasDone of ReconCache (entry, end of the flight and
  wake-up; a leader that enters before the wake-up has a flight of its own), RoundDone (section 3).
* Overlay mode sends nothing to the Hub. Cryptography is the library's.
