------------------------- MODULE StagedWritesProofs -------------------------
(***************************************************************************)
(* Proofs about StagedWrites, for every value of its constants.  Every     *)
(* variable keeps its type, and the staging cache is what the flag         *)
(* staging_is_current says (CacheInv).  Four invariants carry the others:  *)
(*   LocalInv     applications read back what they wrote (Durable);        *)
(*   PendingInv   no closed file is dirty and forgotten, and an item that  *)
(*                is about to be committed is held by the flush loop;      *)
(*   SyncInv      clean files are on the Hub when the loop is idle;        *)
(*   KeepInv      staging garbage collection takes what nobody needs.      *)
(* Each has a frame lemma (Keeping, LocalKeeping, ..., KeepQuiet) from     *)
(* what a step may do to an inode, a request and a lock, which covers the  *)
(* steps that leave alone what the invariant is about; the steps that do   *)
(* not have a lemma each.                                                  *)
(***************************************************************************)
EXTENDS StagedWrites, TLAPS

----------------------------------------------------------------------------
(* Types.                                                                  *)

\* The blank values of requests, entries and flush items have their types.
LEMMA BlankType == Idle \in ReqState /\ NoEntry \in Entry /\ NoItem \in Item
BY SeedAssumption DEF Idle, ReqState, NoEntry, Entry, NoItem, Item, Hash

\* The fields of a request have their types.
LEMMA ReqFields ==
    ASSUME NEW q \in ReqState
    PROVE  /\ q.op # "idle" => q.ino \in Ino
           /\ q.op \in {"rename", "renamed"} => q.path \in Path /\ q.to \in Path
           /\ q.hash \in Hash /\ q.fh \in Handle \cup {None} /\ q.flag \in BOOLEAN
BY DEF ReqState

\* What the operations of the table make of an entry is an entry.
LEMMA EntryOps ==
    ASSUME NEW e \in Entry
    PROVE  /\ NotCurrent(e) \in Entry /\ Written(e) \in Entry /\ UnlinkOne(e) \in Entry
           /\ \A m, t \in BOOLEAN : Opened(e, m, t) \in Entry
           /\ \A z \in BOOLEAN : Resized(e, z) \in Entry
           /\ \A it \in Item : ApplyCommit(e, it) \in Entry
           /\ \A c \in Hash : UpdateRemote(e, c) \in Entry
<1>0. e.gen + 1 \in Nat /\ e.cur \in BOOLEAN /\ e.zero \in BOOLEAN /\ e.hash \in Hash
    BY DEF Entry
<1>1. NotCurrent(e) \in Entry /\ UnlinkOne(e) \in Entry
    BY DEF NotCurrent, UnlinkOne, Entry
<1>2. Written(e) \in Entry
    BY <1>0 DEF Written, Entry
<1>3. ASSUME NEW m \in BOOLEAN, NEW t \in BOOLEAN PROVE Opened(e, m, t) \in Entry
  <2> DEFINE n == e.gen + 1
             x == e.cur \/ m
             z == e.zero \/ t
  <2>1. Opened(e, m, t) = [e EXCEPT !.gen = n, !.cur = x, !.zero = z]
    BY DEF Opened, Entry
  <2>2. n \in Nat /\ x \in BOOLEAN /\ z \in BOOLEAN
    BY <1>0
  <2> HIDE DEF n, x, z
  <2> QED
    BY <2>1, <2>2 DEF Entry
<1>6. ASSUME NEW z \in BOOLEAN PROVE Resized(e, z) \in Entry
  <2> DEFINE n == e.gen + 1
             x == IF z THEN None ELSE e.hash
  <2>1. Resized(e, z) = [e EXCEPT !.gen = n, !.zero = z, !.hash = x]
    BY DEF Resized, Entry
  <2>2. n \in Nat /\ x \in Hash
    BY <1>0 DEF Hash
  <2> HIDE DEF n, x
  <2> QED
    BY <2>1, <2>2 DEF Entry
<1>4. \A it \in Item : ApplyCommit(e, it) \in Entry
    BY DEF ApplyCommit, Entry, Item, Hash
<1>5. \A c \in Hash : UpdateRemote(e, c) \in Entry
    BY DEF UpdateRemote, Entry, Hash
<1> QED
    BY <1>1, <1>2, <1>3, <1>4, <1>5, <1>6

\* The steps of open(2) keep the types.
LEMMA TypeOpen ==
    ASSUME TypeOK, NEW r \in Req
    PROVE  /\ \A i \in Ino, t \in BOOLEAN : OpenStart(r, i, t) => TypeOK'
           /\ OpenLock(r) => TypeOK'
           /\ \A h \in Handle : OpenDone(r, h) => TypeOK'
           /\ OpenFail(r) => TypeOK'
<1> USE ValueAssumption
<1> DEFINE q == req[r]
           j == q.ino
<1>0. q \in ReqState
    BY DEF TypeOK
<1>1. ASSUME NEW i \in Ino, NEW t \in BOOLEAN, OpenStart(r, i, t) PROVE TypeOK'
  <2>1. [Idle EXCEPT !.op = "open", !.ino = i, !.flag = t, !.hash = table[i].hash,
                     !.zero = table[i].zero] \in ReqState
    BY DEF TypeOK, Idle, ReqState, Hash, Entry
  <2> QED
    BY <1>1, <2>1 DEF TypeOK, OpenStart, Begin, BeginOp, qvars, fvars
<1>2. ASSUME OpenLock(r) PROVE TypeOK'
  <2> DEFINE reuse == ~q.flag /\ (table[j].gen > 0 \/ table[j].cur) /\ disk[j] # None
             locked == [q EXCEPT !.op = "fetch", !.reuse = reuse]
  <2>1. j \in Ino /\ table[j] \in Entry
    BY <1>0, <1>2, ReqFields DEF TypeOK, OpenLock
  <2>2. NotCurrent(table[j]) \in Entry
    BY <2>1, EntryOps
  <2>3. reuse \in BOOLEAN
    OBVIOUS
  <2> HIDE DEF reuse
  <2>4. locked \in ReqState
    BY <1>0, <1>2, <2>1, <2>3 DEF ReqState, OpenLock
  <2>5. req' \in {[req EXCEPT ![r] = Idle], [req EXCEPT ![r] = locked]}
    BY <1>2 DEF OpenLock, Finish, reuse
  <2> HIDE DEF locked
  <2>6. table' \in [Ino -> Entry] /\ req' \in [Req -> ReqState]
    BY <1>2, <2>1, <2>2, <2>4, <2>5, BlankType DEF TypeOK, OpenLock
  <2> QED
    BY <1>2, <2>1, <2>6 DEF TypeOK, OpenLock, qvars, fvars, hvars
<1>3. ASSUME NEW h \in Handle, OpenDone(r, h) PROVE TypeOK'
  <2> DEFINE mirrors == /\ ~q.reuse
                        /\ NeedsDownload(q) \/ (q.hash = None /\ q.zero)
                        /\ table[j].hash = q.hash
  <2>1. /\ j \in Ino /\ table[j] \in Entry /\ disk[j] \in Hash
        /\ q.hash \in Hash /\ q.flag \in BOOLEAN
    BY <1>0, <1>3, ReqFields DEF TypeOK, OpenDone
  <2>2. mirrors \in BOOLEAN
    OBVIOUS
  <2>3. table' = table \/ table' = [table EXCEPT ![j] = Opened(table[j], mirrors, q.flag)]
    BY <1>3 DEF OpenDone
  <2> HIDE DEF mirrors
  <2>4. Opened(table[j], mirrors, q.flag) \in Entry
    BY <2>1, <2>2, EntryOps
  <2>5. table' \in [Ino -> Entry]
    BY <2>1, <2>3, <2>4 DEF TypeOK
  <2>6. disk' \in [Ino -> Hash]
    BY <1>3, <2>1 DEF TypeOK, OpenDone, Hash
  <2>7. data' \in [Ino -> Hash]
    <3>1. \/ data' = data
          \/ data' = [data EXCEPT ![j] = IF q.flag THEN Empty ELSE data[j]]
      BY Zenon, <1>3 DEF OpenDone
    <3> QED
      BY <2>1, <3>1 DEF TypeOK, Hash
  <2>8. fd' \in [Handle -> Ino \cup {None}] /\ lock' \in [Ino -> Req \cup {Flusher, None}]
    BY <1>3, <2>1 DEF TypeOK, OpenDone
  <2> QED
    BY <1>3, <2>5, <2>6, <2>7, <2>8, BlankType DEF TypeOK, OpenDone, qvars, fvars, Finish
<1>4. ASSUME OpenFail(r) PROVE TypeOK'
  <2>1. j \in Ino /\ disk[j] \in Hash
    BY <1>0, <1>4, ReqFields DEF TypeOK, OpenFail
  <2>2. disk' \in [Ino -> Hash] /\ faults' \in Nat
    BY <1>4, <2>1 DEF TypeOK, OpenFail, Hash, Fault
  <2> QED
    BY <1>4, <2>1, <2>2, BlankType DEF TypeOK, OpenFail, qvars, fvars, Finish
<1> QED
    BY <1>1, <1>2, <1>3, <1>4


\* The steps of write(2) and of the release of a handle keep the types.
LEMMA TypeWrite ==
    ASSUME TypeOK, NEW r \in Req
    PROVE  /\ \A h \in Handle, c \in Content : PWrite(r, h, c) => TypeOK'
           /\ WriteDone(r) => TypeOK'
           /\ \A h \in Handle : Release(r, h) => TypeOK'
           /\ ReleaseDone(r) => TypeOK'
           /\ ReapGc(r) => TypeOK'
<1> USE ValueAssumption
<1> DEFINE q == req[r]
           j == q.ino
<1>0. q \in ReqState
    BY DEF TypeOK
<1>1. ASSUME NEW h \in Handle, NEW c \in Content, PWrite(r, h, c) PROVE TypeOK'
  <2>1. fd[h] \in Ino
    BY <1>1 DEF TypeOK, PWrite
  <2>2. [Idle EXCEPT !.op = "write", !.ino = fd[h], !.fh = h] \in ReqState
    BY <2>1 DEF Idle, ReqState, Hash
  <2>3. disk' \in [Ino -> Hash] /\ data' \in [Ino -> Hash]
    BY <1>1, <2>1 DEF TypeOK, PWrite, Hash
  <2> QED
    BY <1>1, <2>2, <2>3 DEF TypeOK, PWrite, Begin, BeginOp, qvars, fvars
<1>2. ASSUME WriteDone(r) PROVE TypeOK'
  <2>1. j \in Ino /\ table[j] \in Entry
    BY <1>0, <1>2, ReqFields DEF TypeOK, WriteDone
  <2>2. table' \in [Ino -> Entry]
    BY <1>2, <2>1, EntryOps DEF TypeOK, WriteDone
  <2> QED
    BY <1>2, <2>2, BlankType DEF TypeOK, WriteDone, Finish, qvars, fvars, hvars
<1>4. ASSUME NEW h \in Handle, Release(r, h) PROVE TypeOK'
  <2>1. fd[h] \in Ino
    BY <1>4 DEF TypeOK, Release
  <2>2. [Idle EXCEPT !.op = "close", !.ino = fd[h], !.fh = h] \in ReqState
    BY <2>1 DEF Idle, ReqState, Hash
  <2> QED
    BY <1>4, <2>1, <2>2 DEF TypeOK, Release, fvars, hvars
<1>5. ASSUME ReleaseDone(r) PROVE TypeOK'
  <2> DEFINE reap == [Idle EXCEPT !.op = "reap", !.ino = j]
  <2>1. j \in Ino
    BY <1>0, <1>5, ReqFields DEF ReleaseDone
  <2>2. reap \in ReqState
    BY <2>1 DEF Idle, ReqState, Hash
  <2>3. req' \in {[req EXCEPT ![r] = Idle], [req EXCEPT ![r] = reap]}
    BY <1>5 DEF ReleaseDone
  <2> HIDE DEF reap
  <2>4. req' \in [Req -> ReqState]
    BY <2>2, <2>3, BlankType DEF TypeOK
  <2>5. table' \in [Ino -> Entry] /\ disk' \in [Ino -> Hash]
    BY <1>5, <2>1, BlankType DEF TypeOK, ReleaseDone, Hash
  <2>6. fd' \in [Handle -> Ino \cup {None}] /\ cut' \subseteq Handle
    BY <1>5 DEF TypeOK, ReleaseDone
  <2> QED
    BY <1>5, <2>4, <2>5, <2>6 DEF TypeOK, ReleaseDone, qvars, fvars, hvars
<1>6. ASSUME ReapGc(r) PROVE TypeOK'
  <2>1. disk' \in [Ino -> Hash] /\ cut' \subseteq Handle
    BY <1>6 DEF TypeOK, ReapGc, Unstage, Handles, Hash
  <2> QED
    BY <1>6, <2>1, BlankType DEF TypeOK, ReapGc, Finish, qvars, fvars, hvars
<1> QED
    BY <1>1, <1>2, <1>4, <1>5, <1>6

\* The steps of setattr(2) keep the types.
LEMMA TypeSetattr ==
    ASSUME TypeOK, NEW r \in Req
    PROVE  /\ \A i \in Ino, t \in BOOLEAN : SetattrStart(r, i, t) => TypeOK'
           /\ SetattrLock(r) => TypeOK'
           /\ \A c \in Content : SetattrDone(r, c) => TypeOK'
           /\ SetattrFail(r) => TypeOK'
<1> USE ValueAssumption
<1> DEFINE q == req[r]
           j == q.ino
<1>0. q \in ReqState
    BY DEF TypeOK
<1>1. ASSUME NEW i \in Ino, NEW t \in BOOLEAN, SetattrStart(r, i, t) PROVE TypeOK'
  <2>1. [Idle EXCEPT !.op = "resize", !.ino = i, !.flag = t] \in ReqState
    BY DEF Idle, ReqState, Hash
  <2> QED
    BY <1>1, <2>1 DEF TypeOK, SetattrStart, Begin, BeginOp, qvars, fvars
<1>2. ASSUME SetattrLock(r) PROVE TypeOK'
  <2> DEFINE reuse == disk[j] # None
             locked == [q EXCEPT !.op = "set", !.hash = table[j].hash,
                                 !.zero = table[j].zero, !.reuse = reuse]
  <2>1. j \in Ino /\ table[j] \in Entry
    BY <1>0, <1>2, ReqFields DEF TypeOK, SetattrLock
  <2>2. table[j].hash \in Hash /\ table[j].zero \in BOOLEAN
    BY <2>1 DEF Entry
  <2>3. reuse \in BOOLEAN
    OBVIOUS
  <2>4. req' \in {[req EXCEPT ![r] = Idle], [req EXCEPT ![r] = locked]}
    BY <1>2 DEF SetattrLock, Finish
  <2> HIDE DEF reuse
  <2>5. locked \in ReqState
    BY <1>0, <2>1, <2>2, <2>3 DEF ReqState
  <2> HIDE DEF locked
  <2>6. req' \in [Req -> ReqState]
    BY <2>4, <2>5, BlankType DEF TypeOK
  <2> QED
    BY <1>2, <2>1, <2>6 DEF TypeOK, SetattrLock, qvars, fvars, hvars
<1>3. ASSUME NEW c \in Content, SetattrDone(r, c) PROVE TypeOK'
  <2>1. j \in Ino /\ table[j] \in Entry /\ q.flag \in BOOLEAN
    BY <1>0, <1>3, ReqFields DEF TypeOK, SetattrDone
  <2>2. Resized(table[j], q.flag) \in Entry
    BY <2>1, EntryOps
  <2>3. table' \in [Ino -> Entry]
    BY <1>3, <2>1, <2>2 DEF TypeOK, SetattrDone
  <2>4. data' \in [Ino -> Hash]
    BY <1>3, <2>1 DEF TypeOK, SetattrDone, Hash
  <2>5. disk' \in [Ino -> Hash] /\ lock' \in [Ino -> Req \cup {Flusher, None}]
    BY <1>3, <2>1 DEF TypeOK, SetattrDone, Hash
  <2> QED
    BY <1>3, <2>1, <2>3, <2>4, <2>5, BlankType DEF TypeOK, SetattrDone, fvars, Finish
<1>4. ASSUME SetattrFail(r) PROVE TypeOK'
  <2>1. j \in Ino /\ disk[j] \in Hash
    BY <1>0, <1>4, ReqFields DEF TypeOK, SetattrFail
  <2>2. disk' \in [Ino -> Hash] /\ faults' \in Nat
    BY <1>4, <2>1 DEF TypeOK, SetattrFail, Hash, Fault
  <2> QED
    BY <1>4, <2>1, <2>2, BlankType DEF TypeOK, SetattrFail, qvars, fvars, Finish
<1> QED
    BY <1>1, <1>2, <1>3, <1>4


\* create(2) and flush() keep the types.
LEMMA TypeCreate ==
    ASSUME TypeOK
    PROVE  /\ \A p \in Path, i \in Ino, h \in Handle : Create(p, i, h) => TypeOK'
           /\ \A h \in Handle : FlushHandle(h) => TypeOK'
<1> USE ValueAssumption
<1>1. ASSUME NEW p \in Path, NEW i \in Ino, NEW h \in Handle, Create(p, i, h) PROVE TypeOK'
  <2> DEFINE new == [here |-> TRUE, named |-> TRUE, nlink |-> 1, path |-> p, gen |-> 1,
                     hash |-> None, zero |-> TRUE, cur |-> FALSE, pdel |-> {}]
  <2>1. new \in Entry
    BY DEF Entry, Hash
  <2>2. table' = [table EXCEPT ![i] = new]
    BY <1>1 DEF Create
  <2> HIDE DEF new
  <2>3. table' \in [Ino -> Entry]
    BY <2>1, <2>2 DEF TypeOK
  <2>4. disk' \in [Ino -> Hash] /\ data' \in [Ino -> Hash] /\ fd' \in [Handle -> Ino \cup {None}]
    BY <1>1 DEF TypeOK, Create, Hash
  <2> QED
    BY <1>1, <2>3, <2>4 DEF TypeOK, Create, BeginOp, fvars
<1>2. ASSUME NEW h \in Handle, FlushHandle(h) PROVE TypeOK'
    BY <1>2 DEF TypeOK, FlushHandle, ivars, fvars, hvars
<1> QED
    BY <1>1, <1>2

\* The steps of unlink(2) and rename(2) keep the types.
LEMMA TypeDir ==
    ASSUME TypeOK, NEW r \in Req
    PROVE  /\ \A i \in Ino : Unlink(r, i) => TypeOK'
           /\ UnlinkLocal(r) => TypeOK'
           /\ DropLocked(r) => TypeOK'
           /\ \A i \in Ino, p \in Path : RenameValidate(r, i, p) => TypeOK'
           /\ RenameRemote(r) => TypeOK'
           /\ RenameLocal(r) => TypeOK'
<1> USE ValueAssumption
<1> DEFINE q == req[r]
           j == q.ino
<1>0. q \in ReqState
    BY DEF TypeOK
<1>2. ASSUME NEW i \in Ino, Unlink(r, i) PROVE TypeOK'
  <2>1. table[i].path \in Path
    BY DEF TypeOK, Entry
  <2>2. [Idle EXCEPT !.op = "unlink", !.ino = i, !.path = table[i].path] \in ReqState
    BY <2>1 DEF Idle, ReqState, Hash
  <2>3. delq' \subseteq Path /\ wake' \in BOOLEAN
    BY <1>2, <2>1 DEF TypeOK, Unlink
  <2> QED
    BY <1>2, <2>2, <2>3 DEF TypeOK, Unlink, Begin, BeginOp, fvars
<1>3. ASSUME UnlinkLocal(r) PROVE TypeOK'
  <2> DEFINE drop == [Idle EXCEPT !.op = "drop", !.ino = j]
  <2>1. j \in Ino /\ table[j] \in Entry
    BY <1>0, <1>3, ReqFields DEF TypeOK, UnlinkLocal
  <2>2. drop \in ReqState
    BY <2>1 DEF Idle, ReqState, Hash
  <2>3. req' \in {[req EXCEPT ![r] = Idle], [req EXCEPT ![r] = drop]}
    BY <1>3 DEF UnlinkLocal
  <2>4. table' \in {table, [table EXCEPT ![j] = NoEntry], [table EXCEPT ![j] = UnlinkOne(table[j])]}
    BY <1>3 DEF UnlinkLocal
  <2> HIDE DEF drop
  <2>5. req' \in [Req -> ReqState] /\ table' \in [Ino -> Entry]
    BY <2>1, <2>2, <2>3, <2>4, BlankType, EntryOps DEF TypeOK
  <2> QED
    BY <1>3, <2>5 DEF TypeOK, UnlinkLocal, qvars, fvars, hvars
<1>4. ASSUME DropLocked(r) PROVE TypeOK'
  <2>1. disk' \in [Ino -> Hash] /\ cut' \subseteq Handle
    BY <1>4 DEF TypeOK, DropLocked, Unstage, Handles, Hash
  <2> QED
    BY <1>4, <2>1, BlankType DEF TypeOK, DropLocked, Finish, qvars, fvars, hvars
<1>5. ASSUME NEW i \in Ino, NEW p \in Path, RenameValidate(r, i, p) PROVE TypeOK'
  <2>1. table[i].path \in Path /\ table[i].hash \in Hash /\ Dirty(i) \in BOOLEAN
    BY DEF TypeOK, Entry, Dirty
  <2>2. [Idle EXCEPT !.op = "rename", !.ino = i, !.path = table[i].path, !.to = p,
                     !.hash = table[i].hash, !.flag = Dirty(i)] \in ReqState
    BY <2>1 DEF Idle, ReqState, Hash
  <2> QED
    BY <1>5, <2>2 DEF TypeOK, RenameValidate, Begin, BeginOp, qvars, fvars
<1>6. ASSUME RenameRemote(r) PROVE TypeOK'
  <2> DEFINE sent == [q EXCEPT !.op = "renamed"]
  <2>1. sent \in ReqState /\ q.hash \in Hash
    BY <1>0, <1>6 DEF ReqState, RenameRemote
  <2>2. req' \in {[req EXCEPT ![r] = Idle], [req EXCEPT ![r] = sent]}
    BY <1>6 DEF RenameRemote, Finish
  <2> HIDE DEF sent
  <2>3. req' \in [Req -> ReqState]
    BY <2>1, <2>2, BlankType DEF TypeOK
  <2>4. remote' \in [Path -> Hash] /\ faults' \in Nat
    BY <1>6, <2>1 DEF TypeOK, RenameRemote, Hash, Fault
  <2> QED
    BY <1>6, <2>3, <2>4 DEF TypeOK, RenameRemote, qvars, fvars
<1>7. ASSUME RenameLocal(r) PROVE TypeOK'
  <2> DEFINE target == LookupChild(q.to) \ {j}
             gone == {k \in target : ~HasOpenHandles(k)}
             victim == CHOOSE k \in gone : TRUE
             drop == [Idle EXCEPT !.op = "drop", !.ino = victim]
  <2>1. j \in Ino /\ q.path \in Path /\ q.to \in Path
    BY <1>0, <1>7, ReqFields DEF RenameLocal
  <2>2. \A k \in Ino : table[k] \in Entry /\ UnlinkOne(table[k]) \in Entry
    BY EntryOps DEF TypeOK
  <2>3. Moved(table[j], q) \in Entry
    <3> DEFINE old == IF q.flag /\ q.hash # None THEN table[j].pdel \cup {q.path}
                                                  ELSE table[j].pdel
    <3>1. old \in SUBSET Path
      BY <2>1, <2>2 DEF Entry
    <3>2. Moved(table[j], q) = [table[j] EXCEPT !.named = TRUE, !.path = q.to, !.pdel = old]
      BY <2>1, <2>2 DEF Moved, Entry
    <3> HIDE DEF old
    <3> QED
      BY ZenonT(30), <2>1, <2>2, <3>1, <3>2 DEF Entry
  <2>4. gone # {} => victim \in gone
    OBVIOUS
  <2>5. gone \subseteq Ino
    BY DEF LookupChild
  <2>6. req' = [req EXCEPT ![r] = Idle] \/ (gone # {} /\ req' = [req EXCEPT ![r] = drop])
    BY <1>7 DEF RenameLocal, Finish
  <2>7. table' = table \/ table' = [k \in Ino |->
            IF k = j THEN Moved(table[j], q) ELSE IF k \in gone THEN NoEntry
            ELSE IF k \in target THEN UnlinkOne(table[k]) ELSE table[k]]
    BY <1>7 DEF RenameLocal
  <2> HIDE DEF gone, target, victim
  <2>8. gone # {} => drop \in ReqState
    BY <2>4, <2>5 DEF Idle, ReqState, Hash
  <2>9. table' \in [Ino -> Entry]
    BY <2>2, <2>3, <2>7, BlankType DEF TypeOK
  <2> HIDE DEF drop
  <2>10. req' \in [Req -> ReqState]
    BY <2>6, <2>8, BlankType DEF TypeOK
  <2> QED
    BY <1>7, <2>9, <2>10 DEF TypeOK, RenameLocal, fvars, hvars
<1> QED
    BY <1>2, <1>3, <1>4, <1>5, <1>6, <1>7

\* The steps of the flush loop keep the types.
LEMMA TypeFlush ==
    ASSUME TypeOK, FlushLoop \/ FlushDeletesFail
    PROVE  TypeOK'
<1> USE ValueAssumption
<1>0. \A S : DropItems(S) => snap' \in [Ino -> Item]
    BY BlankType DEF TypeOK, DropItems
<1>1. ASSUME NEW i \in Ino, FlushRecv(i) PROVE TypeOK'
    BY <1>1 DEF TypeOK, FlushRecv, ivars, hvars
<1>2. CASE FlushTakeDeletes
    BY <1>2 DEF TypeOK, FlushTakeDeletes, ivars, hvars
<1>3. CASE FlushDeletesDone
    BY <1>3 DEF TypeOK, FlushDeletesDone, AfterDeletes, Hash, ivars, qvars, hvars
<1>4. CASE FlushDeletesFail
  <2>1. remote' \in [Path -> Hash]
    BY <1>4 DEF TypeOK, FlushDeletesFail, AfterDeletes, Hash
  <2> QED
    BY <1>4, <2>1 DEF TypeOK, FlushDeletesFail, Fault, ivars
<1>5. ASSUME NEW i \in Ino, FlushLock(i) PROVE TypeOK'
    BY <1>5 DEF TypeOK, FlushLock, qvars, fvars, hvars
<1>6. CASE FlushSnapshot
  <2> DEFINE items == {i \in batch : Flushable(i) /\ disk[i] # None}
             item(i) == [on |-> TRUE, path |-> table[i].path, gen |-> table[i].gen,
                         prev |-> table[i].hash, pdel |-> table[i].pdel, up |-> None]
  <2>1. \A i \in Ino : item(i) \in Item
    <3> TAKE i \in Ino
    <3>1. table[i] \in Entry
      BY DEF TypeOK
    <3>2. /\ table[i].path \in Path /\ table[i].gen \in Nat
          /\ table[i].hash \in Hash /\ table[i].pdel \in SUBSET Path
      BY <3>1 DEF Entry
    <3> QED
      BY <3>2 DEF Item, Hash
  <2>2. snap' = snap \/ snap' = [i \in Ino |-> IF i \in items THEN item(i) ELSE NoItem]
    BY <1>6 DEF FlushSnapshot
  <2> HIDE DEF items, item
  <2>3. snap' \in [Ino -> Item]
    BY <2>1, <2>2, BlankType DEF TypeOK
  <2>4. lock' \in [Ino -> Req \cup {Flusher, None}] /\ errs' \subseteq Ino
    BY <1>6 DEF TypeOK, FlushSnapshot, ReleaseLocks
  <2> QED
    BY <1>6, <2>3, <2>4 DEF TypeOK, FlushSnapshot, hvars
<1>7. CASE FlushUpload
  <2>1. \A i \in Ino : [snap[i] EXCEPT !.up = disk[i]] \in Item
    <3> TAKE i \in Ino
    <3>1. snap[i] \in Item /\ disk[i] \in Hash
      BY DEF TypeOK
    <3> QED
      BY <3>1 DEF Item
  <2>2. snap' \in [Ino -> Item]
    BY <1>7, <2>1 DEF TypeOK, FlushUpload
  <2>3. lock' \in [Ino -> Req \cup {Flusher, None}]
    BY <1>7 DEF TypeOK, FlushUpload, ReleaseLocks
  <2> QED
    BY <1>7, <2>2, <2>3 DEF TypeOK, FlushUpload, qvars, hvars
<1>8. CASE FlushUploadFail
  <2>1. lock' \in [Ino -> Req \cup {Flusher, None}] /\ faults' \in Nat
    BY <1>8 DEF TypeOK, FlushUploadFail, ReleaseLocks, Fault
  <2>2. snap' \in [Ino -> Item] /\ errs' \subseteq Ino
    BY <1>0, <1>8 DEF TypeOK, FlushUploadFail, Items
  <2> QED
    BY <1>8, <2>1, <2>2 DEF TypeOK, FlushUploadFail
<1>9. CASE FlushUnchanged
  <2>1. table' \in [Ino -> Entry]
    BY <1>9, EntryOps DEF TypeOK, FlushUnchanged
  <2>2. snap' \in [Ino -> Item]
    BY <1>0, <1>9 DEF FlushUnchanged
  <2> QED
    BY <1>9, <2>1, <2>2 DEF TypeOK, FlushUnchanged, qvars, hvars
<1>10. \A p \in Path : AfterCommit(p) \in Hash
  <2> TAKE p \in Path
  <2>1. \A i \in Ino : snap[i].up \in Hash
    BY DEF TypeOK, Item
  <2>2. (\E i \in Items : snap[i].path = p) => (CHOOSE i \in Items : snap[i].path = p) \in Ino
    BY DEF Items
  <2> QED
    BY <2>1, <2>2 DEF TypeOK, AfterCommit, Hash
<1>11. CASE FlushCommit
    BY <1>10, <1>11 DEF TypeOK, FlushCommit, ivars, qvars, hvars
<1>12. CASE FlushCommitFail
  <2>1. remote' \in [Path -> Hash]
    BY <1>10, <1>12 DEF TypeOK, FlushCommitFail
  <2>2. snap' \in [Ino -> Item] /\ errs' \subseteq Ino
    BY <1>0, <1>12 DEF TypeOK, FlushCommitFail, Items
  <2> QED
    BY <1>12, <2>1, <2>2 DEF TypeOK, FlushCommitFail, Fault, ivars
<1>13. CASE FlushApply
  <2>1. table' \in [Ino -> Entry]
    BY <1>13, EntryOps DEF TypeOK, FlushApply
  <2>2. snap' \in [Ino -> Item]
    BY <1>0, <1>13 DEF FlushApply
  <2> QED
    BY <1>13, <2>1, <2>2 DEF TypeOK, FlushApply, qvars, hvars
<1>14. CASE FlushGc
    BY <1>14 DEF TypeOK, FlushGc, GcCandidates, ivars, qvars, hvars
<1>15. ASSUME NEW i \in Ino, FlushGcOne(i) PROVE TypeOK'
  <2>1. disk' \in [Ino -> Hash] /\ cut' \subseteq Handle /\ gcq' \subseteq Ino
    BY <1>15 DEF TypeOK, FlushGcOne, Unstage, Handles, Hash
  <2> QED
    BY <1>15, <2>1 DEF TypeOK, FlushGcOne, qvars, hvars
<1> QED
    BY <1>1, <1>2, <1>3, <1>4, <1>5, <1>6, <1>7, <1>8, <1>9, <1>11, <1>12, <1>13, <1>14,
       <1>15 DEF FlushLoop

\* The steps of other clients and of the poll loop keep the types.
LEMMA TypePoll ==
    ASSUME TypeOK, Polling
    PROVE  TypeOK'
<1> USE ValueAssumption
<1>1. ASSUME NEW p \in Path, NEW c \in Hash, RemoteEdit(p, c) PROVE TypeOK'
    BY <1>1 DEF TypeOK, RemoteEdit, BeginOp, Hash, ivars, qvars, fvars
<1>2. CASE PollList
  <2>1. poll' \in PollState
    BY <1>2 DEF TypeOK, PollList, PollState
  <2> QED
    BY <1>2, <2>1 DEF TypeOK, PollList, ivars, qvars, fvars, hvars
<1>3. CASE PollDiff
  <2>1. \A i \in Ino : table[i].path \in Path
    BY DEF TypeOK, Entry
  <2>2. poll.listing \in [Path -> Hash]
    BY DEF TypeOK, PollState
  <2>3. poll' \in PollState
    BY <1>3, <2>1, <2>2 DEF TypeOK, PollDiff, PollState, NoPoll, Hash
  <2> QED
    BY <1>3, <2>3 DEF TypeOK, PollDiff, ivars, qvars, fvars, hvars
<1>4. CASE PollApply
  <2>1. poll.upd \in [Ino -> Hash]
    BY DEF TypeOK, PollState
  <2>2. \A i \in Ino : /\ table[i] \in Entry
                       /\ UpdateRemote(table[i], poll.upd[i]) \in Entry
                       /\ UnlinkOne(table[i]) \in Entry
    BY <2>1, EntryOps DEF TypeOK
  <2>3. table' \in [Ino -> Entry]
    BY <1>4, <2>2, BlankType DEF PollApply
  <2>4. data' \in [Ino -> Hash]
    BY <1>4, <2>1 DEF TypeOK, PollApply
  <2>5. NoPoll \in PollState
    BY DEF NoPoll, PollState, Hash
  <2> QED
    BY <1>4, <2>3, <2>4, <2>5 DEF TypeOK, PollApply, qvars, fvars
<1> QED
    BY <1>1, <1>2, <1>3, <1>4 DEF Polling

\* Every step keeps the types.
LEMMA TypeStep == TypeOK /\ [Next]_vars => TypeOK'
<1> SUFFICES ASSUME TypeOK, [Next]_vars PROVE TypeOK'
    OBVIOUS
<1>1. CASE UNCHANGED vars
    BY <1>1 DEF TypeOK, vars, ivars, qvars, fvars, hvars
<1>2. CASE Editing
    BY <1>2, TypeOpen, TypeWrite, TypeCreate DEF Editing
<1>3. CASE Truncating \/ Resizing
    BY <1>3, TypeOpen, TypeSetattr DEF Truncating, Resizing
<1>4. CASE Unlinking \/ Renaming \/ Dropping
    BY <1>4, TypeDir DEF Unlinking, Renaming, Dropping
<1>5. CASE Reaping
    BY <1>5, TypeWrite DEF Reaping
<1>6. CASE FlushLoop \/ FlushDeletesFail
    BY <1>6, TypeFlush
<1>7. CASE Polling
    BY <1>7, TypePoll
<1> QED
    BY <1>1, <1>2, <1>3, <1>4, <1>5, <1>6, <1>7 DEF Next, LocalNext

\* The initial state has the types.
LEMMA TypeInit == Init => TypeOK
<1> SUFFICES ASSUME Init PROVE TypeOK
    OBVIOUS
<1> USE ValueAssumption, SeedAssumption
<1>1. table \in [Ino -> Entry]
    BY BlankType DEF Init, Entry, Hash
<1>2. NoPoll \in PollState
    BY DEF NoPoll, PollState, Hash
<1> QED
    BY <1>1, <1>2, BlankType DEF Init, TypeOK, Hash

\* Whatever requests, other clients and failures do, every variable keeps its type.
THEOREM TypeCorrect == Spec => []TypeOK
BY TypeInit, TypeStep, PTL DEF Spec

----------------------------------------------------------------------------
(* The staging cache.                                                      *)

\* The fields that the operations of the table leave or change.
LEMMA OpFields ==
    ASSUME NEW e \in Entry
    PROVE  /\ NotCurrent(e).here = e.here /\ NotCurrent(e).gen = e.gen /\ NotCurrent(e).cur = FALSE
           /\ NotCurrent(e).hash = e.hash
           /\ UnlinkOne(e).here = e.here /\ UnlinkOne(e).gen = e.gen /\ UnlinkOne(e).cur = e.cur
           /\ UnlinkOne(e).hash = e.hash
           /\ Written(e).here = e.here /\ Written(e).gen = e.gen + 1 
           /\ \A m, t \in BOOLEAN : Opened(e, m, t).here = e.here /\ Opened(e, m, t).gen = e.gen + 1
           /\ \A z \in BOOLEAN : Resized(e, z).here = e.here /\ Resized(e, z).gen = e.gen + 1
           /\ \A c \in Hash : UpdateRemote(e, c).here = e.here /\ UpdateRemote(e, c).gen = e.gen
                               /\ UpdateRemote(e, c).cur = FALSE
BY DEF NotCurrent, UnlinkOne, Written, Opened, Resized, UpdateRemote, Entry

\* apply_commit() acts on an unchanged generation, and on nothing else.
LEMMA CommitFields ==
    ASSUME NEW e \in Entry, NEW it \in Item
    PROVE  /\ ApplyCommit(e, it).here = e.here
           /\ e.here /\ e.gen = it.gen => /\ ApplyCommit(e, it).gen = 0
                                          /\ ApplyCommit(e, it).hash = it.up
           /\ ~(e.here /\ e.gen = it.gen) => ApplyCommit(e, it) = e
BY DEF ApplyCommit, Entry, Item

\* The fields of the blank values.
LEMMA BlankFields == NoEntry.here = FALSE /\ NoItem.on = FALSE /\ Idle.op = "idle"
BY DEF NoEntry, NoItem, Idle

\* What a step may do to inode i and its staging file while the flush loop keeps
\* its items: remove the inode, give it a new generation, insert it with one, or
\* leave both as they are as far as anybody relies on them.
Kept(i) ==
    \/ ~table'[i].here
    \/ i \notin used /\ table'[i].gen > 0
    \/ table[i].here /\ table'[i].gen > table[i].gen
    \/ /\ table[i].here /\ table'[i].gen = table[i].gen
       /\ table'[i].cur => table[i].cur /\ table'[i].hash = table[i].hash
       /\ Writing(i) => Writing(i)'
       /\ disk'[i] = disk[i] \/ Writing(i)' \/ ~AtStake(i)

\* What a step may do to request s.
ReqKept(s) ==
    \/ req'[s] = req[s]
    \/ req'[s].op = "idle"
    \/ /\ req'[s].ino \in used /\ req'[s].op # "reap"
       /\ req'[s].op = "drop" => ~table'[req'[s].ino].here
       /\ req'[s].op \in {"fetch", "set"} =>
             /\ lock'[req'[s].ino] = s
             /\ NeedsDownload(req'[s]) => Writing(req[s].ino)' \/ ~AtStake(req[s].ino)'

\* What a step may do to the staging lock of i: take it, or release it by its
\* holder.
LockKept(i) ==
    \/ lock'[i] = lock[i] \/ lock[i] = None
    \/ \E s \in Req : lock[i] = s /\ req'[s].op = "idle"

Carrying == {"uploaded", "commit", "committed"}
PcKept == fpc' = fpc \/ Items = {} \/ (fpc \in Carrying /\ fpc' \in Carrying)

\* A step that keeps the items, and everything else as above, keeps CacheInv.
LEMMA Keeping ==
    ASSUME CacheInv, TypeOK', snap' = snap, gcq' = {}, PcKept,
           used \subseteq used', \A i \in Ino : table'[i].here => table[i].here \/ i \in used',
           \A i \in Ino : Kept(i) /\ LockKept(i),
           \A s \in Req : ReqKept(s),
           \A h \in Handle : fd'[h] \in {fd[h], None} \cup used'
    PROVE  CacheInv'
<1> USE ValueAssumption
<1>0. /\ \A i \in Ino : table[i].gen \in Nat /\ table'[i].gen \in Nat /\ snap[i].gen \in Nat
      /\ \A s \in Req : req[s] \in ReqState /\ req'[s] \in ReqState
      /\ \A s \in Req : req[s].op # "idle" => req[s].ino \in Ino
      /\ \A s \in Req : req'[s].op # "idle" => req'[s].ino \in Ino
    BY ReqFields DEF CacheInv, TypeOK, Entry, Item
<1>1. UsedOK'
    BY <1>0 DEF CacheInv, UsedOK, ReqKept
<1>2. \A s \in Req : req[s].op \in {"fetch", "set"} => lock[req[s].ino] = s
    BY DEF CacheInv, LocksOK
<1>3. LocksOK'
  <2>1. ASSUME NEW s \in Req, req'[s].op \in {"fetch", "set"} PROVE lock'[req'[s].ino] = s
    <3>1. CASE req'[s] = req[s]
      BY <1>0, <1>2, <2>1, <3>1 DEF LockKept
    <3>2. CASE req'[s] # req[s]
      BY <2>1, <3>2 DEF ReqKept
    <3> QED BY <3>1, <3>2
  <2>2. ASSUME fpc' = "upload", NEW i \in Ino, snap[i].on PROVE lock'[i] = Flusher
    <3>1. fpc = "upload"
      BY <2>2 DEF PcKept, Items, Carrying
    <3>2. lock[i] = Flusher
      BY <2>2, <3>1 DEF CacheInv, LocksOK, Items
    <3> QED
      BY <2>2, <3>2 DEF LockKept
  <2> QED
    BY <2>1, <2>2 DEF LocksOK, Items
<1>4. DropsOK'
  <2>1. ASSUME NEW s \in Req, req'[s].op = "drop" PROVE ~table'[req'[s].ino].here
    <3>1. CASE req'[s] = req[s]
      <4>1. ~table[req[s].ino].here /\ req[s].ino \in used /\ req[s].ino \in Ino
        BY <1>0, <2>1, <3>1 DEF CacheInv, DropsOK, UsedOK
      <4> QED
        BY <3>1, <4>1 DEF Kept
    <3>2. CASE req'[s] # req[s]
      BY <2>1, <3>2 DEF ReqKept
    <3> QED
      BY <3>1, <3>2
  <2>2. \A s \in Req : req'[s].op # "reap"
    BY DEF CacheInv, DropsOK, ReqKept
  <2> QED
    BY <2>1, <2>2 DEF DropsOK
<1>5. \A i \in Ino : snap[i].on => i \in used
    BY DEF CacheInv, UsedOK
<1>6. ASSUME NEW i \in Ino, snap[i].on
      PROVE  /\ snap[i].gen > 0
             /\ table[i].here => table[i].gen >= snap[i].gen
             /\ table'[i].here => table'[i].gen >= snap[i].gen
  <2>1. /\ snap[i].gen > 0
        /\ table[i].here => table[i].gen >= snap[i].gen
    BY <1>6 DEF CacheInv, ItemsOK, Items
  <2> QED
    BY <1>0, <1>5, <1>6, <2>1 DEF Kept
<1>7. ASSUME NEW i \in Ino, snap[i].on, fpc' \in Carrying PROVE fpc \in Carrying
    BY <1>7 DEF PcKept, Items
<1>8. \A i \in Ino : InFlight(i)' => InFlight(i)
    BY <1>7 DEF InFlight, Carrying
<1>9. ASSUME NEW i \in Ino, AtStake(i)'
      PROVE  /\ AtStake(i)
             /\ table[i].here /\ table'[i].gen = table[i].gen
             /\ table'[i].cur => table[i].cur /\ table'[i].hash = table[i].hash
             /\ Writing(i) => Writing(i)'
             /\ disk'[i] = disk[i] \/ Writing(i)'
  <2>1. table'[i].here /\ (table'[i].gen = 0 \/ (snap[i].on /\ table'[i].gen = snap[i].gen))
    BY <1>9 DEF AtStake, InFlight, Matches
  <2>2. ~(i \notin used /\ table'[i].gen > 0) /\ ~(table[i].here /\ table'[i].gen > table[i].gen)
    BY <1>0, <1>5, <1>6, <2>1
  <2>3. /\ table[i].here /\ table'[i].gen = table[i].gen
        /\ table'[i].cur => table[i].cur /\ table'[i].hash = table[i].hash
        /\ Writing(i) => Writing(i)'
        /\ disk'[i] = disk[i] \/ Writing(i)' \/ ~AtStake(i)
    BY <2>1, <2>2 DEF Kept
  <2>4. AtStake(i)
    BY <1>8, <1>9, <2>3 DEF AtStake, Matches, InFlight
  <2> QED
    BY <2>3, <2>4
<1>10. ItemsOK'
  <2>1. ASSUME NEW i \in Ino, snap[i].on
        PROVE  fpc' \in {"upload", "uploaded", "commit", "committed"}
    BY <2>1 DEF CacheInv, ItemsOK, Items, PcKept, Carrying
  <2>2. ASSUME NEW i \in Ino, InFlight(i)' PROVE snap[i].up # None
    BY <1>8, <2>2 DEF CacheInv, ItemsOK
  <2>3. ASSUME NEW i \in Ino, InFlight(i)', Matches(i)'
        PROVE  disk'[i] = snap[i].up \/ Writing(i)'
    <3>1. AtStake(i)'
      BY <2>3 DEF AtStake
    <3>2. table[i].here /\ table'[i].gen = table[i].gen
      BY <1>9, <3>1
    <3>3. disk'[i] = disk[i] \/ Writing(i)'
      BY <1>9, <3>1
    <3>4. Writing(i) => Writing(i)'
      BY <1>9, <3>1
    <3>5. InFlight(i) /\ Matches(i)
      BY <1>8, <2>3, <3>2 DEF Matches
    <3>6. disk[i] = snap[i].up \/ Writing(i)
      BY <3>5 DEF CacheInv, ItemsOK
    <3> QED
      BY <3>3, <3>4, <3>6
  <2> QED
    BY <1>6, <2>1, <2>2, <2>3 DEF ItemsOK, Items
<1>11. CacheOK'
  <2> SUFFICES ASSUME NEW i \in Ino, table'[i].here, table'[i].cur, table'[i].gen = 0
               PROVE  table'[i].hash # None /\ (disk'[i] = table'[i].hash \/ Writing(i)')
    BY DEF CacheOK
  <2>1. AtStake(i)'
    BY DEF AtStake
  <2>2. /\ table[i].here /\ table[i].gen = 0 /\ table[i].cur /\ table'[i].hash = table[i].hash
    BY <1>9, <2>1
  <2>3. disk'[i] = disk[i] \/ Writing(i)'
    BY <1>9, <2>1
  <2>4. Writing(i) => Writing(i)'
    BY <1>9, <2>1
  <2>5. table[i].hash # None /\ (disk[i] = table[i].hash \/ Writing(i))
    BY <2>2 DEF CacheInv, CacheOK
  <2> QED
    BY <2>2, <2>3, <2>4, <2>5
<1>12. DownloadsOK'
  <2> SUFFICES ASSUME NEW s \in Req, req'[s].op \in {"fetch", "set"}, NeedsDownload(req'[s])
               PROVE  (Writing(req[s].ino) \/ ~AtStake(req[s].ino))'
    BY DEF DownloadsOK
  <2>1. CASE req'[s] = req[s]
    <3>1. PICK i \in Ino : i = req[s].ino
      BY <1>0, <2>1
    <3>2. Writing(i) \/ ~AtStake(i)
      BY <2>1, <3>1 DEF CacheInv, DownloadsOK
    <3>3. AtStake(i)' => AtStake(i) /\ (Writing(i) => Writing(i)')
      BY <1>9
    <3>4. i = req'[s].ino
      BY <2>1, <3>1
    <3>5. (Writing(i) \/ ~AtStake(i))'
      BY <3>2, <3>3
    <3> QED
      BY <3>4, <3>5
  <2>2. CASE req'[s] # req[s]
    BY <2>2 DEF ReqKept
  <2> QED
    BY <2>1, <2>2
<1> QED
    BY <1>1, <1>3, <1>4, <1>10, <1>11, <1>12 DEF CacheInv

\* The steps of the flush loop that make, upload or give up items.
LEMMA CacheFlushItems ==
    ASSUME CacheInv, TypeOK', FlushSnapshot \/ FlushUpload \/ FlushUploadFail \/ FlushCommitFail
    PROVE  CacheInv'
<1> USE ValueAssumption, BlankFields
<1>0. /\ \A i \in Ino : table[i].gen \in Nat /\ snap[i].gen \in Nat /\ disk[i] \in Hash
      /\ UNCHANGED <<used, table, disk, fd, req, gcq>>
      /\ snap' \in [Ino -> Item]
    BY DEF CacheInv, TypeOK, Entry, Item, FlushSnapshot, FlushUpload, FlushUploadFail,
           FlushCommitFail, ivars
<1>1. DropsOK' /\ CacheOK'
    BY <1>0 DEF CacheInv, DropsOK, CacheOK, Writing
<1>2. \A i \in Ino : Writing(i)' <=> Writing(i)
    BY <1>0 DEF Writing
<1>3. \A i \in Ino : lock'[i] = lock[i] \/ (lock[i] = Flusher /\ lock'[i] = None)
    BY DEF CacheInv, TypeOK, FlushSnapshot, FlushUpload, FlushUploadFail, FlushCommitFail,
           ReleaseLocks, ivars
<1>4. \A s \in Req : req'[s].op \in {"fetch", "set"} =>
            req'[s].ino \in Ino /\ lock[req'[s].ino] = s /\ lock'[req'[s].ino] = s
  <2> TAKE s \in Req
  <2>1. req[s].op \in {"fetch", "set"} => req[s].ino \in Ino /\ lock[req[s].ino] = s
    BY ReqFields DEF CacheInv, TypeOK, LocksOK
  <2> QED
    BY <1>0, <1>3, <2>1
<1>5. ASSUME NEW i \in Ino, ~InFlight(i)', AtStake(i)' PROVE AtStake(i)
    BY <1>0, <1>5 DEF AtStake
<1>6. ASSUME \A s \in Req : req'[s].op \in {"fetch", "set"} => ~InFlight(req[s].ino)'
      PROVE  DownloadsOK'
  <2> SUFFICES ASSUME NEW s \in Req, req'[s].op \in {"fetch", "set"}, NeedsDownload(req'[s])
               PROVE  (Writing(req[s].ino) \/ ~AtStake(req[s].ino))'
    BY DEF DownloadsOK
  <2>1. PICK i \in Ino : i = req[s].ino
    BY <1>0, <1>4
  <2>2. Writing(i) \/ ~AtStake(i)
    BY <1>0, <2>1 DEF CacheInv, DownloadsOK
  <2>3. i = req'[s].ino
    BY <1>0, <2>1
  <2>4. ~InFlight(i)'
    BY <1>6, <2>3
  <2>5. (Writing(i) \/ ~AtStake(i))'
    BY <1>2, <1>5, <2>2, <2>4
  <2> QED
    BY <2>3, <2>5
<1>7. CASE \A i \in Ino : ~snap'[i].on
  <2>1. UsedOK' /\ LocksOK' /\ ItemsOK'
    BY <1>0, <1>4, <1>7 DEF CacheInv, UsedOK, LocksOK, ItemsOK, Items, InFlight
  <2>2. DownloadsOK'
    BY <1>0, <1>4, <1>6, <1>7 DEF InFlight
  <2> QED
    BY <1>1, <2>1, <2>2 DEF CacheInv
<1>8. CASE FlushUploadFail \/ FlushCommitFail
  <2>1. \A i \in Ino : ~snap'[i].on
    BY <1>8 DEF FlushUploadFail, FlushCommitFail, DropItems
  <2> QED
    BY <1>7, <2>1
<1>9. CASE FlushSnapshot
  <2> DEFINE items == {i \in batch : Flushable(i) /\ disk[i] # None}
  <2>1. \A i \in Ino : ~snap[i].on
    BY <1>9 DEF CacheInv, ItemsOK, Items, FlushSnapshot
  <2>2. CASE items = {}
    BY <1>7, <1>9, <2>1, <2>2 DEF FlushSnapshot
  <2>3. CASE items # {}
    <3>1. \A i \in Ino : /\ snap'[i].on => i \in items
                         /\ i \in items => snap'[i].gen = table[i].gen
      BY <1>9, <2>3 DEF FlushSnapshot
    <3>2. fpc' = "upload" /\ UNCHANGED lock /\ \A i \in items : lock[i] = Flusher
      BY <1>9, <2>3 DEF FlushSnapshot
    <3>3. \A i \in items : table[i].here /\ table[i].gen > 0
      BY DEF Flushable, Linked, Dirty
    <3>4. UsedOK'
      BY <1>0, <3>1, <3>3 DEF CacheInv, UsedOK
    <3>5. LocksOK'
      BY <1>4, <3>1, <3>2 DEF LocksOK, Items
    <3>6. ItemsOK'
      BY <1>0, <3>1, <3>2, <3>3 DEF ItemsOK, Items, InFlight
    <3>7. DownloadsOK'
      BY <1>6, <3>2 DEF InFlight
    <3> QED
      BY <1>1, <3>4, <3>5, <3>6, <3>7 DEF CacheInv
  <2> QED
    BY <2>2, <2>3
<1>10. CASE FlushUpload
  <2>1. fpc = "upload" /\ fpc' = "uploaded"
    BY <1>10 DEF FlushUpload
  <2>2. \A i \in Ino : snap[i] \in Item
    BY DEF CacheInv, TypeOK
  <2>3. \A i \in Ino : /\ snap'[i].on = snap[i].on /\ snap'[i].gen = snap[i].gen
                       /\ snap[i].on => snap'[i].up = disk[i] /\ disk[i] # None
    BY <1>10, <2>2 DEF FlushUpload, Items, Item
  <2>4. \A i \in Ino : snap[i].on => lock[i] = Flusher /\ snap[i].gen > 0 /\ i \in used
                                     /\ (table[i].here => table[i].gen >= snap[i].gen)
    BY <2>1 DEF CacheInv, LocksOK, ItemsOK, UsedOK, Items
  <2>5. UsedOK' /\ LocksOK'
    BY <1>0, <1>4, <2>1, <2>3, <2>4 DEF CacheInv, UsedOK, LocksOK
  <2>6. ItemsOK'
    BY <1>0, <2>1, <2>3, <2>4 DEF ItemsOK, Items, InFlight, Matches
  <2>7. DownloadsOK'
    <3>1. \A s \in Req : req'[s].op \in {"fetch", "set"} => ~snap'[req'[s].ino].on
      BY <1>4, <2>3, <2>4
    <3> QED
      BY <1>6, <3>1 DEF InFlight
  <2> QED
    BY <1>1, <2>5, <2>6, <2>7 DEF CacheInv
<1> QED
    BY <1>8, <1>9, <1>10

\* apply_commit() makes clean and current only what is still what was uploaded.
LEMMA CacheApply ==
    ASSUME CacheInv, TypeOK', FlushUnchanged \/ FlushApply
    PROVE  CacheInv'
<1> USE ValueAssumption, BlankFields
<1> DEFINE S == IF FlushApply THEN Items ELSE Unchanged
<1>1. /\ UNCHANGED <<used, disk, fd, lock, req, gcq>>
      /\ \A i \in Ino : table'[i] = IF i \in S THEN ApplyCommit(table[i], snap[i]) ELSE table[i]
      /\ \A i \in Ino : snap'[i].on => snap'[i] = snap[i] /\ i \notin S
      /\ fpc \in Carrying
      /\ fpc' \in Carrying \/ \A i \in Ino : ~snap'[i].on
    BY DEF FlushUnchanged, FlushApply, DropItems, Carrying, Items, Unchanged
<1>2. \A i \in S : i \in Ino /\ InFlight(i)
    BY <1>1 DEF Items, Unchanged, InFlight, Carrying
<1> HIDE DEF S
<1>3. \A i \in Ino : /\ table[i] \in Entry /\ snap[i] \in Item
                     /\ table[i].gen \in Nat /\ snap[i].gen \in Nat
    BY DEF CacheInv, TypeOK, Entry, Item
<1>4. \A i \in Ino : /\ table'[i].here = table[i].here
                     /\ i \in S /\ Matches(i)
                           => table'[i].gen = 0 /\ table'[i].hash = snap[i].up
                     /\ ~(i \in S /\ Matches(i)) => table'[i] = table[i]
    BY <1>1, <1>3, CommitFields DEF Matches
<1>5. \A i \in Ino : Writing(i)' <=> Writing(i)
    BY <1>1 DEF Writing
<1>6. \A i \in Ino : InFlight(i)' => i \notin S /\ InFlight(i) /\ snap'[i] = snap[i]
    BY <1>1 DEF InFlight, Carrying
<1>7. \A i \in Ino : AtStake(i)' => AtStake(i)
    BY <1>2, <1>4, <1>6 DEF AtStake, Matches
<1>8. UsedOK' /\ LocksOK' /\ DropsOK'
  <2>1. UsedOK'
    BY <1>1, <1>4 DEF CacheInv, UsedOK
  <2>2. LocksOK'
    BY <1>1 DEF CacheInv, LocksOK, Items, Carrying
  <2>3. DropsOK'
    <3>1. \A s \in Req : req[s].op = "drop" => req[s].ino \in Ino
      BY ReqFields DEF CacheInv, TypeOK
    <3> QED
      BY <1>1, <1>4, <3>1 DEF CacheInv, DropsOK
  <2> QED
    BY <2>1, <2>2, <2>3
<1>9. ItemsOK'
  <2>1. \A i \in Ino : snap'[i].on => table'[i] = table[i] /\ snap'[i] = snap[i]
                                      /\ fpc' \in Carrying
    BY <1>1, <1>4
  <2> QED
    BY <1>1, <1>5, <1>6, <2>1 DEF CacheInv, ItemsOK, Items, Matches, Carrying
<1>10. CacheOK'
  <2> SUFFICES ASSUME NEW i \in Ino, table'[i].here, table'[i].cur, table'[i].gen = 0
               PROVE  table'[i].hash # None /\ (disk'[i] = table'[i].hash \/ Writing(i)')
    BY DEF CacheOK
  <2>1. CASE i \in S /\ Matches(i)
    BY <1>1, <1>2, <1>4, <1>5, <2>1 DEF CacheInv, ItemsOK
  <2>2. CASE ~(i \in S /\ Matches(i))
    BY <1>1, <1>4, <1>5, <2>2 DEF CacheInv, CacheOK
  <2> QED
    BY <2>1, <2>2
<1>11. DownloadsOK'
  <2> SUFFICES ASSUME NEW s \in Req, req'[s].op \in {"fetch", "set"}, NeedsDownload(req'[s])
               PROVE  (Writing(req[s].ino) \/ ~AtStake(req[s].ino))'
    BY DEF DownloadsOK
  <2>1. PICK i \in Ino : i = req[s].ino
    BY <1>1, ReqFields DEF CacheInv, TypeOK
  <2>2. Writing(i) \/ ~AtStake(i)
    BY <1>1, <2>1 DEF CacheInv, DownloadsOK
  <2>3. i = req'[s].ino /\ (Writing(i) \/ ~AtStake(i))'
    BY <1>1, <1>5, <1>7, <2>1, <2>2
  <2> QED
    BY <2>3
<1> QED
    BY <1>8, <1>9, <1>10, <1>11 DEF CacheInv

\* A request begins in an idle slot.
LEMMA Beginning ==
    ASSUME TypeOK, NEW r \in Req, NEW rec, Begin(r, rec)
    PROVE  \A s \in Req : req'[s] = req[s] \/ (req[s].op = "idle" /\ req'[s] = rec)
BY BlankFields DEF TypeOK, Begin

\* Steps that leave the table and the staging files alone, and begin or end
\* requests that rely on neither.
LEMMA CacheIdleSteps ==
    ASSUME CacheInv, TypeOK', ~GcArmed,
           \/ \E r \in Req, i \in Ino :
                 \/ \E t \in BOOLEAN : OpenStart(r, i, t) \/ SetattrStart(r, i, t)
                 \/ Unlink(r, i) \/ \E p \in Path : RenameValidate(r, i, p)
           \/ \E r \in Req : RenameRemote(r) \/ \E h \in Handle : Release(r, h)
           \/ \E h \in Handle : FlushHandle(h)
           \/ \E i \in Ino : FlushRecv(i) \/ FlushLock(i)
           \/ FlushTakeDeletes \/ FlushDeletesDone \/ FlushDeletesFail \/ FlushCommit \/ FlushGc
           \/ \E p \in Path, c \in Hash : RemoteEdit(p, c)
           \/ PollList \/ PollDiff
    PROVE  CacheInv'
<1> USE ValueAssumption
<1>0. TypeOK /\ UsedOK /\ DropsOK /\ ItemsOK
    BY DEF CacheInv
<1>1. UNCHANGED <<used, table, disk, snap>>
    BY ZenonT(30) DEF OpenStart, SetattrStart, Unlink, RenameValidate, RenameRemote, Release, FlushHandle,
           FlushRecv, FlushLock, FlushTakeDeletes, FlushDeletesDone, FlushDeletesFail,
           FlushCommit, FlushGc, RemoteEdit, PollList, PollDiff, ivars, fvars
<1>2. gcq' = {}
    BY ZenonT(30), <1>0 DEF DropsOK, OpenStart, SetattrStart, Unlink, RenameValidate, RenameRemote, Release,
           FlushHandle, FlushRecv, FlushLock, FlushTakeDeletes, FlushDeletesDone,
           FlushDeletesFail, FlushCommit, FlushGc, RemoteEdit, PollList, PollDiff, fvars
<1>3. PcKept
    BY ZenonT(30), <1>0 DEF ItemsOK, Items, PcKept, Carrying, OpenStart, SetattrStart, Unlink,
           RenameValidate, RenameRemote, Release, FlushHandle, FlushRecv, FlushLock,
           FlushTakeDeletes, FlushDeletesDone, FlushDeletesFail, FlushCommit, FlushGc,
           RemoteEdit, PollList, PollDiff, fvars
<1>4. \A i \in Ino : LockKept(i)
    BY ZenonT(30), <1>0 DEF TypeOK, LockKept, OpenStart, SetattrStart, Unlink, RenameValidate, RenameRemote,
           Release, FlushHandle, FlushRecv, FlushLock, FlushTakeDeletes, FlushDeletesDone,
           FlushDeletesFail, FlushCommit, FlushGc, RemoteEdit, PollList, PollDiff, ivars
<1>5. \A s \in Req : \/ req'[s] = req[s]
                     \/ /\ req[s].op \notin {"write", "fetch", "set"}
                        /\ req'[s].op \in {"idle", "open", "resize", "unlink", "rename",
                                           "renamed", "close"}
                        /\ req'[s].op # "idle" => req'[s].ino \in used
  <2> DEFINE Begun == \A s \in Req : \/ req'[s] = req[s]
                                     \/ /\ req[s].op = "idle" /\ req'[s].ino \in used
                                        /\ req'[s].op \in {"open", "resize", "unlink",
                                                           "rename", "close"}
  <2>2. ASSUME NEW r \in Req, NEW i \in Ino, NEW t \in BOOLEAN, OpenStart(r, i, t) PROVE Begun
    <3> DEFINE rec == [Idle EXCEPT !.op = "open", !.ino = i, !.flag = t,
                                   !.hash = table[i].hash, !.zero = table[i].zero]
    <3>1. rec.op = "open" /\ rec.ino = i /\ i \in used
      BY <1>0, <2>2 DEF Idle, OpenStart, UsedOK
    <3>2. Begin(r, rec)
      BY <2>2 DEF OpenStart
    <3> HIDE DEF rec
    <3> QED
      BY <1>0, <3>1, <3>2, Beginning
  <2>3. ASSUME NEW r \in Req, NEW i \in Ino, NEW t \in BOOLEAN, SetattrStart(r, i, t)
        PROVE  Begun
    <3> DEFINE rec == [Idle EXCEPT !.op = "resize", !.ino = i, !.flag = t]
    <3>1. rec.op = "resize" /\ rec.ino = i /\ i \in used
      BY <1>0, <2>3 DEF Idle, SetattrStart, UsedOK
    <3>2. Begin(r, rec)
      BY <2>3 DEF SetattrStart
    <3> HIDE DEF rec
    <3> QED
      BY <1>0, <3>1, <3>2, Beginning
  <2>4. ASSUME NEW r \in Req, NEW i \in Ino, Unlink(r, i) PROVE Begun
    <3> DEFINE rec == [Idle EXCEPT !.op = "unlink", !.ino = i, !.path = table[i].path]
    <3>1. rec.op = "unlink" /\ rec.ino = i /\ i \in used
      BY <1>0, <2>4 DEF Idle, Unlink, UsedOK
    <3>2. Begin(r, rec)
      BY <2>4 DEF Unlink
    <3> HIDE DEF rec
    <3> QED
      BY <1>0, <3>1, <3>2, Beginning
  <2>5. ASSUME NEW r \in Req, NEW i \in Ino, NEW p \in Path, RenameValidate(r, i, p)
        PROVE  Begun
    <3> DEFINE rec == [Idle EXCEPT !.op = "rename", !.ino = i, !.path = table[i].path,
                                   !.to = p, !.hash = table[i].hash, !.flag = Dirty(i)]
    <3>1. rec.op = "rename" /\ rec.ino = i /\ i \in used
      BY <1>0, <2>5 DEF Idle, RenameValidate, UsedOK
    <3>2. Begin(r, rec)
      BY <2>5 DEF RenameValidate
    <3> HIDE DEF rec
    <3> QED
      BY <1>0, <3>1, <3>2, Beginning
  <2>6. ASSUME NEW r \in Req, NEW h \in Handle, Release(r, h) PROVE Begun
    <3> DEFINE rec == [Idle EXCEPT !.op = "close", !.ino = fd[h], !.fh = h]
    <3>1. rec.op = "close" /\ rec.ino = fd[h] /\ fd[h] \in used
      BY <1>0, <2>6 DEF Idle, Release, UsedOK
    <3>2. req[r].op = "idle" /\ req' = [req EXCEPT ![r] = rec]
      BY <2>6, BlankFields DEF Release
    <3> HIDE DEF rec
    <3> QED
      BY <1>0, <3>1, <3>2 DEF TypeOK
  <2>7. ASSUME NEW r \in Req, RenameRemote(r), NEW s \in Req
        PROVE  \/ req'[s] = req[s]
               \/ /\ req[s].op = "rename" /\ req'[s].op \in {"idle", "renamed"}
                  /\ req'[s].op = "renamed" => req'[s].ino \in used
    <3>1. req[r] \in ReqState /\ req[r].ino \in used
      BY <1>0, <2>7 DEF TypeOK, RenameRemote, UsedOK
    <3>2. /\ [req[r] EXCEPT !.op = "renamed"].op = "renamed"
          /\ [req[r] EXCEPT !.op = "renamed"].ino = req[r].ino
      BY <3>1 DEF ReqState
    <3>3. /\ req[r].op = "rename"
          /\ req' \in {[req EXCEPT ![r] = Idle],
                       [req EXCEPT ![r] = [req[r] EXCEPT !.op = "renamed"]]}
      BY <2>7 DEF RenameRemote, Finish
    <3>4. req'[s] \in {req[s], IF s = r THEN Idle ELSE req[s],
                               IF s = r THEN [req[r] EXCEPT !.op = "renamed"] ELSE req[s]}
      BY <1>0, <3>3 DEF TypeOK
    <3> QED
      BY <3>1, <3>2, <3>3, <3>4, BlankFields
  <2>8. ASSUME FlushTakeDeletes \/ FlushDeletesDone \/ FlushDeletesFail \/ FlushCommit
               \/ FlushGc \/ PollList \/ PollDiff
        PROVE  UNCHANGED req
    BY <2>8 DEF FlushTakeDeletes, FlushDeletesDone, FlushDeletesFail, FlushCommit, FlushGc,
                PollList, PollDiff, ivars
  <2>9. ASSUME (\E i \in Ino : FlushRecv(i) \/ FlushLock(i)) \/ (\E h \in Handle : FlushHandle(h))
               \/ \E p \in Path, c \in Hash : RemoteEdit(p, c)
        PROVE  UNCHANGED req
    BY <2>9 DEF FlushRecv, FlushLock, FlushHandle, RemoteEdit, ivars
  <2> QED
    BY <2>2, <2>3, <2>4, <2>5, <2>6, <2>7, <2>8, <2>9
<1>6. UNCHANGED fd
    BY ZenonT(30) DEF OpenStart, SetattrStart, Unlink, RenameValidate, RenameRemote, Release, FlushHandle,
           FlushRecv, FlushLock, FlushTakeDeletes, FlushDeletesDone, FlushDeletesFail,
           FlushCommit, FlushGc, RemoteEdit, PollList, PollDiff, ivars
<1> QED
  <2>1. \A i \in Ino : Writing(i) => Writing(i)'
    BY <1>5 DEF Writing
  <2>2. \A i \in Ino : Kept(i)
    BY <1>1, <2>1 DEF Kept
  <2>3. \A s \in Req : ReqKept(s)
    BY <1>5 DEF ReqKept
  <2> QED
    BY <1>1, <1>2, <1>3, <1>4, <1>6, <2>2, <2>3, Keeping

\* A request ends.
LEMMA Ending ==
    ASSUME TypeOK, NEW r \in Req, Finish(r)
    PROVE  \A s \in Req : req'[s] = IF s = r THEN Idle ELSE req[s]
BY DEF TypeOK, Finish

\* The steps of open(2) and setattr(2) that hold the staging lock.
LEMMA CacheLocked ==
    ASSUME CacheInv, TypeOK', NEW r \in Req,
           \/ OpenLock(r) \/ OpenFail(r) \/ \E h \in Handle : OpenDone(r, h)
           \/ SetattrLock(r) \/ SetattrFail(r) \/ \E c \in Content : SetattrDone(r, c)
    PROVE  CacheInv'
<1> USE ValueAssumption, BlankFields
<1> DEFINE q == req[r]
           j == q.ino
<1>0. TypeOK /\ UsedOK /\ LocksOK /\ DropsOK /\ ItemsOK /\ CacheOK /\ DownloadsOK
    BY DEF CacheInv
<1>1. q.op \in {"open", "fetch", "resize", "set"}
    BY ZenonT(30) DEF OpenLock, OpenFail, OpenDone, SetattrLock, SetattrFail, SetattrDone
<1>2. q \in ReqState /\ j \in Ino /\ j \in used /\ q.flag \in BOOLEAN
    BY <1>0, <1>1, ReqFields DEF TypeOK, UsedOK
<1>3. \A i \in Ino : table[i] \in Entry /\ table[i].gen \in Nat /\ snap[i].gen \in Nat
    BY <1>0 DEF TypeOK, Entry, Item
<1>4. UNCHANGED <<used, snap, gcq, fpc>>
    BY ZenonT(30) DEF OpenLock, OpenFail, OpenDone, SetattrLock, SetattrFail, SetattrDone, fvars
<1>5. \A h \in Handle : fd'[h] \in {fd[h], None} \cup used
  <2>1. fd' = fd \/ \E h \in Handle : fd' = [fd EXCEPT ![h] = j]
    BY ZenonT(30) DEF OpenLock, OpenFail, OpenDone, SetattrLock, SetattrFail, SetattrDone
  <2> QED
    BY <1>0, <1>2, <2>1 DEF TypeOK
<1>6. gcq' = {} /\ PcKept
    BY <1>0, <1>4 DEF DropsOK, PcKept
<1>7. \A i \in Ino : AtStake(i) => disk[i] # None \/ Writing(i)
    BY <1>0 DEF AtStake, ItemsOK, CacheOK
<1>8. ASSUME OpenFail(r) \/ SetattrFail(r) \/ (\E h \in Handle : OpenDone(r, h))
             \/ \E c \in Content : SetattrDone(r, c)
      PROVE  CacheInv'
  <2>1. Finish(r) /\ q.op \in {"fetch", "set"} /\ lock' = [lock EXCEPT ![j] = None]
    BY ZenonT(30), <1>8 DEF OpenFail, OpenDone, SetattrFail, SetattrDone
  <2>2. \A s \in Req : req'[s] = IF s = r THEN Idle ELSE req[s]
    BY <1>0, <2>1, Ending
  <2>3. \A s \in Req : ReqKept(s)
    BY <2>2 DEF ReqKept
  <2>4. \A i \in Ino : LockKept(i)
    BY <1>0, <1>2, <2>1, <2>2 DEF TypeOK, LocksOK, LockKept
  <2>5. \A i \in Ino : Writing(i) => Writing(i)'
    BY <2>1, <2>2 DEF Writing
  <2>6. ASSUME OpenFail(r) \/ SetattrFail(r)
        PROVE  UNCHANGED table /\ \A i \in Ino : Kept(i)
    <3>1. UNCHANGED table /\ \A i \in Ino \ {j} : disk'[i] = disk[i]
      BY <1>0, <2>6 DEF TypeOK, OpenFail, SetattrFail
    <3>2. disk'[j] = disk[j] \/ NeedsDownload(q)
      BY <2>6 DEF OpenFail, SetattrFail
    <3>3. disk'[j] = disk[j] \/ Writing(j) \/ ~AtStake(j)
      BY <1>0, <2>1, <3>2 DEF DownloadsOK
    <3> QED
      BY <2>5, <3>1, <3>3 DEF Kept
  <2>7. ASSUME NEW h \in Handle, OpenDone(r, h)
        PROVE  \A i \in Ino : Kept(i) /\ (table'[i].here => table[i].here)
    <3> DEFINE mirrors == /\ ~q.reuse
                          /\ NeedsDownload(q) \/ (q.hash = None /\ q.zero)
                          /\ table[j].hash = q.hash
    <3>1. \A i \in Ino \ {j} : disk'[i] = disk[i]
      BY <1>0, <2>7 DEF TypeOK, OpenDone
    <3>2. mirrors \in BOOLEAN
      OBVIOUS
    <3>3. table' = IF table[j].here
                   THEN [table EXCEPT ![j] = Opened(table[j], mirrors, q.flag)] ELSE table
      BY <2>7 DEF OpenDone
    <3> HIDE DEF mirrors
    <3>4. /\ Opened(table[j], mirrors, q.flag).here = table[j].here
          /\ Opened(table[j], mirrors, q.flag).gen = table[j].gen + 1
      BY <1>2, <1>3, <3>2, OpFields
    <3>5. \A i \in Ino : table'[i] = IF i = j /\ table[j].here
                            THEN Opened(table[j], mirrors, q.flag) ELSE table[i]
      BY <1>0, <1>2, <3>3 DEF TypeOK
    <3>6. \A i \in Ino : table'[i].here => table[i].here
      BY <3>4, <3>5
    <3>7. Kept(j)
      BY <1>2, <1>3, <3>4, <3>5 DEF Kept
    <3>8. \A i \in Ino \ {j} : Kept(i)
      BY <2>5, <3>1, <3>5 DEF Kept
    <3> QED
      BY <1>2, <3>6, <3>7, <3>8
  <2>8. ASSUME NEW c \in Content, SetattrDone(r, c)
        PROVE  \A i \in Ino : Kept(i) /\ (table'[i].here => table[i].here)
    <3>1. \A i \in Ino \ {j} : disk'[i] = disk[i]
      BY <1>0, <2>8 DEF TypeOK, SetattrDone
    <3>2. table' = IF table[j].here
                   THEN [table EXCEPT ![j] = Resized(table[j], q.flag)] ELSE table
      BY <2>8 DEF SetattrDone
    <3>3. /\ Resized(table[j], q.flag).here = table[j].here
          /\ Resized(table[j], q.flag).gen = table[j].gen + 1
      BY <1>2, <1>3, OpFields
    <3>4. \A i \in Ino : table'[i] = IF i = j /\ table[j].here
                            THEN Resized(table[j], q.flag) ELSE table[i]
      BY <1>0, <1>2, <3>2 DEF TypeOK
    <3>5. \A i \in Ino : table'[i].here => table[i].here
      BY <3>3, <3>4
    <3>6. Kept(j)
      BY <1>2, <1>3, <3>3, <3>4 DEF Kept
    <3>7. \A i \in Ino \ {j} : Kept(i)
      BY <2>5, <3>1, <3>4 DEF Kept
    <3> QED
      BY <1>2, <3>5, <3>6, <3>7
  <2>9. \A i \in Ino : Kept(i) /\ (table'[i].here => table[i].here)
    BY <1>8, <2>6, <2>7, <2>8
  <2> QED
    BY <1>4, <1>5, <1>6, <2>3, <2>4, <2>9, Keeping
<1>9. ASSUME OpenLock(r) \/ SetattrLock(r) PROVE CacheInv'
  <2> DEFINE reuse == IF q.op = "open"
                      THEN ~q.flag /\ (table[j].gen > 0 \/ table[j].cur) /\ disk[j] # None
                      ELSE disk[j] # None
             opened == [q EXCEPT !.op = "fetch", !.reuse = reuse]
             sized == [q EXCEPT !.op = "set", !.hash = table[j].hash,
                                !.zero = table[j].zero, !.reuse = reuse]
             new == IF q.op = "open" THEN opened ELSE sized
  <2>1. UNCHANGED disk /\ q.op \in {"open", "resize"} /\ lock[j] = None
    BY <1>9 DEF OpenLock, SetattrLock
  <2>2. \/ Finish(r) /\ UNCHANGED <<table, lock>>
        \/ /\ req' = [req EXCEPT ![r] = new] /\ lock' = [lock EXCEPT ![j] = r]
           /\ table' = IF q.op = "open" /\ ~reuse
                       THEN [table EXCEPT ![j] = NotCurrent(table[j])] ELSE table
    BY <1>9 DEF OpenLock, SetattrLock
  <2>3. reuse \in BOOLEAN
    OBVIOUS
  <2>4. new.op = (IF q.op = "open" THEN "fetch" ELSE "set") /\ new.ino = j
        /\ new.flag = q.flag /\ new.reuse = reuse
    <3> HIDE DEF reuse
    <3>1. /\ opened.op = "fetch" /\ opened.ino = j /\ opened.flag = q.flag
          /\ opened.reuse = reuse
      BY <1>2 DEF ReqState
    <3>2. /\ sized.op = "set" /\ sized.ino = j /\ sized.flag = q.flag
          /\ sized.reuse = reuse
      BY <1>2 DEF ReqState
    <3> HIDE DEF opened, sized
    <3> QED
      BY <3>1, <3>2
  <2> HIDE DEF new
  <2>5. \A s \in Req : req'[s] = req[s] \/ (s = r /\ req'[s] = Idle) \/ (s = r /\ req'[s] = new)
    BY <1>0, <2>2, Ending DEF TypeOK
  <2>6. \A i \in Ino : Writing(i) => Writing(i)'
    BY <2>1, <2>5 DEF Writing
  <2>7. \A i \in Ino : LockKept(i)
    BY <1>0, <1>2, <2>1, <2>2 DEF TypeOK, LockKept
  <2>8. \A i \in Ino : \/ table'[i] = table[i]
                       \/ i = j /\ table'[i] = NotCurrent(table[j])
    BY <1>0, <1>2, <2>2 DEF TypeOK
  <2>9. \A i \in Ino : /\ table'[i].here = table[i].here /\ table'[i].gen = table[i].gen
                       /\ table'[i].cur => table[i].cur /\ table'[i].hash = table[i].hash
    <3> TAKE i \in Ino
    <3>1. CASE table'[i] = table[i]
      BY <3>1
    <3>2. CASE i = j /\ table'[i] = NotCurrent(table[j])
      <4> DEFINE e == table[j]
      <4>1. e \in Entry
        BY <1>2, <1>3
      <4>2. /\ NotCurrent(e).here = e.here /\ NotCurrent(e).gen = e.gen
            /\ NotCurrent(e).cur = FALSE
        BY <4>1, OpFields
      <4> HIDE DEF e
      <4>3. ~NotCurrent(e).cur
        BY <4>2
      <4>4. e = table[i]
        BY <3>2 DEF e
      <4>5. table'[i] = NotCurrent(e)
        BY <3>2 DEF e
      <4> QED
        BY <4>2, <4>3, <4>4, <4>5
    <3> QED
      BY <2>8, <3>1, <3>2
  <2>10. \A i \in Ino : Kept(i)
    BY <2>1, <2>6, <2>9 DEF Kept
  <2>11. \A i \in Ino : AtStake(i)' => AtStake(i)
    BY <1>4, <2>9 DEF AtStake, InFlight, Matches
  <2>12. ASSUME req'[r] = new, NeedsDownload(new), AtStake(j), req' = [req EXCEPT ![r] = new],
                table' = IF q.op = "open" /\ ~reuse
                         THEN [table EXCEPT ![j] = NotCurrent(table[j])] ELSE table,
                NEW i \in Ino, i = j, AtStake(i)'
         PROVE  Writing(i)'
    <3>1. ~reuse /\ ~q.flag
      BY <2>4, <2>12 DEF NeedsDownload
    <3>2. CASE q.op = "open"
      <4>1. table'[j].cur = FALSE
        BY ZenonT(30), <1>0, <1>2, <1>3, <2>12, <3>1, <3>2, OpFields DEF TypeOK
      <4>2. InFlight(i) /\ Matches(i)
        BY ZenonT(30), <1>4, <2>9, <2>12, <4>1 DEF AtStake, InFlight, Matches
      <4>3. table[i].gen > 0
        BY <1>0, <1>3, <4>2 DEF ItemsOK, Items, InFlight, Matches
      <4>4. disk[i] = None
        BY <2>12, <3>1, <3>2, <4>3
      <4> QED
        BY <1>7, <2>6, <2>12, <4>4
    <3>3. CASE q.op # "open"
      BY <1>7, <2>6, <2>12, <3>1, <3>3
    <3> QED
      BY <3>2, <3>3
  <2>13. \A s \in Req : ReqKept(s)
    <3>1. ASSUME NEW s \in Req, req'[s] # req[s], req'[s].op # "idle" PROVE ReqKept(s)
      <4>1. s = r /\ req'[s] = new
        BY <2>5, <3>1
      <4>2. /\ req' = [req EXCEPT ![r] = new] /\ lock' = [lock EXCEPT ![j] = r]
            /\ table' = IF q.op = "open" /\ ~reuse
                        THEN [table EXCEPT ![j] = NotCurrent(table[j])] ELSE table
        <5>1. ~Finish(r)
          BY <1>0, <3>1, <4>1, Ending
        <5> QED
          BY <2>2, <5>1
      <4>3. PICK i \in Ino : i = j
        BY <1>2
      <4>4. NeedsDownload(new) => Writing(i)' \/ ~AtStake(i)'
        BY <2>11, <2>12, <4>1, <4>2, <4>3
      <4>5. i = req'[s].ino
        BY <2>4, <4>1, <4>3
      <4>6. NeedsDownload(req'[s]) => Writing(req[s].ino)' \/ ~AtStake(req[s].ino)'
        BY <4>1, <4>4, <4>5
      <4>7. lock'[req'[s].ino] = s
        BY <1>0, <1>2, <2>4, <4>1, <4>2 DEF TypeOK
      <4> QED
        BY <1>2, <2>4, <4>1, <4>6, <4>7 DEF ReqKept
    <3> QED
      BY <3>1 DEF ReqKept
  <2> QED
    BY <1>4, <1>5, <1>6, <2>7, <2>9, <2>10, <2>13, Keeping
<1> QED
    BY <1>8, <1>9

\* The steps of write(2) and of the release of a handle.
LEMMA CacheWrite ==
    ASSUME CacheInv, TypeOK', ~GcArmed, NEW r \in Req,
           \/ WriteDone(r) \/ ReleaseDone(r) \/ ReapGc(r)
           \/ \E h \in Handle, c \in Content : PWrite(r, h, c)
    PROVE  CacheInv'
<1> USE ValueAssumption, BlankFields
<1> DEFINE j == req[r].ino
<1>0. TypeOK /\ UsedOK /\ DropsOK
    BY DEF CacheInv
<1>1. /\ UNCHANGED <<used, lock, snap, gcq, fpc>>
      /\ \A h \in Handle : fd'[h] \in {fd[h], None} \cup used
    BY <1>0 DEF TypeOK, WriteDone, ReleaseDone, ReapGc, PWrite, fvars
<1>2. gcq' = {} /\ PcKept /\ \A i \in Ino : LockKept(i)
    BY <1>0, <1>1 DEF DropsOK, PcKept, LockKept
<1>3. ASSUME NEW h \in Handle, NEW c \in Content, PWrite(r, h, c) PROVE CacheInv'
  <2>0. PICK i \in Ino : i = fd[h]
    BY <1>0, <1>3 DEF TypeOK, PWrite
  <2> DEFINE rec == [Idle EXCEPT !.op = "write", !.ino = i, !.fh = h]
  <2>1. i \in used /\ UNCHANGED table
    BY <1>0, <1>3, <2>0 DEF UsedOK, PWrite
  <2>2. rec.op = "write" /\ rec.ino = i /\ Begin(r, rec) /\ rec \in ReqState
    BY <1>3, <2>0 DEF PWrite, Idle, ReqState, Hash
  <2>3. \A k \in Ino : k = i \/ disk'[k] = disk[k]
    BY <1>0, <1>3, <2>0 DEF TypeOK, PWrite
  <2> HIDE DEF rec
  <2>4. \A s \in Req : req'[s] = req[s] \/ (req[s].op = "idle" /\ req'[s] = rec)
    BY <1>0, <2>2, Beginning
  <2>5. req'[r] = rec
    BY <1>0, <2>2 DEF TypeOK, Begin
  <2>6. Writing(i)' /\ \A k \in Ino : Writing(k) => Writing(k)'
    BY <2>2, <2>4, <2>5 DEF Writing
  <2>7. \A k \in Ino : Kept(k)
    BY <2>1, <2>3, <2>6 DEF Kept
  <2>8. \A s \in Req : ReqKept(s)
    BY <2>1, <2>2, <2>4 DEF ReqKept
  <2> QED
    BY <1>1, <1>2, <2>1, <2>7, <2>8, Keeping
<1>4. CASE WriteDone(r)
  <2>1. j \in Ino /\ table[j] \in Entry /\ UNCHANGED disk /\ Finish(r)
    BY <1>0, <1>4, ReqFields DEF TypeOK, WriteDone
  <2>2. \A s \in Req : req'[s] = IF s = r THEN Idle ELSE req[s]
    BY <1>0, <2>1, Ending
  <2>3. \A i \in Ino : table'[i] = IF i = j /\ table[j].here THEN Written(table[j]) ELSE table[i]
    BY <1>0, <1>4, <2>1 DEF TypeOK, WriteDone
  <2>4. Written(table[j]).here = table[j].here /\ Written(table[j]).gen = table[j].gen + 1
    BY <2>1, OpFields
  <2>5. table[j].gen \in Nat
    BY <2>1 DEF Entry
  <2>6. Kept(j)
    BY <2>1, <2>3, <2>4, <2>5 DEF Kept
  <2>7. \A i \in Ino \ {j} : Writing(i) => Writing(i)'
    BY <2>2 DEF Writing
  <2>8. \A i \in Ino \ {j} : Kept(i)
    BY <2>1, <2>3, <2>7 DEF Kept
  <2>9. \A i \in Ino : Kept(i) /\ (table'[i].here => table[i].here)
    BY <2>3, <2>4, <2>6, <2>8
  <2>10. \A s \in Req : ReqKept(s)
    BY <2>2 DEF ReqKept
  <2> QED
    BY <1>1, <1>2, <2>9, <2>10, Keeping
<1>5. CASE ReleaseDone(r)
  <2>1. j \in Ino /\ req[r].op = "close"
    BY <1>0, <1>5, ReqFields DEF TypeOK, ReleaseDone
  <2>2. req' = [req EXCEPT ![r] = Idle]
    BY <1>5 DEF ReleaseDone
  <2>3. \A s \in Req : req'[s] = IF s = r THEN Idle ELSE req[s]
    BY <1>0, <2>2 DEF TypeOK
  <2>4. \A i \in Ino : Writing(i) => Writing(i)'
    BY <2>1, <2>3 DEF Writing
  <2>5. \/ UNCHANGED <<table, disk>>
        \/ table' = [table EXCEPT ![j] = NoEntry] /\ disk' = [disk EXCEPT ![j] = None]
    BY <1>5 DEF ReleaseDone
  <2>6. \A i \in Ino : (table'[i] = table[i] /\ disk'[i] = disk[i]) \/ ~table'[i].here
    BY <1>0, <2>1, <2>5 DEF TypeOK
  <2>7. \A i \in Ino : Kept(i)
    BY <2>4, <2>6 DEF Kept
  <2>8. \A s \in Req : ReqKept(s)
    BY <2>3 DEF ReqKept
  <2> QED
    BY <1>1, <1>2, <2>6, <2>7, <2>8, Keeping
<1>6. CASE ReapGc(r)
    BY <1>0, <1>6 DEF DropsOK, ReapGc
<1> QED
    BY <1>3, <1>4, <1>5, <1>6

\* create(2) and the steps of unlink(2) and rename(2) that change the table.
LEMMA CacheDir ==
    ASSUME CacheInv, TypeOK',
           \/ \E p \in Path, i \in Ino, h \in Handle : Create(p, i, h)
           \/ \E r \in Req : UnlinkLocal(r) \/ DropLocked(r) \/ RenameLocal(r)
    PROVE  CacheInv'
<1> USE ValueAssumption, BlankFields
<1>0. TypeOK /\ UsedOK /\ DropsOK
    BY DEF CacheInv
<1>1. UNCHANGED <<lock, snap, gcq, fpc>> /\ used \subseteq used'
    BY DEF Create, UnlinkLocal, DropLocked, RenameLocal, fvars
<1>2. gcq' = {} /\ PcKept /\ \A i \in Ino : LockKept(i)
    BY <1>0, <1>1 DEF DropsOK, PcKept, LockKept
<1>3. ASSUME NEW p \in Path, NEW i \in Ino, NEW h \in Handle, Create(p, i, h) PROVE CacheInv'
  <2>1. i \notin used /\ UNCHANGED req /\ i \in used'
    BY <1>3 DEF Create
  <2>2. table'[i].gen = 1 /\ \A k \in Ino \ {i} : table'[k] = table[k] /\ disk'[k] = disk[k]
    BY <1>0, <1>3 DEF TypeOK, Create
  <2>3. \A k \in Ino : Writing(k) => Writing(k)'
    BY <2>1 DEF Writing
  <2>4. \A k \in Ino : Kept(k) /\ (table'[k].here => table[k].here \/ k \in used')
    BY <2>1, <2>2, <2>3 DEF Kept
  <2>5. \A s \in Req : ReqKept(s)
    BY <2>1 DEF ReqKept
  <2>6. \A x \in Handle : fd'[x] \in {fd[x], None} \cup used'
    BY <1>0, <1>3, <2>1 DEF TypeOK, Create
  <2> QED
    BY <1>1, <1>2, <2>4, <2>5, <2>6, Keeping
<1>4. ASSUME NEW r \in Req, UnlinkLocal(r) PROVE CacheInv'
  <2> DEFINE j == req[r].ino
             drop == [Idle EXCEPT !.op = "drop", !.ino = j]
  <2>1. j \in Ino /\ j \in used /\ req[r].op = "unlink" /\ UNCHANGED <<used, disk, fd>>
    BY <1>0, <1>4, ReqFields DEF TypeOK, UnlinkLocal, UsedOK
  <2>2. drop.op = "drop" /\ drop.ino = j
    BY DEF Idle
  <2>3. \/ /\ table' \in {table, [table EXCEPT ![j] = UnlinkOne(table[j])]}
           /\ req' = [req EXCEPT ![r] = Idle]
        \/ /\ table' = [table EXCEPT ![j] = NoEntry]
           /\ req' = [req EXCEPT ![r] = drop]
    BY <1>4 DEF UnlinkLocal
  <2> HIDE DEF drop
  <2>4. /\ UnlinkOne(table[j]).here = table[j].here /\ UnlinkOne(table[j]).gen = table[j].gen
        /\ UnlinkOne(table[j]).cur = table[j].cur /\ UnlinkOne(table[j]).hash = table[j].hash
    BY <1>0, <2>1, OpFields DEF TypeOK
  <2>5. \A i \in Ino : ~table'[i].here \/ (/\ table'[i].here = table[i].here
              /\ table'[i].gen = table[i].gen /\ table'[i].cur = table[i].cur
              /\ table'[i].hash = table[i].hash)
    BY <1>0, <2>1, <2>3, <2>4 DEF TypeOK
  <2>6. \A s \in Req : \/ req'[s] = req[s]
                       \/ s = r /\ req'[s] = Idle
                       \/ s = r /\ req'[s] = drop /\ ~table'[j].here
    BY <1>0, <2>1, <2>3 DEF TypeOK
  <2>7. \A i \in Ino : Writing(i) => Writing(i)'
    BY <2>1, <2>6 DEF Writing
  <2>8. \A i \in Ino : Kept(i)
    BY <2>1, <2>5, <2>7 DEF Kept
  <2>9. \A s \in Req : ReqKept(s)
    BY <2>1, <2>2, <2>6 DEF ReqKept
  <2> QED
    BY <1>1, <1>2, <2>1, <2>5, <2>8, <2>9, Keeping
<1>5. ASSUME NEW r \in Req, DropLocked(r) PROVE CacheInv'
  <2> DEFINE j == req[r].ino
  <2>1. j \in Ino /\ ~table[j].here /\ req[r].op = "drop" /\ UNCHANGED <<used, table, fd>>
    BY <1>0, <1>5, ReqFields DEF TypeOK, DropLocked, DropsOK
  <2>2. \A s \in Req : req'[s] = IF s = r THEN Idle ELSE req[s]
    BY <1>0, <1>5, Ending DEF DropLocked
  <2>3. \A i \in Ino \ {j} : disk'[i] = disk[i]
    BY <1>0, <1>5 DEF TypeOK, DropLocked, Unstage
  <2>4. \A i \in Ino : Writing(i) => Writing(i)'
    BY <2>1, <2>2 DEF Writing
  <2>5. \A i \in Ino : Kept(i)
    BY <2>1, <2>3, <2>4 DEF Kept
  <2>6. \A s \in Req : ReqKept(s)
    BY <2>2 DEF ReqKept
  <2> QED
    BY <1>1, <1>2, <2>1, <2>5, <2>6, Keeping
<1>6. ASSUME NEW r \in Req, RenameLocal(r) PROVE CacheInv'
  <2> DEFINE q == req[r]
             j == q.ino
             target == LookupChild(q.to) \ {j}
             gone == {k \in target : ~HasOpenHandles(k)}
             victim == CHOOSE k \in gone : TRUE
             drop == [Idle EXCEPT !.op = "drop", !.ino = victim]
  <2>1. j \in Ino /\ q.op = "renamed" /\ UNCHANGED <<used, disk, fd>>
    BY ZenonT(30), <1>0, <1>6, ReqFields DEF TypeOK, RenameLocal
  <2>2. drop.op = "drop" /\ drop.ino = victim
    BY DEF Idle
  <2>3. \A k \in gone : k \in Ino /\ k \in used /\ k # j
    BY <1>0 DEF LookupChild, UsedOK
  <2>4. gone # {} => victim \in gone
    OBVIOUS
  <2>5. \/ UNCHANGED table /\ req' = [req EXCEPT ![r] = Idle]
        \/ /\ table' = [k \in Ino |->
                 IF k = j THEN Moved(table[j], q) ELSE IF k \in gone THEN NoEntry
                 ELSE IF k \in target THEN UnlinkOne(table[k]) ELSE table[k]]
           /\ req' = [req EXCEPT ![r] = IF gone = {} THEN Idle ELSE drop]
    BY ZenonT(30), <1>6 DEF RenameLocal, Finish
  <2> HIDE DEF gone, target, victim, drop
  <2> DEFINE Same(e, f) == /\ f.here = e.here /\ f.gen = e.gen
                           /\ f.cur = e.cur /\ f.hash = e.hash
  <2>6. \A k \in Ino : Same(table[k], UnlinkOne(table[k])) /\ Same(table[k], Moved(table[k], q))
    <3> TAKE k \in Ino
    <3> DEFINE e == table[k]
    <3>1. e \in Entry
      BY <1>0 DEF TypeOK
    <3> HIDE DEF e
    <3>2. Same(e, UnlinkOne(e)) /\ Same(e, Moved(e, q))
      BY <3>1 DEF UnlinkOne, Moved, Entry
    <3> QED
      BY <3>2 DEF e
  <2>7. \A k \in Ino : ~table'[k].here \/ Same(table[k], table'[k])
    BY <2>5, <2>6
  <2>8. \A s \in Req : \/ req'[s] = req[s]
                       \/ s = r /\ req'[s] = Idle
                       \/ s = r /\ req'[s] = drop /\ victim \in gone /\ ~table'[victim].here
    BY <1>0, <2>3, <2>4, <2>5 DEF TypeOK
  <2>9. \A i \in Ino : Writing(i) => Writing(i)'
    BY <2>1, <2>2, <2>8 DEF Writing
  <2>10. \A i \in Ino : Kept(i)
    BY <2>1, <2>7, <2>9 DEF Kept
  <2>11. \A s \in Req : ReqKept(s)
    BY <2>2, <2>3, <2>8 DEF ReqKept
  <2> QED
    BY <1>1, <1>2, <2>1, <2>7, <2>10, <2>11, Keeping
<1> QED
    BY <1>3, <1>4, <1>5, <1>6

\* The poll loop clears the flag of what it updates, and the garbage collector
\* has nothing to visit.
LEMMA CachePoll ==
    ASSUME CacheInv, TypeOK', PollApply \/ \E i \in Ino : FlushGcOne(i)
    PROVE  CacheInv'
<1> USE ValueAssumption, BlankFields
<1>0. TypeOK /\ DropsOK
    BY DEF CacheInv
<1>1. CASE PollApply
  <2>1. UNCHANGED <<used, disk, fd, lock, req, snap, gcq, fpc>>
    BY <1>1 DEF PollApply, fvars
  <2>2. \A i \in Ino : /\ table[i] \in Entry /\ poll.upd[i] \in Hash
    BY <1>0 DEF TypeOK, PollState
  <2>3. \A i \in Ino : table'[i] \in {UpdateRemote(table[i], poll.upd[i]), NoEntry,
                                      UnlinkOne(table[i]), table[i]}
    BY <1>1 DEF PollApply
  <2>4. \A i \in Ino : LET e == table[i] IN
           /\ UnlinkOne(e).here = e.here /\ UnlinkOne(e).gen = e.gen
           /\ UnlinkOne(e).cur = e.cur /\ UnlinkOne(e).hash = e.hash
           /\ \A c \in Hash : /\ UpdateRemote(e, c).here = e.here
                              /\ UpdateRemote(e, c).gen = e.gen
                              /\ ~UpdateRemote(e, c).cur
    BY <2>2, OpFields
  <2>5. \A i \in Ino : \/ ~table'[i].here
                       \/ /\ table'[i].here = table[i].here /\ table'[i].gen = table[i].gen
                          /\ table'[i].cur => table[i].cur /\ table'[i].hash = table[i].hash
    BY <2>2, <2>3, <2>4
  <2>6. \A i \in Ino : Writing(i) => Writing(i)'
    BY <2>1 DEF Writing
  <2>7. \A i \in Ino : Kept(i) /\ LockKept(i)
    BY <2>1, <2>5, <2>6 DEF Kept, LockKept
  <2>8. gcq' = {} /\ PcKept /\ \A s \in Req : ReqKept(s)
    BY <1>0, <2>1 DEF DropsOK, PcKept, ReqKept
  <2> QED
    BY <2>1, <2>5, <2>7, <2>8, Keeping
<1>2. CASE \E i \in Ino : FlushGcOne(i)
    BY <1>0, <1>2 DEF DropsOK, FlushGcOne
<1> QED
    BY <1>1, <1>2

\* Every step keeps CacheInv, when the staging space is unlimited.
LEMMA CacheStep == ASSUME ~GcArmed PROVE CacheInv /\ [Next]_vars => CacheInv'
<1> SUFFICES ASSUME CacheInv, [Next]_vars PROVE CacheInv'
    OBVIOUS
<1>0. TypeOK'
    BY TypeStep DEF CacheInv
<1>1. CASE UNCHANGED vars
  <2>1. UNCHANGED <<used, table, disk, fd, lock, req, snap, gcq, fpc>>
    BY <1>1 DEF vars, ivars, fvars
  <2> QED
    BY <1>0, <2>1 DEF CacheInv, UsedOK, LocksOK, DropsOK, ItemsOK, Items, InFlight, Matches,
          Writing, CacheOK, DownloadsOK, AtStake
<1>2. CASE Editing
    BY <1>0, <1>2, CacheIdleSteps, CacheLocked, CacheWrite, CacheDir DEF Editing
<1>3. CASE Truncating \/ Resizing
    BY <1>0, <1>3, CacheIdleSteps, CacheLocked DEF Truncating, Resizing
<1>4. CASE Unlinking \/ Renaming \/ Dropping
    BY <1>0, <1>4, CacheIdleSteps, CacheDir DEF Unlinking, Renaming, Dropping
<1>5. CASE Reaping
    BY <1>0, <1>5, CacheWrite DEF Reaping
<1>6. CASE FlushLoop \/ FlushDeletesFail
    BY <1>0, <1>6, CacheIdleSteps, CacheFlushItems, CacheApply, CachePoll DEF FlushLoop
<1>7. CASE Polling
    BY <1>0, <1>7, CacheIdleSteps, CachePoll DEF Polling
<1> QED
    BY <1>1, <1>2, <1>3, <1>4, <1>5, <1>6, <1>7 DEF Next, LocalNext

\* CacheInv holds initially: nothing is staged, locked or in flight.
LEMMA CacheInit == Init => CacheInv
<1> SUFFICES ASSUME Init PROVE CacheInv
    OBVIOUS
<1> USE ValueAssumption, SeedAssumption, BlankFields
<1>1. TypeOK
    BY TypeInit
<1>2. \A i \in Ino : ~snap[i].on /\ table[i].cur = FALSE /\ (table[i].here => i \in used)
    BY DEF Init, NoEntry
<1>3. \A r \in Req : req[r].op = "idle"
    BY DEF Init
<1>4. UsedOK /\ LocksOK /\ DropsOK
    BY <1>2, <1>3 DEF UsedOK, LocksOK, DropsOK, Items, Init
<1>5. ItemsOK /\ CacheOK /\ DownloadsOK
    BY <1>2, <1>3 DEF ItemsOK, Items, InFlight, CacheOK, DownloadsOK
<1> QED
    BY <1>1, <1>4, <1>5 DEF CacheInv

\* With unlimited staging space (--max-staging-size 0, the default), an inode that
\* is clean and flagged staging_is_current has a staging file with the content of
\* its hash, or none, whatever requests, the flush loop, the poll loop, other
\* clients and failing downloads do: open(2) never reuses a stale file.
THEOREM StagingCurrentCorrect == ASSUME ~GcArmed PROVE Spec => []StagingCurrent
<1>1. Init => CacheInv
    BY CacheInit
<1>2. CacheInv /\ [Next]_vars => CacheInv'
    BY CacheStep
<1>3. CacheInv => StagingCurrent
    BY DEF CacheInv, CacheOK, StagingCurrent
<1> QED
    BY <1>1, <1>2, <1>3, PTL DEF Spec


----------------------------------------------------------------------------
(* The staging cache itself.                                               *)

\* With unlimited staging space, the whole of what makes the staging cache sound
\* holds whatever requests, the flush loop, the poll loop, other clients and
\* failures do: locks protect their holders, items keep generations that the
\* entries have not left downwards, and downloads spare the files relied upon.
THEOREM StagingCacheSound == ASSUME ~GcArmed PROVE Spec => []CacheInv
<1>1. Init => CacheInv
    BY CacheInit
<1>2. CacheInv /\ [Next]_vars => CacheInv'
    BY CacheStep
<1> QED
    BY <1>1, <1>2, PTL DEF Spec

----------------------------------------------------------------------------
(* No acknowledged write is lost.                                          *)

\* The remaining fields that the operations of the table leave or change.
LEMMA MoreFields ==
    ASSUME NEW e \in Entry
    PROVE  /\ NotCurrent(e).nlink = e.nlink /\ NotCurrent(e).zero = e.zero
           /\ UnlinkOne(e).nlink = 0
           /\ Written(e).nlink = e.nlink
           /\ \A m, t \in BOOLEAN : Opened(e, m, t).nlink = e.nlink
           /\ \A z \in BOOLEAN : Resized(e, z).nlink = e.nlink
BY DEF NotCurrent, UnlinkOne, Written, Opened, Resized, Entry

\* An entry as far as Durable is concerned.
SameEntry(e, f) ==
    /\ f.here = e.here /\ f.nlink = e.nlink /\ f.gen = e.gen
    /\ f.hash = e.hash /\ f.zero = e.zero /\ f.cur = e.cur

\* A step leaves the entry of i, and no truncating open of it begins or ends.
EntryKept(i) == SameEntry(table[i], table'[i]) /\ (Emptying(i)' <=> Emptying(i))

\* A step leaves i's content, and opens no handle on it; a failed download may
\* leave anything in a staging file that is not in use yet.
ContentKept(i) ==
    /\ data'[i] = data[i]
    /\ disk'[i] = disk[i] \/ Pristine(i)
    /\ HasOpenHandles(i)' => HasOpenHandles(i)
    /\ Writing(i) => Writing(i)'

\* A step leaves the file alone, removes its name, or establishes what is due.
FileKept(i) == ~Linked(i)' \/ StagedAt(i)' \/ (EntryKept(i) /\ ContentKept(i))
OpenKept(s, i) == ~Linked(i)' \/ OpenAt(s, i)' \/ (EntryKept(i) /\ req'[s] = req[s])

\* A file that a step keeps stays as it must be.
LEMMA FileFrame ==
    ASSUME LocalInv, NEW i \in Ino, FileKept(i)
    PROVE  StagedAt(i)'
<1>1. CASE ~Linked(i)'
    BY <1>1 DEF StagedAt
<1>2. CASE EntryKept(i) /\ ContentKept(i)
  <2>1. StagedAt(i)
    BY DEF LocalInv, StagedOK
  <2>2. /\ Linked(i)' <=> Linked(i)
        /\ Dirty(i)' <=> Dirty(i)
        /\ Pristine(i)' <=> Pristine(i)
    BY <1>2 DEF EntryKept, SameEntry, Linked, Dirty, Pristine
  <2>3. Pristine(i) => ~Dirty(i) /\ ~table[i].cur /\ ~HasOpenHandles(i)
    BY <2>1 DEF StagedAt, Pristine
  <2> QED
    BY <1>2, <2>1, <2>2, <2>3 DEF StagedAt, EntryKept, SameEntry, ContentKept
<1> QED
    BY <1>1, <1>2 DEF FileKept

\* What open() read of a file that a step keeps stays true.
LEMMA OpenFrame ==
    ASSUME LocalInv, NEW s \in Req, NEW i \in Ino, OpenKept(s, i), req'[s].ino = i
    PROVE  OpenAt(s, i)'
<1>1. CASE ~Linked(i)'
    BY <1>1 DEF OpenAt, Pristine
<1>2. CASE EntryKept(i) /\ req'[s] = req[s]
  <2>1. OpenAt(s, i)
    BY <1>2 DEF LocalInv, OpensOK
  <2>2. /\ Linked(i)' <=> Linked(i)
        /\ Dirty(i)' <=> Dirty(i)
        /\ Pristine(i)' <=> Pristine(i)
    BY <1>2 DEF EntryKept, SameEntry, Linked, Dirty, Pristine
  <2> QED
    BY <1>2, <2>1, <2>2 DEF OpenAt, EntryKept, SameEntry
<1> QED
    BY <1>1, <1>2 DEF OpenKept

\* What a step may do to the handle of request s, and to handle h.
FhKept(s) ==
    /\ req'[s].fh \in {req[s].fh, None}
    /\ req'[s].op \in {"write", "close"} => req'[s] = req[s]
HandleKept(s) ==
    /\ req'[s].fh \in {req[s].fh, None}
    /\ req'[s].op \in {"write", "close"} => req'[s] = req[s]
    /\ req'[s].op \in {"resize", "set"} => req'[s].flag
FdKept(h) ==
    fd'[h] = fd[h] \/ fd[h] = None
    \/ \A s \in Req : req'[s].op \in {"write", "close"} => req'[s].fh # h

\* Such steps leave every write and release its open handle.
LEMMA HandlesFrame ==
    ASSUME TypeOK, HandlesOK, \A s \in Req : FhKept(s), \A h \in Handle : FdKept(h)
    PROVE  HandlesOK'
<1> USE ValueAssumption
<1>2. \A s \in Req : req[s].op # "idle" => req[s].ino \in Ino
    BY ReqFields DEF TypeOK
<1>3. ASSUME NEW s \in Req, req'[s].op \in {"write", "close"}
      PROVE  req'[s].fh \in Handle /\ fd'[req'[s].fh] = req'[s].ino
  <2>1. req'[s] = req[s]
    BY <1>3 DEF FhKept
  <2>2. req[s].fh \in Handle /\ fd[req[s].fh] = req[s].ino /\ req[s].ino \in Ino
    BY <1>2, <1>3, <2>1 DEF HandlesOK
  <2> QED
    BY <1>3, <2>1, <2>2 DEF FdKept
<1>4. ASSUME NEW s \in Req, req'[s].op = "close"
      PROVE  req'[s].fh # None /\ \A t \in Req \ {s} : req'[t].fh # req'[s].fh
  <2>1. req'[s] = req[s]
    BY <1>4 DEF FhKept
  <2>2. req[s].fh # None /\ \A t \in Req \ {s} : req[t].fh # req[s].fh
    BY <1>4, <2>1 DEF HandlesOK
  <2> QED
    BY <2>1, <2>2 DEF FhKept
<1> QED
    BY <1>3, <1>4 DEF HandlesOK

\* Requests that keep their handles and sizes stay as they must be.
LEMMA RequestsFrame ==
    ASSUME LocalInv, TypeOK', \A s \in Req : HandleKept(s), \A h \in Handle : FdKept(h)
    PROVE  RequestsOK'
<1>1. TypeOK /\ HandlesOK
    BY DEF LocalInv, CacheInv, RequestsOK
<1>2. \A s \in Req : FhKept(s)
    BY DEF HandleKept, FhKept
<1> QED
    BY <1>1, <1>2, HandlesFrame DEF RequestsOK, HandleKept

\* The frame of the steps of a mount on its own: its parts one by one.
LEMMA LocalKeeping ==
    ASSUME LocalInv, CacheInv', RequestsOK', CutOK',
           \A i \in Ino : FileKept(i),
           \A s \in Req, i \in Ino : req'[s].ino = i => OpenKept(s, i)
    PROVE  LocalInv'
<1>1. StagedOK'
    BY FileFrame DEF StagedOK
<1>2. OpensOK'
    BY OpenFrame DEF OpensOK
<1> QED
    BY <1>1, <1>2 DEF LocalInv

\* A request changes without beginning or ending a write or the download of an
\* open; an open that begins reads the entry.
QuietReq(s) ==
    \/ req'[s] = req[s]
    \/ /\ req[s].op \notin {"write", "fetch"}
       /\ req'[s].op \notin {"write", "fetch"}
       /\ req'[s].op = "open" => /\ req'[s].hash = table[req'[s].ino].hash
                                 /\ req'[s].zero = table[req'[s].ino].zero

\* Steps that leave the table, the staging files and the handles alone.
LEMMA LocalQuiet ==
    ASSUME LocalInv, CacheInv', RequestsOK', UNCHANGED <<table, disk, fd, cut, data>>,
           \A s \in Req : QuietReq(s)
    PROVE  LocalInv'
<1>1. \A i \in Ino : (Emptying(i)' <=> Emptying(i)) /\ (Writing(i) => Writing(i)')
    BY DEF QuietReq, Emptying, Writing
<1>2. \A i \in Ino : EntryKept(i) /\ ContentKept(i)
    BY <1>1 DEF EntryKept, SameEntry, ContentKept, HasOpenHandles, Handles
<1>3. ASSUME NEW s \in Req, NEW i \in Ino, req'[s].ino = i PROVE OpenKept(s, i)
  <2>1. CASE req'[s] = req[s]
    BY <1>2, <2>1 DEF OpenKept
  <2>2. CASE req'[s] # req[s]
    BY <1>3, <2>2 DEF QuietReq, OpenKept, OpenAt
  <2> QED
    BY <2>1, <2>2
<1>4. CutOK'
    BY DEF LocalInv, CutOK
<1> QED
    BY <1>2, <1>3, <1>4, LocalKeeping DEF FileKept

\* Steps that begin a request other than a write or a release.
LEMMA LocalBegin ==
    ASSUME LocalInv, CacheInv', UNCHANGED <<table, disk, fd, cut, data>>,
           NEW r \in Req, NEW rec, Begin(r, rec), rec.fh = None,
           rec.op \in {"open", "resize", "unlink", "rename"},
           rec.op = "open" => /\ rec.hash = table[rec.ino].hash
                              /\ rec.zero = table[rec.ino].zero,
           rec.op = "resize" => rec.flag
    PROVE  LocalInv'
<1>0. TypeOK /\ TypeOK'
    BY DEF LocalInv, CacheInv
<1>1. \A s \in Req : req'[s] = req[s] \/ (req[s].op = "idle" /\ req'[s] = rec)
    BY <1>0, Beginning
<1>2. \A s \in Req : QuietReq(s)
    BY <1>1 DEF QuietReq
<1>3. \A s \in Req : HandleKept(s)
    BY <1>1 DEF HandleKept, LocalInv, RequestsOK, HandlesOK
<1>4. RequestsOK'
    BY <1>0, <1>3, RequestsFrame DEF FdKept
<1> QED
    BY <1>2, <1>4, LocalQuiet

\* open(), setattr(), unlink() and rename() begin, and read the entry.
LEMMA LocalStarts ==
    ASSUME LocalInv, CacheInv', NEW r \in Req, NEW i \in Ino,
           \/ \E t \in BOOLEAN : OpenStart(r, i, t)
           \/ SetattrStart(r, i, TRUE) \/ Unlink(r, i)
           \/ \E p \in Path : RenameValidate(r, i, p)
    PROVE  LocalInv'
<1>1. UNCHANGED <<table, disk, fd, cut, data>>
    BY ZenonT(30) DEF OpenStart, SetattrStart, Unlink, RenameValidate
<1>2. ASSUME NEW t \in BOOLEAN, OpenStart(r, i, t) PROVE LocalInv'
  <2> DEFINE rec == [Idle EXCEPT !.op = "open", !.ino = i, !.flag = t,
                                 !.hash = table[i].hash, !.zero = table[i].zero]
  <2>1. rec.op = "open" /\ rec.ino = i /\ rec.fh = None
        /\ rec.hash = table[i].hash /\ rec.zero = table[i].zero
    BY DEF Idle
  <2>2. Begin(r, rec)
    BY Zenon, <1>2 DEF OpenStart
  <2> HIDE DEF rec
  <2> QED
    BY <1>1, <2>1, <2>2, LocalBegin
<1>3. CASE SetattrStart(r, i, TRUE)
  <2> DEFINE rec == [Idle EXCEPT !.op = "resize", !.ino = i, !.flag = TRUE]
  <2>1. rec.op = "resize" /\ rec.fh = None /\ rec.flag
    BY DEF Idle
  <2>2. Begin(r, rec)
    BY <1>3 DEF SetattrStart
  <2> HIDE DEF rec
  <2> QED
    BY <1>1, <2>1, <2>2, LocalBegin
<1>4. CASE Unlink(r, i)
  <2> DEFINE rec == [Idle EXCEPT !.op = "unlink", !.ino = i, !.path = table[i].path]
  <2>1. rec.op = "unlink" /\ rec.fh = None
    BY DEF Idle
  <2>2. Begin(r, rec)
    BY <1>4 DEF Unlink
  <2> HIDE DEF rec
  <2> QED
    BY <1>1, <2>1, <2>2, LocalBegin
<1>5. ASSUME NEW p \in Path, RenameValidate(r, i, p) PROVE LocalInv'
  <2> DEFINE rec == [Idle EXCEPT !.op = "rename", !.ino = i, !.path = table[i].path,
                                 !.to = p, !.hash = table[i].hash, !.flag = Dirty(i)]
  <2>1. rec.op = "rename" /\ rec.fh = None
    BY DEF Idle
  <2>2. Begin(r, rec)
    BY Zenon, <1>5 DEF RenameValidate
  <2> HIDE DEF rec
  <2> QED
    BY <1>1, <2>1, <2>2, LocalBegin
<1> QED
    BY <1>2, <1>3, <1>4, <1>5

\* The first step of release(): the handle belongs to it from now on.
LEMMA LocalRelease ==
    ASSUME LocalInv, CacheInv', NEW r \in Req, NEW h \in Handle, Release(r, h)
    PROVE  LocalInv'
<1> USE ValueAssumption
<1> DEFINE rec == [Idle EXCEPT !.op = "close", !.ino = fd[h], !.fh = h]
<1>0. TypeOK /\ RequestsOK
    BY DEF LocalInv, CacheInv
<1>1. /\ req' = [req EXCEPT ![r] = rec] /\ req[r].op = "idle" /\ req[r].fh = None
      /\ \A s \in Req : req[s].fh # h
      /\ UNCHANGED <<table, disk, fd, cut, data>>
    BY DEF Release, Idle, hvars
<1>2. rec.op = "close" /\ rec.ino = fd[h] /\ rec.fh = h
    BY DEF Idle
<1> HIDE DEF rec
<1>3. \A s \in Req : req'[s] = IF s = r THEN rec ELSE req[s]
    BY <1>0, <1>1 DEF TypeOK
<1>4. h # None
    BY <1>1
<1>5. RequestsOK'
  <2>1. ASSUME NEW s \in Req, req'[s].op \in {"write", "close"}
        PROVE  req'[s].fh \in Handle /\ fd'[req'[s].fh] = req'[s].ino
    BY <1>0, <1>1, <1>2, <1>3, <2>1 DEF RequestsOK, HandlesOK
  <2>2. ASSUME NEW s \in Req, req'[s].op = "close"
        PROVE  req'[s].fh # None /\ \A t \in Req \ {s} : req'[t].fh # req'[s].fh
    <3>1. CASE s = r
      BY <1>1, <1>2, <1>3, <1>4, <3>1
    <3>2. CASE s # r
      <4>1. req[s].fh # None /\ \A t \in Req \ {s} : req[t].fh # req[s].fh
        BY <1>0, <1>3, <2>2, <3>2 DEF RequestsOK, HandlesOK
      <4> QED
        BY <1>1, <1>2, <1>3, <3>2, <4>1
    <3> QED
      BY <3>1, <3>2
  <2>3. \A s \in Req : req'[s].op \in {"resize", "set"} => req'[s].flag
    BY <1>0, <1>2, <1>3 DEF RequestsOK, HandlesOK
  <2> QED
    BY <2>1, <2>2, <2>3 DEF RequestsOK, HandlesOK
<1>6. \A s \in Req : QuietReq(s)
    BY <1>1, <1>2, <1>3 DEF QuietReq
<1> QED
    BY <1>1, <1>5, <1>6, LocalQuiet

\* Steps that end a request, or take it to a later step that opens nothing.
LEMMA LocalRenameRemote ==
    ASSUME LocalInv, CacheInv', NEW r \in Req, RenameRemote(r)
    PROVE  LocalInv'
<1> USE ValueAssumption
<1> DEFINE new == [req[r] EXCEPT !.op = "renamed"]
<1>0. TypeOK /\ TypeOK' /\ RequestsOK
    BY DEF LocalInv, CacheInv
<1>1. /\ req[r].op = "rename" /\ UNCHANGED <<table, disk, fd, cut, data>>
      /\ req' = [req EXCEPT ![r] = Idle] \/ req' = [req EXCEPT ![r] = new]
    BY DEF RenameRemote, Finish
<1>2. new.op = "renamed" /\ new.fh = req[r].fh
  <2>1. req[r] \in ReqState
    BY <1>0 DEF TypeOK
  <2> QED
    BY <2>1 DEF ReqState
<1>3. Idle.op = "idle" /\ Idle.fh = None
    BY DEF Idle
<1> HIDE DEF new
<1>4. \A s \in Req : req'[s] = req[s] \/ (s = r /\ req'[s] \in {Idle, new})
    BY <1>0, <1>1 DEF TypeOK
<1>5. \A s \in Req : QuietReq(s)
    BY <1>1, <1>2, <1>3, <1>4 DEF QuietReq
<1>6. \A s \in Req : HandleKept(s)
    BY <1>0, <1>2, <1>3, <1>4 DEF HandleKept, RequestsOK, HandlesOK
<1>7. RequestsOK'
    BY <1>0, <1>1, <1>6, RequestsFrame DEF FdKept
<1> QED
    BY <1>1, <1>5, <1>7, LocalQuiet

\* setattr(size) takes the staging lock and looks at the staging file.
LEMMA LocalSetattrLock ==
    ASSUME LocalInv, CacheInv', NEW r \in Req, SetattrLock(r)
    PROVE  LocalInv'
<1> USE ValueAssumption
<1> DEFINE i == req[r].ino
           new == [req[r] EXCEPT !.op = "set", !.hash = table[i].hash,
                     !.zero = table[i].zero, !.reuse = disk[i] # None]
<1>0. TypeOK /\ TypeOK' /\ RequestsOK
    BY DEF LocalInv, CacheInv
<1>1. /\ req[r].op = "resize" /\ UNCHANGED <<table, disk, fd, cut, data>>
      /\ req' = [req EXCEPT ![r] = Idle] \/ req' = [req EXCEPT ![r] = new]
    BY DEF SetattrLock, Finish, hvars
<1>2. new.op = "set" /\ new.fh = req[r].fh /\ new.flag = req[r].flag
  <2>1. req[r] \in ReqState
    BY <1>0 DEF TypeOK
  <2> QED
    BY <2>1 DEF ReqState
<1>3. Idle.op = "idle" /\ Idle.fh = None
    BY DEF Idle
<1> HIDE DEF new
<1>4. \A s \in Req : req'[s] = req[s] \/ (s = r /\ req'[s] \in {Idle, new})
    BY <1>0, <1>1 DEF TypeOK
<1>5. \A s \in Req : QuietReq(s)
    BY <1>1, <1>2, <1>3, <1>4 DEF QuietReq
<1>6. \A s \in Req : HandleKept(s)
    BY <1>0, <1>1, <1>2, <1>3, <1>4 DEF HandleKept, RequestsOK, HandlesOK
<1>7. RequestsOK'
    BY <1>0, <1>1, <1>6, RequestsFrame DEF FdKept
<1> QED
    BY <1>1, <1>5, <1>7, LocalQuiet

\* The steps of the flush loop that change neither entries nor staging files.
LEMMA LocalFlushQuiet ==
    ASSUME LocalInv, CacheInv',
           \/ \E h \in Handle : FlushHandle(h)
           \/ \E i \in Ino : FlushRecv(i) \/ FlushLock(i)
           \/ FlushTakeDeletes \/ FlushDeletesDone \/ FlushDeletesFail \/ FlushSnapshot
           \/ FlushUpload \/ FlushUploadFail \/ FlushCommit \/ FlushCommitFail \/ FlushGc
           \/ UNCHANGED vars
    PROVE  LocalInv'
<1>1. UNCHANGED <<table, disk, fd, cut, data, req>>
    BY ZenonT(30) DEF FlushHandle, FlushRecv, FlushLock, FlushTakeDeletes, FlushDeletesDone,
       FlushDeletesFail, FlushSnapshot, FlushUpload, FlushUploadFail, FlushCommit,
       FlushCommitFail, FlushGc, vars, ivars, hvars
<1>2. RequestsOK' /\ \A s \in Req : QuietReq(s)
    BY <1>1 DEF LocalInv, RequestsOK, HandlesOK, QuietReq
<1> QED
    BY <1>1, <1>2, LocalQuiet

\* A write under way has an open handle.
LEMMA WritersOpen == ASSUME LocalInv, NEW i \in Ino, Writing(i) PROVE HasOpenHandles(i)
BY DEF LocalInv, RequestsOK, HandlesOK, Writing, HasOpenHandles, Handles

\* write(): the handle has a staging file with a name, so the content is staged.
LEMMA LocalPWrite ==
    ASSUME LocalInv, CacheInv', NEW r \in Req, NEW h \in Handle, NEW c \in Content, PWrite(r, h, c)
    PROVE  LocalInv'
<1> USE ValueAssumption
<1>0. TypeOK /\ RequestsOK /\ CutOK /\ StagedOK
    BY DEF LocalInv, CacheInv
<1>1. PICK i \in Ino : i = fd[h]
    BY <1>0 DEF TypeOK, PWrite
<1> DEFINE rec == [Idle EXCEPT !.op = "write", !.ino = i, !.fh = h]
<1>2. rec.op = "write" /\ rec.ino = i /\ rec.fh = h /\ Begin(r, rec)
    BY <1>1 DEF PWrite, Idle
<1>3. /\ ~Closing(h) /\ UNCHANGED <<table, fd, cut>>
      /\ disk' = IF h \in cut THEN disk ELSE [disk EXCEPT ![i] = c]
      /\ data' = [data EXCEPT ![i] = c]
    BY <1>1 DEF PWrite
<1>4. /\ \A k \in Ino : data'[k] = IF k = i THEN c ELSE data[k]
      /\ \A k \in Ino : k # i => disk'[k] = disk[k]
      /\ h \in cut \/ disk'[i] = c
    BY <1>0, <1>3 DEF TypeOK
<1> HIDE DEF rec
<1>5. \A s \in Req : req'[s] = req[s] \/ (req[s].op = "idle" /\ req'[s] = rec)
    BY <1>0, <1>2, Beginning
<1>6. req'[r] = rec
    BY <1>0, <1>2 DEF TypeOK, Begin
<1>7. Writing(i)' /\ \A k \in Ino : (Emptying(k)' <=> Emptying(k)) /\ (Writing(k) => Writing(k)')
    BY <1>2, <1>5, <1>6 DEF Writing, Emptying
<1>8. \A k \in Ino : EntryKept(k)
    BY <1>3, <1>7 DEF EntryKept, SameEntry
<1>9. \A k \in Ino : HasOpenHandles(k)' <=> HasOpenHandles(k)
    BY <1>3 DEF HasOpenHandles, Handles
<1>10. \A k \in Ino \ {i} : FileKept(k)
    BY <1>4, <1>7, <1>8, <1>9 DEF FileKept, ContentKept
<1>11. FileKept(i)
  <2>1. h \in cut => ~Linked(i)'
    BY <1>0, <1>1, <1>3 DEF CutOK, Linked
  <2>2. HasOpenHandles(i)
    BY <1>1 DEF HasOpenHandles, Handles
  <2>3. ~Pristine(i)
    BY <1>0, <2>2 DEF StagedOK, StagedAt, Pristine
  <2>4. ~Pristine(i)'
    BY <1>3, <1>7, <2>3 DEF Pristine, Linked, Dirty
  <2>5. disk'[i] = data'[i] /\ data'[i] # None => StagedAt(i)'
    BY <1>7, <2>4 DEF StagedAt
  <2> QED
    BY <1>4, <2>1, <2>5 DEF FileKept
<1>12. RequestsOK'
  <2>1. ASSUME NEW s \in Req, req'[s].op \in {"write", "close"}
        PROVE  req'[s].fh \in Handle /\ fd'[req'[s].fh] = req'[s].ino
    BY <1>0, <1>1, <1>2, <1>3, <1>5, <2>1 DEF RequestsOK, HandlesOK
  <2>2. ASSUME NEW s \in Req, req'[s].op = "close"
        PROVE  req'[s].fh # None /\ \A t \in Req \ {s} : req'[t].fh # req'[s].fh
    <3>1. req'[s] = req[s]
      BY <1>2, <1>5, <2>2
    <3>2. req[s].fh # h
      BY <1>3, <2>2, <3>1 DEF Closing
    <3>3. req[s].fh # None /\ \A t \in Req \ {s} : req[t].fh # req[s].fh
      BY <1>0, <2>2, <3>1 DEF RequestsOK, HandlesOK
    <3> QED
      BY <1>2, <1>5, <3>1, <3>2, <3>3
  <2>3. \A s \in Req : req'[s].op \in {"resize", "set"} => req'[s].flag
    BY <1>0, <1>2, <1>5 DEF RequestsOK, HandlesOK
  <2> QED
    BY <2>1, <2>2, <2>3 DEF RequestsOK, HandlesOK
<1>13. CutOK'
    BY <1>0, <1>3 DEF CutOK
<1>14. \A s \in Req, k \in Ino : req'[s].ino = k => OpenKept(s, k)
    BY <1>2, <1>5, <1>8 DEF OpenKept, OpenAt
<1> QED
    BY <1>10, <1>11, <1>12, <1>13, <1>14, LocalKeeping

\* Steps that end a request.
LEMMA EndingKept ==
    ASSUME LocalInv, TypeOK', NEW r \in Req,
           \A s \in Req : req'[s] = IF s = r THEN Idle ELSE req[s]
    PROVE  /\ \A s \in Req : HandleKept(s)
           /\ \A i \in Ino : i # req[r].ino \/ req[r].op # "write" => (Writing(i) => Writing(i)')
           /\ \A i \in Ino : i # req[r].ino \/ req[r].op # "fetch" \/ ~req[r].flag
                             => (Emptying(i)' <=> Emptying(i))
<1>1. Idle.op = "idle" /\ Idle.fh = None
    BY DEF Idle
<1>2. \A s \in Req : HandleKept(s)
    BY <1>1 DEF HandleKept, LocalInv, RequestsOK, HandlesOK
<1> QED
    BY <1>1, <1>2 DEF Writing, Emptying

\* write(): then the file becomes dirty.
LEMMA LocalWriteDone ==
    ASSUME LocalInv, CacheInv', NEW r \in Req, WriteDone(r)
    PROVE  LocalInv'
<1> USE ValueAssumption
<1>0. TypeOK /\ TypeOK' /\ RequestsOK /\ CutOK /\ StagedOK /\ OpensOK
    BY DEF LocalInv, CacheInv
<1>1. PICK j \in Ino : j = req[r].ino
    BY <1>0, ReqFields DEF TypeOK, WriteDone
<1>2. req[r].op = "write" /\ Finish(r) /\ UNCHANGED <<disk, data, fd, cut>>
    BY DEF WriteDone, hvars
<1>3. table[j] \in Entry /\ table[j].gen \in Nat
    BY <1>0 DEF TypeOK, Entry
<1>4. /\ Written(table[j]).here = table[j].here /\ Written(table[j]).gen = table[j].gen + 1
      /\ Written(table[j]).nlink = table[j].nlink
    BY <1>3, OpFields, MoreFields
<1>5. \A i \in Ino : table'[i] = IF i = j /\ table[j].here THEN Written(table[j]) ELSE table[i]
    BY <1>0, <1>1 DEF TypeOK, WriteDone
<1>6. \A s \in Req : req'[s] = IF s = r THEN Idle ELSE req[s]
    BY <1>0, <1>2, Ending
<1>7. /\ \A s \in Req : HandleKept(s)
      /\ \A i \in Ino : i # j => (Writing(i) => Writing(i)')
      /\ \A i \in Ino : Emptying(i)' <=> Emptying(i)
    BY <1>0, <1>1, <1>2, <1>6, EndingKept
<1>8. \A i \in Ino : HasOpenHandles(i)' <=> HasOpenHandles(i)
    BY <1>2 DEF HasOpenHandles, Handles
<1>9. HasOpenHandles(j)
    BY <1>1, <1>2, WritersOpen DEF Writing
<1>10. \A i \in Ino \ {j} : EntryKept(i) /\ ContentKept(i)
    BY <1>2, <1>5, <1>7, <1>8 DEF EntryKept, SameEntry, ContentKept
<1>11. Linked(j)' => Linked(j) /\ Dirty(j)' /\ ~Pristine(j)'
    BY <1>3, <1>4, <1>5 DEF Linked, Dirty, Pristine
<1>12. FileKept(j)
    BY <1>0, <1>2, <1>9, <1>11 DEF FileKept, StagedOK, StagedAt
<1>13. ASSUME NEW s \in Req, req'[s].ino = j, Linked(j)' PROVE OpenAt(s, j)'
  <2>1. CASE s = r
    BY <1>6, <2>1, BlankFields DEF OpenAt
  <2>2. CASE s # r
    <3>1. req'[s] = req[s]
      BY <1>6, <2>2
    <3>2. OpenAt(s, j) /\ ~Pristine(j)
      BY <1>0, <1>9, <1>11, <1>13, <3>1 DEF OpensOK, StagedOK, StagedAt
    <3> QED
      BY <1>11, <1>13, <3>1, <3>2 DEF OpenAt
  <2> QED
    BY <2>1, <2>2
<1>14. \A s \in Req, i \in Ino : req'[s].ino = i => OpenKept(s, i)
    BY <1>6, <1>10, <1>13, BlankFields DEF OpenKept, OpenAt
<1>15. RequestsOK'
    BY <1>0, <1>2, <1>7, RequestsFrame DEF FdKept
<1>16. CutOK'
  <2>1. \A i \in Ino : table'[i].here = table[i].here
    BY <1>4, <1>5
  <2>2. \A h \in cut : fd[h] \in Ino
    BY <1>0 DEF TypeOK, CutOK
  <2> QED
    BY <1>0, <1>2, <2>1, <2>2 DEF CutOK
<1> QED
    BY <1>10, <1>12, <1>14, <1>15, <1>16, LocalKeeping DEF FileKept

\* release(): then the handle goes, and an orphan with its last one.
LEMMA LocalReleaseDone ==
    ASSUME LocalInv, CacheInv', ~GcArmed, NEW r \in Req, ReleaseDone(r)
    PROVE  LocalInv'
<1> USE ValueAssumption
<1>0. TypeOK /\ TypeOK' /\ RequestsOK /\ CutOK /\ UsedOK
    BY DEF LocalInv, CacheInv
<1>1. PICK j \in Ino : j = req[r].ino
    BY <1>0, ReqFields DEF TypeOK, ReleaseDone
<1>2. PICK h \in Handle : h = req[r].fh
    BY <1>0 DEF RequestsOK, HandlesOK, ReleaseDone
<1>3. /\ req[r].op = "close" /\ fd' = [fd EXCEPT ![h] = None] /\ cut' = cut \ {h}
      /\ UNCHANGED data /\ req' = [req EXCEPT ![r] = Idle]
      /\ \/ UNCHANGED <<table, disk>>
         \/ table' = [table EXCEPT ![j] = NoEntry] /\ disk' = [disk EXCEPT ![j] = None]
    BY <1>1, <1>2 DEF ReleaseDone, hvars
<1>4. \A s \in Req : req'[s] = IF s = r THEN Idle ELSE req[s]
    BY <1>0, <1>3 DEF TypeOK
<1>5. /\ \A s \in Req : HandleKept(s)
      /\ \A i \in Ino : (Writing(i) => Writing(i)') /\ (Emptying(i)' <=> Emptying(i))
    BY <1>0, <1>3, <1>4, EndingKept
<1>6. \A x \in Handle : fd'[x] = IF x = h THEN None ELSE fd[x]
    BY <1>0, <1>3 DEF TypeOK
<1>7. \A i \in Ino : HasOpenHandles(i)' => HasOpenHandles(i)
    BY <1>6 DEF HasOpenHandles, Handles
<1>8. \A i \in Ino : \/ ~table'[i].here
                     \/ table'[i] = table[i] /\ disk'[i] = disk[i]
    BY <1>0, <1>3, BlankFields DEF TypeOK
<1>9. \A i \in Ino : ~Linked(i)' \/ (EntryKept(i) /\ ContentKept(i))
    BY <1>3, <1>5, <1>7, <1>8 DEF Linked, EntryKept, SameEntry, ContentKept
<1>10. \A s \in Req, i \in Ino : req'[s].ino = i => OpenKept(s, i)
    BY <1>4, <1>9, BlankFields DEF OpenKept, OpenAt
<1>11. \A s \in Req : req'[s].op \in {"write", "close"} => req'[s].fh # h
    BY <1>0, <1>2, <1>3, <1>4, BlankFields DEF RequestsOK, HandlesOK
<1>12. RequestsOK'
    BY <1>0, <1>5, <1>6, <1>11, RequestsFrame DEF FdKept
<1>13. CutOK'
  <2> SUFFICES ASSUME NEW x \in cut' PROVE fd'[x] # None /\ ~table'[fd'[x]].here
    BY DEF CutOK
  <2>1. x \in Handle /\ x # h /\ fd[x] \in Ino /\ ~table[fd[x]].here
    BY <1>0, <1>3 DEF CutOK, TypeOK
  <2> QED
    BY <1>6, <1>8, <2>1
<1> QED
    BY <1>9, <1>10, <1>12, <1>13, LocalKeeping DEF FileKept

\* create(): a new inode is dirty, with an empty staging file.
LEMMA LocalCreate ==
    ASSUME LocalInv, CacheInv', NEW p \in Path, NEW i \in Ino, NEW h \in Handle, Create(p, i, h)
    PROVE  LocalInv'
<1> USE ValueAssumption
<1>0. TypeOK /\ TypeOK' /\ RequestsOK /\ CutOK /\ UsedOK
    BY DEF LocalInv, CacheInv
<1>1. /\ i \notin used /\ fd[h] = None /\ UNCHANGED <<cut, req>>
      /\ fd' = [fd EXCEPT ![h] = i] /\ disk' = [disk EXCEPT ![i] = Empty]
      /\ data' = [data EXCEPT ![i] = Empty]
    BY DEF Create
<1>2. /\ table'[i].gen = 1 /\ disk'[i] = Empty /\ data'[i] = Empty
      /\ \A k \in Ino \ {i} : table'[k] = table[k] /\ disk'[k] = disk[k] /\ data'[k] = data[k]
    BY <1>0, <1>1 DEF TypeOK, Create
<1>3. \A x \in Handle : fd'[x] = IF x = h THEN i ELSE fd[x]
    BY <1>0, <1>1 DEF TypeOK
<1>4. \A k \in Ino \ {i} : HasOpenHandles(k)' => HasOpenHandles(k)
    BY <1>3 DEF HasOpenHandles, Handles
<1>5. \A k \in Ino : (Writing(k) => Writing(k)') /\ (Emptying(k)' <=> Emptying(k))
    BY <1>1 DEF Writing, Emptying
<1>6. \A k \in Ino \ {i} : EntryKept(k) /\ ContentKept(k)
    BY <1>2, <1>4, <1>5 DEF EntryKept, SameEntry, ContentKept
<1>7. Dirty(i)'
    BY <1>2 DEF Dirty
<1>8. StagedAt(i)'
    BY <1>2, <1>7 DEF StagedAt, Pristine
<1>9. \A s \in Req : req[s].ino = i => req[s].op = "idle"
    BY <1>0, <1>1 DEF UsedOK
<1>10. \A s \in Req, k \in Ino : req'[s].ino = k => OpenKept(s, k)
    BY <1>1, <1>6, <1>9 DEF OpenKept, OpenAt
<1>11. \A s \in Req : HandleKept(s)
    BY <1>0, <1>1 DEF HandleKept, RequestsOK, HandlesOK
<1>12. RequestsOK'
    BY <1>0, <1>1, <1>3, <1>11, RequestsFrame DEF FdKept
<1>13. CutOK'
  <2> SUFFICES ASSUME NEW x \in cut' PROVE fd'[x] # None /\ ~table'[fd'[x]].here
    BY DEF CutOK
  <2>1. x \in Handle /\ x # h /\ fd[x] \in Ino /\ fd[x] \in used /\ ~table[fd[x]].here
    BY <1>0, <1>1 DEF CutOK, TypeOK, UsedOK
  <2> QED
    BY <1>1, <1>2, <1>3, <2>1
<1> QED
    BY <1>6, <1>8, <1>10, <1>12, <1>13, LocalKeeping DEF FileKept

\* Steps of unlink and rename: entries lose their names or stay as they are, and
\* the request ends or goes on to drop a staging file.
LEMMA LocalNames ==
    ASSUME LocalInv, CacheInv', UNCHANGED <<disk, data, fd, cut>>, NEW r \in Req,
           req[r].op \in {"unlink", "renamed"},
           \A s \in Req : s # r => req'[s] = req[s],
           req'[r].op \in {"idle", "drop"}, req'[r].fh = None,
           \A i \in Ino : ~Linked(i)' \/ SameEntry(table[i], table'[i]),
           \A i \in Ino : table'[i].here => table[i].here
    PROVE  LocalInv'
<1> USE ValueAssumption
<1>0. TypeOK /\ TypeOK' /\ RequestsOK /\ CutOK
    BY DEF LocalInv, CacheInv
<1>1. \A i \in Ino : (Writing(i) => Writing(i)') /\ (Emptying(i)' <=> Emptying(i))
    BY DEF Writing, Emptying
<1>2. \A i \in Ino : ~Linked(i)' \/ (EntryKept(i) /\ ContentKept(i))
    BY <1>1 DEF EntryKept, ContentKept, HasOpenHandles, Handles
<1>3. \A s \in Req, i \in Ino : req'[s].ino = i => OpenKept(s, i)
    BY <1>2 DEF OpenKept, OpenAt
<1>4. \A s \in Req : HandleKept(s)
    BY <1>0 DEF HandleKept, RequestsOK, HandlesOK
<1>5. RequestsOK'
    BY <1>0, <1>4, RequestsFrame DEF FdKept
<1>6. CutOK'
  <2>1. \A x \in cut : fd[x] \in Ino
    BY <1>0 DEF TypeOK, CutOK
  <2> QED
    BY <1>0, <2>1 DEF CutOK
<1> QED
    BY <1>2, <1>3, <1>5, <1>6, LocalKeeping DEF FileKept

\* unlink() takes the name, and the inode when nobody has it open.
LEMMA LocalUnlink ==
    ASSUME LocalInv, CacheInv', NEW r \in Req, UnlinkLocal(r)
    PROVE  LocalInv'
<1> USE ValueAssumption
<1>0. TypeOK
    BY DEF LocalInv, CacheInv
<1>1. PICK j \in Ino : j = req[r].ino
    BY <1>0, ReqFields DEF TypeOK, UnlinkLocal
<1> DEFINE drop == [Idle EXCEPT !.op = "drop", !.ino = j]
<1>2. drop.op = "drop" /\ drop.fh = None /\ Idle.op = "idle" /\ Idle.fh = None
    BY DEF Idle
<1>3. /\ req[r].op = "unlink" /\ UNCHANGED <<disk, data, fd, cut>>
      /\ req' = [req EXCEPT ![r] = Idle] \/ req' = [req EXCEPT ![r] = drop]
      /\ \/ table' = table
         \/ table' = [table EXCEPT ![j] = UnlinkOne(table[j])]
         \/ table' = [table EXCEPT ![j] = NoEntry]
    BY <1>1 DEF UnlinkLocal, hvars
<1> HIDE DEF drop
<1>4. /\ \A s \in Req : s # r => req'[s] = req[s]
      /\ req'[r] \in {Idle, drop}
    BY <1>0, <1>3 DEF TypeOK
<1>5. /\ UnlinkOne(table[j]).nlink = 0 /\ UnlinkOne(table[j]).here = table[j].here
    BY <1>0, OpFields, MoreFields DEF TypeOK
<1>6. \A i \in Ino : table'[i] = table[i] \/ (i = j /\ table'[i] \in {UnlinkOne(table[j]), NoEntry})
    BY <1>0, <1>3 DEF TypeOK
<1>7. \A i \in Ino : ~Linked(i)' \/ SameEntry(table[i], table'[i])
    BY <1>5, <1>6, BlankFields DEF Linked, SameEntry
<1>8. \A i \in Ino : table'[i].here => table[i].here
    BY <1>5, <1>6, BlankFields
<1> QED
    BY <1>2, <1>3, <1>4, <1>7, <1>8, LocalNames

\* rename() moves the name, and takes the target's.
LEMMA LocalRename ==
    ASSUME LocalInv, CacheInv', NEW r \in Req, RenameLocal(r)
    PROVE  LocalInv'
<1> USE ValueAssumption
<1> DEFINE q == req[r]
           j == q.ino
           target == LookupChild(q.to) \ {j}
           gone == {k \in target : ~HasOpenHandles(k)}
           drop == [Idle EXCEPT !.op = "drop", !.ino = CHOOSE k \in gone : TRUE]
<1>0. TypeOK
    BY DEF LocalInv, CacheInv
<1>1. drop.op = "drop" /\ drop.fh = None /\ Idle.op = "idle" /\ Idle.fh = None
    BY DEF Idle
<1>2. q.op = "renamed" /\ UNCHANGED <<disk, data, fd, cut>>
    BY ZenonT(30) DEF RenameLocal, hvars
<1>3. \/ UNCHANGED table /\ req' = [req EXCEPT ![r] = Idle]
      \/ /\ table' = [k \in Ino |->
               IF k = j THEN Moved(table[j], q) ELSE IF k \in gone THEN NoEntry
               ELSE IF k \in target THEN UnlinkOne(table[k]) ELSE table[k]]
         /\ req' = [req EXCEPT ![r] = IF gone = {} THEN Idle ELSE drop]
    BY ZenonT(30) DEF RenameLocal, Finish
<1> HIDE DEF gone, target, drop
<1>4. /\ \A s \in Req : s # r => req'[s] = req[s]
      /\ req'[r] \in {Idle, drop}
    BY <1>0, <1>3 DEF TypeOK
<1>5. \A k \in Ino : /\ UnlinkOne(table[k]).nlink = 0 /\ UnlinkOne(table[k]).here = table[k].here
    BY <1>0, OpFields, MoreFields DEF TypeOK
<1>6. \A k \in Ino : SameEntry(table[k], Moved(table[k], q))
  <2> TAKE k \in Ino
  <2> DEFINE e == table[k]
  <2>1. e \in Entry
    BY <1>0 DEF TypeOK
  <2> HIDE DEF e
  <2>2. SameEntry(e, Moved(e, q))
    BY <2>1 DEF SameEntry, Moved, Entry
  <2> QED
    BY <2>2 DEF e
<1>7. \A k \in Ino : \/ table'[k] = table[k] \/ table'[k] = NoEntry
                     \/ table'[k] = UnlinkOne(table[k]) \/ table'[k] = Moved(table[k], q)
    BY <1>3
<1>8. \A i \in Ino : ~Linked(i)' \/ SameEntry(table[i], table'[i])
    BY <1>5, <1>6, <1>7, BlankFields DEF Linked, SameEntry
<1>9. \A i \in Ino : table'[i].here => table[i].here
    BY <1>5, <1>6, <1>7, BlankFields DEF SameEntry
<1> QED
    BY <1>1, <1>2, <1>4, <1>8, <1>9, LocalNames

\* drop_locked(): the inode is gone.
LEMMA LocalDrop ==
    ASSUME LocalInv, CacheInv', NEW r \in Req, DropLocked(r)
    PROVE  LocalInv'
<1> USE ValueAssumption
<1>0. TypeOK /\ TypeOK' /\ RequestsOK /\ CutOK /\ DropsOK
    BY DEF LocalInv, CacheInv
<1>1. PICK j \in Ino : j = req[r].ino
    BY <1>0, ReqFields DEF TypeOK, DropLocked
<1>2. /\ req[r].op = "drop" /\ ~table[j].here /\ Finish(r) /\ UNCHANGED <<table, data, fd>>
      /\ disk' = [disk EXCEPT ![j] = None] /\ cut' = cut \cup Handles(j)
    BY <1>0, <1>1 DEF DropLocked, Unstage, DropsOK, hvars
<1>3. \A s \in Req : req'[s] = IF s = r THEN Idle ELSE req[s]
    BY <1>0, <1>2, Ending
<1>4. /\ \A s \in Req : HandleKept(s)
      /\ \A i \in Ino : (Writing(i) => Writing(i)') /\ (Emptying(i)' <=> Emptying(i))
    BY <1>0, <1>2, <1>3, EndingKept
<1>5. ~Linked(j)' /\ \A i \in Ino \ {j} : disk'[i] = disk[i]
    BY <1>0, <1>2 DEF TypeOK, Linked
<1>6. \A i \in Ino : ~Linked(i)' \/ (EntryKept(i) /\ ContentKept(i))
    BY <1>2, <1>4, <1>5 DEF EntryKept, SameEntry, ContentKept, HasOpenHandles, Handles
<1>7. \A s \in Req, i \in Ino : req'[s].ino = i => OpenKept(s, i)
    BY <1>3, <1>6, BlankFields DEF OpenKept, OpenAt
<1>8. RequestsOK'
    BY <1>0, <1>2, <1>4, RequestsFrame DEF FdKept
<1>9. CutOK'
    BY <1>0, <1>2 DEF CutOK, Handles
<1> QED
    BY <1>6, <1>7, <1>8, <1>9, LocalKeeping DEF FileKept

\* apply_commit(): an item whose generation still matches was dirty until now, so
\* its staging file was its content and, unless a write is under way, still is
\* what was uploaded.
LEMMA LocalApply ==
    ASSUME LocalInv, CacheInv', FlushUnchanged \/ FlushApply
    PROVE  LocalInv'
<1> USE ValueAssumption
<1> DEFINE S == IF FlushApply THEN Items ELSE Unchanged
<1>0. TypeOK /\ TypeOK' /\ RequestsOK /\ CutOK /\ StagedOK /\ OpensOK /\ ItemsOK
    BY DEF LocalInv, CacheInv
<1>1. /\ UNCHANGED <<disk, data, fd, cut, req>>
      /\ \A i \in Ino : table'[i] = IF i \in S THEN ApplyCommit(table[i], snap[i]) ELSE table[i]
      /\ fpc \in Carrying
    BY DEF FlushUnchanged, FlushApply, Carrying, hvars
<1>2. \A i \in S : i \in Ino /\ InFlight(i) /\ i \in Items
    BY <1>1 DEF Items, Unchanged, InFlight, Carrying
<1> HIDE DEF S
<1>3. \A i \in Ino : table[i] \in Entry /\ snap[i] \in Item
    BY <1>0 DEF TypeOK
<1>4. ASSUME NEW i \in Ino
      PROVE  \/ table'[i] = table[i]
             \/ /\ i \in S /\ Matches(i)
                /\ table'[i].here = table[i].here /\ table'[i].nlink = table[i].nlink
                /\ table'[i].gen = 0 /\ table'[i].hash = snap[i].up /\ table'[i].cur
  <2> DEFINE e == table[i]
             it == snap[i]
  <2>1. e \in Entry /\ it \in Item
    BY <1>3
  <2>2. Matches(i) <=> e.here /\ e.gen = it.gen
    BY DEF Matches
  <2> HIDE DEF e, it
  <2>3. \/ ApplyCommit(e, it) = e
        \/ /\ e.here /\ e.gen = it.gen
           /\ ApplyCommit(e, it).here = e.here /\ ApplyCommit(e, it).nlink = e.nlink
           /\ ApplyCommit(e, it).gen = 0 /\ ApplyCommit(e, it).hash = it.up
           /\ ApplyCommit(e, it).cur
    BY <2>1 DEF ApplyCommit, Entry, Item
  <2> QED
    BY <1>1, <2>2, <2>3 DEF e, it
<1>5. \A i \in Ino : /\ Writing(i)' <=> Writing(i)
                     /\ Emptying(i)' <=> Emptying(i)
                     /\ HasOpenHandles(i)' <=> HasOpenHandles(i)
    BY <1>1 DEF Writing, Emptying, HasOpenHandles, Handles
<1>6. ASSUME NEW i \in Ino, table'[i] # table[i], Linked(i)'
      PROVE  StagedAt(i)' /\ \A s \in Req : req'[s].ino = i => OpenAt(s, i)'
  <2>1. /\ i \in S /\ Matches(i) /\ Linked(i)
        /\ table'[i].gen = 0 /\ table'[i].hash = snap[i].up /\ table'[i].cur
    BY <1>4, <1>6 DEF Linked
  <2>2. Dirty(i)
    BY <1>0, <1>2, <2>1 DEF Matches, ItemsOK, Dirty
  <2>3. ~Pristine(i) /\ ~Pristine(i)'
    BY <2>1, <2>2 DEF Pristine
  <2>4. disk[i] = snap[i].up \/ Writing(i)
    BY <1>0, <1>2, <2>1 DEF ItemsOK
  <2>5. disk[i] = data[i] /\ data[i] # None
    BY <1>0, <2>1, <2>2 DEF StagedOK, StagedAt
  <2>6. StagedAt(i)'
    BY <1>1, <1>5, <2>1, <2>3, <2>4, <2>5 DEF StagedAt
  <2>7. ASSUME NEW s \in Req, req'[s].ino = i PROVE OpenAt(s, i)'
    <3>1. OpenAt(s, i)
      BY <1>0, <1>1, <2>7 DEF OpensOK
    <3> QED
      BY <1>1, <2>1, <2>3, <3>1 DEF OpenAt
  <2> QED
    BY <2>6, <2>7
<1>7. \A i \in Ino : table'[i] = table[i] => EntryKept(i) /\ ContentKept(i)
    BY <1>1, <1>5 DEF EntryKept, SameEntry, ContentKept
<1>8. \A i \in Ino : FileKept(i)
    BY <1>6, <1>7 DEF FileKept
<1>9. \A s \in Req, i \in Ino : req'[s].ino = i => OpenKept(s, i)
    BY <1>1, <1>6, <1>7 DEF OpenKept
<1>10. RequestsOK'
    BY <1>0, <1>1 DEF RequestsOK, HandlesOK
<1>11. CutOK'
  <2>1. \A x \in cut : fd[x] \in Ino
    BY <1>0 DEF TypeOK, CutOK
  <2> QED
    BY <1>0, <1>1, <1>4, <2>1 DEF CutOK
<1> QED
    BY <1>8, <1>9, <1>10, <1>11, LocalKeeping

\* A pristine file's hash is its content.
LEMMA PristineHash ==
    ASSUME LocalInv, NEW i \in Ino, Pristine(i)
    PROVE  /\ table[i].hash = data[i] /\ data[i] # None
           /\ table[i].zero => data[i] = Empty
<1>1. StagedAt(i) /\ Linked(i) /\ ~Dirty(i)
    BY DEF LocalInv, StagedOK, Pristine
<1>2. ~Writing(i)
    BY <1>1, WritersOpen DEF StagedAt
<1> QED
    BY <1>1, <1>2 DEF StagedAt

\* open_advanced_write(): with the lock, nobody else is downloading or truncating.
LEMMA LocalOpenLock ==
    ASSUME LocalInv, CacheInv', NEW r \in Req, OpenLock(r)
    PROVE  LocalInv'
<1> USE ValueAssumption, BlankFields
<1>0. TypeOK /\ TypeOK' /\ RequestsOK /\ CutOK /\ StagedOK /\ OpensOK /\ LocksOK
    BY DEF LocalInv, CacheInv
<1>1. PICK j \in Ino : j = req[r].ino
    BY <1>0, ReqFields DEF TypeOK, OpenLock
<1>2. PICK e \in Entry : e = table[j]
    BY <1>0 DEF TypeOK
<1> DEFINE reuse == ~req[r].flag /\ (e.gen > 0 \/ e.cur) /\ disk[j] # None
           new == [req[r] EXCEPT !.op = "fetch", !.reuse = reuse]
<1>3. /\ req[r].op = "open" /\ lock[j] = None /\ UNCHANGED <<disk, data, fd, cut>>
      /\ \/ ~e.here /\ Finish(r) /\ UNCHANGED table
         \/ /\ e.here /\ req' = [req EXCEPT ![r] = new]
            /\ table' = IF reuse THEN table ELSE [table EXCEPT ![j] = NotCurrent(e)]
    BY <1>1, <1>2 DEF OpenLock, hvars
<1>4. CASE ~e.here /\ Finish(r) /\ UNCHANGED table
  <2>1. \A s \in Req : req'[s] = IF s = r THEN Idle ELSE req[s]
    BY <1>0, <1>4, Ending
  <2>2. \A s \in Req : HandleKept(s)
    BY <1>0, <1>3, <2>1, EndingKept
  <2>3. \A s \in Req : QuietReq(s)
    BY <1>3, <2>1 DEF QuietReq
  <2>4. RequestsOK'
    BY <1>0, <1>3, <2>2, RequestsFrame DEF FdKept
  <2> QED
    BY <1>3, <1>4, <2>3, <2>4, LocalQuiet
<1>5. CASE /\ e.here /\ req' = [req EXCEPT ![r] = new]
           /\ table' = IF reuse THEN table ELSE [table EXCEPT ![j] = NotCurrent(e)]
  <2>0. reuse \in BOOLEAN
    OBVIOUS
  <2>1. /\ new.op = "fetch" /\ new.reuse = reuse /\ new.ino = j /\ new.fh = req[r].fh
        /\ new.hash = req[r].hash /\ new.zero = req[r].zero /\ new.flag = req[r].flag
    <3>1. req[r] \in ReqState
      BY <1>0 DEF TypeOK
    <3> HIDE DEF reuse
    <3> QED
      BY <1>1, <3>1 DEF ReqState
  <2> HIDE DEF new
  <2>2. \A s \in Req : req'[s] = IF s = r THEN new ELSE req[s]
    BY <1>0, <1>5 DEF TypeOK
  <2>3. /\ NotCurrent(e).here = e.here /\ NotCurrent(e).nlink = e.nlink
        /\ NotCurrent(e).gen = e.gen /\ NotCurrent(e).hash = e.hash
        /\ NotCurrent(e).zero = e.zero /\ NotCurrent(e).cur = FALSE
    BY OpFields, MoreFields
  <2>4. \A i \in Ino : table'[i] = IF i = j /\ ~reuse THEN NotCurrent(e) ELSE table[i]
    BY <1>0, <1>5 DEF TypeOK
  <2>5. \A s \in Req : req[s].op = "fetch" => req[s].ino # j
    BY <1>0, <1>3 DEF LocksOK
  <2>6. ~Emptying(j) /\ (Emptying(j)' <=> req[r].flag)
    BY <2>1, <2>2, <2>5 DEF Emptying
  <2>7. \A i \in Ino : Writing(i) => Writing(i)'
    BY <1>3, <2>2 DEF Writing
  <2>8. \A i \in Ino : HasOpenHandles(i)' <=> HasOpenHandles(i)
    BY <1>3 DEF HasOpenHandles, Handles
  <2>9. \A i \in Ino \ {j} : Emptying(i)' <=> Emptying(i)
    BY <1>1, <2>1, <2>2 DEF Emptying
  <2>10. \A i \in Ino \ {j} : EntryKept(i) /\ ContentKept(i)
    BY <1>3, <2>4, <2>7, <2>8, <2>9 DEF EntryKept, SameEntry, ContentKept
  <2>11. /\ Linked(j)' <=> Linked(j)
         /\ Dirty(j)' <=> Dirty(j)
         /\ table'[j].hash = table[j].hash /\ table'[j].zero = table[j].zero
         /\ table'[j].cur => table[j].cur
    BY <1>2, <2>3, <2>4 DEF Linked, Dirty
  <2>12. Linked(j) /\ (Dirty(j) \/ table[j].cur) => disk[j] # None
    BY <1>0 DEF StagedOK, StagedAt
  <2>13. reuse <=> ~req[r].flag /\ (Dirty(j) \/ table[j].cur) /\ disk[j] # None
    BY <1>2 DEF Dirty
  <2> HIDE DEF reuse
  <2>14. Pristine(j)' => Pristine(j)
    BY <2>4, <2>6, <2>11, <2>12, <2>13 DEF Pristine
  <2>15. ~req[r].flag /\ ~reuse /\ Linked(j) => Pristine(j)'
    BY <2>3, <2>4, <2>6, <2>11, <2>12, <2>13 DEF Pristine
  <2>16. StagedAt(j)
    BY <1>0 DEF StagedOK
  <2>17. StagedAt(j)'
    BY <1>3, <2>7, <2>8, <2>11, <2>14, <2>16 DEF StagedAt
  <2>18. ASSUME NEW s \in Req, req'[s].ino = j PROVE OpenAt(s, j)'
    <3>1. req[s].ino = j
      BY <1>1, <2>2, <2>18
    <3>2. OpenAt(s, j)
      BY <1>0, <3>1 DEF OpensOK
    <3>3. CASE s = r
      <4>1. reuse => Dirty(j)' \/ table'[j].cur
        BY <2>4, <2>11, <2>13
      <4> QED
        BY <1>3, <2>1, <2>2, <2>11, <2>13, <2>14, <2>15, <3>2, <3>3, <4>1 DEF OpenAt
    <3>4. CASE s # r
      BY <2>2, <2>5, <2>11, <2>14, <3>1, <3>2, <3>4 DEF OpenAt
    <3> QED
      BY <3>3, <3>4
  <2>19. \A s \in Req, i \in Ino : req'[s].ino = i => OpenKept(s, i)
    <3> TAKE s \in Req, i \in Ino
    <3>1. CASE i = j
      BY <2>18, <3>1 DEF OpenKept
    <3>2. CASE i # j
      BY <2>1, <2>2, <2>10, <3>2 DEF OpenKept
    <3> QED
      BY <3>1, <3>2
  <2>20. \A s \in Req : HandleKept(s)
    BY <1>0, <2>1, <2>2 DEF HandleKept, RequestsOK, HandlesOK
  <2>21. RequestsOK'
    BY <1>0, <1>3, <2>20, RequestsFrame DEF FdKept
  <2>22. CutOK'
    <3>1. \A x \in cut : fd[x] \in Ino
      BY <1>0 DEF TypeOK, CutOK
    <3> QED
      BY <1>0, <1>2, <1>3, <2>3, <2>4, <3>1 DEF CutOK
  <2>23. \A i \in Ino : FileKept(i)
    BY <2>10, <2>17 DEF FileKept
  <2> QED
    BY <2>19, <2>21, <2>22, <2>23, LocalKeeping
<1> QED
    BY <1>3, <1>4, <1>5

\* A request that holds the staging lock is the only one that downloads or
\* truncates the file.
LEMMA Exclusive ==
    ASSUME LocalInv, NEW r \in Req, req[r].op \in {"fetch", "set"},
           NEW s \in Req, s # r, req[s].op = "fetch"
    PROVE  req[s].ino # req[r].ino
BY DEF LocalInv, CacheInv, LocksOK

\* open(2) ends: the file is dirty, and its staging file is its content.
LEMMA LocalOpenDone ==
    ASSUME LocalInv, CacheInv', NEW r \in Req, NEW h \in Handle, OpenDone(r, h)
    PROVE  LocalInv'
<1> USE ValueAssumption, BlankFields
<1>0. TypeOK /\ TypeOK' /\ RequestsOK /\ CutOK /\ StagedOK /\ OpensOK
    BY DEF LocalInv, CacheInv
<1>1. PICK j \in Ino : j = req[r].ino
    BY <1>0, ReqFields DEF TypeOK, OpenDone
<1>2. PICK q \in ReqState : q = req[r]
    BY <1>0 DEF TypeOK
<1>3. PICK e \in Entry : e = table[j]
    BY <1>0 DEF TypeOK
<1> DEFINE base == IF q.reuse THEN disk[j] ELSE IF NeedsDownload(q) THEN q.hash ELSE Empty
           mirrors == /\ ~q.reuse
                      /\ NeedsDownload(q) \/ (q.hash = None /\ q.zero)
                      /\ e.hash = q.hash
<1>4. /\ q.op = "fetch" /\ base # None /\ disk' = [disk EXCEPT ![j] = base]
      /\ Finish(r) /\ UNCHANGED cut
      /\ ~e.here => UNCHANGED <<table, fd, data>>
      /\ e.here => /\ fd[h] = None /\ fd' = [fd EXCEPT ![h] = j]
                   /\ table' = [table EXCEPT ![j] = Opened(e, mirrors, q.flag)]
                   /\ data' = [data EXCEPT ![j] = IF q.flag THEN Empty ELSE @]
    BY <1>1, <1>2, <1>3 DEF OpenDone
<1>5. mirrors \in BOOLEAN /\ q.flag \in BOOLEAN
    BY ReqFields
<1> HIDE DEF mirrors
<1>6. /\ Opened(e, mirrors, q.flag).here = e.here /\ Opened(e, mirrors, q.flag).gen = e.gen + 1
      /\ Opened(e, mirrors, q.flag).nlink = e.nlink /\ e.gen \in Nat
  <2>1. e.gen \in Nat
    BY DEF Entry
  <2>2. \A m, t \in BOOLEAN : /\ Opened(e, m, t).here = e.here
                              /\ Opened(e, m, t).gen = e.gen + 1
    BY OpFields
  <2>3. \A m, t \in BOOLEAN : Opened(e, m, t).nlink = e.nlink
    BY MoreFields
  <2> QED
    BY Zenon, <1>5, <2>1, <2>2, <2>3
<1>7. \A i \in Ino : table'[i] = IF i = j /\ e.here THEN Opened(e, mirrors, q.flag) ELSE table[i]
    BY <1>0, <1>3, <1>4 DEF TypeOK
<1>8. /\ disk'[j] = base
      /\ \A i \in Ino \ {j} : disk'[i] = disk[i] /\ data'[i] = data[i]
      /\ e.here => data'[j] = IF q.flag THEN Empty ELSE data[j]
    BY <1>0, <1>4 DEF TypeOK
<1>9. \A x \in Handle : fd'[x] = fd[x] \/ (fd[x] = None /\ fd'[x] = j)
    BY <1>0, <1>4 DEF TypeOK
<1>10. \A i \in Ino \ {j} : HasOpenHandles(i)' => HasOpenHandles(i)
    BY <1>9 DEF HasOpenHandles, Handles
<1>11. \A s \in Req : req'[s] = IF s = r THEN Idle ELSE req[s]
    BY <1>0, <1>4, Ending
<1>12. /\ \A s \in Req : HandleKept(s)
       /\ \A i \in Ino : Writing(i) => Writing(i)'
       /\ \A i \in Ino \ {j} : Emptying(i)' <=> Emptying(i)
    BY <1>0, <1>1, <1>2, <1>4, <1>11, EndingKept
<1>13. \A i \in Ino \ {j} : EntryKept(i) /\ ContentKept(i)
    BY <1>7, <1>8, <1>10, <1>12 DEF EntryKept, SameEntry, ContentKept
<1>14. Linked(j)' => Linked(j) /\ e.here /\ Dirty(j)' /\ ~Pristine(j)'
    BY <1>3, <1>6, <1>7 DEF Linked, Dirty, Pristine
<1>15. ASSUME Linked(j), ~q.flag PROVE base = data[j]
  <2>1. OpenAt(r, j) /\ StagedAt(j)
    BY <1>0, <1>1 DEF OpensOK, StagedOK
  <2>2. CASE q.reuse
    BY <1>2, <1>4, <1>15, <2>1, <2>2 DEF OpenAt, StagedAt
  <2>3. CASE ~q.reuse
    <3>1. Pristine(j)
      BY <1>2, <1>4, <1>15, <2>1, <2>3 DEF OpenAt
    <3>2. q.hash = table[j].hash /\ q.zero = table[j].zero
      BY <1>2, <1>4, <2>1, <3>1 DEF OpenAt
    <3>3. /\ table[j].hash = data[j] /\ data[j] # None
          /\ table[j].zero => data[j] = Empty
      BY <3>1, PristineHash
    <3> QED
      BY <1>15, <2>3, <3>2, <3>3 DEF NeedsDownload
  <2> QED
    BY <2>2, <2>3
<1>16. q.flag /\ Linked(j) => base = Empty
  <2>1. OpenAt(r, j)
    BY <1>0, <1>1 DEF OpensOK
  <2>2. q.flag /\ Linked(j) => ~q.reuse
    BY <1>2, <1>4, <2>1 DEF OpenAt
  <2> QED
    BY <2>2 DEF NeedsDownload
<1>17. FileKept(j)
  <2>1. CASE Linked(j)'
    <3>1. disk'[j] = data'[j] /\ data'[j] # None
      BY <1>4, <1>8, <1>14, <1>15, <1>16, <2>1
    <3> QED
      BY <1>14, <2>1, <3>1 DEF FileKept, StagedAt
  <2>2. CASE ~Linked(j)'
    BY <2>2 DEF FileKept
  <2> QED
    BY <2>1, <2>2
<1>18. ASSUME NEW s \in Req, req'[s].ino = j, Linked(j)' PROVE OpenAt(s, j)'
  <2>1. req'[s].op # "fetch"
    BY <1>1, <1>2, <1>4, <1>11, <1>18, Exclusive
  <2> QED
    BY <1>14, <1>18, <2>1 DEF OpenAt
<1>19. \A s \in Req, i \in Ino : req'[s].ino = i => OpenKept(s, i)
  <2> TAKE s \in Req, i \in Ino
  <2>1. CASE i = j
    BY <1>18, <2>1 DEF OpenKept
  <2>2. CASE i # j
    BY <1>11, <1>13, <2>2 DEF OpenKept, OpenAt
  <2> QED
    BY <2>1, <2>2
<1>20. RequestsOK'
    BY <1>0, <1>9, <1>12, RequestsFrame DEF FdKept
<1>21. CutOK'
  <2>1. \A x \in cut : x \in Handle /\ fd[x] \in Ino /\ fd[x] # None /\ ~table[fd[x]].here
    BY <1>0 DEF TypeOK, CutOK
  <2>2. \A i \in Ino : table'[i].here = table[i].here
    BY <1>3, <1>6, <1>7
  <2> QED
    BY <1>4, <1>9, <2>1, <2>2 DEF CutOK
<1> QED
    BY <1>13, <1>17, <1>19, <1>20, <1>21, LocalKeeping DEF FileKept

\* EIO: what a failed download leaves behind is in nobody's way.
LEMMA LocalOpenFail ==
    ASSUME LocalInv, CacheInv', NEW r \in Req, OpenFail(r)
    PROVE  LocalInv'
<1> USE ValueAssumption, BlankFields
<1>0. TypeOK /\ TypeOK' /\ RequestsOK /\ CutOK /\ StagedOK /\ OpensOK
    BY DEF LocalInv, CacheInv
<1>1. PICK j \in Ino : j = req[r].ino
    BY <1>0, ReqFields DEF TypeOK, OpenFail
<1>2. /\ req[r].op = "fetch" /\ Finish(r) /\ UNCHANGED <<table, data, fd, cut>>
      /\ \/ req[r].reuse /\ disk[j] = None /\ UNCHANGED disk
         \/ NeedsDownload(req[r]) /\ \E x : disk' = [disk EXCEPT ![j] = x]
    BY <1>1 DEF OpenFail
<1>3. \A s \in Req : req'[s] = IF s = r THEN Idle ELSE req[s]
    BY <1>0, <1>2, Ending
<1>4. OpenAt(r, j) /\ StagedAt(j)
    BY <1>0, <1>1 DEF OpensOK, StagedOK
<1>5. Linked(j) => ~req[r].flag /\ Pristine(j)
  <2>1. CASE req[r].reuse /\ disk[j] = None
    BY <1>2, <1>4, <2>1 DEF OpenAt, StagedAt
  <2>2. CASE NeedsDownload(req[r])
    BY <1>2, <1>4, <2>2 DEF OpenAt, NeedsDownload
  <2> QED
    BY <1>2, <2>1, <2>2
<1>6. /\ \A s \in Req : HandleKept(s)
      /\ \A i \in Ino : Writing(i) => Writing(i)'
      /\ \A i \in Ino : i # j \/ Linked(j) => (Emptying(i)' <=> Emptying(i))
    BY <1>0, <1>1, <1>2, <1>3, <1>5, EndingKept
<1>7. \A i \in Ino : i # j => disk'[i] = disk[i]
    BY <1>0, <1>2 DEF TypeOK
<1>8. \A i \in Ino : ~Linked(i)' \/ (EntryKept(i) /\ ContentKept(i))
    BY <1>2, <1>5, <1>6, <1>7
       DEF Linked, EntryKept, SameEntry, ContentKept, HasOpenHandles, Handles
<1>9. \A s \in Req, i \in Ino : req'[s].ino = i => OpenKept(s, i)
    BY <1>3, <1>8 DEF OpenKept, OpenAt
<1>10. RequestsOK'
    BY <1>0, <1>2, <1>6, RequestsFrame DEF FdKept
<1>11. CutOK'
    BY <1>0, <1>2 DEF CutOK
<1> QED
    BY <1>8, <1>9, <1>10, <1>11, LocalKeeping DEF FileKept

\* setattr(0) ends: the file is dirty and empty.
LEMMA LocalSetattrDone ==
    ASSUME LocalInv, CacheInv', NEW r \in Req, NEW c \in Content, SetattrDone(r, c)
    PROVE  LocalInv'
<1> USE ValueAssumption, BlankFields
<1>0. TypeOK /\ TypeOK' /\ RequestsOK /\ CutOK
    BY DEF LocalInv, CacheInv
<1>1. PICK j \in Ino : j = req[r].ino
    BY <1>0, ReqFields DEF TypeOK, SetattrDone
<1>2. req[r].op = "set" /\ req[r].flag = TRUE
  <2>1. req[r].op = "set"
    BY DEF SetattrDone
  <2>2. req[r].flag \in BOOLEAN /\ req[r].flag
    BY <1>0, <2>1, ReqFields DEF TypeOK, RequestsOK, HandlesOK
  <2> QED
    BY <2>1, <2>2
<1>3. PICK e \in Entry : e = table[j]
    BY <1>0 DEF TypeOK
<1>4. /\ c = Empty /\ disk' = [disk EXCEPT ![j] = Empty] /\ Finish(r) /\ UNCHANGED <<fd, cut>>
      /\ ~e.here => UNCHANGED <<table, data>>
      /\ e.here => /\ table' = [table EXCEPT ![j] = Resized(e, TRUE)]
                   /\ data' = [data EXCEPT ![j] = Empty]
    BY <1>1, <1>2, <1>3 DEF SetattrDone
<1>5. /\ Resized(e, TRUE).here = e.here /\ Resized(e, TRUE).gen = e.gen + 1
      /\ Resized(e, TRUE).nlink = e.nlink /\ e.gen \in Nat
    BY OpFields, MoreFields DEF Entry
<1>6. \A i \in Ino : table'[i] = IF i = j /\ e.here THEN Resized(e, TRUE) ELSE table[i]
    BY <1>0, <1>3, <1>4 DEF TypeOK
<1>7. /\ disk'[j] = Empty /\ (e.here => data'[j] = Empty)
      /\ \A i \in Ino \ {j} : disk'[i] = disk[i] /\ data'[i] = data[i]
    BY <1>0, <1>4 DEF TypeOK
<1>8. \A s \in Req : req'[s] = IF s = r THEN Idle ELSE req[s]
    BY <1>0, <1>4, Ending
<1>9. /\ \A s \in Req : HandleKept(s)
      /\ \A i \in Ino : (Writing(i) => Writing(i)') /\ (Emptying(i)' <=> Emptying(i))
    BY <1>0, <1>2, <1>8, EndingKept
<1>10. \A i \in Ino \ {j} : EntryKept(i) /\ ContentKept(i)
    BY <1>4, <1>6, <1>7, <1>9
       DEF EntryKept, SameEntry, ContentKept, HasOpenHandles, Handles
<1>11. Linked(j)' => e.here /\ Dirty(j)' /\ ~Pristine(j)'
  <2>1. Linked(j)' => e.here
    BY <1>3, <1>5, <1>6 DEF Linked
  <2>2. e.here => Dirty(j)'
    <3>1. e.here => table'[j].gen = e.gen + 1
      BY <1>5, <1>6
    <3> QED
      BY <1>5, <3>1 DEF Dirty
  <2> QED
    BY <2>1, <2>2 DEF Pristine
<1>12. FileKept(j)
    BY <1>7, <1>11 DEF FileKept, StagedAt
<1>13. ASSUME NEW s \in Req, req'[s].ino = j, Linked(j)' PROVE OpenAt(s, j)'
  <2>1. req'[s].op # "fetch"
    BY <1>1, <1>2, <1>8, <1>13, Exclusive
  <2> QED
    BY <1>11, <1>13, <2>1 DEF OpenAt
<1>14. \A s \in Req, i \in Ino : req'[s].ino = i => OpenKept(s, i)
  <2> TAKE s \in Req, i \in Ino
  <2>1. CASE i = j
    BY <1>13, <2>1 DEF OpenKept
  <2>2. CASE i # j
    BY <1>8, <1>10, <2>2 DEF OpenKept, OpenAt
  <2> QED
    BY <2>1, <2>2
<1>15. RequestsOK'
    BY <1>0, <1>4, <1>9, RequestsFrame DEF FdKept
<1>16. CutOK'
  <2>1. \A x \in cut : fd[x] \in Ino
    BY <1>0 DEF TypeOK, CutOK
  <2>2. \A i \in Ino : table'[i].here = table[i].here
    BY <1>3, <1>5, <1>6
  <2> QED
    BY <1>0, <1>4, <2>1, <2>2 DEF CutOK
<1> QED
    BY <1>10, <1>12, <1>14, <1>15, <1>16, LocalKeeping DEF FileKept

\* Every step of a mount that no other client writes to keeps LocalInv.
LEMMA LocalStep == ASSUME ~GcArmed PROVE LocalInv /\ [LocalNext]_vars => LocalInv'
<1> SUFFICES ASSUME LocalInv, [LocalNext]_vars PROVE LocalInv'
    OBVIOUS
<1>0. CacheInv'
  <2>1. CacheInv /\ [Next]_vars
    BY DEF LocalInv, Next
  <2> QED
    BY <2>1, CacheStep
<1>1. CASE UNCHANGED vars
    BY <1>0, <1>1, LocalFlushQuiet
<1>2. CASE Editing
    BY <1>0, <1>2, LocalStarts, LocalOpenLock, LocalOpenFail, LocalOpenDone, LocalPWrite,
       LocalWriteDone, LocalRelease, LocalReleaseDone, LocalFlushQuiet, LocalCreate DEF Editing
<1>3. CASE Truncating
  <2>1. ASSUME NEW r \in Req, SetattrFail(r) PROVE FALSE
    BY <2>1 DEF SetattrFail, NeedsDownload, LocalInv, RequestsOK, HandlesOK
  <2> QED
    BY <1>0, <1>3, <2>1, LocalStarts, LocalSetattrLock, LocalSetattrDone DEF Truncating
<1>4. CASE Unlinking \/ Renaming \/ Dropping
    BY <1>0, <1>4, LocalStarts, LocalUnlink, LocalRenameRemote, LocalRename, LocalDrop
       DEF Unlinking, Renaming, Dropping
<1>5. CASE FlushLoop \/ FlushDeletesFail
  <2>1. ASSUME NEW i \in Ino, FlushGcOne(i) PROVE FALSE
    BY <2>1 DEF FlushGcOne, LocalInv, CacheInv, DropsOK
  <2> QED
    BY <1>0, <1>5, <2>1, LocalFlushQuiet, LocalApply DEF FlushLoop
<1> QED
    BY <1>1, <1>2, <1>3, <1>4, <1>5 DEF LocalNext

\* The mount starts with one file, on the Hub only.
LEMMA LocalInit == Init => LocalInv
<1> SUFFICES ASSUME Init PROVE LocalInv
    OBVIOUS
<1> USE ValueAssumption, SeedAssumption, BlankFields
<1>1. CacheInv
    BY CacheInit
<1>2. \A r \in Req : req[r].op = "idle"
    BY DEF Init
<1>3. RequestsOK /\ CutOK /\ OpensOK
    BY <1>2 DEF Init, RequestsOK, HandlesOK, CutOK, OpensOK, OpenAt
<1>4. \A i \in Ino : ~HasOpenHandles(i)
    BY DEF Init, HasOpenHandles, Handles
<1>5. ASSUME NEW i \in Ino PROVE StagedAt(i)
  <2>1. CASE i = SeedIno
    <3>1. /\ table[i].hash = SeedContent /\ table[i].gen = 0 /\ ~table[i].cur
          /\ table[i].zero <=> SeedContent = Empty
      BY <2>1 DEF Init
    <3>2. data[i] = SeedContent
      BY <2>1 DEF Init
    <3> QED
      BY <1>4, <3>1, <3>2 DEF StagedAt, Dirty
  <2>2. CASE i # SeedIno
    <3>1. ~table[i].here
      BY <2>2 DEF Init
    <3> QED
      BY <3>1 DEF StagedAt, Linked
  <2> QED
    BY <2>1, <2>2
<1> QED
    BY <1>1, <1>3, <1>5 DEF LocalInv, StagedOK

\* No acknowledged write is lost on a mount with unlimited staging space that no
\* other client writes to and whose applications resize files only to zero: while
\* a file has a name, what applications last gave it is in its staging file or,
\* once it is clean, under its hash in the store.  Opens, writes, truncations,
\* releases, creates, unlinks, renames, the flush loop and its failures interleave
\* freely; downloads fail half way.
THEOREM DurableCorrect == ASSUME ~GcArmed PROVE LocalSpec => []Durable
<1>1. Init => LocalInv
    BY LocalInit
<1>2. LocalInv /\ [LocalNext]_vars => LocalInv'
    BY LocalStep
<1>3. LocalInv => Durable
    BY DEF LocalInv, StagedOK, StagedAt, Durable
<1> QED
    BY <1>1, <1>2, <1>3, PTL DEF LocalSpec

----------------------------------------------------------------------------
(* A closed dirty file is never forgotten.                                 *)

\* What a step may do to file i, to the handles that keep it pending, to its
\* place in the queues and to its item.
EntryStays(i) ==
    \/ ~Flushable(i)'
    \/ /\ Flushable(i) /\ table'[i].here = table[i].here /\ table'[i].gen = table[i].gen
HandlesStay(i) ==
    \A h \in Handle : fd[h] = i /\ ~Closing(h) => fd'[h] = i /\ ~Closing(h)'
QueuesStay(i) == i \in chan \cup batch \cup errs => i \in chan' \cup batch' \cup errs'
ItemStays(i) == snap[i].on => snap'[i].on /\ snap'[i].gen = snap[i].gen
Stays(i) == EntryStays(i) /\ HandlesStay(i) /\ QueuesStay(i) /\ ItemStays(i)

\* Such a step leaves i pending.
LEMMA PendingFrame ==
    ASSUME PendingOK, TypeOK', HandlesOK',
           \A i \in Ino : Stays(i) \/ Pending(i)' \/ ~Flushable(i)'
    PROVE  PendingOK'
<1> SUFFICES ASSUME NEW i \in Ino, Flushable(i)', Stays(i) PROVE Pending(i)'
    BY DEF PendingOK
<1>1. Flushable(i) /\ Pending(i)
    BY DEF PendingOK, Stays, EntryStays
<1>2. CASE \E h \in Handles(i) : ~Closing(h)
    BY <1>2 DEF Stays, HandlesStay, Handles, Pending
<1>3. CASE i \in chan \cup batch \cup errs
    BY <1>3 DEF Stays, QueuesStay, Pending
<1>4. CASE i \in Items /\ Matches(i)
  <2>1. snap'[i].on /\ snap'[i].gen = table'[i].gen /\ table'[i].here
    BY <1>4 DEF Stays, EntryStays, ItemStays, Items, Matches
  <2> QED
    BY <2>1 DEF Pending, Items, Matches
<1> QED
    BY <1>1, <1>2, <1>3, <1>4 DEF Pending

\* Steps that keep the handles of the requests close no handle.
LEMMA ClosingKept ==
    ASSUME \A s \in Req : FhKept(s), NEW h \in Handle, Closing(h)'
    PROVE  Closing(h)
BY DEF FhKept, Closing

\* Steps that leave the queues and the items alone, and open and close no handle.
LEMMA PendingQuiet ==
    ASSUME PendingOK, TypeOK', UNCHANGED <<chan, batch, errs, snap, fd>>,
           \A s \in Req : FhKept(s), \A i \in Ino : EntryStays(i)
    PROVE  PendingOK'
<1>1. HandlesOK'
    BY HandlesFrame DEF PendingOK, FdKept
<1>2. \A i \in Ino : Stays(i)
    BY ClosingKept DEF Stays, HandlesStay, QueuesStay, ItemStays
<1> QED
    BY <1>1, <1>2, PendingFrame

\* An entry that keeps its generation and its links stays.
LEMMA SameStays ==
    ASSUME NEW i \in Ino, table'[i].here => table[i].here /\ table'[i].gen = table[i].gen,
           table'[i].here => table'[i].nlink \in {0, table[i].nlink}, TypeOK, TypeOK'
    PROVE  EntryStays(i)
<1>1. table'[i].here \in BOOLEAN /\ table[i].here \in BOOLEAN
    BY DEF TypeOK, Entry
<1> QED
    BY <1>1 DEF EntryStays, Flushable, Linked, Dirty

\* A request begins that has no handle.
LEMMA BeginKept ==
    ASSUME TypeOK, NEW r \in Req, NEW rec, Begin(r, rec), rec.fh = None,
           rec.op \notin {"write", "close"}
    PROVE  \A s \in Req : FhKept(s)
BY Beginning DEF FhKept

\* A request ends, and has no handle any more.
LEMMA FinishKept ==
    ASSUME TypeOK, NEW r \in Req, Finish(r)
    PROVE  \A s \in Req : FhKept(s)
<1>1. Idle.op = "idle" /\ Idle.fh = None
    BY DEF Idle
<1> QED
    BY <1>1, Ending DEF FhKept

\* open(), setattr(), unlink() and rename() begin: nothing becomes dirty.
LEMMA PendingStarts ==
    ASSUME PendingOK, TypeOK', NEW r \in Req, NEW i \in Ino,
           \/ \E t \in BOOLEAN : OpenStart(r, i, t) \/ SetattrStart(r, i, t)
           \/ Unlink(r, i)
           \/ \E p \in Path : RenameValidate(r, i, p)
    PROVE  PendingOK'
<1>0. TypeOK
    BY DEF PendingOK
<1>1. UNCHANGED <<chan, batch, errs, snap, fd, table>>
    BY ZenonT(30) DEF OpenStart, SetattrStart, Unlink, RenameValidate, qvars, fvars
<1>2. \A k \in Ino : EntryStays(k)
    BY <1>0, <1>1, SameStays
<1>3. ASSUME NEW t \in BOOLEAN, OpenStart(r, i, t) PROVE \A s \in Req : FhKept(s)
  <2> DEFINE rec == [Idle EXCEPT !.op = "open", !.ino = i, !.flag = t,
                                 !.hash = table[i].hash, !.zero = table[i].zero]
  <2>1. rec.op = "open" /\ rec.fh = None
    BY DEF Idle
  <2>2. Begin(r, rec)
    BY Zenon, <1>3 DEF OpenStart
  <2> HIDE DEF rec
  <2> QED
    BY <1>0, <2>1, <2>2, BeginKept
<1>4. ASSUME NEW t \in BOOLEAN, SetattrStart(r, i, t) PROVE \A s \in Req : FhKept(s)
  <2> DEFINE rec == [Idle EXCEPT !.op = "resize", !.ino = i, !.flag = t]
  <2>1. rec.op = "resize" /\ rec.fh = None
    BY DEF Idle
  <2>2. Begin(r, rec)
    BY Zenon, <1>4 DEF SetattrStart
  <2> HIDE DEF rec
  <2> QED
    BY <1>0, <2>1, <2>2, BeginKept
<1>5. CASE Unlink(r, i)
  <2> DEFINE rec == [Idle EXCEPT !.op = "unlink", !.ino = i, !.path = table[i].path]
  <2>1. rec.op = "unlink" /\ rec.fh = None
    BY DEF Idle
  <2>2. Begin(r, rec)
    BY <1>5 DEF Unlink
  <2> HIDE DEF rec
  <2>3. \A s \in Req : FhKept(s)
    BY <1>0, <2>1, <2>2, BeginKept
  <2> QED
    BY <1>1, <1>2, <2>3, PendingQuiet
<1>6. ASSUME NEW p \in Path, RenameValidate(r, i, p) PROVE \A s \in Req : FhKept(s)
  <2> DEFINE rec == [Idle EXCEPT !.op = "rename", !.ino = i, !.path = table[i].path,
                                 !.to = p, !.hash = table[i].hash, !.flag = Dirty(i)]
  <2>1. rec.op = "rename" /\ rec.fh = None
    BY DEF Idle
  <2>2. Begin(r, rec)
    BY Zenon, <1>6 DEF RenameValidate
  <2> HIDE DEF rec
  <2> QED
    BY <1>0, <2>1, <2>2, BeginKept
<1> QED
    BY <1>1, <1>2, <1>3, <1>4, <1>5, <1>6, PendingQuiet

\* Steps of a request that ends, or takes its next step, without the queues.
LEMMA PendingNexts ==
    ASSUME PendingOK, TypeOK', NEW r \in Req,
           OpenLock(r) \/ OpenFail(r) \/ SetattrLock(r) \/ SetattrFail(r) \/ ReapGc(r)
           \/ DropLocked(r) \/ RenameRemote(r)
    PROVE  PendingOK'
<1>0. TypeOK
    BY DEF PendingOK
<1>1. UNCHANGED <<chan, batch, errs, snap, fd>>
    BY ZenonT(30) DEF OpenLock, OpenFail, SetattrLock, SetattrFail, ReapGc, DropLocked,
       RenameRemote, qvars, fvars
<1>2. \/ UNCHANGED table
      \/ OpenLock(r) /\ table' = [table EXCEPT ![req[r].ino] = NotCurrent(table[req[r].ino])]
    BY ZenonT(30) DEF OpenLock, OpenFail, SetattrLock, SetattrFail, ReapGc, DropLocked,
       RenameRemote
<1>3. \A k \in Ino : EntryStays(k)
  <2>1. \A k \in Ino : table'[k] = table[k] \/ table'[k] = NotCurrent(table[k])
    BY <1>0, <1>2 DEF TypeOK
  <2>2. \A k \in Ino : /\ NotCurrent(table[k]).here = table[k].here
                       /\ NotCurrent(table[k]).gen = table[k].gen
                       /\ NotCurrent(table[k]).nlink = table[k].nlink
    BY <1>0, OpFields, MoreFields DEF TypeOK
  <2> QED
    BY <1>0, <2>1, <2>2, SameStays
<1>4. \A s \in Req : FhKept(s)
  <2> DEFINE opened(b) == [req[r] EXCEPT !.op = "fetch", !.reuse = b]
             set == [req[r] EXCEPT !.op = "set", !.hash = table[req[r].ino].hash,
                       !.zero = table[req[r].ino].zero, !.reuse = disk[req[r].ino] # None]
             renamed == [req[r] EXCEPT !.op = "renamed"]
  <2>1. \/ Finish(r)
        \/ \E b : req' = [req EXCEPT ![r] = opened(b)]
        \/ req' = [req EXCEPT ![r] = set]
        \/ req' = [req EXCEPT ![r] = renamed]
    <3>1. CASE OpenLock(r)
      BY <3>1, Zenon DEF OpenLock
    <3>2. CASE SetattrLock(r)
      BY <3>2 DEF SetattrLock
    <3>3. CASE RenameRemote(r)
      BY <3>3, Zenon DEF RenameRemote
    <3> QED
      BY <3>1, <3>2, <3>3 DEF OpenFail, SetattrFail, ReapGc, DropLocked
  <2>2. PICK q \in ReqState : q = req[r]
    BY <1>0 DEF TypeOK
  <2>3. /\ \A b : opened(b).op = "fetch" /\ opened(b).fh = req[r].fh
        /\ set.op = "set" /\ set.fh = req[r].fh
        /\ renamed.op = "renamed" /\ renamed.fh = req[r].fh
    BY <2>2 DEF ReqState
  <2> HIDE DEF opened, set, renamed
  <2>4. CASE Finish(r)
    BY <1>0, <2>4, FinishKept
  <2>5. ASSUME NEW new, req' = [req EXCEPT ![r] = new], new.op \notin {"write", "close"},
               new.fh = req[r].fh
        PROVE  \A s \in Req : FhKept(s)
    <3>1. \A s \in Req : req'[s] = IF s = r THEN new ELSE req[s]
      BY <1>0, <2>5 DEF TypeOK
    <3> QED
      BY <2>5, <3>1 DEF FhKept
  <2> QED
    BY <2>1, <2>3, <2>4, <2>5
<1> QED
    BY <1>1, <1>3, <1>4, PendingQuiet

\* unlink(), rename() and the poll loop: entries lose their names, or are clean.
LEMMA PendingNames ==
    ASSUME PendingOK, TypeOK',
           PollApply \/ \E r \in Req : UnlinkLocal(r) \/ RenameLocal(r)
    PROVE  PendingOK'
<1>0. TypeOK
    BY DEF PendingOK
<1>1. UNCHANGED <<chan, batch, errs, snap, fd>>
    BY ZenonT(30) DEF PollApply, UnlinkLocal, RenameLocal, qvars, fvars
<1>2. \A k \in Ino : table[k] \in Entry
    BY <1>0 DEF TypeOK
<1>3. \A k \in Ino : /\ UnlinkOne(table[k]).here = table[k].here
                     /\ UnlinkOne(table[k]).gen = table[k].gen /\ UnlinkOne(table[k]).nlink = 0
    BY <1>2, OpFields, MoreFields
<1>4. ASSUME PollApply PROVE \A k \in Ino : EntryStays(k)
  <2> DEFINE updated == {k \in Ino : poll.upd[k] # None /\ table[k].here /\ table[k].gen = 0}
  <2>1. ASSUME NEW k \in Ino
        PROVE  \/ k \in updated /\ table'[k] = UpdateRemote(table[k], poll.upd[k])
               \/ table'[k] = NoEntry \/ table'[k] = UnlinkOne(table[k]) \/ table'[k] = table[k]
    BY <1>4, ZenonT(30) DEF PollApply
  <2>2. \A k \in updated : UpdateRemote(table[k], poll.upd[k]).gen = 0
    <3>1. \A k \in Ino : poll.upd[k] \in Hash
      BY <1>0 DEF TypeOK, PollState
    <3> TAKE k \in updated
    <3>2. PICK e \in Entry : e = table[k]
      BY <1>2
    <3>3. PICK c \in Hash : c = poll.upd[k]
      BY <3>1
    <3>4. UpdateRemote(e, c).gen = e.gen
      BY DEF UpdateRemote, Entry
    <3> QED
      BY <3>2, <3>3, <3>4
  <2> QED
    BY <1>0, <1>3, <2>1, <2>2, SameStays, BlankFields DEF EntryStays, Flushable, Dirty, Linked
<1>5. ASSUME NEW r \in Req, UnlinkLocal(r) PROVE \A k \in Ino : EntryStays(k)
  <2>1. PICK j \in Ino : j = req[r].ino
    BY <1>0, <1>5, ReqFields DEF TypeOK, UnlinkLocal
  <2>2. \/ table' = table \/ table' = [table EXCEPT ![j] = UnlinkOne(table[j])]
        \/ table' = [table EXCEPT ![j] = NoEntry]
    BY <1>5, <2>1 DEF UnlinkLocal
  <2>3. \A k \in Ino : table'[k] \in {table[k], NoEntry, UnlinkOne(table[k])}
    BY <1>0, <2>2 DEF TypeOK
  <2> QED
    BY <1>0, <1>3, <2>3, SameStays, BlankFields
<1>6. ASSUME NEW r \in Req, RenameLocal(r) PROVE \A k \in Ino : EntryStays(k)
  <2>1. PICK q \in ReqState : q = req[r]
    BY <1>0 DEF TypeOK
  <2> DEFINE target == LookupChild(q.to) \ {q.ino}
             gone == {k \in target : ~HasOpenHandles(k)}
  <2>2. \A k \in Ino : \/ table'[k] = table[k] \/ table'[k] = NoEntry
                       \/ table'[k] = UnlinkOne(table[k]) \/ table'[k] = Moved(table[k], q)
    <3>1. \/ UNCHANGED table
          \/ table' = [k \in Ino |->
                IF k = q.ino THEN Moved(table[q.ino], q) ELSE IF k \in gone THEN NoEntry
                ELSE IF k \in target THEN UnlinkOne(table[k]) ELSE table[k]]
      BY <1>6, <2>1, ZenonT(30) DEF RenameLocal
    <3> HIDE DEF gone, target
    <3> QED
      BY <3>1
  <2>3. \A k \in Ino : /\ Moved(table[k], q).here = table[k].here
                       /\ Moved(table[k], q).gen = table[k].gen
                       /\ Moved(table[k], q).nlink = table[k].nlink
    <3> TAKE k \in Ino
    <3>1. PICK e \in Entry : e = table[k]
      BY <1>2
    <3>2. Moved(e, q).here = e.here /\ Moved(e, q).gen = e.gen /\ Moved(e, q).nlink = e.nlink
      BY DEF Moved, Entry
    <3> QED
      BY <3>1, <3>2
  <2> QED
    BY <1>0, <1>3, <2>2, <2>3, SameStays, BlankFields
<1>7. \A s \in Req : FhKept(s)
  <2>1. CASE PollApply
    BY <2>1 DEF PollApply, FhKept
  <2>2. ASSUME NEW r \in Req, NEW j, NEW new, new.op \in {"idle", "drop"}, new.fh = None,
               req' = [req EXCEPT ![r] = new]
        PROVE  \A s \in Req : FhKept(s)
    <3>1. \A s \in Req : req'[s] = IF s = r THEN new ELSE req[s]
      BY <1>0, <2>2 DEF TypeOK
    <3> QED
      BY <2>2, <3>1 DEF FhKept
  <2> DEFINE drop(j) == [Idle EXCEPT !.op = "drop", !.ino = j]
  <2>3. /\ \A j : drop(j).op = "drop" /\ drop(j).fh = None
        /\ Idle.op = "idle" /\ Idle.fh = None
    BY DEF Idle
  <2>4. ASSUME NEW r \in Req, UnlinkLocal(r) \/ RenameLocal(r)
        PROVE  \/ req' = [req EXCEPT ![r] = Idle] \/ \E j : req' = [req EXCEPT ![r] = drop(j)]
    <3>1. CASE UnlinkLocal(r)
      BY <3>1, Zenon DEF UnlinkLocal
    <3>2. CASE RenameLocal(r)
      BY <3>2, ZenonT(30) DEF RenameLocal, Finish
    <3> QED
      BY <2>4, <3>1, <3>2
  <2> HIDE DEF drop
  <2> QED
    BY <2>1, <2>2, <2>3, <2>4
<1> QED
    BY <1>1, <1>4, <1>5, <1>6, <1>7, PendingQuiet

\* Steps of the flush loop and of the poll loop that leave entries, items and the
\* queues of dirty files alone.
LEMMA PendingIdle ==
    ASSUME PendingOK, TypeOK',
           \/ \E i \in Ino : FlushLock(i) \/ FlushGcOne(i)
           \/ FlushTakeDeletes \/ FlushDeletesDone \/ FlushDeletesFail \/ FlushCommit \/ FlushGc
           \/ \E p \in Path, c \in Hash : RemoteEdit(p, c)
           \/ PollList \/ PollDiff \/ UNCHANGED vars
    PROVE  PendingOK'
<1>0. TypeOK
    BY DEF PendingOK
<1>1. UNCHANGED <<chan, batch, errs, snap, fd, table, req>>
    BY ZenonT(60) DEF FlushLock, FlushGcOne, FlushTakeDeletes, FlushDeletesDone,
       FlushDeletesFail, FlushCommit, FlushGc, RemoteEdit, PollList, PollDiff, vars, ivars,
       qvars, fvars
<1> QED
    BY <1>0, <1>1, SameStays, PendingQuiet DEF FhKept

\* Steps that give an inode a new generation: it has an open handle that is not
\* being released, or is signalled to the flush loop.
LEMMA PendingGenerations ==
    ASSUME PendingOK, TypeOK', HandlesOK', NEW j \in Ino, Pending(j)',
           UNCHANGED <<batch, errs, snap>>, chan \subseteq chan',
           \A k \in Ino \ {j} : table'[k] = table[k],
           \A h \in Handle : fd[h] # None => fd'[h] = fd[h],
           \A s \in Req : FhKept(s)
    PROVE  PendingOK'
<1> USE ValueAssumption
<1>1. \A k \in Ino \ {j} : EntryStays(k)
    BY SameStays DEF PendingOK
<1>2. \A k \in Ino : HandlesStay(k) /\ QueuesStay(k) /\ ItemStays(k)
    BY ClosingKept DEF HandlesStay, QueuesStay, ItemStays
<1>3. \A k \in Ino \ {j} : Stays(k)
    BY <1>1, <1>2 DEF Stays
<1> QED
    BY <1>3, PendingFrame

\* open() makes the file dirty and leaves a handle on it.
LEMMA PendingOpenDone ==
    ASSUME PendingOK, TypeOK', NEW r \in Req, NEW h \in Handle, OpenDone(r, h)
    PROVE  PendingOK'
<1> USE ValueAssumption
<1>0. TypeOK /\ HandlesOK
    BY DEF PendingOK
<1>1. PICK j \in Ino : j = req[r].ino
    BY <1>0, ReqFields DEF TypeOK, OpenDone
<1>2. UNCHANGED <<chan, batch, errs, snap>> /\ Finish(r)
    BY ZenonT(30) DEF OpenDone, qvars, fvars
<1>3. \A s \in Req : FhKept(s)
    BY <1>0, <1>2, FinishKept
<1>4. CASE UNCHANGED <<table, fd>>
    BY <1>0, <1>2, <1>3, <1>4, SameStays, PendingQuiet
<1>5. CASE ~UNCHANGED <<table, fd>>
  <2>1. PICK e \in Entry : table' = [table EXCEPT ![j] = e]
    <3>1. PICK e : table' = [table EXCEPT ![j] = e]
      BY <1>1, <1>5, ZenonT(30) DEF OpenDone
    <3>2. table'[j] = e
      BY <1>0, <3>1 DEF TypeOK
    <3> QED
      BY <3>1, <3>2 DEF TypeOK
  <2>2. fd[h] = None /\ fd' = [fd EXCEPT ![h] = j]
    BY <1>1, <1>5, ZenonT(30) DEF OpenDone
  <2>3. \A x \in Handle : fd'[x] = IF x = h THEN j ELSE fd[x]
    BY <1>0, <2>2 DEF TypeOK
  <2>4. HandlesOK'
    BY <1>0, <1>3, <2>2, <2>3, HandlesFrame DEF FdKept
  <2>5. ~Closing(h)
    <3>1. \A s \in Req : req[s].op # "idle" => req[s].ino \in Ino
      BY <1>0, ReqFields DEF TypeOK
    <3> QED
      BY <1>0, <2>2, <3>1 DEF Closing, HandlesOK
  <2>6. Pending(j)'
    BY <1>3, <2>3, <2>5, ClosingKept DEF Pending, Handles
  <2>7. \A k \in Ino \ {j} : table'[k] = table[k]
    BY <1>0, <2>1 DEF TypeOK
  <2> QED
    BY <1>2, <1>3, <2>2, <2>3, <2>4, <2>6, <2>7, PendingGenerations
<1> QED
    BY <1>4, <1>5

\* write() makes the file dirty, under the handle it came with.
LEMMA PendingWriteDone ==
    ASSUME PendingOK, TypeOK', NEW r \in Req, WriteDone(r)
    PROVE  PendingOK'
<1> USE ValueAssumption
<1>0. TypeOK /\ HandlesOK
    BY DEF PendingOK
<1>1. PICK j \in Ino : j = req[r].ino
    BY <1>0, ReqFields DEF TypeOK, WriteDone
<1>2. UNCHANGED <<chan, batch, errs, snap, fd>> /\ Finish(r) /\ req[r].op = "write"
    BY ZenonT(30) DEF WriteDone, qvars, fvars
<1>3. \A s \in Req : FhKept(s)
    BY <1>0, <1>2, FinishKept
<1>4. PICK h \in Handle : h = req[r].fh /\ fd[h] = j
    BY <1>0, <1>1, <1>2 DEF HandlesOK
<1>5. ~Closing(h)
    BY <1>0, <1>2, <1>4 DEF HandlesOK, Closing
<1>6. Pending(j)'
    BY <1>2, <1>3, <1>4, <1>5, ClosingKept DEF Pending, Handles
<1>7. \A k \in Ino \ {j} : table'[k] = table[k]
    BY <1>0, <1>1 DEF TypeOK, WriteDone
<1>8. HandlesOK'
    BY <1>0, <1>2, <1>3, HandlesFrame DEF FdKept
<1> QED
    BY <1>2, <1>3, <1>6, <1>7, <1>8, PendingGenerations

\* setattr(size) makes the file dirty and signals the flush loop.
LEMMA PendingSetattrDone ==
    ASSUME PendingOK, TypeOK', NEW r \in Req, NEW c \in Content, SetattrDone(r, c)
    PROVE  PendingOK'
<1>0. TypeOK /\ HandlesOK
    BY DEF PendingOK
<1>1. PICK j \in Ino : j = req[r].ino
    BY <1>0, ReqFields DEF TypeOK, SetattrDone
<1>2. UNCHANGED <<batch, errs, snap, fd>> /\ Finish(r) /\ chan' = chan \cup {j}
    BY <1>1, ZenonT(30) DEF SetattrDone, fvars
<1>3. \A s \in Req : FhKept(s)
    BY <1>0, <1>2, FinishKept
<1>4. Pending(j)'
    BY <1>2 DEF Pending
<1>5. \A k \in Ino \ {j} : table'[k] = table[k]
  <2>1. table' = table \/ \E e : table' = [table EXCEPT ![j] = e]
    BY <1>1, ZenonT(30) DEF SetattrDone
  <2> QED
    BY <1>0, <2>1 DEF TypeOK
<1>6. HandlesOK'
    BY <1>0, <1>2, <1>3, HandlesFrame DEF FdKept
<1> QED
    BY <1>2, <1>3, <1>4, <1>5, <1>6, PendingGenerations

\* create() inserts a dirty file with a handle on it.
LEMMA PendingCreate ==
    ASSUME PendingOK, TypeOK', NEW p \in Path, NEW i \in Ino, NEW h \in Handle, Create(p, i, h)
    PROVE  PendingOK'
<1> USE ValueAssumption
<1>0. TypeOK /\ HandlesOK
    BY DEF PendingOK
<1>1. UNCHANGED <<batch, errs, snap, chan, req>> /\ fd[h] = None /\ fd' = [fd EXCEPT ![h] = i]
    BY ZenonT(30) DEF Create, fvars
<1>2. \A s \in Req : FhKept(s)
    BY <1>1 DEF FhKept
<1>3. \A x \in Handle : fd'[x] = IF x = h THEN i ELSE fd[x]
    BY <1>0, <1>1 DEF TypeOK
<1>4. HandlesOK'
    BY <1>0, <1>1, <1>2, <1>3, HandlesFrame DEF FdKept
<1>5. ~Closing(h)
  <2>1. \A s \in Req : req[s].op # "idle" => req[s].ino \in Ino
    BY <1>0, ReqFields DEF TypeOK
  <2> QED
    BY <1>0, <1>1, <2>1 DEF Closing, HandlesOK
<1>6. Pending(i)'
  <2>1. ~Closing(h)'
    BY <1>1, <1>5 DEF Closing
  <2> QED
    BY <1>3, <2>1 DEF Pending, Handles
<1>7. \A k \in Ino \ {i} : table'[k] = table[k]
    BY <1>0 DEF TypeOK, Create
<1> QED
    BY <1>1, <1>2, <1>3, <1>4, <1>6, <1>7, PendingGenerations

\* write(): the handle it uses is not being released.
LEMMA PendingPWrite ==
    ASSUME PendingOK, TypeOK', NEW r \in Req, NEW h \in Handle, NEW c \in Content, PWrite(r, h, c)
    PROVE  PendingOK'
<1> USE ValueAssumption
<1> DEFINE rec == [Idle EXCEPT !.op = "write", !.ino = fd[h], !.fh = h]
<1>0. TypeOK /\ HandlesOK
    BY DEF PendingOK
<1>1. UNCHANGED <<batch, errs, snap, chan, fd, table>> /\ ~Closing(h) /\ Begin(r, rec)
    BY ZenonT(30) DEF PWrite, qvars, fvars
<1>2. rec.op = "write" /\ rec.fh = h /\ rec.ino = fd[h]
    BY DEF Idle
<1> HIDE DEF rec
<1>3. \A s \in Req : req'[s] = req[s] \/ (req[s].op = "idle" /\ req'[s] = rec)
    BY <1>0, <1>1, Beginning
<1>4. HandlesOK'
  <2>1. ASSUME NEW s \in Req, req'[s].op = "close"
        PROVE  req'[s].fh # None /\ \A t \in Req \ {s} : req'[t].fh # req'[s].fh
    <3>1. req'[s] = req[s] /\ req[s].fh # h
      BY <1>1, <1>2, <1>3, <2>1 DEF Closing
    <3>2. req[s].fh # None /\ \A t \in Req \ {s} : req[t].fh # req[s].fh
      BY <1>0, <2>1, <3>1 DEF HandlesOK
    <3> QED
      BY <1>2, <1>3, <3>1, <3>2
  <2> QED
    BY <1>0, <1>1, <1>2, <1>3, <2>1 DEF HandlesOK
<1>5. \A x \in Handle : Closing(x)' => Closing(x)
    BY <1>2, <1>3 DEF Closing
<1>6. \A k \in Ino : Stays(k)
    BY <1>0, <1>1, <1>5, SameStays DEF Stays, HandlesStay, QueuesStay, ItemStays
<1> QED
    BY <1>4, <1>6, PendingFrame

\* release(): the flush loop is signalled before the handle goes.
LEMMA PendingRelease ==
    ASSUME PendingOK, TypeOK', NEW r \in Req, NEW h \in Handle, Release(r, h)
    PROVE  PendingOK'
<1> USE ValueAssumption
<1> DEFINE rec == [Idle EXCEPT !.op = "close", !.ino = fd[h], !.fh = h]
<1>0. TypeOK /\ HandlesOK
    BY DEF PendingOK
<1>1. PICK j \in Ino : j = fd[h]
    BY <1>0 DEF TypeOK, Release
<1>2. /\ UNCHANGED <<batch, errs, snap, fd, table>> /\ req[r].op = "idle"
      /\ req' = [req EXCEPT ![r] = rec] /\ \A s \in Req : req[s].fh # h
      /\ chan' = IF table[j].here /\ table[j].nlink = 0 THEN chan ELSE chan \cup {j}
    BY <1>1 DEF Release, fvars, Idle
<1>3. rec.op = "close" /\ rec.fh = h /\ rec.ino = fd[h]
    BY DEF Idle
<1> HIDE DEF rec
<1>4. \A s \in Req : req'[s] = IF s = r THEN rec ELSE req[s]
    BY <1>0, <1>2 DEF TypeOK
<1>5. HandlesOK'
  <2>1. ASSUME NEW s \in Req, req'[s].op = "close"
        PROVE  req'[s].fh # None /\ \A t \in Req \ {s} : req'[t].fh # req'[s].fh
    <3>1. CASE s = r
      <4>1. h # None
        BY <1>2 DEF Idle, Release
      <4> QED
        BY <1>2, <1>3, <1>4, <3>1, <4>1
    <3>2. CASE s # r
      <4>1. req[s].fh # None /\ \A t \in Req \ {s} : req[t].fh # req[s].fh
        BY <1>0, <1>4, <2>1, <3>2 DEF HandlesOK
      <4> QED
        BY <1>2, <1>3, <1>4, <3>2, <4>1
    <3> QED
      BY <3>1, <3>2
  <2> QED
    BY <1>0, <1>2, <1>3, <1>4, <2>1 DEF HandlesOK
<1>6. \A x \in Handle : Closing(x)' => Closing(x) \/ x = h
    BY <1>3, <1>4 DEF Closing
<1>7. \A k \in Ino \ {j} : Stays(k)
    BY <1>0, <1>1, <1>2, <1>6, SameStays DEF Stays, HandlesStay, QueuesStay, ItemStays
<1>8. Pending(j)' \/ ~Flushable(j)'
    BY <1>2 DEF Pending, Flushable, Linked
<1> QED
    BY <1>5, <1>7, <1>8, PendingFrame

\* release(): then the handle goes.
LEMMA PendingReleaseDone ==
    ASSUME PendingOK, TypeOK', NEW r \in Req, ReleaseDone(r)
    PROVE  PendingOK'
<1> USE ValueAssumption
<1> DEFINE reap == [Idle EXCEPT !.op = "reap", !.ino = req[r].ino]
<1>0. TypeOK /\ HandlesOK
    BY DEF PendingOK
<1>1. PICK j \in Ino : j = req[r].ino
    BY <1>0, ReqFields DEF TypeOK, ReleaseDone
<1>2. PICK h \in Handle : h = req[r].fh
    BY <1>0 DEF HandlesOK, ReleaseDone
<1>3. /\ req[r].op = "close" /\ fd' = [fd EXCEPT ![h] = None]
      /\ UNCHANGED <<chan, batch, errs, snap>>
      /\ req' = [req EXCEPT ![r] = Idle] \/ req' = [req EXCEPT ![r] = reap]
      /\ table' = table \/ table' = [table EXCEPT ![j] = NoEntry]
    BY <1>1, <1>2 DEF ReleaseDone, qvars, fvars
<1>4. reap.op = "reap" /\ reap.fh = None /\ Idle.op = "idle" /\ Idle.fh = None
    BY DEF Idle
<1> HIDE DEF reap
<1>5. \A s \in Req : IF s = r THEN req'[s] \in {Idle, reap} ELSE req'[s] = req[s]
    BY <1>0, <1>3 DEF TypeOK
<1>6. \A s \in Req : FhKept(s)
    BY <1>4, <1>5 DEF FhKept
<1>7. \A x \in Handle : fd'[x] = IF x = h THEN None ELSE fd[x]
    BY <1>0, <1>3 DEF TypeOK
<1>8. \A s \in Req : req'[s].op \in {"write", "close"} => req'[s].fh # h
    BY <1>0, <1>2, <1>3, <1>4, <1>5 DEF HandlesOK
<1>9. HandlesOK'
    BY <1>0, <1>6, <1>7, <1>8, HandlesFrame DEF FdKept
<1>10. Closing(h)
    BY <1>2, <1>3 DEF Closing
<1>11. \A k \in Ino : HandlesStay(k)
    BY <1>6, <1>7, <1>10, ClosingKept DEF HandlesStay
<1>12. \A k \in Ino : EntryStays(k)
  <2>1. \A k \in Ino : table'[k] \in {table[k], NoEntry}
    BY <1>0, <1>3 DEF TypeOK
  <2> QED
    BY <1>0, <2>1, SameStays, BlankFields
<1>13. \A k \in Ino : Stays(k)
    BY <1>3, <1>11, <1>12 DEF Stays, QueuesStay, ItemStays
<1> QED
    BY <1>9, <1>13, PendingFrame

\* Steps of the flush loop that take a file from one place to the next: the
\* channel, the batch, the items, the deferred errors.
LEMMA PendingFlush ==
    ASSUME PendingOK, ItemsBusy, TypeOK',
           \/ \E h \in Handle : FlushHandle(h)
           \/ \E i \in Ino : FlushRecv(i)
           \/ FlushSnapshot \/ FlushUpload \/ FlushUploadFail \/ FlushCommitFail
    PROVE  PendingOK'
<1>0. TypeOK /\ HandlesOK
    BY DEF PendingOK
<1>1. UNCHANGED <<fd, table, req>>
    BY ZenonT(30) DEF FlushHandle, FlushRecv, FlushSnapshot, FlushUpload, FlushUploadFail,
       FlushCommitFail, ivars
<1>2. HandlesOK' /\ \A h \in Handle : Closing(h)' <=> Closing(h)
    BY <1>0, <1>1 DEF HandlesOK, Closing
<1>3. \A k \in Ino : EntryStays(k) /\ HandlesStay(k) /\ (Flushable(k)' <=> Flushable(k))
    BY <1>0, <1>1, <1>2, SameStays DEF HandlesStay, Flushable, Linked, Dirty
<1>4. ASSUME \A k \in Ino : Pending(k)' \/ ~Flushable(k) \/ (QueuesStay(k) /\ ItemStays(k))
      PROVE  PendingOK'
    BY <1>2, <1>3, <1>4, PendingFrame DEF Stays
<1>5. ASSUME NEW h \in Handle, FlushHandle(h) PROVE PendingOK'
  <2>1. /\ ~Closing(h) /\ errs' = errs \ {fd[h]} /\ UNCHANGED <<chan, batch, snap>>
    BY <1>5 DEF FlushHandle, fvars
  <2>2. \A k \in Ino : k = fd[h] => Pending(k)'
    BY <1>1, <1>2, <2>1 DEF Pending, Handles
  <2>3. \A k \in Ino : k # fd[h] => QueuesStay(k) /\ ItemStays(k)
    BY <2>1 DEF QueuesStay, ItemStays
  <2> QED
    BY <1>4, <2>2, <2>3
<1>6. ASSUME NEW i \in Ino, FlushRecv(i) PROVE PendingOK'
  <2>1. \A k \in Ino : QueuesStay(k) /\ ItemStays(k)
    BY <1>6 DEF FlushRecv, QueuesStay, ItemStays
  <2> QED
    BY <1>4, <2>1
<1>7. ASSUME FlushSnapshot, NEW k \in Ino, Flushable(k)
      PROVE  Pending(k)' \/ (QueuesStay(k) /\ ItemStays(k))
  <2> DEFINE items == {i \in batch : Flushable(i) /\ disk[i] # None}
             missing == {i \in batch : Flushable(i) /\ disk[i] = None}
             taken(i) == [on |-> TRUE, path |-> table[i].path, gen |-> table[i].gen,
                          prev |-> table[i].hash, pdel |-> table[i].pdel, up |-> None]
  <2>1. /\ chan' = chan /\ errs' = errs \cup missing /\ batch' = {}
        /\ IF items = {} THEN UNCHANGED snap
           ELSE snap' = [i \in Ino |-> IF i \in items THEN taken(i) ELSE NoItem]
    BY <1>7 DEF FlushSnapshot
  <2>2. taken(k).on /\ taken(k).gen = table[k].gen
    OBVIOUS
  <2> HIDE DEF taken
  <2>3. CASE k \in missing
    BY <2>1, <2>3 DEF Pending
  <2>4. CASE k \in items
    <3>1. snap'[k] = taken(k)
      BY <2>1, <2>4
    <3> QED
      BY <1>1, <1>7, <2>2, <3>1 DEF Pending, Items, Matches, Flushable, Linked
  <2>5. CASE k \notin batch
    <3>1. ~snap[k].on
      BY <1>7 DEF FlushSnapshot, ItemsBusy, Items
    <3> QED
      BY <2>1, <2>5, <3>1 DEF QueuesStay, ItemStays
  <2> QED
    BY <1>7, <2>3, <2>4, <2>5
<1>8. ASSUME FlushUpload, NEW k \in Ino PROVE QueuesStay(k) /\ ItemStays(k)
  <2>1. /\ UNCHANGED <<chan, batch, errs>>
        /\ snap'[k] = IF k \in Items THEN [snap[k] EXCEPT !.up = disk[k]] ELSE snap[k]
    BY <1>8 DEF FlushUpload, qvars
  <2>2. PICK it \in Item : it = snap[k]
    BY <1>0 DEF TypeOK
  <2>3. [it EXCEPT !.up = disk[k]].on = it.on /\ [it EXCEPT !.up = disk[k]].gen = it.gen
    BY DEF Item
  <2> QED
    BY <2>1, <2>2, <2>3 DEF QueuesStay, ItemStays
<1>9. ASSUME FlushUploadFail \/ FlushCommitFail, NEW k \in Ino
      PROVE  Pending(k)' \/ (QueuesStay(k) /\ ItemStays(k))
  <2>1. UNCHANGED <<chan, batch>> /\ errs' = errs \cup Items
    BY <1>9, ZenonT(30) DEF FlushUploadFail, FlushCommitFail
  <2>2. CASE k \in Items
    BY <2>1, <2>2 DEF Pending
  <2>3. CASE k \notin Items
    BY <2>1, <2>3 DEF QueuesStay, ItemStays, Items
  <2> QED
    BY <2>2, <2>3
<1> QED
    BY <1>4, <1>5, <1>6, <1>7, <1>8, <1>9

\* apply_commit(): an item that matches is clean now; one that does not was
\* pending for another reason.
LEMMA PendingApply ==
    ASSUME PendingOK, TypeOK', FlushUnchanged \/ FlushApply
    PROVE  PendingOK'
<1> DEFINE S == IF FlushApply THEN Items ELSE Unchanged
           D == IF FlushApply THEN Ino ELSE Unchanged
<1>0. TypeOK /\ HandlesOK
    BY DEF PendingOK
<1>1. /\ UNCHANGED <<fd, req, chan, batch, errs>>
      /\ \A i \in Ino : table'[i] = IF i \in S THEN ApplyCommit(table[i], snap[i]) ELSE table[i]
      /\ \A i \in Ino : snap'[i] = IF i \in D THEN NoItem ELSE snap[i]
    BY DEF FlushUnchanged, FlushApply, DropItems, qvars
<1>2. S \subseteq Items /\ \A i \in Items : i \in D => i \in S
    BY DEF Unchanged
<1> HIDE DEF S, D
<1>3. HandlesOK' /\ \A h \in Handle : Closing(h)' <=> Closing(h)
    BY <1>0, <1>1 DEF HandlesOK, Closing
<1>4. ASSUME NEW i \in Ino, Flushable(i)' PROVE table'[i] = table[i] /\ ~(i \in S /\ Matches(i))
  <2>1. PICK e \in Entry : e = table[i]
    BY <1>0 DEF TypeOK
  <2>2. PICK it \in Item : it = snap[i]
    BY <1>0 DEF TypeOK
  <2>3. /\ e.here /\ e.gen = it.gen => ApplyCommit(e, it).gen = 0
        /\ ~(e.here /\ e.gen = it.gen) => ApplyCommit(e, it) = e
    BY CommitFields
  <2> QED
    BY <1>1, <1>4, <2>1, <2>2, <2>3 DEF Flushable, Dirty, Matches
<1>5. ASSUME NEW i \in Ino, Flushable(i)' PROVE Pending(i)'
  <2>1. Flushable(i) /\ Pending(i)
    BY <1>4, <1>5 DEF PendingOK, Flushable, Linked, Dirty
  <2>2. CASE \E h \in Handles(i) : ~Closing(h)
    BY <1>1, <1>3, <2>2 DEF Pending, Handles
  <2>3. CASE i \in chan \cup batch \cup errs
    BY <1>1, <2>3 DEF Pending
  <2>4. CASE i \in Items /\ Matches(i)
    <3>1. snap'[i] = snap[i] /\ table'[i] = table[i]
      BY <1>1, <1>2, <1>4, <1>5, <2>4
    <3> QED
      BY <2>4, <3>1 DEF Pending, Items, Matches
  <2> QED
    BY <2>1, <2>2, <2>3, <2>4 DEF Pending
<1> QED
    BY <1>3, <1>5 DEF PendingOK

\* Only the flush loop moves the items and its own place.
LEMMA BusyStep == ASSUME TypeOK, ItemsBusy, [Next]_vars PROVE ItemsBusy'
<1>1. CASE UNCHANGED <<snap, fpc>>
    BY <1>1 DEF ItemsBusy, Items
<1>2. CASE FlushSnapshot
    BY <1>2 DEF FlushSnapshot, ItemsBusy, Items, NoItem
<1>3. CASE FlushUpload
    BY <1>3 DEF FlushUpload, ItemsBusy, Items
<1>4. CASE FlushUploadFail \/ FlushCommitFail \/ FlushApply
    BY <1>4 DEF FlushUploadFail, FlushCommitFail, FlushApply, DropItems, ItemsBusy, Items, NoItem
<1>5. CASE FlushUnchanged
  <2>1. ASSUME Items = Unchanged, NEW i \in Ino PROVE ~snap'[i].on
    BY <1>5, <2>1 DEF FlushUnchanged, DropItems, Items, Unchanged, NoItem
  <2> QED
    BY <1>5, <2>1 DEF FlushUnchanged, ItemsBusy, Items
<1>6. CASE FlushCommit
    BY <1>6 DEF FlushCommit, ItemsBusy, Items
<1>7. CASE FlushTakeDeletes \/ FlushDeletesDone \/ FlushDeletesFail \/ FlushGc
           \/ \E i \in Ino : FlushGcOne(i)
  <2>1. UNCHANGED snap /\ fpc \in {"recv", "deleting", "gc"}
    BY <1>7, ZenonT(30) DEF FlushTakeDeletes, FlushDeletesDone, FlushDeletesFail, FlushGc, FlushGcOne
  <2> QED
    BY <2>1 DEF ItemsBusy, Items
<1>8. CASE UNCHANGED vars
    BY <1>1, <1>8 DEF vars, fvars
<1>9. CASE Editing \/ Truncating \/ Resizing
  <2>1. UNCHANGED fvars
    BY <1>9, ZenonT(60) DEF Editing, Truncating, Resizing, OpenStart, OpenLock, OpenFail, WriteDone,
       ReleaseDone, OpenDone, Release, PWrite, FlushHandle, Create, SetattrStart, SetattrLock,
       SetattrFail, SetattrDone
  <2> QED
    BY <1>1, <2>1 DEF fvars
<1>10. CASE Unlinking \/ Renaming \/ Dropping \/ Reaping \/ Polling
  <2>1. UNCHANGED fvars
    BY <1>10, ZenonT(60) DEF Unlinking, Renaming, Dropping, Reaping, Polling, Unlink, UnlinkLocal,
       RenameValidate, RenameRemote, RenameLocal, DropLocked, ReapGc, RemoteEdit, PollList,
       PollDiff, PollApply
  <2> QED
    BY <1>1, <2>1 DEF fvars
<1>11. ASSUME NEW i \in Ino, FlushRecv(i) \/ FlushLock(i) PROVE UNCHANGED <<snap, fpc>>
    BY <1>11 DEF FlushRecv, FlushLock, fvars
<1> QED
    BY <1>1, <1>2, <1>3, <1>4, <1>5, <1>6, <1>7, <1>8, <1>9, <1>10, <1>11
    DEF Next, LocalNext, FlushLoop

\* Every step keeps the invariant.
LEMMA PendingStep == PendingInv /\ [Next]_vars => PendingInv'
<1> SUFFICES ASSUME PendingInv, [Next]_vars PROVE PendingInv'
    OBVIOUS
<1>1. TypeOK /\ PendingOK /\ ItemsBusy
    BY DEF PendingInv, PendingOK
<1>2. TypeOK' /\ ItemsBusy'
    BY <1>1, TypeStep, BusyStep
<1> SUFFICES PendingOK'
    BY <1>2 DEF PendingInv
<1>3. CASE Editing
    BY <1>1, <1>2, <1>3, PendingStarts, PendingNexts, PendingOpenDone, PendingWriteDone,
       PendingPWrite, PendingRelease, PendingReleaseDone, PendingFlush, PendingCreate DEF Editing
<1>4. CASE Truncating \/ Resizing
    BY <1>1, <1>2, <1>4, PendingStarts, PendingNexts, PendingSetattrDone DEF Truncating, Resizing
<1>5. CASE Unlinking \/ Renaming \/ Dropping \/ Reaping
    BY <1>1, <1>2, <1>5, PendingStarts, PendingNexts, PendingNames
    DEF Unlinking, Renaming, Dropping, Reaping
<1>6. CASE FlushLoop \/ FlushDeletesFail
    BY <1>1, <1>2, <1>6, PendingIdle, PendingFlush, PendingApply DEF FlushLoop
<1>7. CASE Polling \/ UNCHANGED vars
    BY <1>1, <1>2, <1>7, PendingIdle, PendingNames DEF Polling
<1> QED
    BY <1>3, <1>4, <1>5, <1>6, <1>7 DEF Next, LocalNext

\* At first nothing is dirty.
LEMMA PendingInit == Init => PendingInv
<1> SUFFICES ASSUME Init PROVE PendingInv
    OBVIOUS
<1>1. TypeOK
    BY TypeInit
<1>2. \A i \in Ino : ~Flushable(i)
    BY DEF Init, Flushable, Dirty, NoEntry
<1>3. HandlesOK /\ ItemsBusy
    BY DEF Init, HandlesOK, ItemsBusy, Items, NoItem, Idle
<1> QED
    BY <1>1, <1>2, <1>3 DEF PendingInv, PendingOK

\* A closed file is never dirty and forgotten, with or without staging garbage
\* collection, other clients and faults: release() and setattr() signal the flush
\* loop, and a commit that comes too late for a write leaves it a handle or a signal.
THEOREM ClosedDirtyIsPendingCorrect == Spec => []ClosedDirtyIsPending
<1>1. Init => PendingInv
    BY PendingInit
<1>2. PendingInv /\ [Next]_vars => PendingInv'
    BY PendingStep
<1>3. PendingInv => ClosedDirtyIsPending
    BY DEF PendingInv, PendingOK, Pending, ClosedDirtyIsPending, Settled, HasOpenHandles
<1> QED
    BY <1>1, <1>2, <1>3, PTL DEF Spec

----------------------------------------------------------------------------
(* When the flush loop is idle, every clean file is on the Hub.            *)

\* What a step may do to the names and hashes, and to the requests, without
\* touching a name.
NameKept(i) ==
    /\ table'[i].here => /\ table[i].here /\ table'[i].named = table[i].named
                         /\ table'[i].nlink = table[i].nlink
    /\ Linked(i) => /\ table'[i].here /\ table'[i].path = table[i].path
                    /\ table'[i].pdel = {} /\ table'[i].hash = table[i].hash
Plain == {"idle", "open", "fetch", "write", "close", "drop"}
PlainReq(s) ==
    \/ req'[s] = req[s]
    \/ /\ req[s].op \in Plain /\ req'[s].op \in Plain
       /\ req'[s].op \in {"open", "fetch"} => ~req'[s].flag

\* Such steps keep the names and the unlinks under way.
LEMMA NamesFrame ==
    ASSUME TypeOK, TypeOK', NamesOK, \A i \in Ino : NameKept(i), \A s \in Req : PlainReq(s)
    PROVE  /\ NamesOK'
           /\ \A i \in Ino : /\ Leaving(i)' <=> Leaving(i)
                             /\ Linked(i)' <=> Linked(i)
                             /\ Linked(i) => /\ table'[i].path = table[i].path
                                             /\ table'[i].hash = table[i].hash
<1>1. \A i \in Ino : Linked(i)' <=> Linked(i)
    BY DEF NameKept, Linked
<1>2. \A s \in Req : req'[s].op = "unlink" \/ req[s].op = "unlink" => req'[s] = req[s]
    BY DEF PlainReq, Plain
<1>3. \A i \in Ino : Leaving(i)' <=> Leaving(i)
    BY <1>2 DEF Leaving
<1>4. \A s \in Req : req[s].op = "unlink" => req[s].ino \in Ino
    BY ReqFields DEF TypeOK
<1>5. \A i \in Ino : /\ table'[i].here => (table'[i].named <=> table'[i].nlink > 0)
                     /\ Linked(i)' => table'[i].pdel = {}
    BY <1>1 DEF NamesOK, NameKept
<1>6. \A i, j \in Ino : Linked(i)' /\ Linked(j)' /\ table'[i].path = table'[j].path => i = j
    BY <1>1 DEF NamesOK, NameKept
<1>7. ASSUME NEW s \in Req
      PROVE  /\ req'[s].op \in {"idle", "open", "fetch", "write", "close", "unlink", "drop"}
             /\ req'[s].op \in {"open", "fetch"} => ~req'[s].flag
    BY DEF NamesOK, PlainReq, Plain
<1>8. ASSUME NEW s \in Req, req'[s].op = "unlink"
      PROVE  /\ table'[req'[s].ino].here /\ table'[req'[s].ino].nlink > 0
             /\ table'[req'[s].ino].path = req'[s].path
             /\ \A t \in Req \ {s} : req'[t].op # "unlink"
  <2>1. req'[s] = req[s]
    BY <1>2, <1>8
  <2>2. PICK i \in Ino : i = req[s].ino
    BY <1>4, <1>8, <2>1
  <2>3. /\ Linked(i) /\ table[i].path = req[s].path
        /\ \A t \in Req \ {s} : req[t].op # "unlink"
    BY <1>8, <2>1, <2>2 DEF NamesOK
  <2>4. table'[i].here /\ table'[i].nlink > 0 /\ table'[i].path = req[s].path
    BY <1>1, <2>3 DEF NameKept, Linked
  <2> QED
    BY <1>2, <2>1, <2>2, <2>3, <2>4
<1>9. NamesOK'
    BY <1>5, <1>6, <1>7, <1>8 DEF NamesOK, Linked
<1> QED
    BY <1>1, <1>3, <1>9 DEF NameKept

\* Steps that leave the Hub, the flush loop and the contents alone too.
LEMMA SyncQuiet ==
    ASSUME SyncInv, LocalInv', UNCHANGED <<data, seen, remote, delq, dels, snap>>,
           fpc' = fpc \/ (fpc = "gc" /\ fpc' = "recv"),
           \A i \in Ino : NameKept(i), \A s \in Req : PlainReq(s)
    PROVE  SyncInv'
<1>0. TypeOK /\ TypeOK' /\ ItemsOK
    BY DEF SyncInv, LocalInv, CacheInv
<1>1. /\ NamesOK'
      /\ \A i \in Ino : /\ Leaving(i)' <=> Leaving(i)
                        /\ Linked(i)' <=> Linked(i)
                        /\ Linked(i) => /\ table'[i].path = table[i].path
                                        /\ table'[i].hash = table[i].hash
    BY <1>0, NamesFrame DEF SyncInv
<1>2. Items' = Items /\ (fpc' # fpc => Items = {} /\ dels = {})
    BY <1>0 DEF Items, ItemsOK, SyncInv, DeletesOK
<1>3. DeletesOK'
    BY <1>1, <1>2 DEF SyncInv, DeletesOK, DeleteAt
<1>4. CommitOK'
  <2> SUFFICES ASSUME NEW j \in Items PROVE CommitAt(j)'
    BY <1>2 DEF CommitOK
  <2>1. CommitAt(j) /\ fpc' = fpc
    BY <1>2 DEF SyncInv, CommitOK
  <2> QED
    BY <1>1, <1>2, <2>1 DEF CommitAt
<1>5. ContentOK'
  <2> SUFFICES ASSUME NEW i \in Ino PROVE ContentAt(i)'
    BY DEF ContentOK, SyncInv
  <2>1. ContentAt(i)
    BY DEF SyncInv, ContentOK
  <2>2. InFlight(i)' => InFlight(i)
    BY <1>2 DEF InFlight, Items
  <2> QED
    BY <1>1, <1>2, <2>1, <2>2 DEF ContentAt
<1>6. SyncedOK'
    BY <1>1 DEF SyncInv, SyncedOK, SyncedAt
<1> QED
    BY <1>1, <1>3, <1>4, <1>5, <1>6 DEF SyncInv

\* An entry that a step leaves as it is keeps its name.
LEMMA SameNamed ==
    ASSUME SyncInv, NEW i \in Ino, table'[i] = table[i]
    PROVE  NameKept(i)
BY DEF NameKept, SyncInv, NamesOK, Linked

\* open(2), write(2) and a resize of the staging file leave name and hash alone.
LEMMA NameFields ==
    ASSUME NEW e \in Entry, NEW f,
           \/ f = NotCurrent(e) \/ f = Written(e)
           \/ \E m, t \in BOOLEAN : f = Opened(e, m, t)
    PROVE  /\ f.here = e.here /\ f.named = e.named /\ f.nlink = e.nlink /\ f.path = e.path
           /\ f.pdel = e.pdel /\ f.hash = e.hash
<1>1. ASSUME NEW m, NEW t
      PROVE  LET g == Opened(e, m, t)
             IN  /\ g.here = e.here /\ g.named = e.named /\ g.nlink = e.nlink
                 /\ g.path = e.path /\ g.pdel = e.pdel /\ g.hash = e.hash
    BY DEF Opened, Entry
<1>2. CASE f = NotCurrent(e)
    BY <1>2 DEF NotCurrent, Entry
<1>3. CASE f = Written(e)
    BY <1>3 DEF Written, Entry
<1> QED
    BY <1>1, <1>2, <1>3

\* Steps that change at most such fields of one entry.
LEMMA SyncEntry ==
    ASSUME SyncInv, LocalInv', UNCHANGED <<data, seen, remote, delq, dels, snap, fpc>>,
           \A s \in Req : PlainReq(s), NEW j \in Ino, NEW f,
           table' = table \/ table' = [table EXCEPT ![j] = f],
           \/ f = NotCurrent(table[j]) \/ f = Written(table[j])
           \/ \E m, t \in BOOLEAN : f = Opened(table[j], m, t)
    PROVE  SyncInv'
<1>0. TypeOK
    BY DEF SyncInv, LocalInv, CacheInv
<1>1. PICK e \in Entry : e = table[j]
    BY <1>0 DEF TypeOK
<1>2. /\ f.here = e.here /\ f.named = e.named /\ f.nlink = e.nlink /\ f.path = e.path
      /\ f.pdel = e.pdel /\ f.hash = e.hash
    BY <1>1, NameFields
<1>3. \A i \in Ino : table'[i] = table[i] \/ (i = j /\ table'[i] = f)
    BY <1>0 DEF TypeOK
<1>4. table'[j] = f => NameKept(j)
    BY <1>1, <1>2 DEF NameKept, SyncInv, NamesOK, Linked
<1>5. \A i \in Ino : NameKept(i)
    BY <1>3, <1>4, SameNamed
<1> QED
    BY <1>5, SyncQuiet

\* A request that touches no name ends.
LEMMA FinishPlain ==
    ASSUME TypeOK, NEW r \in Req, req[r].op \in Plain, Finish(r)
    PROVE  \A s \in Req : PlainReq(s)
<1>1. Idle.op = "idle"
    BY DEF Idle
<1> QED
    BY <1>1, Ending DEF PlainReq, Plain

\* open(), write(), release() and drop_locked(): no name and no hash changes.
LEMMA SyncRequests ==
    ASSUME SyncInv, LocalInv', ~GcArmed, NEW r \in Req,
           \/ \E i \in Ino : OpenStart(r, i, FALSE)
           \/ OpenLock(r) \/ OpenFail(r) \/ WriteDone(r) \/ ReleaseDone(r) \/ DropLocked(r)
           \/ \E h \in Handle : OpenDone(r, h) \/ Release(r, h)
    PROVE  SyncInv'
<1> USE ValueAssumption
<1>0. TypeOK /\ TypeOK' /\ HandlesOK /\ NamesOK
    BY DEF SyncInv, LocalInv, CacheInv, RequestsOK
<1>1. UNCHANGED <<seen, remote, delq, dels, snap, fpc>>
    BY ZenonT(60) DEF OpenStart, OpenLock, OpenFail, WriteDone, ReleaseDone, DropLocked, OpenDone,
       Release, qvars, fvars, hvars
<1>2. ASSUME NEW i \in Ino, OpenStart(r, i, FALSE) PROVE SyncInv'
  <2> DEFINE rec == [Idle EXCEPT !.op = "open", !.ino = i, !.flag = FALSE,
                                 !.hash = table[i].hash, !.zero = table[i].zero]
  <2>1. rec.op = "open" /\ rec.flag = FALSE
    BY DEF Idle
  <2>2. Begin(r, rec) /\ UNCHANGED <<table, data>>
    BY Zenon, <1>2 DEF OpenStart
  <2> HIDE DEF rec
  <2>3. \A s \in Req : PlainReq(s)
    BY <1>0, <2>1, <2>2, Beginning DEF PlainReq, Plain
  <2> QED
    BY <1>1, <2>2, <2>3, SameNamed, SyncQuiet
<1>3. CASE OpenLock(r)
  <2>1. PICK q \in ReqState : q = req[r]
    BY <1>0 DEF TypeOK
  <2>2. PICK j \in Ino : j = q.ino
    BY <1>3, <2>1, ReqFields DEF OpenLock
  <2> DEFINE fetch(b) == [q EXCEPT !.op = "fetch", !.reuse = b]
  <2>3. \A b : fetch(b).op = "fetch" /\ fetch(b).flag = q.flag
    BY DEF ReqState
  <2>4. /\ req[r].op = "open" /\ UNCHANGED data
        /\ req' = [req EXCEPT ![r] = Idle] \/ \E b : req' = [req EXCEPT ![r] = fetch(b)]
        /\ table' = table \/ table' = [table EXCEPT ![j] = NotCurrent(table[j])]
    <3>1. req[r].op = "open" /\ UNCHANGED data
      BY <1>3 DEF OpenLock, hvars
    <3>2. req' = [req EXCEPT ![r] = Idle] \/ \E b : req' = [req EXCEPT ![r] = fetch(b)]
      BY <1>3, <2>1, Zenon DEF OpenLock, Finish
    <3>3. table' = table \/ table' = [table EXCEPT ![j] = NotCurrent(table[j])]
      BY <1>3, <2>1, <2>2, Zenon DEF OpenLock
    <3> QED
      BY <3>1, <3>2, <3>3
  <2> HIDE DEF fetch
  <2>5. Idle.op = "idle"
    BY DEF Idle
  <2>6. ~q.flag
    BY <1>0, <2>1, <2>4 DEF NamesOK
  <2>7. \A s \in Req : req'[s] = req[s] \/ (s = r /\ (req'[s] = Idle \/ \E b : req'[s] = fetch(b)))
    BY <1>0, <2>4 DEF TypeOK
  <2>8. \A s \in Req : PlainReq(s)
    BY <2>3, <2>4, <2>5, <2>6, <2>7 DEF PlainReq, Plain
  <2> QED
    BY <1>1, <2>4, <2>8, SyncEntry
<1>4. CASE OpenFail(r)
  <2>1. UNCHANGED <<table, data>> /\ Finish(r) /\ req[r].op = "fetch"
    BY <1>4, ZenonT(30) DEF OpenFail
  <2>2. \A s \in Req : PlainReq(s)
    BY <1>0, <2>1, FinishPlain DEF Plain
  <2> QED
    BY <1>1, <2>1, <2>2, SameNamed, SyncQuiet
<1>5. CASE WriteDone(r)
  <2>1. PICK j \in Ino : j = req[r].ino
    BY <1>0, <1>5, ReqFields DEF TypeOK, WriteDone
  <2>2. /\ UNCHANGED data /\ Finish(r) /\ req[r].op = "write"
        /\ table' = table \/ table' = [table EXCEPT ![j] = Written(table[j])]
    BY <1>5, <2>1 DEF WriteDone, hvars
  <2>3. \A s \in Req : PlainReq(s)
    BY <1>0, <2>2, FinishPlain DEF Plain
  <2> QED
    BY <1>1, <2>2, <2>3, SyncEntry
<1>6. CASE ReleaseDone(r)
  <2>1. PICK j \in Ino : j = req[r].ino
    BY <1>0, <1>6, ReqFields DEF TypeOK, ReleaseDone
  <2>2. /\ UNCHANGED data /\ Finish(r) /\ req[r].op = "close"
        /\ \/ table' = table
           \/ table' = [table EXCEPT ![j] = NoEntry] /\ table[j].nlink = 0
    BY <1>6, <2>1 DEF ReleaseDone, Finish, hvars
  <2>3. \A s \in Req : PlainReq(s)
    BY <1>0, <2>2, FinishPlain DEF Plain
  <2>4. \A i \in Ino : table'[i] = table[i] \/ (table'[i] = NoEntry /\ table[i].nlink = 0)
    BY <1>0, <2>2 DEF TypeOK
  <2>5. \A i \in Ino : NameKept(i)
    BY <2>4, SameNamed, BlankFields DEF NameKept, Linked
  <2> QED
    BY <1>1, <2>2, <2>3, <2>5, SyncQuiet
<1>7. CASE DropLocked(r)
  <2>1. UNCHANGED <<table, data>> /\ Finish(r) /\ req[r].op = "drop"
    BY <1>7, ZenonT(30) DEF DropLocked, hvars
  <2>2. \A s \in Req : PlainReq(s)
    BY <1>0, <2>1, FinishPlain DEF Plain
  <2> QED
    BY <1>1, <2>1, <2>2, SameNamed, SyncQuiet
<1>8. ASSUME NEW h \in Handle, OpenDone(r, h) PROVE SyncInv'
  <2>1. PICK q \in ReqState : q = req[r]
    BY <1>0 DEF TypeOK
  <2>2. PICK j \in Ino : j = q.ino
    BY <1>8, <2>1, ReqFields DEF OpenDone
  <2>3. Finish(r) /\ q.op = "fetch"
    BY <1>8, <2>1, ZenonT(30) DEF OpenDone
  <2>4. ~q.flag
    BY <1>0, <2>1, <2>3 DEF NamesOK
  <2>5. data' = data
    <3>1. data' = data \/ data' = [data EXCEPT ![j] = IF q.flag THEN Empty ELSE @]
      BY <1>8, <2>1, <2>2, ZenonT(30) DEF OpenDone
    <3> QED
      BY <1>0, <2>4, <3>1 DEF TypeOK
  <2> DEFINE mirrors == /\ ~q.reuse
                        /\ NeedsDownload(q) \/ (q.hash = None /\ q.zero)
                        /\ table[j].hash = q.hash
  <2>6. table' = table \/ table' = [table EXCEPT ![j] = Opened(table[j], mirrors, q.flag)]
    BY <1>8, <2>1, <2>2 DEF OpenDone
  <2>7. mirrors \in BOOLEAN /\ q.flag \in BOOLEAN
    BY ReqFields
  <2> HIDE DEF mirrors
  <2>8. \A s \in Req : PlainReq(s)
    BY <1>0, <2>1, <2>3, FinishPlain DEF Plain
  <2> QED
    BY <1>1, <2>5, <2>6, <2>7, <2>8, SyncEntry
<1>9. ASSUME NEW h \in Handle, Release(r, h) PROVE SyncInv'
  <2> DEFINE rec == [Idle EXCEPT !.op = "close", !.ino = fd[h], !.fh = h]
  <2>1. rec.op = "close" /\ Idle.op = "idle"
    BY DEF Idle
  <2>2. req' = [req EXCEPT ![r] = rec] /\ UNCHANGED <<table, data>> /\ req[r] = Idle
    BY Zenon, <1>9 DEF Release, hvars
  <2> HIDE DEF rec
  <2>3. \A s \in Req : PlainReq(s)
    BY <1>0, <2>1, <2>2 DEF PlainReq, Plain, TypeOK
  <2> QED
    BY <1>1, <2>2, <2>3, SameNamed, SyncQuiet
<1> QED
    BY <1>2, <1>3, <1>4, <1>5, <1>6, <1>7, <1>8, <1>9

\* The steps of the flush loop that neither read nor change names, hashes or the Hub.
LEMMA SyncFlushQuiet ==
    ASSUME SyncInv, LocalInv',
           \/ \E h \in Handle : FlushHandle(h)
           \/ \E i \in Ino : FlushRecv(i) \/ FlushLock(i)
           \/ FlushGc \/ UNCHANGED vars
    PROVE  SyncInv'
<1>1. UNCHANGED <<data, seen, remote, delq, dels, snap, table, req>>
    BY ZenonT(30) DEF FlushHandle, FlushRecv, FlushLock, FlushGc, vars, ivars, qvars, fvars, hvars
<1>2. fpc' = fpc \/ (fpc = "gc" /\ fpc' = "recv")
    BY ZenonT(30) DEF FlushHandle, FlushRecv, FlushLock, FlushGc, vars, fvars
<1> QED
    BY <1>1, <1>2, SameNamed, SyncQuiet DEF PlainReq

\* write(): the content is new, so the file differs from its hash from now on.
LEMMA SyncPWrite ==
    ASSUME SyncInv, LocalInv', ~Rewrites, NEW r \in Req, NEW h \in Handle, NEW c \in Content,
           PWrite(r, h, c)
    PROVE  SyncInv'
<1> USE ValueAssumption
<1> DEFINE rec == [Idle EXCEPT !.op = "write", !.ino = fd[h], !.fh = h]
<1>0. TypeOK /\ TypeOK' /\ NamesOK /\ ContentOK
    BY DEF SyncInv, LocalInv, CacheInv
<1>1. PICK j \in Ino : j = fd[h]
    BY <1>0 DEF PWrite, TypeOK
<1>2. /\ UNCHANGED <<table, remote, delq, dels, snap, fpc>> /\ Begin(r, rec) /\ c \notin seen
      /\ data' = [data EXCEPT ![j] = c] /\ seen' = seen \cup {c}
    BY <1>1, ZenonT(30) DEF PWrite, qvars, fvars
<1>3. rec.op = "write"
    BY DEF Idle
<1> HIDE DEF rec
<1>4. \A s \in Req : PlainReq(s)
    BY <1>0, <1>2, <1>3, Beginning DEF PlainReq, Plain
<1>5. NamesOK' /\ \A i \in Ino : (Leaving(i)' <=> Leaving(i)) /\ (Linked(i)' <=> Linked(i))
    BY <1>0, <1>2, <1>4, SameNamed, NamesFrame
<1>6. \A i \in Ino : data'[i] = IF i = j THEN c ELSE data[i]
    BY <1>0, <1>2 DEF TypeOK
<1>7. Items' = Items /\ \A i \in Ino : InFlight(i)' <=> InFlight(i)
    BY <1>2 DEF Items, InFlight
<1>8. Linked(j) => table[j].hash # c
    BY <1>0, <1>2 DEF ContentOK, ContentAt
<1>9. DeletesOK'
    BY <1>2, <1>5 DEF SyncInv, DeletesOK, DeleteAt
<1>10. CommitOK'
    BY <1>2, <1>5, <1>7 DEF SyncInv, CommitOK, CommitAt
<1>11. ContentOK'
  <2> SUFFICES ASSUME NEW i \in Ino PROVE ContentAt(i)'
    BY <1>0, <1>2 DEF ContentOK
  <2>1. ContentAt(i)
    BY <1>0 DEF ContentOK
  <2> QED
    BY <1>2, <1>5, <1>6, <1>7, <1>8, <2>1 DEF ContentAt
<1>12. SyncedOK'
    BY <1>2, <1>5, <1>6, <1>8 DEF SyncInv, SyncedOK, SyncedAt
<1> QED
    BY <1>5, <1>9, <1>10, <1>11, <1>12 DEF SyncInv

\* create(): the name was free, a delete of it that is still queued is cancelled,
\* and the new file has no hash.
LEMMA SyncCreate ==
    ASSUME SyncInv, LocalInv', NEW p \in Path, NEW j \in Ino, NEW h \in Handle, Create(p, j, h)
    PROVE  SyncInv'
<1> USE ValueAssumption
<1> DEFINE e == [here |-> TRUE, named |-> TRUE, nlink |-> 1, path |-> p, gen |-> 1,
                 hash |-> None, zero |-> TRUE, cur |-> FALSE, pdel |-> {}]
<1>0. TypeOK /\ TypeOK' /\ NamesOK /\ UsedOK /\ DeletesOK /\ CommitOK /\ ContentOK /\ SyncedOK
    BY DEF SyncInv, LocalInv, CacheInv
<1>1. /\ DirFree /\ LookupChild(p) = {} /\ j \notin used
      /\ table' = [table EXCEPT ![j] = e] /\ delq' = delq \ {p}
      /\ data' = [data EXCEPT ![j] = Empty]
      /\ UNCHANGED <<req, dels, snap, fpc, remote, seen>>
    BY ZenonT(30) DEF Create, fvars
<1>2. e.here /\ e.named /\ e.nlink = 1 /\ e.path = p /\ e.hash = None /\ e.pdel = {}
    OBVIOUS
<1> HIDE DEF e
<1>3. /\ \A i \in Ino : table'[i] = IF i = j THEN e ELSE table[i]
      /\ \A i \in Ino : data'[i] = IF i = j THEN Empty ELSE data[i]
    BY <1>0, <1>1 DEF TypeOK
<1>4. /\ \A i \in Ino \ {j} : Linked(i)' <=> Linked(i)
      /\ ~Linked(j) /\ ~snap[j].on
      /\ \A i \in Ino : Leaving(i)' <=> Leaving(i)
    BY <1>0, <1>1, <1>3 DEF Linked, UsedOK, Leaving
<1>5. \A s \in Req : req[s].op # "unlink"
    BY <1>1 DEF DirFree
<1>6. \A i \in Ino : Linked(i) => table[i].path # p
    BY <1>0, <1>1 DEF NamesOK, Linked, LookupChild
<1>7. Items' = Items /\ j \notin Items /\ \A i \in Ino : InFlight(i)' <=> InFlight(i)
    BY <1>1, <1>4 DEF Items, InFlight
<1>8. NamesOK'
  <2>1. \A i \in Ino : /\ table'[i].here => (table'[i].named <=> table'[i].nlink > 0)
                       /\ Linked(i)' => table'[i].pdel = {}
    BY <1>0, <1>2, <1>3, <1>4 DEF NamesOK
  <2>2. \A i, k \in Ino : Linked(i)' /\ Linked(k)' /\ table'[i].path = table'[k].path => i = k
    BY <1>0, <1>2, <1>3, <1>4, <1>6 DEF NamesOK
  <2> QED
    BY <1>0, <1>1, <1>5, <2>1, <2>2 DEF NamesOK
<1>9. DeletesOK'
    BY <1>0, <1>1, <1>2, <1>3, <1>4 DEF DeletesOK, DeleteAt
<1>10. CommitOK'
  <2> SUFFICES ASSUME NEW k \in Items PROVE CommitAt(k)'
    BY <1>7 DEF CommitOK
  <2>1. CommitAt(k)
    BY <1>0 DEF CommitOK
  <2> QED
    BY <1>1, <1>2, <1>3, <1>4, <1>7, <2>1 DEF CommitAt
<1>11. ContentOK'
  <2> SUFFICES ASSUME NEW i \in Ino PROVE ContentAt(i)'
    BY <1>0, <1>1 DEF ContentOK
  <2>1. ContentAt(i) /\ Empty \in seen
    BY <1>0 DEF ContentOK
  <2>2. ~InFlight(j)
    BY <1>4 DEF InFlight
  <2> QED
    BY <1>1, <1>2, <1>3, <1>4, <1>7, <2>1, <2>2 DEF ContentAt
<1>12. SyncedOK'
    BY <1>0, <1>1, <1>2, <1>3, <1>4 DEF SyncedOK, SyncedAt
<1> QED
    BY <1>8, <1>9, <1>10, <1>11, <1>12 DEF SyncInv

\* unlink(): the delete is queued for a file that is going from now on.
LEMMA SyncUnlink ==
    ASSUME SyncInv, LocalInv', NEW r \in Req, NEW j \in Ino, Unlink(r, j)
    PROVE  SyncInv'
<1> USE ValueAssumption
<1> DEFINE rec == [Idle EXCEPT !.op = "unlink", !.ino = j, !.path = table[j].path]
<1>0. TypeOK /\ TypeOK' /\ NamesOK /\ DeletesOK /\ CommitOK /\ ContentOK /\ SyncedOK
    BY DEF SyncInv, LocalInv, CacheInv
<1>1. /\ DirFree /\ table[j].here /\ table[j].named
      /\ delq \subseteq delq' /\ delq' \subseteq delq \cup {table[j].path}
      /\ UNCHANGED <<table, data, seen, dels, snap, fpc, remote>>
    BY ZenonT(30) DEF Unlink, fvars
<1>2. Begin(r, rec)
    BY DEF Unlink
<1>3. rec.op = "unlink" /\ rec.ino = j /\ rec.path = table[j].path /\ Idle.op = "idle"
    BY DEF Idle
<1> HIDE DEF rec
<1>4. \A s \in Req : req'[s] = IF s = r THEN rec ELSE req[s]
    BY <1>0, <1>2 DEF Begin, TypeOK
<1>5. \A s \in Req : req[s].op # "unlink"
    BY <1>1 DEF DirFree
<1>6. Leaving(j)' /\ \A i \in Ino : (Linked(i)' <=> Linked(i)) /\ ~Leaving(i)
    BY <1>1, <1>3, <1>4, <1>5 DEF Leaving, Linked
<1>7. Linked(j)
    BY <1>0, <1>1 DEF NamesOK, Linked
<1>8. NamesOK'
  <2>1. ASSUME NEW s \in Req
        PROVE  /\ req'[s].op \in {"idle", "open", "fetch", "write", "close", "unlink", "drop"}
               /\ req'[s].op \in {"open", "fetch"} => ~req'[s].flag
               /\ req'[s].op = "unlink" =>
                    /\ table'[req'[s].ino].here /\ table'[req'[s].ino].nlink > 0
                    /\ table'[req'[s].ino].path = req'[s].path
                    /\ \A t \in Req \ {s} : req'[t].op # "unlink"
    BY <1>0, <1>1, <1>3, <1>4, <1>5, <1>7 DEF NamesOK, Linked
  <2> QED
    BY <1>0, <1>1, <1>6, <2>1 DEF NamesOK, Linked
<1>9. DeletesOK'
  <2>1. \A i \in Ino : Linked(i) /\ table[i].path = table[j].path => i = j
    BY <1>0, <1>7 DEF NamesOK
  <2> QED
    BY <1>0, <1>1, <1>6, <2>1 DEF DeletesOK, DeleteAt
<1>10. CommitOK' /\ ContentOK'
  <2>1. Items' = Items /\ \A i \in Ino : InFlight(i)' <=> InFlight(i)
    BY <1>1 DEF Items, InFlight
  <2>2. CommitOK'
    BY <1>0, <1>1, <1>6, <2>1 DEF CommitOK, CommitAt
  <2> QED
    BY <1>0, <1>1, <1>6, <2>1, <2>2 DEF ContentOK, ContentAt
<1>11. SyncedOK'
    BY <1>0, <1>1, <1>6 DEF SyncedOK, SyncedAt
<1> QED
    BY <1>8, <1>9, <1>10, <1>11 DEF SyncInv

\* unlink(): then the name goes; the directory lock has kept it in place.
LEMMA SyncUnlinkLocal ==
    ASSUME SyncInv, LocalInv', NEW r \in Req, UnlinkLocal(r)
    PROVE  SyncInv'
<1> USE ValueAssumption
<1>0. TypeOK /\ TypeOK' /\ NamesOK /\ DeletesOK /\ CommitOK /\ ContentOK /\ SyncedOK
    BY DEF SyncInv, LocalInv, CacheInv
<1>1. PICK j \in Ino : j = req[r].ino
    BY <1>0, ReqFields DEF TypeOK, UnlinkLocal
<1> DEFINE drop == [Idle EXCEPT !.op = "drop", !.ino = j]
<1>2. drop.op = "drop" /\ Idle.op = "idle"
    BY DEF Idle
<1>3. req[r].op = "unlink" /\ UNCHANGED <<data, seen, delq, dels, snap, fpc, remote>>
    BY DEF UnlinkLocal, qvars, fvars, hvars
<1>4. /\ Linked(j) /\ table[j].path = req[r].path
      /\ \A s \in Req \ {r} : req[s].op # "unlink"
    BY <1>0, <1>1, <1>3 DEF NamesOK
<1>5. j \in LookupChild(req[r].path)
    BY <1>0, <1>4 DEF LookupChild, Linked, NamesOK
<1>6. /\ req' = [req EXCEPT ![r] = Idle] \/ req' = [req EXCEPT ![r] = drop]
      /\ \/ table' = [table EXCEPT ![j] = UnlinkOne(table[j])]
         \/ table' = [table EXCEPT ![j] = NoEntry]
    BY <1>1, <1>5 DEF UnlinkLocal
<1> HIDE DEF drop
<1>7. \A s \in Req : IF s = r THEN req'[s] \in {Idle, drop} ELSE req'[s] = req[s]
    BY <1>0, <1>6 DEF TypeOK
<1>8. \A i \in Ino : \/ i # j /\ table'[i] = table[i]
                     \/ i = j /\ table'[i] \in {UnlinkOne(table[j]), NoEntry}
    BY <1>0, <1>6 DEF TypeOK
<1>9. UnlinkOne(table[j]).nlink = 0 /\ UnlinkOne(table[j]).named = FALSE
  <2>1. PICK e \in Entry : e = table[j]
    BY <1>0 DEF TypeOK
  <2> QED
    BY <2>1 DEF UnlinkOne, Entry
<1>10. /\ ~Linked(j)' /\ \A i \in Ino \ {j} : Linked(i)' <=> Linked(i)
       /\ \A i \in Ino : ~Leaving(i)' /\ (i # j => ~Leaving(i))
    BY <1>1, <1>2, <1>4, <1>7, <1>8, <1>9, BlankFields DEF Linked, Leaving
<1>11. NamesOK'
  <2>1. \A i \in Ino : /\ table'[i].here => (table'[i].named <=> table'[i].nlink > 0)
                       /\ Linked(i)' => table'[i].pdel = {}
    BY <1>0, <1>8, <1>9, <1>10, BlankFields DEF NamesOK
  <2>2. \A i, k \in Ino : Linked(i)' /\ Linked(k)' /\ table'[i].path = table'[k].path => i = k
    BY <1>0, <1>8, <1>10 DEF NamesOK
  <2>3. ASSUME NEW s \in Req
        PROVE  /\ req'[s].op \in {"idle", "open", "fetch", "write", "close", "unlink", "drop"}
               /\ req'[s].op \in {"open", "fetch"} => ~req'[s].flag
               /\ req'[s].op # "unlink"
    BY <1>0, <1>2, <1>4, <1>7 DEF NamesOK
  <2> QED
    BY <2>1, <2>2, <2>3 DEF NamesOK
<1>12. DeletesOK'
    BY <1>0, <1>3, <1>8, <1>10 DEF DeletesOK, DeleteAt
<1>13. Items' = Items /\ \A i \in Ino : InFlight(i)' <=> InFlight(i)
    BY <1>3 DEF Items, InFlight
<1>14. CommitOK'
    BY <1>0, <1>3, <1>8, <1>10, <1>13 DEF CommitOK, CommitAt
<1>15. ContentOK'
    BY <1>0, <1>3, <1>8, <1>10, <1>13 DEF ContentOK, ContentAt
<1>16. SyncedOK'
    BY <1>0, <1>3, <1>8, <1>10 DEF SyncedOK, SyncedAt
<1> QED
    BY <1>11, <1>12, <1>14, <1>15, <1>16 DEF SyncInv

\* Steps of the flush loop leave the requests and the names alone.
LEMMA FlushNames ==
    ASSUME SyncInv, LocalInv', UNCHANGED req, \A i \in Ino : NameKept(i)
    PROVE  /\ NamesOK'
           /\ \A i \in Ino : /\ Leaving(i)' <=> Leaving(i)
                             /\ Linked(i)' <=> Linked(i)
                             /\ Linked(i) => /\ table'[i].path = table[i].path
                                             /\ table'[i].hash = table[i].hash
BY NamesFrame DEF PlainReq, SyncInv, LocalInv, CacheInv

\* The queued deletes are sent: a file that takes one of the names now is not on the
\* Hub before the delete is.
LEMMA SyncDeletes ==
    ASSUME SyncInv, LocalInv', FlushTakeDeletes \/ FlushDeletesDone
    PROVE  SyncInv'
<1>0. TypeOK /\ TypeOK' /\ ItemsOK /\ DeletesOK /\ ContentOK /\ SyncedOK
    BY DEF SyncInv, LocalInv, CacheInv
<1>1. UNCHANGED <<table, req, data, seen, snap>> /\ fpc \in {"recv", "deleting"}
    BY ZenonT(30) DEF FlushTakeDeletes, FlushDeletesDone, ivars, hvars
<1>2. NamesOK' /\ \A i \in Ino : (Leaving(i)' <=> Leaving(i)) /\ (Linked(i)' <=> Linked(i))
    BY <1>1, SameNamed, FlushNames
<1>3. Items = {} /\ Items' = {} /\ \A i \in Ino : ~snap[i].on
    BY <1>0, <1>1 DEF ItemsOK, Items
<1>4. CommitOK'
    BY <1>3 DEF CommitOK
<1>5. ContentOK'
    BY <1>0, <1>1, <1>2, <1>3 DEF ContentOK, ContentAt, InFlight
<1>6. DeletesOK'
  <2>1. CASE FlushTakeDeletes
    <3>1. dels = {}
      BY <1>0, <2>1 DEF FlushTakeDeletes, DeletesOK
    <3>2. /\ delq' = {} /\ dels' = delq
          /\ dels' # {} => fpc' = "deleting"
      BY <2>1, <3>1 DEF FlushTakeDeletes
    <3> QED
      BY <1>0, <1>1, <1>2, <3>2 DEF DeletesOK, DeleteAt
  <2>2. CASE FlushDeletesDone
    <3>1. delq' = delq /\ dels' = {}
      BY <2>2 DEF FlushDeletesDone, qvars
    <3> QED
      BY <1>0, <1>1, <1>2, <3>1 DEF DeletesOK, DeleteAt
  <2> QED
    BY <2>1, <2>2
<1>7. SyncedOK'
  <2>1. CASE FlushTakeDeletes
    <3>1. UNCHANGED remote
      BY <2>1 DEF FlushTakeDeletes
    <3> QED
      BY <1>0, <1>1, <1>2, <3>1 DEF SyncedOK, SyncedAt
  <2>2. CASE FlushDeletesDone
    <3>1. \A p \in Path : remote'[p] = IF p \in dels THEN None ELSE remote[p]
      BY <2>2 DEF FlushDeletesDone, AfterDeletes
    <3>2. \A i \in Ino : table[i].path \in Path
      BY <1>0 DEF TypeOK, Entry
    <3> QED
      BY <1>0, <1>1, <1>2, <3>1, <3>2 DEF SyncedOK, SyncedAt, DeletesOK, DeleteAt
  <2> QED
    BY <2>1, <2>2
<1> QED
    BY <1>2, <1>4, <1>5, <1>6, <1>7 DEF SyncInv

\* flush_batch() takes what the entries say, one item for a name.
LEMMA SyncSnapshot ==
    ASSUME SyncInv, LocalInv', FlushSnapshot
    PROVE  SyncInv'
<1> DEFINE items == {i \in batch : Flushable(i) /\ disk[i] # None}
           taken(i) == [on |-> TRUE, path |-> table[i].path, gen |-> table[i].gen,
                        prev |-> table[i].hash, pdel |-> table[i].pdel, up |-> None]
<1>0. TypeOK /\ TypeOK' /\ ItemsOK /\ DeletesOK /\ ContentOK /\ SyncedOK /\ NamesOK
    BY DEF SyncInv, LocalInv, CacheInv
<1>1. /\ UNCHANGED <<table, req, data, seen, remote, delq, dels>> /\ fpc = "lock"
      /\ fpc' \in {"recv", "gc", "upload"}
      /\ \/ UNCHANGED snap
         \/ snap' = [i \in Ino |-> IF i \in items THEN taken(i) ELSE NoItem]
    BY ZenonT(30) DEF FlushSnapshot, hvars
<1>2. NamesOK' /\ \A i \in Ino : (Leaving(i)' <=> Leaving(i)) /\ (Linked(i)' <=> Linked(i))
    BY <1>1, SameNamed, FlushNames
<1>3. \A i \in Ino : ~snap[i].on
    BY <1>0, <1>1 DEF ItemsOK, Items
<1>4. \A i \in Ino : /\ taken(i).path = table[i].path /\ taken(i).prev = table[i].hash
                     /\ taken(i).pdel = table[i].pdel
    OBVIOUS
<1> HIDE DEF taken
<1>5. \A i \in Items' : i \in Ino /\ Linked(i) /\ snap'[i] = taken(i)
  <2>1. \A i \in Ino : i \in items => Linked(i)
    BY DEF Flushable
  <2> HIDE DEF items
  <2> QED
    BY <1>1, <1>3, <2>1, BlankFields DEF Items
<1>6. CommitOK'
  <2> SUFFICES ASSUME NEW j \in Items' PROVE CommitAt(j)'
    BY DEF CommitOK
  <2>1. /\ j \in Ino /\ Linked(j) /\ snap'[j].path = table[j].path /\ snap'[j].pdel = {}
        /\ table[j].path \in Path
    BY <1>0, <1>4, <1>5 DEF NamesOK, TypeOK, Entry
  <2>2. \A i \in Items' : snap'[i].path = snap'[j].path => i = j
    BY <1>0, <1>4, <1>5, <2>1 DEF NamesOK
  <2>3. \A i \in Ino : Linked(i)' /\ table'[i].path = snap'[j].path => i = j
    BY <1>0, <1>1, <1>2, <2>1 DEF NamesOK
  <2> QED
    BY <1>1, <2>1, <2>2, <2>3 DEF CommitAt
<1>7. ContentOK'
    BY <1>0, <1>1, <1>2, <1>4, <1>5 DEF ContentOK, ContentAt, InFlight
<1>8. dels = {}
    BY <1>0, <1>1 DEF DeletesOK
<1>9. DeletesOK' /\ SyncedOK'
    BY <1>0, <1>1, <1>2, <1>8 DEF DeletesOK, DeleteAt, SyncedOK, SyncedAt
<1> QED
    BY <1>2, <1>6, <1>7, <1>9 DEF SyncInv

\* An upload is of what applications last gave the file.
LEMMA SyncUpload ==
    ASSUME SyncInv, LocalInv', FlushUpload
    PROVE  SyncInv'
<1>0. /\ TypeOK /\ TypeOK' /\ ItemsOK /\ DeletesOK /\ ContentOK /\ SyncedOK /\ CommitOK
      /\ StagedOK
    BY DEF SyncInv, LocalInv, CacheInv
<1>1. /\ UNCHANGED <<table, req, data, seen, remote, delq, dels, disk>>
      /\ fpc = "upload" /\ fpc' = "uploaded"
    BY ZenonT(30) DEF FlushUpload, hvars, qvars
<1>2. NamesOK' /\ \A i \in Ino : (Leaving(i)' <=> Leaving(i)) /\ (Linked(i)' <=> Linked(i))
    BY <1>1, SameNamed, FlushNames
<1>3. ASSUME NEW i \in Ino
      PROVE  /\ snap'[i].on = snap[i].on /\ snap'[i].path = snap[i].path
             /\ snap'[i].prev = snap[i].prev /\ snap'[i].pdel = snap[i].pdel
             /\ snap[i].on => snap'[i].up = disk[i]
  <2>1. PICK it \in Item : it = snap[i]
    BY <1>0 DEF TypeOK
  <2> DEFINE new == [it EXCEPT !.up = disk[i]]
  <2>2. snap'[i] = IF snap[i].on THEN new ELSE snap[i]
    BY <2>1 DEF FlushUpload, Items
  <2>3. new.on = it.on /\ new.path = it.path /\ new.prev = it.prev /\ new.pdel = it.pdel
        /\ new.up = disk[i]
    BY DEF Item
  <2> HIDE DEF new
  <2> QED
    BY <2>1, <2>2, <2>3
<1>4. Items' = Items
    BY <1>3 DEF Items
<1>5. CommitOK'
  <2> SUFFICES ASSUME NEW j \in Items PROVE CommitAt(j)'
    BY <1>4 DEF CommitOK
  <2>1. CommitAt(j) /\ j \in Ino
    BY <1>0 DEF CommitOK, Items
  <2>2. \A i \in Items : i \in Ino
    BY DEF Items
  <2> QED
    BY <1>1, <1>2, <1>3, <1>4, <2>1, <2>2 DEF CommitAt
<1>6. ContentOK'
  <2> SUFFICES ASSUME NEW i \in Ino, Linked(i) PROVE ContentAt(i)'
    BY <1>0, <1>1, <1>2 DEF ContentOK, ContentAt
  <2>1. ContentAt(i)
    BY <1>0 DEF ContentOK
  <2>2. ASSUME i \in Items PROVE disk[i] = data[i]
    <3>1. table[i].gen >= snap[i].gen /\ snap[i].gen > 0
      BY <1>0, <2>2 DEF ItemsOK, Linked
    <3>2. table[i].gen \in Nat /\ snap[i].gen \in Nat
      BY <1>0 DEF TypeOK, Entry, Item
    <3>3. Dirty(i)
      BY <3>1, <3>2 DEF Dirty
    <3> QED
      BY <1>0, <3>3 DEF StagedOK, StagedAt
  <2> QED
    BY <1>1, <1>2, <1>3, <1>4, <2>1, <2>2 DEF ContentAt, InFlight, Items
<1>7. dels = {}
    BY <1>0, <1>1 DEF DeletesOK
<1>8. DeletesOK' /\ SyncedOK'
    BY <1>0, <1>1, <1>2, <1>7 DEF DeletesOK, DeleteAt, SyncedOK, SyncedAt
<1> QED
    BY <1>2, <1>5, <1>6, <1>8 DEF SyncInv

\* What the Hub has after the commit, whether the mount hears of it or not: the
\* path of an item has what was uploaded, other paths are as before, and no file
\* that is as its hash says is touched.
LEMMA CommitAdds ==
    ASSUME SyncInv, fpc = "commit"
    PROVE  /\ \A j \in Items : AfterCommit(snap[j].path) = snap[j].up
           /\ \A i \in Ino : Linked(i) /\ ~Leaving(i) /\ table[i].hash # None
                             /\ data[i] = table[i].hash
                             => AfterCommit(table[i].path) = table[i].hash
<1>0. CommitOK /\ ContentOK /\ SyncedOK
    BY DEF SyncInv
<1>1. ASSUME NEW p PROVE ~\E i \in Items : p \in snap[i].pdel
    BY <1>0 DEF CommitOK, CommitAt
<1>2. ASSUME NEW j \in Items PROVE AfterCommit(snap[j].path) = snap[j].up
  <2>1. \A i \in Items : snap[i].path = snap[j].path <=> i = j
    BY <1>0 DEF CommitOK, CommitAt
  <2>2. (CHOOSE i \in Items : snap[i].path = snap[j].path) = j
    BY <2>1
  <2> QED
    BY <1>1, <2>2 DEF AfterCommit
<1>3. ASSUME NEW i \in Ino, Linked(i), ~Leaving(i), table[i].hash # None,
             data[i] = table[i].hash
      PROVE  AfterCommit(table[i].path) = table[i].hash
  <2>1. ASSUME NEW j \in Items, snap[j].path = table[i].path PROVE FALSE
    <3>1. CommitAt(j) /\ ContentAt(i)
      BY <1>0 DEF CommitOK, ContentOK
    <3>2. i = j
      BY <1>3, <2>1, <3>1 DEF CommitAt
    <3>3. InFlight(i) /\ snap[i].prev # snap[i].up /\ snap[i].prev = table[i].hash
      BY <1>3, <3>1, <3>2 DEF CommitAt, ContentAt, InFlight, Items
    <3> QED
      BY <1>3, <3>1, <3>3 DEF ContentAt
  <2> QED
    BY <1>0, <1>1, <1>3, <2>1 DEF AfterCommit, SyncedOK, SyncedAt
<1> QED
    BY <1>2, <1>3

\* The commit puts the contents of the items on the Hub.
LEMMA SyncCommit ==
    ASSUME SyncInv, LocalInv', FlushCommit
    PROVE  SyncInv'
<1>0. TypeOK /\ DeletesOK /\ ContentOK /\ SyncedOK /\ CommitOK
    BY DEF SyncInv, LocalInv, CacheInv
<1>1. /\ UNCHANGED <<table, req, data, seen, delq, dels, snap>>
      /\ fpc = "commit" /\ fpc' = "committed"
      /\ \A p \in Path : remote'[p] = AfterCommit(p)
    BY DEF FlushCommit, ivars, hvars, qvars
<1>2. NamesOK' /\ \A i \in Ino : (Leaving(i)' <=> Leaving(i)) /\ (Linked(i)' <=> Linked(i))
    BY <1>1, SameNamed, FlushNames
<1>3. Items' = Items /\ \A i \in Ino : InFlight(i)' <=> InFlight(i)
    BY <1>1 DEF Items, InFlight
<1>4. CommitOK'
  <2> SUFFICES ASSUME NEW j \in Items PROVE CommitAt(j)'
    BY <1>3 DEF CommitOK
  <2>1. CommitAt(j)
    BY <1>0 DEF CommitOK
  <2>2. remote'[snap[j].path] = snap[j].up
    BY <1>1, <2>1, CommitAdds DEF CommitAt
  <2> QED
    BY <1>1, <1>2, <1>3, <2>1, <2>2 DEF CommitAt
<1>5. ContentOK'
    BY <1>0, <1>1, <1>2, <1>3 DEF ContentOK, ContentAt
<1>6. DeletesOK'
    BY <1>0, <1>1, <1>2 DEF DeletesOK, DeleteAt
<1>7. SyncedOK'
  <2>1. \A i \in Ino : table[i].path \in Path
    BY <1>0 DEF TypeOK, Entry
  <2> QED
    BY <1>1, <1>2, <2>1, CommitAdds DEF SyncedOK, SyncedAt
<1> QED
    BY <1>2, <1>4, <1>5, <1>6, <1>7 DEF SyncInv

\* The batch is abandoned; the Hub may have applied the commit.
LEMMA SyncFail ==
    ASSUME SyncInv, LocalInv', FlushUploadFail \/ FlushCommitFail
    PROVE  SyncInv'
<1>0. TypeOK /\ DeletesOK /\ ContentOK /\ SyncedOK /\ CommitOK
    BY DEF SyncInv, LocalInv, CacheInv
<1>1. /\ UNCHANGED <<table, req, data, seen, delq, dels>>
      /\ fpc \in {"upload", "commit"} /\ snap' = [i \in Ino |-> IF i \in Ino THEN NoItem ELSE snap[i]]
    BY ZenonT(30) DEF FlushUploadFail, FlushCommitFail, DropItems, ivars
<1>2. \/ UNCHANGED remote
      \/ fpc = "commit" /\ \A p \in Path : remote'[p] = AfterCommit(p)
    BY DEF FlushUploadFail, FlushCommitFail
<1>3. NamesOK' /\ \A i \in Ino : (Leaving(i)' <=> Leaving(i)) /\ (Linked(i)' <=> Linked(i))
    BY <1>1, SameNamed, FlushNames
<1>4. Items' = {} /\ \A i \in Ino : ~InFlight(i)'
    BY <1>1, BlankFields DEF Items, InFlight
<1>5. CommitOK'
    BY <1>4 DEF CommitOK
<1>6. ContentOK'
    BY <1>0, <1>1, <1>3, <1>4 DEF ContentOK, ContentAt
<1>7. dels = {}
    BY <1>0, <1>1 DEF DeletesOK
<1>8. DeletesOK'
    BY <1>0, <1>1, <1>3, <1>7 DEF DeletesOK, DeleteAt
<1>9. SyncedOK'
  <2>1. \A i \in Ino : table[i].path \in Path
    BY <1>0 DEF TypeOK, Entry
  <2>2. CASE UNCHANGED remote
    BY <1>0, <1>1, <1>3, <2>2 DEF SyncedOK, SyncedAt
  <2>3. CASE fpc = "commit" /\ \A p \in Path : remote'[p] = AfterCommit(p)
    BY <1>1, <1>3, <2>1, <2>3, CommitAdds DEF SyncedOK, SyncedAt
  <2> QED
    BY <1>2, <2>2, <2>3
<1> QED
    BY <1>3, <1>5, <1>6, <1>8, <1>9 DEF SyncInv

\* apply_commit(): the fields it leaves, and the hash it gives.
LEMMA CommitNames ==
    ASSUME NEW e \in Entry, NEW it \in Item
    PROVE  LET f == ApplyCommit(e, it)
           IN  /\ f.here = e.here /\ f.named = e.named /\ f.nlink = e.nlink /\ f.path = e.path
               /\ \/ f = e
                  \/ f.pdel = {} /\ f.hash = it.up
BY DEF ApplyCommit, Entry, Item

\* An item that needed no commit has the hash of its entry, which it keeps.
LEMMA SyncUnchanged ==
    ASSUME SyncInv, LocalInv', FlushUnchanged
    PROVE  SyncInv'
<1>0. TypeOK /\ NamesOK /\ DeletesOK /\ ContentOK /\ SyncedOK /\ CommitOK
    BY DEF SyncInv, LocalInv, CacheInv
<1>1. /\ UNCHANGED <<req, data, seen, delq, dels, remote>> /\ fpc = "uploaded"
      /\ fpc' = IF Items = Unchanged THEN "gc" ELSE "commit"
      /\ \A i \in Ino : table'[i] = IF i \in Unchanged THEN ApplyCommit(table[i], snap[i])
                                    ELSE table[i]
      /\ \A i \in Ino : snap'[i] = IF i \in Unchanged THEN NoItem ELSE snap[i]
    BY DEF FlushUnchanged, DropItems, hvars, qvars
<1>2. ASSUME NEW i \in Ino PROVE NameKept(i)
  <2>1. CASE i \notin Unchanged
    BY <1>1, <2>1, SameNamed
  <2>2. CASE i \in Unchanged
    <3>1. PICK e \in Entry : e = table[i]
      BY <1>0 DEF TypeOK
    <3>2. PICK it \in Item : it = snap[i]
      BY <1>0 DEF TypeOK
    <3>3. PICK f : f = ApplyCommit(e, it)
      OBVIOUS
    <3>4. /\ f.here = e.here /\ f.named = e.named /\ f.nlink = e.nlink /\ f.path = e.path
          /\ f = e \/ (f.pdel = {} /\ f.hash = it.up)
      BY <3>3, CommitNames
    <3>5. table'[i] = f
      BY <1>1, <2>2, <3>1, <3>2, <3>3
    <3>6. Linked(i) => snap[i].prev = table[i].hash /\ table[i].pdel = {}
      BY <1>0, <2>2 DEF ContentOK, ContentAt, Unchanged, NamesOK
    <3>7. snap[i].prev = snap[i].up
      BY <2>2 DEF Unchanged
    <3>8. Linked(i) => f.pdel = {} /\ f.hash = e.hash
      BY <3>1, <3>2, <3>4, <3>6, <3>7
    <3> QED
      BY <3>1, <3>4, <3>5, <3>8 DEF NameKept, Linked
  <2> QED
    BY <2>1, <2>2
<1>3. /\ NamesOK'
      /\ \A i \in Ino : /\ Leaving(i)' <=> Leaving(i)
                        /\ Linked(i)' <=> Linked(i)
                        /\ Linked(i) => /\ table'[i].path = table[i].path
                                        /\ table'[i].hash = table[i].hash
    BY <1>1, <1>2, FlushNames
<1>4. \A i \in Items' : i \in Ino /\ i \in Items /\ i \notin Unchanged /\ snap'[i] = snap[i]
    BY <1>1, BlankFields DEF Items
<1>5. CommitOK'
  <2> SUFFICES ASSUME NEW j \in Items' PROVE CommitAt(j)'
    BY DEF CommitOK
  <2>1. CommitAt(j) /\ snap'[j] = snap[j]
    BY <1>0, <1>4 DEF CommitOK
  <2>2. snap[j].prev # snap[j].up
    BY <1>4, <2>1 DEF Unchanged, CommitAt
  <2>3. fpc' # "committed"
    BY <1>1
  <2>4. \A i \in Items' : snap'[i].path = snap'[j].path => i = j
    BY <1>4, <2>1 DEF CommitAt
  <2>5. \A i \in Ino : Linked(i)' /\ table'[i].path = snap'[j].path
                       => i = j \/ table'[i].hash = None
    BY <1>3, <2>1 DEF CommitAt
  <2> QED
    BY <2>1, <2>2, <2>3, <2>4, <2>5 DEF CommitAt
<1>6. ContentOK'
  <2> SUFFICES ASSUME NEW i \in Ino PROVE ContentAt(i)'
    BY <1>0, <1>1 DEF ContentOK
  <2>1. ContentAt(i)
    BY <1>0 DEF ContentOK
  <2>2. InFlight(i)' => InFlight(i) /\ snap'[i] = snap[i]
    BY <1>1, <1>4 DEF InFlight, Items
  <2> QED
    BY <1>1, <1>3, <1>4, <2>1, <2>2 DEF ContentAt
<1>7. dels = {}
    BY <1>0, <1>1 DEF DeletesOK
<1>8. DeletesOK' /\ SyncedOK'
    BY <1>0, <1>1, <1>3, <1>7 DEF DeletesOK, DeleteAt, SyncedOK, SyncedAt
<1> QED
    BY <1>3, <1>5, <1>6, <1>8 DEF SyncInv

\* A committed item whose generation still matches gives its entry the hash that
\* the Hub has at its path.
LEMMA SyncApply ==
    ASSUME SyncInv, LocalInv', FlushApply
    PROVE  SyncInv'
<1>0. TypeOK /\ TypeOK' /\ NamesOK /\ DeletesOK /\ ContentOK /\ SyncedOK /\ CommitOK
    BY DEF SyncInv, LocalInv, CacheInv
<1>1. /\ UNCHANGED <<req, data, seen, delq, dels, remote>> /\ fpc = "committed" /\ fpc' = "gc"
      /\ \A i \in Ino : table'[i] = IF i \in Items THEN ApplyCommit(table[i], snap[i])
                                    ELSE table[i]
      /\ \A i \in Ino : snap'[i] = NoItem
    BY DEF FlushApply, DropItems, hvars, qvars
<1>2. ASSUME NEW i \in Ino
      PROVE  /\ table'[i].here = table[i].here /\ table'[i].named = table[i].named
             /\ table'[i].nlink = table[i].nlink /\ table'[i].path = table[i].path
             /\ \/ table'[i] = table[i]
                \/ i \in Items /\ table'[i].pdel = {} /\ table'[i].hash = snap[i].up
  <2>1. CASE i \notin Items
    BY <1>1, <2>1
  <2>2. CASE i \in Items
    <3>1. PICK e \in Entry : e = table[i]
      BY <1>0 DEF TypeOK
    <3>2. PICK it \in Item : it = snap[i]
      BY <1>0 DEF TypeOK
    <3>3. PICK f : f = ApplyCommit(e, it)
      OBVIOUS
    <3>4. /\ f.here = e.here /\ f.named = e.named /\ f.nlink = e.nlink /\ f.path = e.path
          /\ f = e \/ (f.pdel = {} /\ f.hash = it.up)
      BY <3>3, CommitNames
    <3> QED
      BY <1>1, <2>2, <3>1, <3>2, <3>3, <3>4
  <2> QED
    BY <2>1, <2>2
<1>3. \A i \in Ino : (Linked(i)' <=> Linked(i)) /\ (Leaving(i)' <=> Leaving(i))
    BY <1>1, <1>2 DEF Linked, Leaving
<1>4. Items' = {} /\ \A i \in Ino : ~InFlight(i)'
    BY <1>1, BlankFields DEF Items, InFlight
<1>5. NamesOK'
  <2>1. \A i \in Ino : /\ table'[i].here => (table'[i].named <=> table'[i].nlink > 0)
                       /\ Linked(i)' => table'[i].pdel = {}
    BY <1>0, <1>2, <1>3 DEF NamesOK
  <2>2. \A i, k \in Ino : Linked(i)' /\ Linked(k)' /\ table'[i].path = table'[k].path => i = k
    BY <1>0, <1>2, <1>3 DEF NamesOK
  <2>3. ASSUME NEW s \in Req, req'[s].op = "unlink"
        PROVE  /\ table'[req'[s].ino].here /\ table'[req'[s].ino].nlink > 0
               /\ table'[req'[s].ino].path = req'[s].path
               /\ \A t \in Req \ {s} : req'[t].op # "unlink"
    <3>1. PICK i \in Ino : i = req[s].ino
      BY <1>0, <1>1, <2>3, ReqFields DEF TypeOK
    <3>2. /\ Linked(i) /\ table[i].path = req[s].path
          /\ \A t \in Req \ {s} : req[t].op # "unlink"
      BY <1>0, <1>1, <2>3, <3>1 DEF NamesOK
    <3> QED
      BY <1>1, <1>2, <3>1, <3>2 DEF Linked
  <2> QED
    BY <1>0, <1>1, <2>1, <2>2, <2>3 DEF NamesOK, Linked
<1>6. CommitOK'
    BY <1>4 DEF CommitOK
<1>7. ContentOK'
  <2> SUFFICES ASSUME NEW i \in Ino PROVE ContentAt(i)'
    BY <1>0, <1>1 DEF ContentOK
  <2>1. ContentAt(i)
    BY <1>0 DEF ContentOK
  <2>2. i \in Items => InFlight(i)
    BY <1>1 DEF Items, InFlight
  <2> QED
    BY <1>1, <1>2, <1>3, <1>4, <2>1, <2>2 DEF ContentAt
<1>8. dels = {}
    BY <1>0, <1>1 DEF DeletesOK
<1>9. DeletesOK'
    BY <1>0, <1>1, <1>2, <1>3, <1>8 DEF DeletesOK, DeleteAt
<1>10. SyncedOK'
  <2> SUFFICES ASSUME NEW i \in Ino PROVE SyncedAt(i)'
    BY DEF SyncedOK
  <2>1. CASE table'[i] = table[i]
    BY <1>0, <1>1, <1>3, <2>1 DEF SyncedOK, SyncedAt
  <2>2. CASE i \in Items /\ table'[i].hash = snap[i].up
    <3>1. Linked(i) => snap[i].path = table[i].path
      BY <1>0, <2>2 DEF ContentOK, ContentAt
    <3>2. remote[snap[i].path] = snap[i].up
      BY <1>0, <1>1, <2>2 DEF CommitOK, CommitAt
    <3> QED
      BY <1>1, <1>2, <1>3, <2>2, <3>1, <3>2 DEF SyncedAt
  <2> QED
    BY <1>2, <2>1, <2>2
<1> QED
    BY <1>5, <1>6, <1>7, <1>9, <1>10 DEF SyncInv

\* Every step of a mount whose files are created, written and unlinked.
LEMMA SyncStep == ASSUME ~GcArmed, ~Rewrites PROVE SyncInv /\ [CreateNext]_vars => SyncInv'
<1> SUFFICES ASSUME SyncInv, [CreateNext]_vars PROVE SyncInv'
    OBVIOUS
<1>0. LocalInv'
  <2>1. LocalInv /\ [LocalNext]_vars
    BY DEF SyncInv, CreateNext, LocalNext
  <2> QED
    BY <2>1, LocalStep
<1>1. CASE UNCHANGED vars
    BY <1>0, <1>1, SyncFlushQuiet
<1>2. CASE Editing
    BY <1>0, <1>2, SyncRequests, SyncPWrite, SyncFlushQuiet, SyncCreate DEF Editing
<1>3. CASE Unlinking \/ Dropping
    BY <1>0, <1>3, SyncUnlink, SyncUnlinkLocal, SyncRequests DEF Unlinking, Dropping
<1>4. CASE FlushLoop
  <2>1. ASSUME NEW i \in Ino, FlushGcOne(i) PROVE FALSE
    BY <2>1 DEF FlushGcOne, SyncInv, LocalInv, CacheInv, DropsOK
  <2> QED
    BY <1>0, <1>4, <2>1, SyncFlushQuiet, SyncDeletes, SyncSnapshot, SyncUpload, SyncFail,
       SyncUnchanged, SyncCommit, SyncApply DEF FlushLoop
<1> QED
    BY <1>1, <1>2, <1>3, <1>4 DEF CreateNext

\* At first the one file is on the Hub.
LEMMA SyncInit == Init => SyncInv
<1> SUFFICES ASSUME Init PROVE SyncInv
    OBVIOUS
<1> USE ValueAssumption, SeedAssumption
<1>0. LocalInv
    BY LocalInit
<1>1. /\ \A i \in Ino : i # SeedIno => table[i] = NoEntry
      /\ table[SeedIno].here /\ table[SeedIno].named /\ table[SeedIno].nlink = 1
      /\ table[SeedIno].path = SeedPath /\ table[SeedIno].pdel = {}
      /\ table[SeedIno].hash = SeedContent
      /\ \A r \in Req : req[r].op = "idle"
      /\ \A i \in Ino : ~snap[i].on
    BY DEF Init, Idle, NoItem
<1>2. /\ dels = {} /\ delq = {} /\ remote[SeedPath] = SeedContent
      /\ data[SeedIno] = SeedContent /\ seen = {SeedContent, Empty}
    BY DEF Init
<1>3. \A i \in Ino : Linked(i) <=> i = SeedIno
    BY <1>1, BlankFields DEF Linked
<1>4. NamesOK
    BY <1>1, <1>3, BlankFields DEF NamesOK
<1>5. DeletesOK /\ CommitOK
    BY <1>1, <1>2 DEF DeletesOK, DeleteAt, CommitOK, Items
<1>6. ContentOK
    BY <1>1, <1>2, <1>3 DEF ContentOK, ContentAt, Items, InFlight
<1>7. SyncedOK
    BY <1>1, <1>2, <1>3 DEF SyncedOK, SyncedAt
<1> QED
    BY <1>0, <1>4, <1>5, <1>6, <1>7 DEF SyncInv

\* When the flush loop has nothing left to do, every clean file is on the Hub with
\* the content the mount shows: files are created, written and unlinked in any
\* interleaving with the flush loop, uploads and commits fail, having been applied
\* or not, and no application writes a content that was stored before.
THEOREM RemoteSyncedCorrect == ASSUME ~GcArmed, ~Rewrites PROVE CreateSpec => []RemoteSynced
<1>1. Init => SyncInv
    BY SyncInit
<1>2. SyncInv /\ [CreateNext]_vars => SyncInv'
    BY SyncStep
<1>3. SyncInv => RemoteSynced
  <2> SUFFICES ASSUME SyncInv, Quiet, NEW i \in Ino, Linked(i), ~Dirty(i)
               PROVE  remote[table[i].path] = table[i].hash
    BY DEF RemoteSynced
  <2>1. \A r \in Req : req[r].op = "idle"
    BY DEF Quiet, Idle
  <2>2. ~Writing(i) /\ ~Leaving(i)
    BY <2>1 DEF Writing, Leaving
  <2>3. table[i].hash = data[i] /\ data[i] # None
    BY <2>2 DEF SyncInv, LocalInv, StagedOK, StagedAt
  <2> QED
    BY <2>2, <2>3 DEF SyncInv, SyncedOK, SyncedAt
<1> QED
    BY <1>1, <1>2, <1>3, PTL DEF CreateSpec

----------------------------------------------------------------------------
(* Staging garbage collection takes only files that nobody needs.          *)

\* What a step may do to request s, and to file i and its staging file, without
\* opening a handle or removing a staging file.
ReqHanded(s) ==
    \/ req'[s] = req[s] \/ req'[s].op = "idle"
    \/ /\ req'[s].ino \in used
       /\ req'[s].op = "drop" => ~table'[req'[s].ino].here
FileHeld(i) ==
    /\ table'[i].here => table[i].here
    /\ Linked(i)' => /\ Linked(i) /\ (Dirty(i)' => Dirty(i))
                     /\ gcq = {} \/ (Dirty(i) => Dirty(i)')
                     /\ disk'[i] = None => disk[i] = None

\* Such steps keep the invariant, and gc() its queue.
LEMMA KeepQuiet ==
    ASSUME KeepInv, PendingInv', UNCHANGED <<used, fd, cut, gcq>>, fpc' = fpc \/ fpc # "gc",
           \A s \in Req : ReqHanded(s), \A i \in Ino : FileHeld(i)
    PROVE  KeepInv'
<1>0. TypeOK /\ TypeOK' /\ HandedOut /\ VisitsOK /\ \A i \in Ino : KeepAt(i)
    BY DEF KeepInv, PendingInv, PendingOK
<1>1. \A i \in Ino : Handles(i)' = Handles(i) /\ (HasOpenHandles(i)' <=> HasOpenHandles(i))
    BY DEF Handles, HasOpenHandles
<1>2. HandedOut'
  <2>1. ASSUME NEW s \in Req, req'[s].op # "idle"
        PROVE  req'[s].ino \in used /\ (req'[s].op = "drop" => ~table'[req'[s].ino].here)
    <3>1. CASE req'[s] = req[s]
      <4>1. PICK i \in Ino : i = req[s].ino
        BY <1>0, <2>1, <3>1, ReqFields DEF TypeOK
      <4> QED
        BY <1>0, <2>1, <3>1, <4>1 DEF HandedOut, FileHeld
    <3> QED
      BY <2>1, <3>1 DEF ReqHanded
  <2> QED
    BY <1>0, <2>1 DEF HandedOut, FileHeld
<1>3. VisitsOK'
  <2>1. \A i \in gcq : i \in Ino
    BY <1>0 DEF TypeOK
  <2> QED
    BY <1>0, <1>1, <2>1 DEF VisitsOK, FileHeld
<1>4. \A i \in Ino : KeepAt(i)'
    BY <1>0, <1>1 DEF KeepAt, FileHeld
<1> QED
    BY <1>2, <1>3, <1>4 DEF KeepInv

\* An entry that a step leaves as it is, with its staging file.
LEMMA SameHeld ==
    ASSUME NEW i \in Ino, table'[i] = table[i], disk'[i] = None => disk[i] = None
    PROVE  FileHeld(i)
BY DEF FileHeld, Linked, Dirty

\* A request begins on an inode that is in use.
LEMMA BeginHanded ==
    ASSUME TypeOK, NEW r \in Req, NEW rec, Begin(r, rec), rec.ino \in used,
           rec.op # "drop"
    PROVE  \A s \in Req : ReqHanded(s)
BY Beginning DEF ReqHanded

\* A request ends.
LEMMA FinishHanded ==
    ASSUME TypeOK, NEW r \in Req, Finish(r)
    PROVE  \A s \in Req : ReqHanded(s)
BY Ending, BlankFields DEF ReqHanded

\* Requests begin: a pwrite may give the staging file another content.
LEMMA KeepStarts ==
    ASSUME KeepInv, PendingInv', NEW r \in Req,
           \/ \E i \in Ino, t \in BOOLEAN : OpenStart(r, i, t) \/ SetattrStart(r, i, t)
           \/ \E i \in Ino : Unlink(r, i)
           \/ \E i \in Ino, p \in Path : RenameValidate(r, i, p)
           \/ \E h \in Handle, c \in Content : PWrite(r, h, c)
           \/ \E h \in Handle : Release(r, h)
    PROVE  KeepInv'
<1> USE ValueAssumption
<1>0. TypeOK /\ TypeOK' /\ HandedOut
    BY DEF KeepInv, PendingInv, PendingOK
<1>1. UNCHANGED <<used, table, fd, cut, gcq, fpc>>
    BY ZenonT(60) DEF OpenStart, SetattrStart, Unlink, RenameValidate, PWrite, Release, fvars
<1>2. \A i \in Ino : disk'[i] = None => disk[i] = None
  <2>1. disk' = disk \/ \E h \in Handle, c \in Content : disk' = [disk EXCEPT ![fd[h]] = c]
    BY ZenonT(60) DEF OpenStart, SetattrStart, Unlink, RenameValidate, PWrite, Release
  <2> QED
    BY <1>0, <2>1 DEF TypeOK
<1>3. \A i \in Ino : FileHeld(i)
    BY <1>1, <1>2, SameHeld
<1>4. SUFFICES \A s \in Req : ReqHanded(s)
    BY <1>1, <1>3, KeepQuiet
<1>5. \A i \in Ino : table[i].here => i \in used
    BY <1>0 DEF HandedOut
<1>6. ASSUME NEW i \in Ino, NEW t \in BOOLEAN, OpenStart(r, i, t)
      PROVE  \A s \in Req : ReqHanded(s)
  <2> DEFINE rec == [Idle EXCEPT !.op = "open", !.ino = i, !.flag = t,
                                 !.hash = table[i].hash, !.zero = table[i].zero]
  <2>1. rec.op = "open" /\ rec.ino = i
    BY DEF Idle
  <2>2. Begin(r, rec) /\ table[i].here
    BY Zenon, <1>6 DEF OpenStart
  <2> HIDE DEF rec
  <2> QED
    BY <1>0, <1>5, <2>1, <2>2, BeginHanded
<1>7. ASSUME NEW i \in Ino, NEW t \in BOOLEAN, SetattrStart(r, i, t)
      PROVE  \A s \in Req : ReqHanded(s)
  <2> DEFINE rec == [Idle EXCEPT !.op = "resize", !.ino = i, !.flag = t]
  <2>1. rec.op = "resize" /\ rec.ino = i
    BY DEF Idle
  <2>2. Begin(r, rec) /\ table[i].here
    BY Zenon, <1>7 DEF SetattrStart
  <2> HIDE DEF rec
  <2> QED
    BY <1>0, <1>5, <2>1, <2>2, BeginHanded
<1>8. ASSUME NEW i \in Ino, Unlink(r, i) PROVE \A s \in Req : ReqHanded(s)
  <2> DEFINE rec == [Idle EXCEPT !.op = "unlink", !.ino = i, !.path = table[i].path]
  <2>1. rec.op = "unlink" /\ rec.ino = i
    BY DEF Idle
  <2>2. Begin(r, rec) /\ table[i].here
    BY <1>8 DEF Unlink
  <2> HIDE DEF rec
  <2> QED
    BY <1>0, <1>5, <2>1, <2>2, BeginHanded
<1>9. ASSUME NEW i \in Ino, NEW p \in Path, RenameValidate(r, i, p)
      PROVE  \A s \in Req : ReqHanded(s)
  <2> DEFINE rec == [Idle EXCEPT !.op = "rename", !.ino = i, !.path = table[i].path,
                                 !.to = p, !.hash = table[i].hash, !.flag = Dirty(i)]
  <2>1. rec.op = "rename" /\ rec.ino = i
    BY DEF Idle
  <2>2. Begin(r, rec) /\ table[i].here
    BY Zenon, <1>9 DEF RenameValidate
  <2> HIDE DEF rec
  <2> QED
    BY <1>0, <1>5, <2>1, <2>2, BeginHanded
<1>10. ASSUME NEW h \in Handle, NEW c \in Content, PWrite(r, h, c)
       PROVE  \A s \in Req : ReqHanded(s)
  <2> DEFINE rec == [Idle EXCEPT !.op = "write", !.ino = fd[h], !.fh = h]
  <2>1. rec.op = "write" /\ rec.ino = fd[h]
    BY DEF Idle
  <2>2. Begin(r, rec) /\ fd[h] # None
    BY <1>10, ZenonT(30) DEF PWrite
  <2> HIDE DEF rec
  <2>3. fd[h] \in used
    BY <1>0, <2>2 DEF HandedOut
  <2> QED
    BY <1>0, <2>1, <2>2, <2>3, BeginHanded
<1>11. ASSUME NEW h \in Handle, Release(r, h) PROVE \A s \in Req : ReqHanded(s)
  <2> DEFINE rec == [Idle EXCEPT !.op = "close", !.ino = fd[h], !.fh = h]
  <2>1. rec.op = "close" /\ rec.ino = fd[h]
    BY DEF Idle
  <2>2. req' = [req EXCEPT ![r] = rec] /\ fd[h] # None
    BY <1>11, ZenonT(30) DEF Release
  <2> HIDE DEF rec
  <2>3. fd[h] \in used
    BY <1>0, <2>2 DEF HandedOut
  <2> QED
    BY <1>0, <2>1, <2>2, <2>3 DEF ReqHanded, TypeOK
<1> QED
    BY <1>6, <1>7, <1>8, <1>9, <1>10, <1>11

\* Requests go on under the staging lock, or fail: a partial download is a file.
LEMMA KeepNexts ==
    ASSUME KeepInv, PendingInv', NEW r \in Req,
           OpenLock(r) \/ OpenFail(r) \/ SetattrLock(r) \/ SetattrFail(r) \/ RenameRemote(r)
    PROVE  KeepInv'
<1> USE ValueAssumption
<1>0. TypeOK /\ TypeOK' /\ HandedOut
    BY DEF KeepInv, PendingInv, PendingOK
<1>1. UNCHANGED <<used, fd, cut, gcq, fpc>> /\ req[r].op # "idle"
    BY ZenonT(60) DEF OpenLock, OpenFail, SetattrLock, SetattrFail, RenameRemote, fvars
<1>2. PICK q \in ReqState : q = req[r]
    BY <1>0 DEF TypeOK
<1>3. PICK j \in Ino : j = q.ino /\ j \in used
    BY <1>0, <1>1, <1>2, ReqFields DEF HandedOut
<1>4. table' = table \/ table' = [table EXCEPT ![j] = NotCurrent(table[j])]
    BY <1>2, <1>3, ZenonT(30) DEF OpenLock, OpenFail, SetattrLock, SetattrFail, RenameRemote
<1>5. \A i \in Ino : disk'[i] = None => disk[i] = None
  <2>1. disk' = disk \/ \E c \in {disk[j]} \cup Content : disk' = [disk EXCEPT ![j] = c]
    BY <1>2, <1>3, ZenonT(30) DEF OpenLock, OpenFail, SetattrLock, SetattrFail, RenameRemote
  <2> QED
    BY <1>0, <2>1 DEF TypeOK
<1>6. \A i \in Ino : FileHeld(i)
  <2> TAKE i \in Ino
  <2>1. PICK e \in Entry : e = table[i]
    BY <1>0 DEF TypeOK
  <2>2. /\ NotCurrent(e).here = e.here /\ NotCurrent(e).gen = e.gen
        /\ NotCurrent(e).nlink = e.nlink
    BY OpFields, MoreFields
  <2>3. table'[i] = e \/ table'[i] = NotCurrent(e)
    BY <1>0, <1>4, <2>1 DEF TypeOK
  <2> QED
    BY <1>5, <2>1, <2>2, <2>3 DEF FileHeld, Linked, Dirty
<1>7. \A s \in Req : ReqHanded(s)
  <2> DEFINE opened(b) == [q EXCEPT !.op = "fetch", !.reuse = b]
             set == [q EXCEPT !.op = "set", !.hash = table[j].hash,
                       !.zero = table[j].zero, !.reuse = disk[j] # None]
             renamed == [q EXCEPT !.op = "renamed"]
  <2>1. \/ Finish(r)
        \/ \E b : req' = [req EXCEPT ![r] = opened(b)]
        \/ req' = [req EXCEPT ![r] = set]
        \/ req' = [req EXCEPT ![r] = renamed]
    <3>1. CASE OpenLock(r)
      BY <1>2, <3>1, Zenon DEF OpenLock
    <3>2. CASE SetattrLock(r)
      BY <1>2, <1>3, <3>2 DEF SetattrLock
    <3>3. CASE RenameRemote(r)
      BY <1>2, <3>3, Zenon DEF RenameRemote
    <3> QED
      BY <3>1, <3>2, <3>3 DEF OpenFail, SetattrFail
  <2>2. /\ \A b : opened(b).op = "fetch" /\ opened(b).ino = j
        /\ set.op = "set" /\ set.ino = j
        /\ renamed.op = "renamed" /\ renamed.ino = j
    BY <1>3 DEF ReqState
  <2> HIDE DEF opened, set, renamed
  <2>3. CASE Finish(r)
    BY <1>0, <2>3, FinishHanded
  <2>4. ASSUME NEW new, req' = [req EXCEPT ![r] = new], new.op # "drop", new.ino = j
        PROVE  \A s \in Req : ReqHanded(s)
    <3>1. \A s \in Req : req'[s] = IF s = r THEN new ELSE req[s]
      BY <1>0, <2>4 DEF TypeOK
    <3> QED
      BY <1>3, <2>4, <3>1 DEF ReqHanded
  <2> QED
    BY <2>1, <2>2, <2>3, <2>4
<1> QED
    BY <1>1, <1>6, <1>7, KeepQuiet

\* The steps of the flush loop and of the poll loop that visit no staging file.
LEMMA KeepIdle ==
    ASSUME KeepInv, PendingInv',
           \/ \E h \in Handle : FlushHandle(h)
           \/ \E i \in Ino : FlushRecv(i) \/ FlushLock(i)
           \/ FlushTakeDeletes \/ FlushDeletesDone \/ FlushDeletesFail \/ FlushSnapshot
           \/ FlushUpload \/ FlushUploadFail \/ FlushCommit \/ FlushCommitFail
           \/ \E p \in Path, c \in Hash : RemoteEdit(p, c)
           \/ PollList \/ PollDiff \/ UNCHANGED vars
    PROVE  KeepInv'
<1>1. UNCHANGED <<used, table, disk, fd, cut, gcq, req>>
    BY ZenonT(60) DEF FlushHandle, FlushRecv, FlushLock, FlushTakeDeletes, FlushDeletesDone,
       FlushDeletesFail, FlushSnapshot, FlushUpload, FlushUploadFail, FlushCommit,
       FlushCommitFail, RemoteEdit, PollList, PollDiff, vars, ivars, qvars, fvars
<1>2. fpc' = fpc \/ fpc # "gc"
    BY ZenonT(60) DEF FlushHandle, FlushRecv, FlushLock, FlushTakeDeletes, FlushDeletesDone,
       FlushDeletesFail, FlushSnapshot, FlushUpload, FlushUploadFail, FlushCommit,
       FlushCommitFail, RemoteEdit, PollList, PollDiff, vars, fvars
<1>3. (\A i \in Ino : FileHeld(i)) /\ (\A s \in Req : ReqHanded(s))
    BY <1>1, SameHeld DEF ReqHanded
<1> QED
    BY <1>1, <1>2, <1>3, KeepQuiet

\* apply_commit(): nothing is waiting to be visited.
LEMMA KeepApply ==
    ASSUME KeepInv, PendingInv', FlushUnchanged \/ FlushApply
    PROVE  KeepInv'
<1> DEFINE S == IF FlushApply THEN Items ELSE Unchanged
<1>0. TypeOK /\ VisitsOK
    BY DEF KeepInv, PendingInv, PendingOK
<1>1. /\ UNCHANGED <<used, disk, fd, cut, gcq, req>> /\ fpc # "gc"
      /\ \A i \in Ino : table'[i] = IF i \in S THEN ApplyCommit(table[i], snap[i]) ELSE table[i]
    BY DEF FlushUnchanged, FlushApply
<1> HIDE DEF S
<1>2. gcq = {}
    BY <1>0, <1>1 DEF VisitsOK
<1>3. ASSUME NEW i \in Ino PROVE FileHeld(i)
  <2>1. PICK e \in Entry : e = table[i]
    BY <1>0 DEF TypeOK
  <2>2. PICK it \in Item : it = snap[i]
    BY <1>0 DEF TypeOK
  <2>3. PICK f : f = ApplyCommit(e, it)
    OBVIOUS
  <2>4. f.here = e.here /\ f.nlink = e.nlink /\ (f = e \/ f.gen = 0)
    BY <2>3 DEF ApplyCommit, Entry
  <2>5. table'[i] = e \/ table'[i] = f
    BY <1>1, <2>1, <2>2, <2>3
  <2> QED
    BY <1>1, <1>2, <2>1, <2>4, <2>5 DEF FileHeld, Linked, Dirty
<1>4. \A s \in Req : ReqHanded(s)
    BY <1>1 DEF ReqHanded
<1> QED
    BY <1>1, <1>3, <1>4, KeepQuiet

\* unlink(), rename() and the poll loop: files lose their names or stay, and what is
\* to be dropped is gone.
LEMMA KeepNames ==
    ASSUME KeepInv, PendingInv',
           PollApply \/ \E r \in Req : UnlinkLocal(r) \/ RenameLocal(r)
    PROVE  KeepInv'
<1> USE ValueAssumption
<1>0. TypeOK /\ TypeOK' /\ HandedOut
    BY DEF KeepInv, PendingInv, PendingOK
<1>1. UNCHANGED <<used, disk, fd, cut, gcq, fpc>>
    BY ZenonT(30) DEF PollApply, UnlinkLocal, RenameLocal, fvars
<1>2. \A k \in Ino : table[k] \in Entry
    BY <1>0 DEF TypeOK
<1>3. \A k \in Ino : /\ UnlinkOne(table[k]).here = table[k].here
                     /\ UnlinkOne(table[k]).nlink = 0
    BY <1>2, OpFields, MoreFields
<1>4. ASSUME NEW k \in Ino, NEW f,
             \/ f = table[k] \/ f = NoEntry \/ f = UnlinkOne(table[k])
             \/ f.here = table[k].here /\ f.nlink = table[k].nlink /\ f.gen = table[k].gen,
             table'[k] = f
      PROVE  FileHeld(k)
    BY <1>1, <1>3, <1>4, BlankFields DEF FileHeld, Linked, Dirty
<1>5. ASSUME PollApply PROVE KeepInv'
  <2> DEFINE updated == {k \in Ino : poll.upd[k] # None /\ table[k].here /\ table[k].gen = 0}
  <2>1. ASSUME NEW k \in Ino
        PROVE  \/ k \in updated /\ table'[k] = UpdateRemote(table[k], poll.upd[k])
               \/ table'[k] = NoEntry \/ table'[k] = UnlinkOne(table[k]) \/ table'[k] = table[k]
    BY <1>5, ZenonT(30) DEF PollApply
  <2>2. ASSUME NEW k \in Ino
        PROVE  /\ UpdateRemote(table[k], poll.upd[k]).here = table[k].here
               /\ UpdateRemote(table[k], poll.upd[k]).gen = table[k].gen
               /\ UpdateRemote(table[k], poll.upd[k]).nlink = table[k].nlink
    <3>1. PICK e \in Entry : e = table[k]
      BY <1>2
    <3>2. \A c : /\ UpdateRemote(e, c).gen = e.gen /\ UpdateRemote(e, c).here = e.here
                 /\ UpdateRemote(e, c).nlink = e.nlink
      BY DEF UpdateRemote, Entry
    <3> QED
      BY <3>1, <3>2
  <2>3. \A k \in Ino : FileHeld(k)
    BY <1>4, <2>1, <2>2
  <2>4. \A s \in Req : ReqHanded(s)
    BY <1>5 DEF PollApply, ReqHanded
  <2> QED
    BY <1>1, <2>3, <2>4, KeepQuiet
<1>6. ASSUME NEW r \in Req, NEW j, req' = [req EXCEPT ![r] = [Idle EXCEPT !.op = "drop", !.ino = j]],
             j \in Ino, table[j].here, ~table'[j].here
      PROVE  \A s \in Req : ReqHanded(s)
  <2> DEFINE drop == [Idle EXCEPT !.op = "drop", !.ino = j]
  <2>1. drop.op = "drop" /\ drop.ino = j
    BY DEF Idle
  <2>2. req' = [req EXCEPT ![r] = drop]
    BY <1>6
  <2> HIDE DEF drop
  <2>3. \A s \in Req : req'[s] = IF s = r THEN drop ELSE req[s]
    BY <1>0, <2>2 DEF TypeOK
  <2> QED
    BY <1>0, <1>6, <2>1, <2>3 DEF ReqHanded, HandedOut
<1>7. ASSUME NEW r \in Req, UnlinkLocal(r) PROVE KeepInv'
  <2>1. PICK j \in Ino : j = req[r].ino
    BY <1>0, <1>7, ReqFields DEF TypeOK, UnlinkLocal
  <2> DEFINE drop == [Idle EXCEPT !.op = "drop", !.ino = j]
             found == j \in LookupChild(req[r].path)
  <2>2. \/ /\ found /\ table' = [table EXCEPT ![j] = NoEntry]
           /\ req' = [req EXCEPT ![r] = drop]
        \/ /\ table' = [table EXCEPT ![j] = UnlinkOne(table[j])]
           /\ req' = [req EXCEPT ![r] = Idle]
        \/ table' = table /\ req' = [req EXCEPT ![r] = Idle]
    BY <1>7, <2>1 DEF UnlinkLocal
  <2>3. \A k \in Ino : table'[k] \in {table[k], NoEntry, UnlinkOne(table[k])}
    BY <1>0, <2>2 DEF TypeOK
  <2>4. \A k \in Ino : FileHeld(k)
    BY <1>4, <2>3
  <2>5. found => table[j].here
    BY DEF LookupChild
  <2>6. CASE req' = [req EXCEPT ![r] = Idle]
    BY <1>0, <1>1, <2>4, <2>6, FinishHanded, KeepQuiet DEF Finish
  <2>7. CASE found /\ table' = [table EXCEPT ![j] = NoEntry] /\ req' = [req EXCEPT ![r] = drop]
    <3>1. ~table'[j].here
      BY <1>0, <2>7, BlankFields DEF TypeOK
    <3>2. \A s \in Req : ReqHanded(s)
      BY <1>6, <2>5, <2>7, <3>1
    <3> QED
      BY <1>1, <2>4, <3>2, KeepQuiet
  <2> QED
    BY <2>2, <2>6, <2>7
<1>8. ASSUME NEW r \in Req, RenameLocal(r) PROVE KeepInv'
  <2> DEFINE q == req[r]
             target == LookupChild(q.to) \ {q.ino}
             gone == {k \in target : ~HasOpenHandles(k)}
             drop == [Idle EXCEPT !.op = "drop", !.ino = CHOOSE k \in gone : TRUE]
  <2>1. \/ UNCHANGED table /\ req' = [req EXCEPT ![r] = Idle]
        \/ /\ table' = [k \in Ino |->
                IF k = q.ino THEN Moved(table[q.ino], q) ELSE IF k \in gone THEN NoEntry
                ELSE IF k \in target THEN UnlinkOne(table[k]) ELSE table[k]]
           /\ req' = [req EXCEPT ![r] = IF gone = {} THEN Idle ELSE drop]
    BY <1>8, ZenonT(30) DEF RenameLocal, Finish
  <2>2. PICK j : j = CHOOSE k \in gone : TRUE
    OBVIOUS
  <2>3. gone # {} => j \in Ino /\ j # q.ino /\ table[j].here /\ j \in gone
    BY <2>2 DEF LookupChild
  <2>4. drop = [Idle EXCEPT !.op = "drop", !.ino = j]
    BY <2>2
  <2>5. \A k \in Ino : /\ Moved(table[k], q).here = table[k].here
                       /\ Moved(table[k], q).gen = table[k].gen
                       /\ Moved(table[k], q).nlink = table[k].nlink
    <3> TAKE k \in Ino
    <3>1. PICK e \in Entry : e = table[k]
      BY <1>2
    <3>2. Moved(e, q).here = e.here /\ Moved(e, q).gen = e.gen /\ Moved(e, q).nlink = e.nlink
      BY DEF Moved, Entry
    <3> QED
      BY <3>1, <3>2
  <2> HIDE DEF gone, target, drop
  <2>6. \A k \in Ino : \/ table'[k] = table[k] \/ table'[k] = NoEntry
                       \/ table'[k] = UnlinkOne(table[k]) \/ table'[k] = Moved(table[k], q)
    BY <2>1
  <2>7. \A k \in Ino : FileHeld(k)
    BY <1>4, <2>5, <2>6
  <2>8. CASE req' = [req EXCEPT ![r] = Idle]
    BY <1>0, <1>1, <2>7, <2>8, FinishHanded, KeepQuiet DEF Finish
  <2>9. CASE req' # [req EXCEPT ![r] = Idle]
    <3>1. gone # {} /\ req' = [req EXCEPT ![r] = drop] /\ table'[j] = NoEntry
      BY <2>1, <2>3, <2>9
    <3>2. \A s \in Req : ReqHanded(s)
      BY <1>6, <2>3, <2>4, <3>1, BlankFields
    <3> QED
      BY <1>1, <2>7, <3>2, KeepQuiet
  <2> QED
    BY <2>8, <2>9
<1> QED
    BY <1>5, <1>7, <1>8

\* Steps that make inode j dirty, with its staging file in place.
LEMMA KeepDirty ==
    ASSUME KeepInv, PendingInv', HandedOut', NEW j \in Ino, KeepAt(j)', Dirty(j)',
           UNCHANGED <<gcq, fpc, cut>>,
           \A i \in Ino \ {j} : /\ table'[i] = table[i] /\ disk'[i] = disk[i]
                                /\ Handles(i)' = Handles(i)
    PROVE  KeepInv'
<1>0. TypeOK /\ VisitsOK /\ \A i \in Ino : KeepAt(i)
    BY DEF KeepInv, PendingInv, PendingOK
<1>1. \A i \in Ino \ {j} : KeepAt(i)'
    BY <1>0 DEF KeepAt, Linked, Dirty, HasOpenHandles
<1>2. VisitsOK'
  <2>1. \A i \in gcq : i \in Ino
    BY <1>0 DEF TypeOK
  <2> QED
    BY <1>0, <2>1 DEF VisitsOK, Linked, Dirty, HasOpenHandles
<1> QED
    BY <1>1, <1>2 DEF KeepInv

\* open() makes the file dirty and puts its staging file in place.
LEMMA KeepOpenDone ==
    ASSUME KeepInv, PendingInv', NEW r \in Req, NEW h \in Handle, OpenDone(r, h)
    PROVE  KeepInv'
<1> USE ValueAssumption
<1>0. TypeOK /\ TypeOK' /\ HandedOut /\ \A i \in Ino : KeepAt(i)
    BY DEF KeepInv, PendingInv, PendingOK
<1>1. PICK q \in ReqState : q = req[r]
    BY <1>0 DEF TypeOK
<1>2. PICK j \in Ino : j = q.ino
    BY <1>1, ReqFields DEF OpenDone
<1> DEFINE mirrors == /\ ~q.reuse
                      /\ NeedsDownload(q) \/ (q.hash = None /\ q.zero)
                      /\ table[j].hash = q.hash
<1>3. PICK base : base # None /\ disk' = [disk EXCEPT ![j] = base]
    BY <1>1, <1>2, ZenonT(30) DEF OpenDone
<1>4. UNCHANGED <<used, cut, gcq, fpc>> /\ Finish(r) /\ q.op = "fetch"
    BY <1>1, ZenonT(30) DEF OpenDone, fvars
<1>5. \/ UNCHANGED <<table, fd>>
      \/ /\ table[j].here /\ fd[h] = None /\ fd' = [fd EXCEPT ![h] = j]
         /\ table' = [table EXCEPT ![j] = Opened(table[j], mirrors, q.flag)]
    BY <1>1, <1>2 DEF OpenDone
<1>6. \A i \in Ino : disk'[i] = IF i = j THEN base ELSE disk[i]
    BY <1>0, <1>3 DEF TypeOK
<1>7. CASE UNCHANGED <<table, fd>>
    BY <1>0, <1>3, <1>4, <1>6, <1>7, FinishHanded, SameHeld, KeepQuiet
<1>8. CASE ~UNCHANGED <<table, fd>>
  <2>1. PICK e \in Entry : e = table[j]
    BY <1>0 DEF TypeOK
  <2>2. PICK f : f = Opened(e, mirrors, q.flag)
    OBVIOUS
  <2>3. mirrors \in BOOLEAN /\ q.flag \in BOOLEAN /\ e.gen \in Nat
    BY ReqFields DEF Entry
  <2> HIDE DEF mirrors
  <2>4. f.here = e.here /\ f.gen = e.gen + 1 /\ f.nlink = e.nlink
    BY <2>2, <2>3, OpFields, MoreFields
  <2>5. \A i \in Ino : table'[i] = IF i = j THEN f ELSE table[i]
    BY <1>0, <1>5, <1>8, <2>1, <2>2 DEF TypeOK
  <2>6. fd[h] = None /\ table[j].here /\ \A x \in Handle : fd'[x] = IF x = h THEN j ELSE fd[x]
    BY <1>0, <1>5, <1>8 DEF TypeOK
  <2>7. /\ \A i \in Ino \ {j} : Handles(i)' = Handles(i)
        /\ Handles(j)' = Handles(j) \cup {h}
    BY <2>6 DEF Handles
  <2>8. h \notin cut
    BY <1>0, <2>6 DEF HandedOut
  <2>9. Dirty(j)' /\ (Linked(j)' => Linked(j))
    BY <2>1, <2>3, <2>4, <2>5 DEF Dirty, Linked
  <2>10. KeepAt(j)'
    <3>1. Linked(j) => Handles(j) \cap cut = {}
      BY <1>0 DEF KeepAt, HasOpenHandles
    <3> QED
      BY <1>3, <1>4, <1>6, <2>7, <2>8, <2>9, <3>1 DEF KeepAt
  <2>11. HandedOut'
    <3>1. \A s \in Req : req'[s] = req[s] \/ req'[s].op = "idle"
      BY <1>0, <1>4, Ending, BlankFields
    <3>2. \A i \in Ino : table'[i].here = table[i].here
      BY <2>1, <2>4, <2>5
    <3>3. \A s \in Req : req[s].op # "idle" => req[s].ino \in Ino
      BY <1>0, ReqFields DEF TypeOK
    <3>4. cut \subseteq Handle /\ j \in used
      BY <1>0, <2>6 DEF TypeOK, HandedOut
    <3> QED
      BY <1>0, <1>4, <2>6, <3>1, <3>2, <3>3, <3>4 DEF HandedOut
  <2> QED
    BY <1>4, <1>6, <2>5, <2>7, <2>9, <2>10, <2>11, KeepDirty
<1> QED
    BY <1>7, <1>8

\* create() inserts a dirty file with an empty staging file.
LEMMA KeepCreate ==
    ASSUME KeepInv, PendingInv', NEW p \in Path, NEW j \in Ino, NEW h \in Handle, Create(p, j, h)
    PROVE  KeepInv'
<1> USE ValueAssumption
<1>0. TypeOK /\ TypeOK' /\ HandedOut
    BY DEF KeepInv, PendingInv, PendingOK
<1>1. /\ j \notin used /\ fd[h] = None /\ UNCHANGED <<cut, req, gcq, fpc>>
      /\ used' = used \cup {j}
      /\ fd' = [fd EXCEPT ![h] = j] /\ disk' = [disk EXCEPT ![j] = Empty]
    BY DEF Create, fvars
<1>2. /\ table'[j].gen = 1 /\ disk'[j] = Empty
      /\ \A k \in Ino \ {j} : table'[k] = table[k] /\ disk'[k] = disk[k]
    BY <1>0, <1>1 DEF TypeOK, Create
<1>3. \A x \in Handle : fd'[x] = IF x = h THEN j ELSE fd[x]
    BY <1>0, <1>1 DEF TypeOK
<1>4. h \notin cut /\ cut \subseteq Handle
    BY <1>0, <1>1 DEF HandedOut, TypeOK
<1>5. Handles(j) = {}
    BY <1>0, <1>1 DEF Handles, HandedOut
<1>6. Handles(j)' = {h}
    BY <1>3, <1>5 DEF Handles
<1>7. \A k \in Ino \ {j} : Handles(k)' = Handles(k)
    BY <1>1, <1>3 DEF Handles
<1>8. KeepAt(j)' /\ Dirty(j)'
    BY <1>1, <1>2, <1>4, <1>6 DEF KeepAt, Dirty
<1>9. \A s \in Req : req[s].op # "idle" => req[s].ino \in Ino \ {j}
    BY <1>0, <1>1, ReqFields DEF HandedOut, TypeOK
<1>10. HandedOut'
    BY <1>0, <1>1, <1>2, <1>3, <1>4, <1>9 DEF HandedOut
<1> QED
    BY <1>1, <1>2, <1>7, <1>8, <1>10, KeepDirty

\* write(), setattr(): then the file becomes dirty.
LEMMA KeepWrites ==
    ASSUME KeepInv, PendingInv', NEW r \in Req,
           WriteDone(r) \/ \E c \in Content : SetattrDone(r, c)
    PROVE  KeepInv'
<1> USE ValueAssumption
<1>0. TypeOK /\ TypeOK' /\ HandlesOK /\ HandedOut /\ \A i \in Ino : KeepAt(i)
    BY DEF KeepInv, PendingInv, PendingOK
<1>1. PICK q \in ReqState : q = req[r]
    BY <1>0 DEF TypeOK
<1>2. PICK j \in Ino : j = q.ino
    BY <1>1, ReqFields DEF WriteDone, SetattrDone
<1>3. UNCHANGED <<used, fd, cut, gcq, fpc>> /\ Finish(r)
    BY ZenonT(30) DEF WriteDone, SetattrDone, fvars
<1>4. \/ disk' = disk /\ q.op = "write"
      \/ \E c \in Content : disk' = [disk EXCEPT ![j] = c]
    BY <1>1, <1>2, ZenonT(30) DEF WriteDone, SetattrDone
<1>5. \/ table' = table
      \/ table' = [table EXCEPT ![j] = Written(table[j])]
      \/ table' = [table EXCEPT ![j] = Resized(table[j], q.flag)]
    BY <1>1, <1>2, ZenonT(30) DEF WriteDone, SetattrDone
<1>6. \A i \in Ino : (i # j => disk'[i] = disk[i]) /\ (disk'[i] = None => disk[i] = None)
    BY <1>0, <1>4 DEF TypeOK
<1>7. CASE table' = table
    BY <1>0, <1>3, <1>6, <1>7, FinishHanded, SameHeld, KeepQuiet
<1>8. CASE table' # table
  <2>1. PICK e \in Entry : e = table[j]
    BY <1>0 DEF TypeOK
  <2>2. PICK f : f = table'[j]
    OBVIOUS
  <2>3. q.flag \in BOOLEAN /\ e.gen \in Nat
    BY ReqFields DEF Entry
  <2>4. f = Written(e) \/ f = Resized(e, q.flag)
    BY <1>0, <1>5, <1>8, <2>1, <2>2 DEF TypeOK
  <2>5. f.here = e.here /\ f.gen = e.gen + 1 /\ f.nlink = e.nlink
    BY <2>3, <2>4 DEF Written, Resized, Entry
  <2>6. \A i \in Ino \ {j} : table'[i] = table[i]
    BY <1>0, <1>5 DEF TypeOK
  <2>7. \A i \in Ino : Handles(i)' = Handles(i)
    BY <1>3 DEF Handles
  <2>8. Dirty(j)' /\ (Linked(j)' => Linked(j))
    BY <2>1, <2>2, <2>3, <2>5 DEF Dirty, Linked
  <2>9. ASSUME Linked(j) PROVE disk'[j] # None /\ Handles(j) \cap cut = {}
    <3>1. Handles(j) # {} => Handles(j) \cap cut = {} /\ disk[j] # None
      BY <1>0, <2>9 DEF KeepAt, HasOpenHandles
    <3>2. CASE q.op = "write"
      <4>1. Handles(j) # {}
        BY <1>0, <1>1, <1>2, <3>2 DEF HandlesOK, Handles
      <4> QED
        BY <1>6, <3>1, <4>1
    <3>3. CASE \E c \in Content : disk' = [disk EXCEPT ![j] = c]
      <4>1. disk'[j] # None
        BY <1>0, <3>3 DEF TypeOK
      <4> QED
        BY <3>1, <4>1
    <3> QED
      BY <1>4, <3>2, <3>3
  <2>10. KeepAt(j)'
    BY <1>3, <2>7, <2>8, <2>9 DEF KeepAt
  <2>11. HandedOut'
    <3>1. \A s \in Req : req'[s] = req[s] \/ req'[s].op = "idle"
      BY <1>0, <1>3, Ending, BlankFields
    <3>2. \A i \in Ino : table'[i].here = table[i].here
      BY <2>1, <2>2, <2>5, <2>6
    <3>3. \A s \in Req : req[s].op # "idle" => req[s].ino \in Ino
      BY <1>0, ReqFields DEF TypeOK
    <3> QED
      BY <1>0, <1>3, <3>1, <3>2, <3>3 DEF HandedOut
  <2> QED
    BY <1>3, <1>6, <2>6, <2>7, <2>8, <2>10, <2>11, KeepDirty
<1> QED
    BY <1>7, <1>8

\* Steps that at most remove the staging file of inode j, which nobody needs.
LEMMA KeepUnstage ==
    ASSUME KeepInv, PendingInv', NEW j \in Ino, UNCHANGED <<used, table, fd>>,
           \A s \in Req : req'[s] = req[s] \/ req'[s].op = "idle",
           gcq' \subseteq gcq, gcq' # {} => fpc' = "gc",
           \/ UNCHANGED <<disk, cut>>
           \/ Unstage(j) /\ (Linked(j) => ~Dirty(j) /\ ~HasOpenHandles(j))
    PROVE  KeepInv'
<1> USE ValueAssumption
<1>0. TypeOK /\ HandedOut /\ VisitsOK /\ \A i \in Ino : KeepAt(i)
    BY DEF KeepInv, PendingInv, PendingOK
<1>1. \A i \in Ino : /\ Handles(i)' = Handles(i) /\ (HasOpenHandles(i)' <=> HasOpenHandles(i))
                     /\ Linked(i)' = Linked(i) /\ Dirty(i)' = Dirty(i)
    BY DEF Handles, HasOpenHandles, Linked, Dirty
<1>2. \A s \in Req : req'[s].op # "idle" => req'[s] = req[s] /\ req[s].ino \in Ino
    BY <1>0, ReqFields DEF TypeOK
<1>3. cut' = cut \/ cut' = cut \cup Handles(j)
    BY DEF Unstage
<1>4. HandedOut'
  <2>1. \A h \in cut' : fd'[h] # None
    BY <1>0, <1>3 DEF HandedOut, Handles
  <2> QED
    BY <1>0, <1>2, <2>1 DEF HandedOut
<1>5. VisitsOK'
  <2>1. \A i \in gcq : i \in Ino
    BY <1>0 DEF TypeOK
  <2> QED
    BY <1>0, <1>1, <2>1 DEF VisitsOK
<1>6. ASSUME NEW i \in Ino PROVE KeepAt(i)'
  <2>1. CASE UNCHANGED <<disk, cut>>
    BY <1>0, <1>1, <2>1 DEF KeepAt
  <2>2. CASE i = j /\ (Linked(j) => ~Dirty(j) /\ ~HasOpenHandles(j))
    BY <1>1, <2>2 DEF KeepAt
  <2>3. CASE i # j /\ Unstage(j)
    <3>1. disk'[i] = disk[i] /\ Handles(i) \cap Handles(j) = {}
      BY <1>0, <2>3 DEF Unstage, TypeOK, Handles
    <3> QED
      BY <1>0, <1>1, <1>3, <3>1 DEF KeepAt
  <2> QED
    BY <2>1, <2>2, <2>3
<1> QED
    BY <1>4, <1>5, <1>6 DEF KeepInv

\* gc_one() called by release() or by gc(), and drop_locked().
LEMMA KeepRemovals ==
    ASSUME KeepInv, PendingInv', ReapsClosed,
           \/ \E r \in Req : ReapGc(r) \/ DropLocked(r)
           \/ \E i \in Ino : FlushGcOne(i)
    PROVE  KeepInv'
<1>0. TypeOK /\ HandedOut /\ VisitsOK
    BY DEF KeepInv, PendingInv, PendingOK
<1>1. ASSUME NEW r \in Req, ReapGc(r) \/ DropLocked(r) PROVE KeepInv'
  <2>1. PICK j \in Ino : j = req[r].ino
    BY <1>0, <1>1, ReqFields DEF TypeOK, ReapGc, DropLocked
  <2>2. UNCHANGED <<used, table, fd, gcq, fpc>> /\ Finish(r)
    BY <1>1, ZenonT(30) DEF ReapGc, DropLocked, fvars
  <2>3. \A s \in Req : req'[s] = req[s] \/ req'[s].op = "idle"
    BY <1>0, <2>2, Ending, BlankFields
  <2>4. CASE ReapGc(r)
    <3>1. ~HasOpenHandles(j)
      BY <2>1, <2>4 DEF ReapsClosed
    <3>2. UNCHANGED <<disk, cut>> \/ (Unstage(j) /\ ~Dirty(j))
      BY <2>1, <2>4 DEF ReapGc
    <3> QED
      BY <1>0, <2>2, <2>3, <3>1, <3>2, KeepUnstage DEF VisitsOK
  <2>5. CASE DropLocked(r)
    <3>1. ~table[j].here /\ Unstage(j)
      BY <1>0, <2>1, <2>5 DEF DropLocked, HandedOut
    <3> QED
      BY <1>0, <2>2, <2>3, <3>1, KeepUnstage DEF VisitsOK, Linked
  <2> QED
    BY <1>1, <2>4, <2>5
<1>2. ASSUME NEW i \in Ino, FlushGcOne(i) PROVE KeepInv'
  <2>1. /\ UNCHANGED <<used, table, fd, req>> /\ i \in gcq /\ fpc = "gc"
        /\ gcq' \subseteq gcq /\ (gcq' # {} => fpc' = "gc")
        /\ UNCHANGED <<disk, cut>> \/ (Unstage(i) /\ ~Dirty(i))
    BY <1>2 DEF FlushGcOne
  <2> QED
    BY <1>0, <2>1, KeepUnstage DEF VisitsOK
<1> QED
    BY <1>1, <1>2

\* gc() chooses files that nobody has open or dirty.
LEMMA KeepGc ==
    ASSUME KeepInv, PendingInv', FlushGc
    PROVE  KeepInv'
<1>1. /\ UNCHANGED <<used, table, disk, fd, cut, req>> /\ fpc = "gc" /\ gcq = {}
      /\ (gcq' = {} \/ (gcq' = GcCandidates /\ fpc' = "gc"))
    BY DEF FlushGc, ivars
<1>2. \A i \in Ino : /\ HasOpenHandles(i)' = HasOpenHandles(i)
                     /\ Linked(i)' = Linked(i) /\ Dirty(i)' = Dirty(i)
    BY <1>1 DEF Handles, HasOpenHandles, Linked, Dirty
<1>3. VisitsOK'
    BY <1>1, <1>2 DEF VisitsOK, GcCandidates
<1>4. HandedOut' /\ \A i \in Ino : KeepAt(i)'
    BY <1>1 DEF KeepInv, HandedOut, KeepAt, HasOpenHandles, Handles, Linked, Dirty
<1> QED
    BY <1>3, <1>4 DEF KeepInv

\* release(): the handle goes, and an unlinked file with its last handle.
LEMMA KeepReleaseDone ==
    ASSUME KeepInv, PendingInv', NEW r \in Req, ReleaseDone(r)
    PROVE  KeepInv'
<1> USE ValueAssumption
<1>0. /\ TypeOK /\ TypeOK' /\ HandlesOK /\ HandedOut /\ VisitsOK
      /\ \A i \in Ino : KeepAt(i)
    BY DEF KeepInv, PendingInv, PendingOK
<1>1. PICK q \in ReqState : q = req[r] /\ q.op = "close"
    BY <1>0 DEF TypeOK, ReleaseDone
<1>2. PICK j \in Ino, h \in Handle : j = q.ino /\ h = q.fh /\ fd[h] = j /\ j \in used
    BY <1>0, <1>1, ReqFields DEF HandlesOK, HandedOut
<1> DEFINE reap == [Idle EXCEPT !.op = "reap", !.ino = j]
<1>3. reap.op = "reap" /\ reap.ino = j
    BY DEF Idle
<1>4. /\ UNCHANGED <<used, gcq, fpc>>
      /\ fd' = [fd EXCEPT ![h] = None] /\ cut' = cut \ {h}
    BY <1>1, <1>2, ZenonT(30) DEF ReleaseDone, fvars
<1>5. \/ UNCHANGED <<table, disk>>
      \/ table' = [table EXCEPT ![j] = NoEntry] /\ disk' = [disk EXCEPT ![j] = None]
    BY <1>1, <1>2 DEF ReleaseDone
<1>6. \/ req' = [req EXCEPT ![r] = Idle]
      \/ req' = [req EXCEPT ![r] = reap] /\ Handles(j) = {h}
    BY <1>1, <1>2 DEF ReleaseDone
<1> HIDE DEF reap
<1>7. \A s \in Req : \/ s # r /\ req'[s] = req[s]
                     \/ req'[s] = Idle
                     \/ s = r /\ req'[s] = reap /\ Handles(j) = {h}
    BY <1>0, <1>6 DEF TypeOK
<1>8. \A x \in Handle : fd'[x] = IF x = h THEN None ELSE fd[x]
    BY <1>0, <1>4 DEF TypeOK
<1>9. \A i \in Ino : Handles(i)' \subseteq Handles(i) /\ h \notin Handles(i)'
    BY <1>8 DEF Handles
<1>10. \A i \in Ino : table'[i] = NoEntry \/ (table'[i] = table[i] /\ disk'[i] = disk[i])
    BY <1>0, <1>5 DEF TypeOK
<1>11. \A i \in Ino : Linked(i)' => Linked(i) /\ Dirty(i)' = Dirty(i) /\ disk'[i] = disk[i]
    BY <1>10, BlankFields DEF Linked, Dirty
<1>12. \A i \in Ino : KeepAt(i)'
    BY <1>0, <1>4, <1>9, <1>11 DEF KeepAt, HasOpenHandles
<1>13. VisitsOK'
  <2>1. \A i \in gcq : i \in Ino
    BY <1>0 DEF TypeOK
  <2> QED
    BY <1>0, <1>4, <1>9, <1>11, <2>1 DEF VisitsOK, HasOpenHandles
<1>14. \A s \in Req : req[s].op # "idle" => req[s].ino \in Ino
    BY <1>0, ReqFields DEF TypeOK
<1>15. HandedOut'
  <2>1. \A i \in Ino : table'[i].here => table[i].here
    BY <1>10, BlankFields
  <2>2. \A s \in Req : req'[s].op # "idle" =>
            req'[s].ino \in used /\ (req'[s].op = "drop" => ~table'[req'[s].ino].here)
    BY <1>0, <1>2, <1>3, <1>7, <1>14, <2>1, BlankFields DEF HandedOut
  <2>3. \A x \in cut' : fd'[x] # None
    BY <1>0, <1>4, <1>8 DEF HandedOut, TypeOK
  <2> QED
    BY <1>0, <1>4, <1>8, <2>1, <2>2, <2>3 DEF HandedOut
<1> QED
    BY <1>12, <1>13, <1>15 DEF KeepInv

\* Every step keeps the invariant, when gc_one() finds the file closed.
LEMMA KeepStep == KeepInv /\ [Next]_vars /\ ReapsClosed => KeepInv'
<1> SUFFICES ASSUME KeepInv, [Next]_vars, ReapsClosed PROVE KeepInv'
    OBVIOUS
<1>1. PendingInv'
    BY PendingStep DEF KeepInv
<1>2. CASE Editing
    BY <1>1, <1>2, KeepStarts, KeepNexts, KeepOpenDone, KeepWrites, KeepReleaseDone, KeepIdle,
       KeepCreate DEF Editing
<1>3. CASE Truncating \/ Resizing
    BY <1>1, <1>3, KeepStarts, KeepNexts, KeepWrites DEF Truncating, Resizing
<1>4. CASE Unlinking \/ Renaming
    BY <1>1, <1>4, KeepStarts, KeepNexts, KeepNames DEF Unlinking, Renaming
<1>5. CASE Dropping \/ Reaping
    BY <1>1, <1>5, KeepRemovals DEF Dropping, Reaping
<1>6. CASE FlushLoop \/ FlushDeletesFail
    BY <1>1, <1>6, KeepIdle, KeepApply, KeepGc, KeepRemovals DEF FlushLoop
<1>7. CASE Polling \/ UNCHANGED vars
    BY <1>1, <1>7, KeepIdle, KeepNames DEF Polling
<1> QED
    BY <1>2, <1>3, <1>4, <1>5, <1>6, <1>7 DEF Next, LocalNext

\* At first nothing is dirty or open.
LEMMA KeepInit == Init => KeepInv
<1> SUFFICES ASSUME Init PROVE KeepInv
    OBVIOUS
<1> USE ValueAssumption, SeedAssumption
<1>1. PendingInv
    BY PendingInit
<1>2. /\ \A i \in Ino : i # SeedIno => table[i] = NoEntry
      /\ table[SeedIno].gen = 0 /\ \A r \in Req : req[r].op = "idle"
      /\ \A h \in Handle : fd[h] = None
      /\ gcq = {} /\ cut = {} /\ used = {SeedIno}
    BY DEF Init, Idle
<1>3. HandedOut /\ VisitsOK
    BY <1>2, BlankFields DEF HandedOut, VisitsOK
<1>4. ASSUME NEW i \in Ino PROVE KeepAt(i)
  <2>1. Handles(i) = {}
    BY <1>2 DEF Handles
  <2>2. ~(Linked(i) /\ Dirty(i))
    BY <1>2, BlankFields DEF Linked, Dirty
  <2> QED
    BY <2>1, <2>2 DEF KeepAt, HasOpenHandles
<1> QED
    BY <1>1, <1>3, <1>4 DEF KeepInv

\* The invariant gives the property.
LEMMA KeepSuffices == KeepInv => WritersKeepStaging
BY DEF KeepInv, KeepAt, WritersKeepStaging, HasOpenHandles

\* Whatever applications, other clients and the flush loop do, the only way for a
\* named file that is dirty or open to lose its staging file is release()'s gc_one()
\* on a file that has been opened again since the last handle went.
THEOREM OnlyLateReapsTakeStaging ==
    Init /\ [][Next /\ ReapsClosed]_vars => []WritersKeepStaging
<1>1. KeepInv /\ [Next /\ ReapsClosed]_vars => KeepInv'
  <2>1. KeepInv /\ Next /\ ReapsClosed => KeepInv'
    BY KeepStep
  <2>2. KeepInv /\ UNCHANGED vars => KeepInv'
    <3> SUFFICES ASSUME KeepInv, UNCHANGED vars PROVE KeepInv'
      OBVIOUS
    <3>1. PendingInv'
      BY PendingStep DEF KeepInv
    <3> QED
      BY <3>1, KeepIdle
  <2> QED
    BY <2>1, <2>2
<1> QED
    BY <1>1, KeepInit, KeepSuffices, PTL
=============================================================================
