------------------------ MODULE StreamingWritesProofs ------------------------
(***************************************************************************)
(* Proofs about StreamingWrites, for any number of inodes, names, writers, *)
(* contents and requests: types, the commit hooks, the commit states, that *)
(* a generation which is not given out twice makes its writer the only one *)
(* whose bytes can become the file, and, where nothing is renamed, that    *)
(* the Hub and the mount agree whenever nothing is under way (HubInv).     *)
(***************************************************************************)
EXTENDS StreamingWrites, FiniteSetTheorems, TLAPS

\* What the steps of a request go with: a writer of its inode, the staging lock,
\* a commit under way, its content.
WithWriter == {"defer", "deferred", "commit", "upload", "send", "hub", "apply", "retry",
               "closing", "close", "drop", "source"}
Holding == {"setup", "upload", "send", "hub", "apply", "retry", "undelete", "unname"}
Sending == {"upload", "send", "hub", "apply", "retry"}
Driving == Sending \cup {"commit", "closing", "close"}

\* A request works on a writer of its inode; an open refers to an older one.
Refers(q) ==
    /\ q.op \in WithWriter => q.fh \in Handle /\ wr[q.fh].ino = q.ino
    /\ q.op \in Driving => q.job \in {"flush", "link", "release"}
    /\ q.op \in {"open", "setup"} => q.ino \in used
    /\ q.op \in {"open", "setup"} /\ q.old # None => wr[q.old].ino = q.ino

\* Who changes a writer's final state or an inode's generation has the lock.
\* A commit under way owns the generation and sends what was accepted.
Holds(r) ==
    LET q == req[r] IN
    /\ q.op \in Holding => lock[q.ino] = r
    /\ q.op = "setup" /\ q.old # None => ~Terminal(wr[q.old])
    /\ q.op \in Sending => /\ wr[q.fh].state = "committing"
                           /\ table[q.ino].here => wr[q.fh].gen = table[q.ino].gen
    /\ q.op \in Sending \ {"retry"} => q.hash = wr[q.fh].data

\* Writers: handles are new before they are handed out, belong to an inode for
\* good, and keep a file that was uploaded only while nothing more is accepted.
WriterOk(h) ==
    LET w == wr[h] IN
    /\ w.ino = None => w = NoWriter
    /\ w.ino # None => w.ino \in used /\ (table[w.ino].here => w.gen >= 1)
    /\ w.info # None => w.info = w.data /\ w.state \notin {"writing", "deferred"}

InoOk(i) ==
    /\ table[i].here => i \in used
    /\ last[i] # None => wr[last[i]].ino = i

\* Writers that owe a commit have generations of their own.
Distinct(i) ==
    table[i].here =>
        \A g, h \in Handle : /\ wr[g].ino = i /\ wr[h].ino = i /\ g # h
                             /\ ~Terminal(wr[g]) /\ ~Terminal(wr[h])
                             => wr[g].gen # wr[h].gen

\* The last writer owns the inode until it is terminal; then the file is its.
LastOk(i) ==
    table[i].here /\ last[i] # None =>
        LET w == wr[last[i]] IN
        /\ ~Terminal(w) => w.gen = table[i].gen
        /\ w.state = "committed" /\ table[i].nlink > 0 => table[i].gen = 0 /\ table[i].hash = w.data

IInv ==
    /\ TypeOK
    /\ \A r \in Req : Refers(req[r]) /\ Holds(r)
    /\ \A h \in Handle : WriterOk(h)
    /\ \A i \in Ino : InoOk(i)
    /\ PendingIsLive
    /\ \A i \in Ino \ reused : Distinct(i) /\ LastOk(i)

\* A terminal writer stays what it is.
StatesStay == \A h \in Handle : Terminal(wr[h]) => wr'[h].state = wr[h].state

----------------------------------------------------------------------------
(* Quiet steps: no writer becomes terminal, no entry changes its content.  *)

Keeps(h) ==
    /\ wr'[h].ino = wr[h].ino /\ wr'[h].gen = wr[h].gen
    /\ wr[h].ino = None => wr'[h] = wr[h]
    /\ \/ wr'[h].state = wr[h].state
       \/ wr[h].state = "writing" /\ wr'[h].state = "deferred"
       \/ ~Terminal(wr[h]) /\ wr'[h].state = "committing"
    /\ wr'[h].data = wr[h].data \/ wr[h].state \in {"writing", "deferred"}
    /\ wr'[h].info # None => wr'[h].info = wr'[h].data /\ wr'[h].state \notin {"writing", "deferred"}

Fades(i) ==
    table'[i].here => /\ table[i].here
                      /\ table'[i].gen = table[i].gen /\ table'[i].hash = table[i].hash
                      /\ table'[i].nlink > 0 => table[i].nlink > 0

\* A writer and an inode that nothing happens to.
LEMMA SameKeeps ==
    ASSUME IInv, NEW h \in Handle, wr'[h] = wr[h] PROVE Keeps(h)
    BY DEF Keeps, IInv, WriterOk

\* An entry that nothing happens to.
LEMMA SameFades ==
    ASSUME NEW i \in Ino, table'[i] = table[i] PROVE Fades(i)
    BY DEF Fades

\* What a step leaves of an inode whose lock another request has.
Undisturbed(i) ==
    /\ lock'[i] = lock[i]
    /\ table'[i].here => table[i].here /\ table'[i].gen = table[i].gen
    /\ \A h \in Handle : wr[h].ino = i =>
          /\ wr'[h].gen = wr[h].gen
          /\ wr[h].state = "committing" => wr'[h].state = "committing" /\ wr'[h].data = wr[h].data
          /\ ~Terminal(wr[h]) => ~Terminal(wr'[h])

\* The requests that do not move.
LEMMA OthersOk ==
    ASSUME IInv, NEW S \in SUBSET Req, \A s \in S : req'[s] = req[s], used \subseteq used',
           \A h \in Handle : wr[h].ino # None => wr'[h].ino = wr[h].ino,
           \A i \in Ino : lock[i] \in S => lock'[i] = lock[i],
           \A i \in used : lock[i] \in S => Undisturbed(i)
    PROVE  \A s \in S : Refers(req[s])' /\ Holds(s)'
<1> TAKE s \in S
<1> DEFINE q == req[s]
<1>1. q \in Request /\ s \in Req /\ Refers(q) /\ Holds(s) /\ (q.op # "idle" => q.ino \in Ino)
    BY DEF IInv, TypeOK, Request
<1>2. req'[s] = q /\ q.old \in Handle \cup {None} /\ None \notin Ino
    BY <1>1, ValueAssumption DEF Request
<1>3. Refers(req[s])'
  <2>1. q.op \in WithWriter => q.fh \in Handle /\ wr'[q.fh].ino = q.ino
    BY <1>1, <1>2 DEF Refers, WithWriter
  <2>2. q.op \in {"open", "setup"} /\ q.old # None => wr'[q.old].ino = q.ino
    BY <1>1, <1>2 DEF Refers
  <2>3. q.op \in {"open", "setup"} => q.ino \in used'
    BY <1>1 DEF Refers
  <2> QED
    BY <1>1, <1>2, <2>1, <2>2, <2>3 DEF Refers
<1>4. Holds(s)'
  <2>1. CASE q.op \notin Holding
    BY <1>2, <2>1 DEF Holds, Holding, Sending
  <2>2. CASE q.op \in Holding
    <3>1. q.ino \in Ino /\ lock[q.ino] = s
      BY <1>1, <2>2 DEF Holds, Holding
    <3>3. lock'[q.ino] = s
      BY <3>1
    <3>5. q.op \in Sending => q.fh \in Handle /\ wr[q.fh].ino = q.ino /\ wr[q.fh].state = "committing"
      BY <1>1 DEF Refers, Holds, Sending, WithWriter
    <3>2. q.op \in Sending \cup {"setup"} => Undisturbed(q.ino)
      <4>1. q.op \in Sending => q.ino \in used
        BY <1>2, <3>1, <3>5 DEF IInv, WriterOk
      <4> QED
        BY <1>1, <3>1, <4>1 DEF Refers
    <3>4. q.op = "setup" /\ q.old # None => ~Terminal(wr'[q.old])
      BY <1>1, <1>2, <3>2 DEF Undisturbed, Holds, Refers
    <3>6. q.op \in Sending => /\ wr'[q.fh].state = "committing"
                              /\ table'[q.ino].here => wr'[q.fh].gen = table'[q.ino].gen
      BY <1>1, <3>2, <3>5 DEF Undisturbed, Holds
    <3>7. q.op \in Sending \ {"retry"} => q.hash = wr'[q.fh].data
      BY <1>1, <3>2, <3>5 DEF Undisturbed, Holds
    <3> HIDE DEF q
    <3> QED
      BY <1>2, <3>3, <3>4, <3>6, <3>7 DEF Holds
  <2> QED
    BY <2>1, <2>2
<1> QED
    BY <1>3, <1>4

\* Writers, inodes and generations over a quiet step.
LEMMA QuietData ==
    ASSUME IInv, UNCHANGED <<used, last, reused>>,
           \A h \in Handle : Keeps(h), \A i \in Ino : Fades(i)
    PROVE  /\ \A h \in Handle : WriterOk(h)'
           /\ \A i \in Ino : InoOk(i)'
           /\ \A i \in Ino \ reused' : Distinct(i)' /\ LastOk(i)'
           /\ StatesStay
           /\ \A i \in Ino : lock'[i] = lock[i] => Undisturbed(i)
<1>0. /\ wr \in [Handle -> Writer] /\ last \in [Ino -> Handle \cup {None}]
      /\ \A h \in Handle : wr[h].ino \in Ino \cup {None}
    BY DEF IInv, TypeOK, Writer
<1>1. ASSUME NEW h \in Handle PROVE WriterOk(h)'
  <2>1. Keeps(h) /\ WriterOk(h)
    BY DEF IInv
  <2>2. wr[h].ino # None => Fades(wr[h].ino)
    BY <1>0
  <2> QED
    BY <2>1, <2>2 DEF Keeps, Fades, WriterOk
<1>2. ASSUME NEW i \in Ino PROVE InoOk(i)'
  <2>1. Fades(i) /\ InoOk(i) /\ last[i] \in Handle \cup {None}
    BY <1>0 DEF IInv
  <2>2. last[i] # None => Keeps(last[i])
    BY <2>1
  <2> QED
    BY <2>1, <2>2 DEF Fades, Keeps, InoOk
<1>3. ASSUME NEW i \in Ino \ reused PROVE Distinct(i)'
  <2>1. Fades(i) /\ Distinct(i)
    BY DEF IInv
  <2>2. ASSUME NEW h \in Handle
        PROVE  /\ wr'[h].ino = wr[h].ino /\ wr'[h].gen = wr[h].gen
               /\ ~Terminal(wr'[h]) => ~Terminal(wr[h])
    BY DEF Keeps, Terminal
  <2> QED
    BY <2>1, <2>2 DEF Fades, Distinct
<1>4. ASSUME NEW i \in Ino \ reused PROVE LastOk(i)'
  <2>1. Fades(i) /\ LastOk(i) /\ last[i] \in Handle \cup {None}
    BY <1>0 DEF IInv
  <2> DEFINE h == last[i]
  <2>2. CASE table'[i].here /\ h # None
    <3>1. h \in Handle /\ Keeps(h)
      BY <2>1, <2>2
    <3>2. ~Terminal(wr'[h]) => wr'[h].gen = table'[i].gen
      BY <2>1, <2>2, <3>1 DEF Fades, LastOk, Keeps, Terminal
    <3>3. wr'[h].state = "committed" /\ table'[i].nlink > 0
            => table'[i].gen = 0 /\ table'[i].hash = wr'[h].data
      BY <2>1, <2>2, <3>1 DEF Fades, LastOk, Keeps, Terminal
    <3> QED
      BY <3>2, <3>3 DEF LastOk
  <2> QED
    BY <2>2 DEF LastOk
<1>5. StatesStay
    BY DEF StatesStay, Keeps, Terminal
<1>6. ASSUME NEW i \in Ino, lock'[i] = lock[i] PROVE Undisturbed(i)
    BY <1>6 DEF Undisturbed, Keeps, Fades, Terminal
<1> QED
    BY <1>1, <1>2, <1>3, <1>4, <1>5, <1>6

\* A quiet step of one request.
LEMMA QuietStep ==
    ASSUME IInv, TypeOK', UNCHANGED <<used, last, reused>>,
           \A h \in Handle : Keeps(h), \A i \in Ino : Fades(i),
           NEW r \in Req, \A s \in Req \ {r} : req'[s] = req[s],
           \A i \in Ino : lock'[i] = lock[i] \/ lock[i] \in {None, r},
           Refers(req[r])', Holds(r)', PendingIsLive'
    PROVE  IInv' /\ StatesStay
<1>1. /\ \A h \in Handle : WriterOk(h)'
      /\ \A i \in Ino : InoOk(i)'
      /\ \A i \in Ino \ reused' : Distinct(i)' /\ LastOk(i)'
      /\ StatesStay
      /\ \A i \in Ino : lock'[i] = lock[i] => Undisturbed(i)
    BY QuietData
<1> DEFINE S == Req \ {r}
<1>2. /\ \A i \in Ino : lock[i] \in S => Undisturbed(i) /\ lock'[i] = lock[i]
      /\ used \subseteq Ino
    BY <1>1, ValueAssumption DEF IInv, TypeOK
<1>3. \A h \in Handle : wr'[h].ino = wr[h].ino
    BY DEF Keeps
<1>4. \A s \in S : Refers(req[s])' /\ Holds(s)'
    BY <1>2, <1>3, OthersOk
<1> QED
    BY <1>1, <1>4 DEF IInv

\* A quiet step of no request.
LEMMA QuietMove ==
    ASSUME IInv, TypeOK', UNCHANGED <<used, last, reused, req, lock>>,
           \A h \in Handle : Keeps(h), \A i \in Ino : Fades(i), PendingIsLive'
    PROVE  IInv' /\ StatesStay
<1>1. /\ \A h \in Handle : WriterOk(h)'
      /\ \A i \in Ino : InoOk(i)'
      /\ \A i \in Ino \ reused' : Distinct(i)' /\ LastOk(i)'
      /\ StatesStay
      /\ \A i \in Ino : lock'[i] = lock[i] => Undisturbed(i)
    BY QuietData
<1>3. \A h \in Handle : wr'[h].ino = wr[h].ino
    BY DEF Keeps
<1>4. \A s \in Req : Refers(req[s])' /\ Holds(s)'
  <2>1. used \subseteq Ino
    BY DEF IInv, TypeOK
  <2> QED
    BY <1>1, <1>3, <2>1, OthersOk
<1> QED
    BY <1>1, <1>4 DEF IInv

----------------------------------------------------------------------------
(* Commit hooks, and the shapes of a step.                                 *)

\* Nothing is registered and no hook is taken.
LEMMA PendingSame ==
    ASSUME IInv, pending' = pending,
           \A g \in Handle : wr[g].hook => wr'[g].hook /\ wr'[g].ino = wr[g].ino
    PROVE  PendingIsLive'
<1>1. \A i \in Ino : pending[i] \in Handle \cup {None}
    BY DEF IInv, TypeOK
<1> QED
    BY <1>1 DEF IInv, PendingIsLive

\* install_commit_hook() registers a live hook.
LEMMA PendingInstall ==
    ASSUME IInv, NEW h \in Handle, wr[h].ino \in Ino, InstallHook(h), wr'[h].hook,
           \A g \in Handle : wr'[g].ino = wr[g].ino /\ (wr[g].hook => wr'[g].hook)
    PROVE  PendingIsLive' /\ pending' \in [Ino -> Handle \cup {None}]
<1>1. pending \in [Ino -> Handle \cup {None}]
    BY DEF IInv, TypeOK
<1>2. CASE pending' = pending
    BY <1>1, <1>2, PendingSame
<1>3. CASE pending' = [pending EXCEPT ![wr[h].ino] = h]
  <2>1. ASSUME NEW i \in Ino, pending'[i] # None PROVE wr'[pending'[i]].hook /\ wr'[pending'[i]].ino = i
    <3>1. CASE i = wr[h].ino
      BY <1>1, <1>3, <3>1
    <3>2. CASE i # wr[h].ino
      <4>1. pending'[i] = pending[i] /\ pending[i] \in Handle
        BY <1>1, <1>3, <2>1, <3>2
      <4> QED
        BY <2>1, <4>1 DEF IInv, PendingIsLive
    <3> QED
      BY <3>1, <3>2
  <2> QED
    BY <1>1, <1>3, <2>1 DEF PendingIsLive
<1> QED
    BY <1>2, <1>3 DEF InstallHook

\* fulfill_commit_hook() takes the registration of the hook it takes.
LEMMA PendingFulfill ==
    ASSUME IInv, NEW h \in Handle, wr[h].ino \in Ino, FulfillHook(h),
           \A g \in Handle \ {h} : wr[g].hook => wr'[g].hook /\ wr'[g].ino = wr[g].ino
    PROVE  PendingIsLive' /\ pending' \in [Ino -> Handle \cup {None}]
<1>1. pending \in [Ino -> Handle \cup {None}] /\ None \notin Handle
    BY ValueAssumption DEF IInv, TypeOK
<1>2. pending' \in [Ino -> Handle \cup {None}]
    BY <1>1 DEF FulfillHook
<1>3. ASSUME NEW i \in Ino, pending'[i] # None PROVE wr'[pending'[i]].hook /\ wr'[pending'[i]].ino = i
  <2>1. pending'[i] = pending[i] /\ pending[i] \in Handle
    BY <1>1, <1>3 DEF FulfillHook
  <2>2. wr[pending[i]].hook /\ wr[pending[i]].ino = i
    BY <2>1, <1>1 DEF IInv, PendingIsLive
  <2>3. pending[i] # h
    <3> SUFFICES ASSUME pending[i] = h PROVE FALSE
      OBVIOUS
    <3>1. wr[h].hook /\ wr[h].ino = i /\ pending[wr[h].ino] = h
      BY <2>2
    <3>2. pending' = [pending EXCEPT ![i] = None]
      BY <3>1 DEF FulfillHook
    <3> QED
      BY <1>1, <1>3, <3>2
  <2> QED
    BY <2>1, <2>2, <2>3
<1> QED
    BY <1>2, <1>3 DEF PendingIsLive

\* One writer gets new fields.
LEMMA PutWriter ==
    ASSUME IInv, NEW h \in Handle, NEW w \in Writer, wr' = [wr EXCEPT ![h] = w]
    PROVE  wr' \in [Handle -> Writer] /\ wr'[h] = w /\ \A g \in Handle \ {h} : wr'[g] = wr[g]
    BY DEF IInv, TypeOK

\* One request gets a new state.
LEMMA PutReq ==
    ASSUME IInv, NEW r \in Req, NEW q \in Request, req' = [req EXCEPT ![r] = q]
    PROVE  req' \in [Req -> Request] /\ req'[r] = q /\ \A s \in Req \ {r} : req'[s] = req[s]
    BY DEF IInv, TypeOK

\* A request that has nothing to do is one.
LEMMA IdleOk == Idle \in Request /\ Idle.op = "idle"
    BY DEF Idle, Request, NoSnapshot, Snapshot, Hash

\* A request goes on to a step that asks nothing new of its fields.
LEMMA StepForm ==
    ASSUME IInv, NEW r \in Req, req[r].op # "idle", Step(r, "drop") \/ Step(r, "close")
                \/ Step(r, "deferred") \/ Step(r, "unname") \/ Step(r, "undelete")
                \/ (Step(r, "renamed") /\ req[r].op = "rename")
    PROVE  LET q == req'[r] IN
           /\ req' \in [Req -> Request] /\ \A s \in Req \ {r} : req'[s] = req[s]
           /\ q = [req[r] EXCEPT !.op = q.op]
           /\ q.op \in {"drop", "close", "deferred", "unname", "undelete", "renamed"}
           /\ q.ino = req[r].ino /\ q.fh = req[r].fh /\ q.job = req[r].job /\ q.old = req[r].old
<1>1. req[r] \in Request /\ req \in [Req -> Request]
    BY DEF IInv, TypeOK
<1>2. PICK op \in {"drop", "close", "deferred", "unname", "undelete", "renamed"} :
            req' = [req EXCEPT ![r].op = op] /\ (op = "renamed" => req[r].op = "rename")
    BY DEF Step
<1> DEFINE q == [req[r] EXCEPT !.op = op]
<1>3. /\ q \in Request /\ q.op = op
      /\ q.ino = req[r].ino /\ q.fh = req[r].fh /\ q.job = req[r].job /\ q.old = req[r].old
    BY <1>1, <1>2 DEF Request
<1>4. req' = [req EXCEPT ![r] = q]
    BY <1>1, <1>2
<1>5. req' \in [Req -> Request] /\ req'[r] = q /\ \A s \in Req \ {r} : req'[s] = req[s]
  <2> HIDE DEF q
  <2> QED
    BY <1>3, <1>4, PutReq
<1> QED
    BY <1>3, <1>5

\* A request is done.
LEMMA FinishForm ==
    ASSUME IInv, NEW r \in Req, Finish(r)
    PROVE  /\ req' \in [Req -> Request] /\ \A s \in Req \ {r} : req'[s] = req[s]
           /\ req'[r].op = "idle" /\ Refers(req[r])' /\ Holds(r)'
<1>1. req' \in [Req -> Request] /\ req'[r] = Idle /\ \A s \in Req \ {r} : req'[s] = req[s]
    BY IdleOk, PutReq DEF Finish
<1>2. req'[r].op = "idle"
    BY <1>1, IdleOk
<1> QED
    BY <1>1, <1>2 DEF Refers, Holds, WithWriter, Holding, Sending, Driving

----------------------------------------------------------------------------
(* Steps that change neither writers nor inodes.                           *)

\* A request moves on; writers, entries and hooks are as before.
LEMMA CalmStep ==
    ASSUME IInv, NEW r \in Req, UNCHANGED <<used, table, wr, pending, last, reused, good>>,
           req' \in [Req -> Request], \A s \in Req \ {r} : req'[s] = req[s],
           lock' \in [Ino -> Req \cup {None}],
           \A i \in Ino : lock'[i] = lock[i] \/ lock[i] \in {None, r},
           remote' \in [Path -> Hash], ops' \in Nat, faults' \in Nat,
           Refers(req[r])', Holds(r)'
    PROVE  IInv' /\ StatesStay
<1>1. TypeOK'
    BY DEF IInv, TypeOK
<1>2. \A h \in Handle : Keeps(h)
    BY SameKeeps
<1>3. \A i \in Ino : Fades(i)
    BY SameFades
<1>4. PendingIsLive'
    BY DEF IInv, PendingIsLive
<1> QED
    BY <1>1, <1>2, <1>3, <1>4, QuietStep

\* What requests begin with.
LEMMA BeginForm ==
    ASSUME IInv, NEW r \in Req, NEW q \in Request, Begin(r, q)
    PROVE  /\ req' \in [Req -> Request] /\ req'[r] = q /\ \A s \in Req \ {r} : req'[s] = req[s]
           /\ ops' \in Nat
    BY PutReq DEF Begin, BeginOp, IInv, TypeOK

\* Types that most proofs need.
LEMMA Ranges ==
    ASSUME IInv
    PROVE  /\ wr \in [Handle -> Writer] /\ table \in [Ino -> Entry] /\ req \in [Req -> Request]
           /\ lock \in [Ino -> Req \cup {None}] /\ remote \in [Path -> Hash]
           /\ pending \in [Ino -> Handle \cup {None}] /\ good \in [Ino -> Hash]
           /\ last \in [Ino -> Handle \cup {None}] /\ reused \subseteq Ino /\ used \subseteq Ino
           /\ ops \in Nat /\ faults \in Nat
    BY DEF IInv, TypeOK

\* A lock that is taken or given back.
LEMMA LockForm ==
    ASSUME IInv, NEW i \in Ino, NEW v \in Req \cup {None}, lock' = [lock EXCEPT ![i] = v]
    PROVE  /\ lock' \in [Ino -> Req \cup {None}] /\ lock'[i] = v
           /\ \A j \in Ino \ {i} : lock'[j] = lock[j]
    BY Ranges

\* The fields of a request, and what makes them one.
Fields ==
    [op : {"idle", "open", "setup", "defer", "deferred", "commit", "upload",
           "send", "hub", "apply", "retry", "closing", "close", "drop", "source",
           "linkadd", "linked", "unlink", "undelete", "unname", "rename", "renamed"},
     job : {"flush", "link", "release", "none"},
     ino : Ino \cup {None}, fh : Handle \cup {None}, old : Handle \cup {None},
     path : Path \cup {None}, to : Path \cup {None}, hash : Hash,
     dels : SUBSET Path, snapshot : Snapshot, flag : BOOLEAN, again : BOOLEAN]
Hashed == {"upload", "send", "hub", "apply", "linkadd", "linked"}
Moving == {"source", "linkadd", "linked", "rename", "renamed"}

\* Idle has these fields, and a request is such a record that has what its step needs.
LEMMA RequestFields ==
    /\ Idle \in Fields /\ Idle.job = "none"
    /\ \A q : q \in Request <=> /\ q \in Fields
                                /\ q.op # "idle" => q.ino \in Ino
                                /\ q.op \in Hashed => q.hash \in Content
                                /\ q.job = "link" \/ q.op \in Moving => q.to \in Path
                                /\ q.op \in {"rename", "renamed"} => q.path \in Path
<1>1. Idle \in Fields /\ Idle.job = "none"
    BY DEF Idle, Fields, NoSnapshot, Snapshot, Hash
<1> QED
    BY <1>1 DEF Request, Fields, Hashed, Moving

\* open() begins with the registered hook, whose writer is one of the inode.
LEMMA OpenStartStep ==
    ASSUME IInv, NEW r \in Req, NEW i \in Ino, OpenStart(r, i)
    PROVE  IInv' /\ StatesStay
<1> DEFINE q == [Idle EXCEPT !.op = "open", !.ino = i, !.old = pending[i]]
<1>1. pending[i] \in Handle \cup {None} /\ i \in used /\ (pending[i] # None => wr[pending[i]].ino = i)
    BY DEF OpenStart, IInv, TypeOK, InoOk, PendingIsLive
<1>2. q \in Request /\ q.op = "open" /\ q.ino = i /\ q.old = pending[i]
  <2>1. q \in Fields /\ q.op = "open" /\ q.ino = i /\ q.old = pending[i] /\ q.job = "none"
    BY <1>1, RequestFields DEF Fields
  <2> HIDE DEF q
  <2> QED
    BY <2>1, RequestFields DEF Hashed, Moving
<1> HIDE DEF q
<1>3. Begin(r, q) /\ UNCHANGED <<used, table, wr, pending, lock, remote, last, reused, good, faults>>
    BY DEF OpenStart, q
<1>4. /\ req' \in [Req -> Request] /\ req'[r] = q /\ \A s \in Req \ {r} : req'[s] = req[s]
      /\ ops' \in Nat
    BY <1>2, <1>3, BeginForm
<1>5. Refers(req[r])' /\ Holds(r)'
    BY <1>1, <1>2, <1>3, <1>4 DEF Refers, Holds, WithWriter, Holding, Sending, Driving
<1> QED
    BY <1>3, <1>4, <1>5, Ranges, CalmStep

\* open() takes the staging lock and remembers the active writer.
LEMMA OpenLockStep ==
    ASSUME IInv, NEW r \in Req, OpenLock(r)
    PROVE  IInv' /\ StatesStay
<1> DEFINE q == req[r]
           i == q.ino
           e == table[i]
<1>1. q \in Request /\ q.op = "open" /\ i \in Ino /\ i \in used /\ lock[i] = None
    BY Ranges DEF OpenLock, Request, IInv, Refers
<1>2. UNCHANGED <<used, table, wr, pending, remote, last, reused, good, ops, faults>>
    BY DEF OpenLock, hvars
<1>3. CASE Finish(r) /\ UNCHANGED lock
    BY <1>2, <1>3, FinishForm, Ranges, CalmStep
<1>4. ASSUME lock' = [lock EXCEPT ![i] = r],
             NEW old \in IF Active(i) = {} THEN {None} ELSE Active(i),
             req' = [req EXCEPT ![r] =
                       [q EXCEPT !.op = "setup", !.old = old,
                          !.snapshot = IF old # None THEN wr[old].snapshot
                                       ELSE [hash |-> e.hash, pdel |-> e.pdel, existed |-> TRUE]]]
      PROVE  IInv' /\ StatesStay
  <2> DEFINE sn == IF old # None THEN wr[old].snapshot
                   ELSE [hash |-> e.hash, pdel |-> e.pdel, existed |-> TRUE]
             p == [q EXCEPT !.op = "setup", !.old = old, !.snapshot = sn]
  <2>1. /\ old \in Handle \cup {None}
        /\ old # None => wr[old].ino = i /\ ~Terminal(wr[old])
    BY DEF Active
  <2>2. sn \in Snapshot
    <3>1. e \in Entry /\ e.hash \in Hash /\ e.pdel \in SUBSET Path
      BY <1>1, Ranges DEF Entry
    <3>2. old # None => wr[old].snapshot \in Snapshot
      BY <2>1, Ranges DEF Writer
    <3> QED
      BY <3>1, <3>2 DEF Snapshot
  <2> HIDE DEF sn
  <2>3. p \in Request /\ p.op = "setup" /\ p.ino = i /\ p.old = old
    <3>0. q \in Fields /\ (q.job = "link" => q.to \in Path)
      BY <1>1, RequestFields
    <3>1. /\ p \in Fields /\ p.op = "setup" /\ p.ino = i /\ p.old = old
          /\ p.job = q.job /\ p.to = q.to
      BY <2>1, <2>2, <3>0 DEF Fields
    <3> HIDE DEF p
    <3> QED
      BY <1>1, <3>0, <3>1, RequestFields DEF Hashed, Moving
  <2>4. req' = [req EXCEPT ![r] = p]
    BY <1>4 DEF sn
  <2> HIDE DEF p
  <2>5. req' \in [Req -> Request] /\ req'[r] = p /\ \A s \in Req \ {r} : req'[s] = req[s]
    BY <2>3, <2>4, PutReq
  <2>6. /\ lock' \in [Ino -> Req \cup {None}] /\ lock'[i] = r
        /\ \A j \in Ino \ {i} : lock'[j] = lock[j]
    BY <1>1, <1>4, LockForm
  <2>7. Refers(req[r])' /\ Holds(r)'
    <3> HIDE DEF i
    <3> QED
      BY <1>1, <1>2, <2>1, <2>3, <2>5, <2>6 DEF Refers, Holds, WithWriter, Holding, Sending, Driving
  <2>8. \A j \in Ino : lock'[j] = lock[j] \/ lock[j] \in {None, r}
    BY <1>1, <2>6
  <2> QED
    BY <1>2, <2>5, <2>6, <2>7, <2>8, Ranges, CalmStep
<1> QED
    BY <1>3, <1>4 DEF OpenLock

\* A request ends and gives its lock back.
LEMMA GiveUp ==
    ASSUME IInv, NEW r \in Req, req[r].op \in Holding, Finish(r), Unlock(req[r].ino),
           UNCHANGED <<used, table, wr, pending, last, reused, good, ops>>,
           remote' \in [Path -> Hash], faults' \in Nat
    PROVE  IInv' /\ StatesStay
<1> DEFINE i == req[r].ino
<1>1. i \in Ino /\ lock[i] = r
    BY Ranges DEF Request, Holding, IInv, Holds
<1>2. /\ lock' \in [Ino -> Req \cup {None}] /\ \A j \in Ino \ {i} : lock'[j] = lock[j]
    BY <1>1, LockForm DEF Unlock
<1> HIDE DEF i
<1>3. \A j \in Ino : lock'[j] = lock[j] \/ lock[j] \in {None, r}
    BY <1>1, <1>2
<1> QED
    BY <1>2, <1>3, FinishForm, Ranges, CalmStep

\* open() fails and gives the staging lock back.
LEMMA OpenFailStep ==
    ASSUME IInv, NEW r \in Req, OpenFail(r)
    PROVE  IInv' /\ StatesStay
<1>1. req[r].op \in Holding /\ remote' \in [Path -> Hash] /\ faults' \in Nat
    BY Ranges DEF OpenFail, Holding, Fault
<1> QED
    BY <1>1, GiveUp DEF OpenFail

\* A handle in open_files, or one that counts, belongs to an inode.
LEMMA OpenHasIno ==
    ASSUME IInv, NEW h \in Handle, wr[h].open \/ wr[h].held \/ wr[h].hook \/ Terminal(wr[h])
    PROVE  wr[h].ino \in Ino
<1>1. ~NoWriter.open /\ ~NoWriter.held /\ ~NoWriter.hook /\ ~Terminal(NoWriter)
    BY DEF NoWriter, Terminal
<1>2. wr[h].ino \in Ino \cup {None} /\ WriterOk(h)
    BY Ranges DEF Writer, IInv
<1>3. wr[h].ino # None
    BY <1>1, <1>2 DEF WriterOk
<1> QED
    BY <1>2, <1>3

\* flush() begins, to defer the commit or to drive it.
LEMMA FlushStep ==
    ASSUME IInv, NEW r \in Req, NEW h \in Handle, NEW dup \in BOOLEAN, Flush(r, h, dup)
    PROVE  IInv' /\ StatesStay
<1>1. wr[h].ino \in Ino
    BY OpenHasIno DEF Flush
<1> DEFINE p == [Idle EXCEPT !.op = "defer", !.ino = wr[h].ino, !.fh = h]
           q == [Idle EXCEPT !.op = "commit", !.ino = wr[h].ino, !.fh = h, !.job = "flush"]
<1>2. p \in Request /\ p.op = "defer" /\ p.ino = wr[h].ino /\ p.fh = h
  <2>1. p \in Fields /\ p.op = "defer" /\ p.ino = wr[h].ino /\ p.fh = h /\ p.job = "none"
    BY <1>1, RequestFields DEF Fields
  <2> HIDE DEF p
  <2> QED
    BY <1>1, <2>1, RequestFields DEF Hashed, Moving
<1>3. q \in Request /\ q.op = "commit" /\ q.ino = wr[h].ino /\ q.fh = h /\ q.job = "flush"
  <2>1. q \in Fields /\ q.op = "commit" /\ q.ino = wr[h].ino /\ q.fh = h /\ q.job = "flush"
    BY <1>1, RequestFields DEF Fields
  <2> HIDE DEF q
  <2> QED
    BY <1>1, <2>1, RequestFields DEF Hashed, Moving
<1>4. /\ req' = [req EXCEPT ![r] = p] \/ req' = [req EXCEPT ![r] = q]
      /\ UNCHANGED <<used, table, wr, pending, lock, remote, last, reused, good, ops, faults>>
    BY DEF Flush, hvars
<1> HIDE DEF p, q
<1>5. /\ req' \in [Req -> Request] /\ \A s \in Req \ {r} : req'[s] = req[s]
      /\ req'[r] \in {p, q}
    BY <1>2, <1>3, <1>4, PutReq
<1>6. Refers(req[r])' /\ Holds(r)'
    BY <1>2, <1>3, <1>4, <1>5 DEF Refers, Holds, WithWriter, Holding, Sending, Driving
<1> QED
    BY <1>4, <1>5, <1>6, Ranges, CalmStep

\* The Hub accepts the commit; nothing local changes.
LEMMA HubCommitStep ==
    ASSUME IInv, NEW r \in Req, HubCommit(r)
    PROVE  IInv' /\ StatesStay
<1> DEFINE p == [req[r] EXCEPT !.op = "apply"]
<1>1. req[r] \in Request /\ req[r].op = "hub" /\ Refers(req[r]) /\ Holds(r) /\ req[r].hash \in Content
    BY Ranges DEF HubCommit, IInv, Request
<1>2. /\ p \in Request /\ p.op = "apply" /\ p.ino = req[r].ino /\ p.fh = req[r].fh
      /\ p.job = req[r].job /\ p.hash = req[r].hash
    BY <1>1 DEF Request
<1>3. req' = [req EXCEPT ![r] = p]
    BY Ranges DEF HubCommit, Step
<1> HIDE DEF p
<1>4. req' \in [Req -> Request] /\ req'[r] = p /\ \A s \in Req \ {r} : req'[s] = req[s]
    BY <1>2, <1>3, PutReq
<1>5. /\ UNCHANGED <<used, table, wr, pending, lock, last, reused, good, ops, faults>>
      /\ remote' = AfterCommit(req[r])
    BY DEF HubCommit, hvars
<1>6. remote' \in [Path -> Hash]
    BY <1>1, <1>5, Ranges DEF AfterCommit, Hash
<1>7. Refers(req[r])' /\ Holds(r)'
    BY <1>1, <1>2, <1>4, <1>5 DEF Refers, Holds, WithWriter, Holding, Sending, Driving
<1> QED
    BY <1>4, <1>5, <1>6, <1>7, Ranges, CalmStep

----------------------------------------------------------------------------
(* Steps that change a writer and keep what it stands for.                 *)

\* One writer changes and keeps what it stands for; all others are as before.
LEMMA WriterMove ==
    ASSUME IInv, NEW h \in Handle, NEW w \in Writer, wr' = [wr EXCEPT ![h] = w], Keeps(h),
           UNCHANGED table
    PROVE  /\ wr' \in [Handle -> Writer] /\ wr'[h] = w
           /\ \A g \in Handle : Keeps(g)
           /\ \A i \in Ino : Fades(i)
           /\ \A g \in Handle \ {h} : wr'[g] = wr[g]
<1>1. wr' \in [Handle -> Writer] /\ wr'[h] = w /\ \A g \in Handle \ {h} : wr'[g] = wr[g]
    BY PutWriter
<1>2. \A g \in Handle : Keeps(g)
    BY <1>1, SameKeeps
<1>3. \A i \in Ino : Fades(i)
    BY SameFades
<1> QED
    BY <1>1, <1>2, <1>3

\* A request changes one writer, which keeps what it stands for, and goes on.
LEMMA WriterStep ==
    ASSUME IInv, NEW h \in Handle, NEW w \in Writer, wr' = [wr EXCEPT ![h] = w], Keeps(h),
           UNCHANGED <<used, table, last, reused, good>>,
           pending' \in [Ino -> Handle \cup {None}], PendingIsLive',
           NEW r \in Req, req' \in [Req -> Request], \A s \in Req \ {r} : req'[s] = req[s],
           lock' \in [Ino -> Req \cup {None}],
           \A i \in Ino : lock'[i] = lock[i] \/ lock[i] \in {None, r},
           remote' \in [Path -> Hash], ops' \in Nat, faults' \in Nat,
           Refers(req[r])', Holds(r)'
    PROVE  IInv' /\ StatesStay
<1>1. wr' \in [Handle -> Writer] /\ \A g \in Handle : Keeps(g) /\ \A i \in Ino : Fades(i)
    BY WriterMove
<1>2. TypeOK'
    BY <1>1 DEF IInv, TypeOK
<1>3. (\A g \in Handle : Keeps(g)) /\ (\A i \in Ino : Fades(i))
    BY WriterMove
<1> QED
    BY <1>2, <1>3, QuietStep

\* write() changes the content of a writer that was not uploaded.
LEMMA WriteStep ==
    ASSUME IInv, NEW h \in Handle, NEW c \in Content, Write(h, c)
    PROVE  IInv' /\ StatesStay
<1> DEFINE w == [wr[h] EXCEPT !.data = c]
<1>1. wr[h] \in Writer /\ wr[h].ino \in Ino /\ None \notin Ino /\ wr[h].state \in {"writing", "deferred"}
    BY OpenHasIno, Ranges, ValueAssumption DEF Write
<1>2. /\ w \in Writer /\ w.ino = wr[h].ino /\ w.gen = wr[h].gen /\ w.state = wr[h].state
      /\ w.info = wr[h].info /\ w.hook = wr[h].hook
    BY <1>1 DEF Writer
<1>3. /\ wr' = [wr EXCEPT ![h] = w]
      /\ UNCHANGED <<used, table, pending, lock, req, remote, last, reused, good, faults>>
    BY Ranges DEF Write
<1>4. ops' \in Nat
    BY Ranges DEF Write, BeginOp
<1> HIDE DEF w
<1>5. wr'[h] = w
    BY <1>2, <1>3, PutWriter
<1>6. Keeps(h)
    BY <1>1, <1>2, <1>5 DEF Keeps, IInv, WriterOk
<1>7. /\ wr' \in [Handle -> Writer] /\ \A g \in Handle \ {h} : wr'[g] = wr[g]
      /\ (\A g \in Handle : Keeps(g)) /\ (\A i \in Ino : Fades(i))
    BY <1>2, <1>3, <1>6, WriterMove
<1>8. PendingIsLive'
    BY <1>2, <1>3, <1>5, <1>7, PendingSame
<1>9. TypeOK'
    BY <1>3, <1>4, <1>7 DEF IInv, TypeOK
<1> QED
    BY <1>3, <1>7, <1>8, <1>9, QuietMove

\* A failed worker changes neither state nor content.
LEMMA WorkerFailStep ==
    ASSUME IInv, NEW h \in Handle, WorkerFail(h)
    PROVE  IInv' /\ StatesStay
<1> DEFINE w == [wr[h] EXCEPT !.worker = "failed"]
<1>1. wr[h] \in Writer /\ wr[h].ino # None
  <2>1. NoWriter.data = Empty
    BY DEF NoWriter
  <2> QED
    BY <2>1, Ranges DEF WorkerFail, IInv, WriterOk
<1>2. /\ w \in Writer /\ w.ino = wr[h].ino /\ w.gen = wr[h].gen /\ w.state = wr[h].state
      /\ w.info = wr[h].info /\ w.hook = wr[h].hook /\ w.data = wr[h].data
    BY <1>1 DEF Writer
<1>3. /\ wr' = [wr EXCEPT ![h] = w]
      /\ UNCHANGED <<used, table, pending, lock, req, remote, last, reused, good, ops>>
    BY Ranges DEF WorkerFail
<1>4. faults' \in Nat
    BY Ranges DEF WorkerFail, Fault
<1> HIDE DEF w
<1>5. wr'[h] = w
    BY <1>2, <1>3, PutWriter
<1>6. Keeps(h)
    BY <1>1, <1>2, <1>5 DEF Keeps, IInv, WriterOk
<1>7. /\ wr' \in [Handle -> Writer] /\ \A g \in Handle \ {h} : wr'[g] = wr[g]
      /\ (\A g \in Handle : Keeps(g)) /\ (\A i \in Ino : Fades(i))
    BY <1>2, <1>3, <1>6, WriterMove
<1>8. PendingIsLive'
    BY <1>2, <1>3, <1>5, <1>7, PendingSame
<1>9. TypeOK'
    BY <1>3, <1>4, <1>7 DEF IInv, TypeOK
<1> QED
    BY <1>3, <1>7, <1>8, <1>9, QuietMove

\* The writer a request works on.
LEMMA OwnWriter ==
    ASSUME IInv, NEW r \in Req, req[r].op \in WithWriter
    PROVE  LET q == req[r] IN
           /\ q \in Request /\ q \in Fields /\ q.ino \in Ino /\ q.fh \in Handle
           /\ wr[q.fh] \in Writer /\ wr[q.fh].ino = q.ino /\ q.ino # None /\ q.ino \in used
           /\ Refers(q) /\ Holds(r) /\ WriterOk(q.fh) /\ q.op # "idle"
           /\ q.job = "link" => q.to \in Path
<1>1. /\ req[r] \in Request /\ req[r] \in Fields /\ req[r].op # "idle" /\ req[r].ino \in Ino
      /\ None \notin Ino /\ (req[r].job = "link" => req[r].to \in Path)
    BY Ranges, RequestFields, ValueAssumption DEF WithWriter
<1>2. Refers(req[r]) /\ Holds(r)
    BY DEF IInv
<1>3. req[r].fh \in Handle /\ wr[req[r].fh].ino = req[r].ino
    BY <1>2 DEF Refers
<1>4. wr[req[r].fh] \in Writer /\ WriterOk(req[r].fh)
    BY <1>3, Ranges DEF IInv
<1> QED
    BY <1>1, <1>2, <1>3, <1>4 DEF WriterOk

\* defer_commit() installs the hook.
LEMMA DeferHookStep ==
    ASSUME IInv, NEW r \in Req, DeferHook(r)
    PROVE  IInv' /\ StatesStay
<1> DEFINE q == req[r]
           h == q.fh
           w == [wr[h] EXCEPT !.hook = TRUE]
<1>1. /\ q.op = "defer" /\ q.ino \in Ino /\ h \in Handle /\ wr[h] \in Writer /\ wr[h].ino = q.ino
      /\ q.ino # None /\ WriterOk(h)
    BY OwnWriter DEF DeferHook, WithWriter
<1>2. /\ w \in Writer /\ w.ino = wr[h].ino /\ w.gen = wr[h].gen /\ w.state = wr[h].state
      /\ w.info = wr[h].info /\ w.hook = TRUE /\ w.data = wr[h].data
    BY <1>1 DEF Writer
<1>3. /\ wr' = [wr EXCEPT ![h] = w] /\ InstallHook(h)
      /\ UNCHANGED <<used, table, lock, remote, last, reused, good, ops, faults>>
    BY Ranges DEF DeferHook, hvars
<1>4. /\ req' \in [Req -> Request] /\ \A s \in Req \ {r} : req'[s] = req[s]
      /\ req'[r].op \in {"drop", "close", "deferred", "unname", "undelete", "renamed"}
      /\ req'[r].op = "deferred" /\ req'[r].ino = q.ino /\ req'[r].fh = h
  <2>1. Step(r, "deferred") /\ req[r].op # "idle"
    BY <1>1 DEF DeferHook
  <2>2. req'[r].op = "deferred"
    BY <2>1, Ranges DEF Step, Request
  <2> QED
    BY <2>1, <2>2, StepForm
<1> HIDE DEF w, h, q
<1>5. wr'[h] = w /\ \A g \in Handle \ {h} : wr'[g] = wr[g]
    BY <1>1, <1>2, <1>3, PutWriter
<1>6. Keeps(h)
    BY <1>1, <1>2, <1>5 DEF Keeps, WriterOk
<1>8. PendingIsLive' /\ pending' \in [Ino -> Handle \cup {None}]
    BY <1>1, <1>2, <1>3, <1>5, PendingInstall
<1>9. Refers(req[r])' /\ Holds(r)'
    BY <1>1, <1>2, <1>4, <1>5 DEF Refers, Holds, WithWriter, Holding, Sending, Driving
<1>10. lock' \in [Ino -> Req \cup {None}] /\ remote' \in [Path -> Hash] /\ ops' \in Nat /\ faults' \in Nat
    BY <1>3, Ranges
<1> QED
    BY <1>1, <1>2, <1>3, <1>4, <1>6, <1>8, <1>9, <1>10, WriterStep

\* defer_commit() demotes the writer or fulfils the hook of a terminal one.
LEMMA DeferDoneStep ==
    ASSUME IInv, NEW r \in Req, DeferDone(r)
    PROVE  IInv' /\ StatesStay
<1> DEFINE q == req[r]
           h == q.fh
           x == [wr[h] EXCEPT !.hook = FALSE]
           y == [wr[h] EXCEPT !.state = IF @ = "writing" THEN "deferred" ELSE @]
<1>1. /\ q.op = "deferred" /\ q.ino \in Ino /\ h \in Handle /\ wr[h] \in Writer /\ wr[h].ino = q.ino
      /\ q.ino # None /\ WriterOk(h)
    BY OwnWriter DEF DeferDone, WithWriter
<1>2. /\ x \in Writer /\ x.ino = wr[h].ino /\ x.gen = wr[h].gen /\ x.state = wr[h].state
      /\ x.info = wr[h].info /\ x.data = wr[h].data
    BY <1>1 DEF Writer
<1>3. /\ y \in Writer /\ y.ino = wr[h].ino /\ y.gen = wr[h].gen
      /\ y.state = wr[h].state \/ (wr[h].state = "writing" /\ y.state = "deferred")
      /\ y.info = wr[h].info /\ y.data = wr[h].data /\ y.hook = wr[h].hook
    BY <1>1 DEF Writer, State
<1>4. /\ \/ wr' = [wr EXCEPT ![h] = x] /\ FulfillHook(h)
         \/ wr' = [wr EXCEPT ![h] = y] /\ UNCHANGED pending
      /\ UNCHANGED <<used, table, lock, remote, last, reused, good, ops, faults>>
      /\ Finish(r)
    BY Ranges DEF DeferDone, hvars
<1>5. /\ req' \in [Req -> Request] /\ \A s \in Req \ {r} : req'[s] = req[s]
      /\ Refers(req[r])' /\ Holds(r)'
    BY <1>4, FinishForm
<1>6. lock' \in [Ino -> Req \cup {None}] /\ remote' \in [Path -> Hash] /\ ops' \in Nat /\ faults' \in Nat
    BY <1>4, Ranges
<1> HIDE DEF x, y, h, q
<1>7. CASE wr' = [wr EXCEPT ![h] = x] /\ FulfillHook(h)
  <2>1. wr'[h] = x /\ \A g \in Handle \ {h} : wr'[g] = wr[g]
    BY <1>1, <1>2, <1>7, PutWriter
  <2>2. Keeps(h)
    BY <1>1, <1>2, <2>1 DEF Keeps, WriterOk
  <2>3. PendingIsLive' /\ pending' \in [Ino -> Handle \cup {None}]
    BY <1>1, <1>7, <2>1, PendingFulfill
  <2> QED
    BY <1>1, <1>2, <1>4, <1>5, <1>6, <1>7, <2>2, <2>3, WriterStep
<1>8. CASE wr' = [wr EXCEPT ![h] = y] /\ UNCHANGED pending
  <2>1. wr'[h] = y /\ \A g \in Handle \ {h} : wr'[g] = wr[g]
    BY <1>1, <1>3, <1>8, PutWriter
  <2>2. Keeps(h)
    BY <1>1, <1>3, <2>1 DEF Keeps, WriterOk
  <2>3. PendingIsLive' /\ pending' \in [Ino -> Handle \cup {None}]
    BY <1>3, <1>8, <2>1, PendingSame, Ranges
  <2> QED
    BY <1>1, <1>3, <1>4, <1>5, <1>6, <1>8, <2>2, <2>3, WriterStep
<1> QED
    BY <1>4, <1>7, <1>8

\* release() removes the handle and installs the hook of a writer that owes a commit.
LEMMA ReleaseStep ==
    ASSUME IInv, NEW r \in Req, NEW h \in Handle, Release(r, h)
    PROVE  IInv' /\ StatesStay
<1> DEFINE w == [wr[h] EXCEPT !.open = FALSE, !.hook = @ \/ ~Terminal(wr[h])]
           q == [Idle EXCEPT !.op = IF Terminal(wr[h]) THEN "drop" ELSE "closing",
                             !.ino = wr[h].ino, !.fh = h, !.job = "release"]
<1>1. wr[h].ino \in Ino /\ wr[h] \in Writer /\ wr[h].ino # None /\ WriterOk(h) /\ wr[h].hook \in BOOLEAN
    BY OpenHasIno, Ranges, ValueAssumption DEF Release, IInv, Writer
<1>2. /\ w \in Writer /\ w.ino = wr[h].ino /\ w.gen = wr[h].gen /\ w.state = wr[h].state
      /\ w.info = wr[h].info /\ w.data = wr[h].data /\ (wr[h].hook => w.hook)
      /\ (~Terminal(wr[h]) => w.hook)
    BY <1>1 DEF Writer, Terminal
<1>3. q \in Request /\ q.op \in {"drop", "closing"} /\ q.ino = wr[h].ino /\ q.fh = h  /\ q.job = "release"
  <2>1. q \in Fields /\ q.op \in {"drop", "closing"} /\ q.ino = wr[h].ino /\ q.fh = h /\ q.job = "release"
    BY <1>1, RequestFields DEF Fields
  <2> HIDE DEF q
  <2> QED
    BY <1>1, <2>1, RequestFields DEF Hashed, Moving
<1>4. /\ wr' = [wr EXCEPT ![h] = w] /\ req' = [req EXCEPT ![r] = q]
      /\ IF Terminal(wr[h]) THEN UNCHANGED pending ELSE InstallHook(h)
      /\ UNCHANGED <<used, table, lock, remote, last, reused, good, ops, faults>>
    BY Ranges DEF Release, hvars
<1> HIDE DEF w, q
<1>5. wr'[h] = w /\ \A g \in Handle \ {h} : wr'[g] = wr[g]
    BY <1>2, <1>4, PutWriter
<1>6. req' \in [Req -> Request] /\ req'[r] = q /\ \A s \in Req \ {r} : req'[s] = req[s]
    BY <1>3, <1>4, PutReq
<1>7. Keeps(h)
    BY <1>1, <1>2, <1>5 DEF Keeps, WriterOk
<1>8. PendingIsLive' /\ pending' \in [Ino -> Handle \cup {None}]
  <2>1. CASE Terminal(wr[h])
    BY <1>2, <1>4, <1>5, <2>1, PendingSame, Ranges
  <2>2. CASE ~Terminal(wr[h])
    BY <1>1, <1>2, <1>4, <1>5, <2>2, PendingInstall
  <2> QED
    BY <2>1, <2>2
<1>9. Refers(req[r])' /\ Holds(r)'
    BY <1>1, <1>2, <1>3, <1>5, <1>6 DEF Refers, Holds, WithWriter, Holding, Sending, Driving
<1>10. lock' \in [Ino -> Req \cup {None}] /\ remote' \in [Path -> Hash] /\ ops' \in Nat /\ faults' \in Nat
    BY <1>4, Ranges
<1> QED
    BY <1>2, <1>4, <1>6, <1>7, <1>8, <1>9, <1>10, WriterStep

\* release() fulfils the hook of a writer that has become terminal, or goes on.
LEMMA ReleaseCheckStep ==
    ASSUME IInv, NEW r \in Req, ReleaseCheck(r)
    PROVE  IInv' /\ StatesStay
<1> DEFINE q == req[r]
           h == q.fh
           w == [wr[h] EXCEPT !.hook = FALSE]
<1>1. /\ q.op = "closing" /\ q.ino \in Ino /\ h \in Handle /\ wr[h] \in Writer /\ wr[h].ino = q.ino
      /\ q.ino # None /\ WriterOk(h)
    BY OwnWriter DEF ReleaseCheck, WithWriter
<1>2. /\ w \in Writer /\ w.ino = wr[h].ino /\ w.gen = wr[h].gen /\ w.state = wr[h].state
      /\ w.info = wr[h].info /\ w.data = wr[h].data
    BY <1>1 DEF Writer
<1>3. /\ \/ wr' = [wr EXCEPT ![h] = w] /\ FulfillHook(h) /\ Step(r, "drop")
         \/ UNCHANGED <<pending, wr>> /\ Step(r, "close")
      /\ UNCHANGED <<used, table, lock, remote, last, reused, good, ops, faults>>
    BY Ranges DEF ReleaseCheck, hvars
<1>4. lock' \in [Ino -> Req \cup {None}] /\ remote' \in [Path -> Hash] /\ ops' \in Nat /\ faults' \in Nat
    BY <1>3, Ranges
<1>5. /\ req' \in [Req -> Request] /\ \A s \in Req \ {r} : req'[s] = req[s]
      /\ req'[r].ino = q.ino /\ req'[r].fh = h /\ req'[r].job = q.job
      /\ (Step(r, "drop") => req'[r].op = "drop") /\ (Step(r, "close") => req'[r].op = "close")
  <2>1. (Step(r, "drop") => req'[r].op = "drop") /\ (Step(r, "close") => req'[r].op = "close")
    BY Ranges DEF Step, Request
  <2> QED
    BY <1>1, <1>3, <2>1, StepForm
<1>a. q.job \in {"flush", "link", "release"}
    BY <1>1 DEF IInv, Refers, Driving
<1> HIDE DEF w, h, q
<1>6. CASE wr' = [wr EXCEPT ![h] = w] /\ FulfillHook(h) /\ Step(r, "drop")
  <2>1. wr'[h] = w /\ \A g \in Handle \ {h} : wr'[g] = wr[g]
    BY <1>1, <1>2, <1>6, PutWriter
  <2>2. Keeps(h)
    BY <1>1, <1>2, <2>1 DEF Keeps, WriterOk
  <2>3. PendingIsLive' /\ pending' \in [Ino -> Handle \cup {None}]
    BY <1>1, <1>6, <2>1, PendingFulfill
  <2>4. Refers(req[r])' /\ Holds(r)'
    BY <1>1, <1>2, <1>5, <1>6, <2>1 DEF Refers, Holds, WithWriter, Holding, Sending, Driving
  <2> QED
    BY <1>1, <1>2, <1>3, <1>4, <1>5, <1>6, <2>2, <2>3, <2>4, WriterStep
<1>7. CASE UNCHANGED <<pending, wr>> /\ Step(r, "close")
  <2>4. Refers(req[r])' /\ Holds(r)'
    BY <1>1, <1>a, <1>5, <1>7 DEF Refers, Holds, WithWriter, Holding, Sending, Driving
  <2> QED
    BY <1>3, <1>4, <1>5, <1>7, <2>4, CalmStep
<1> QED
    BY <1>3, <1>6, <1>7

\* The upload ends with the content that was accepted.
LEMMA UploadStep ==
    ASSUME IInv, NEW r \in Req, Upload(r)
    PROVE  IInv' /\ StatesStay
<1> DEFINE q == req[r]
           h == q.fh
           w == [wr[h] EXCEPT !.info = None, !.worker = "done"]
           p == [q EXCEPT !.op = "send"]
<1>1. /\ q.op = "upload" /\ q.ino \in Ino /\ h \in Handle /\ wr[h] \in Writer /\ wr[h].ino = q.ino
      /\ q.ino # None /\ WriterOk(h) /\ q \in Request /\ Refers(q) /\ Holds(r)
    BY OwnWriter DEF Upload, WithWriter
<1>2. /\ w \in Writer /\ w.ino = wr[h].ino /\ w.gen = wr[h].gen /\ w.state = wr[h].state
      /\ w.info = None /\ w.data = wr[h].data /\ w.hook = wr[h].hook
    BY <1>1 DEF Writer, Hash
<1>3. /\ p \in Request /\ p.op = "send" /\ p.ino = q.ino /\ p.fh = h /\ p.job = q.job /\ p.hash = q.hash
    BY <1>1 DEF Request
<1>4. /\ wr' = [wr EXCEPT ![h] = w] /\ req' = [req EXCEPT ![r] = p]
      /\ UNCHANGED <<used, table, pending, lock, remote, last, reused, good, ops, faults>>
    BY Ranges DEF Upload, Step, hvars
<1> HIDE DEF w, p, h
<1>5. wr'[h] = w /\ \A g \in Handle \ {h} : wr'[g] = wr[g]
    BY <1>1, <1>2, <1>4, PutWriter
<1>6. req' \in [Req -> Request] /\ req'[r] = p /\ \A s \in Req \ {r} : req'[s] = req[s]
    BY <1>3, <1>4, PutReq
<1>7. Keeps(h)
    BY <1>1, <1>2, <1>5 DEF Keeps, WriterOk
<1>8. PendingIsLive' /\ pending' \in [Ino -> Handle \cup {None}]
    BY <1>2, <1>4, <1>5, PendingSame, Ranges
<1>9. Refers(req[r])' /\ Holds(r)'
  <2>1. /\ q.job \in {"flush", "link", "release"} /\ lock[q.ino] = r /\ wr[h].state = "committing"
        /\ table[q.ino].here => wr[h].gen = table[q.ino].gen
        /\ q.hash = wr[h].data
    BY <1>1 DEF Refers, Holds, Holding, Sending, Driving, h
  <2> HIDE DEF q
  <2> QED
    BY <1>1, <1>2, <1>3, <1>4, <1>5, <1>6, <2>1 DEF Refers, Holds, WithWriter, Holding, Sending, Driving
<1>10. lock' \in [Ino -> Req \cup {None}] /\ remote' \in [Path -> Hash] /\ ops' \in Nat /\ faults' \in Nat
    BY <1>4, Ranges
<1> QED
    BY <1>1, <1>2, <1>4, <1>6, <1>7, <1>8, <1>9, <1>10, WriterStep

----------------------------------------------------------------------------
(* Commits.                                                                *)

\* What a driver goes on with.
LEMMA DoneForm ==
    ASSUME IInv, NEW r \in Req, req[r].op \in Driving, req' = [req EXCEPT ![r] = Done(req[r])],
           wr'[req[r].fh].ino = wr[req[r].fh].ino
    PROVE  /\ req' \in [Req -> Request] /\ \A s \in Req \ {r} : req'[s] = req[s]
           /\ Refers(req[r])' /\ Holds(r)'
<1> DEFINE q == req[r]
           p == Done(q)
<1>1. /\ q \in Request /\ q.ino \in Ino /\ q.fh \in Handle /\ wr[q.fh].ino = q.ino
      /\ q.job \in {"flush", "link", "release"} /\ q \in Fields /\ (q.job = "link" => q.to \in Path)
    BY OwnWriter DEF Driving, WithWriter, Sending, Refers
<1>2. p = Idle \/ /\ p \in Fields /\ p.op \in {"source", "drop"} /\ p.ino = q.ino /\ p.fh = q.fh
                  /\ p.job = q.job /\ p.to = q.to /\ (p.op = "source" => q.job = "link")
  <2>1. CASE q.job = "flush"
    BY <2>1 DEF Done
  <2>2. CASE q.job = "link"
    <3>1. p = [q EXCEPT !.op = "source"]
      BY <2>2 DEF Done
    <3> HIDE DEF p
    <3> QED
      BY <1>1, <2>2, <3>1 DEF Fields
  <2>3. CASE q.job = "release"
    <3>1. p = [q EXCEPT !.op = "drop"]
      BY <2>3 DEF Done
    <3> HIDE DEF p
    <3> QED
      BY <1>1, <3>1 DEF Fields
  <2> QED
    BY <1>1, <2>1, <2>2, <2>3
<1> HIDE DEF p
<1>3. p \in Request /\ p.op \in {"idle", "source", "drop"}
    BY <1>1, <1>2, IdleOk, RequestFields DEF Hashed, Moving
<1>4. req' \in [Req -> Request] /\ req'[r] = p /\ \A s \in Req \ {r} : req'[s] = req[s]
    BY <1>3, PutReq DEF p
<1> HIDE DEF q
<1>5. wr'[q.fh].ino = q.ino
    BY <1>1 DEF q
<1>6. p.op = "idle" \/ (p.op \in {"source", "drop"} /\ p.ino = q.ino /\ p.fh = q.fh)
    BY <1>2, IdleOk
<1> QED
    BY <1>1, <1>4, <1>5, <1>6 DEF Refers, Holds, WithWriter, Driving, Sending, Holding

\* streaming_commit() under the staging lock, when it goes on.
LEMMA StartStep ==
    ASSUME IInv, NEW r \in Req, req[r].op \in {"commit", "close", "retry"},
           ~Terminal(wr[req[r].fh]), lock[req[r].ino] \in {None, r},
           ~SkipCommit(req[r].fh), StartCommit(r),
           UNCHANGED <<used, table, remote, last, reused, good, ops, faults>>
    PROVE  IInv' /\ StatesStay
<1> DEFINE q == req[r]
           h == q.fh
           i == q.ino
           c == IF wr[h].info # None THEN wr[h].info ELSE wr[h].data
           w == [wr[h] EXCEPT !.state = "committing", !.hook = TRUE]
           p == [q EXCEPT !.op = "upload", !.hash = c]
<1>1. /\ i \in Ino /\ h \in Handle /\ wr[h] \in Writer /\ wr[h].ino = i
      /\ i # None /\ WriterOk(h) /\ q \in Fields /\ Refers(q) /\ (q.job = "link" => q.to \in Path)
    BY OwnWriter DEF WithWriter
<1>2. /\ w \in Writer /\ w.ino = wr[h].ino /\ w.gen = wr[h].gen /\ w.state = "committing"
      /\ w.info = wr[h].info /\ w.data = wr[h].data /\ w.hook
    BY <1>1 DEF Writer, State
<1>3. c \in Content /\ c = wr[h].data
    BY <1>1 DEF WriterOk, Writer
<1>4. table[i].here /\ wr[h].gen = table[i].gen
    BY <1>1 DEF SkipCommit, OwnsGeneration
<1>5. q.job \in {"flush", "link", "release"}
    BY <1>1 DEF Refers, Driving, Sending
<1>6. /\ wr' = [wr EXCEPT ![h] = w] /\ req' = [req EXCEPT ![r] = p] /\ InstallHook(h)
      /\ lock' = [lock EXCEPT ![i] = r]
  <2>1. /\ wr' = [wr EXCEPT ![h].state = "committing", ![h].hook = TRUE] /\ InstallHook(h)
        /\ req' = [req EXCEPT ![r] = p] /\ lock' = [lock EXCEPT ![i] = r]
    BY DEF StartCommit
  <2>2. [wr EXCEPT ![h].state = "committing", ![h].hook = TRUE] = [wr EXCEPT ![h] = w]
    BY <1>1, Ranges
  <2> HIDE DEF p, w
  <2> QED
    BY <2>1, <2>2
<1> HIDE DEF c
<1>7. p \in Request /\ p.op = "upload" /\ p.ino = i /\ p.fh = h /\ p.job = q.job /\ p.hash = c
  <2>1. /\ p \in Fields /\ p.op = "upload" /\ p.ino = i /\ p.fh = h /\ p.job = q.job /\ p.hash = c
        /\ p.to = q.to
    BY <1>1, <1>3 DEF Fields, Hash
  <2> HIDE DEF p
  <2> QED
    BY <1>1, <1>3, <2>1, RequestFields DEF Hashed, Moving
<1>a. lock[i] \in {None, r} /\ ~Terminal(wr[h])
    OBVIOUS
<1> HIDE DEF w, p, h, i, q
<1>8. wr'[h] = w /\ \A g \in Handle \ {h} : wr'[g] = wr[g]
    BY <1>1, <1>2, <1>6, PutWriter
<1>9. req' \in [Req -> Request] /\ req'[r] = p /\ \A s \in Req \ {r} : req'[s] = req[s]
    BY <1>6, <1>7, PutReq
<1>10. Keeps(h)
    BY <1>1, <1>2, <1>8, <1>a DEF Keeps, WriterOk
<1>11. PendingIsLive' /\ pending' \in [Ino -> Handle \cup {None}]
    BY <1>1, <1>2, <1>6, <1>8, PendingInstall
<1>12. /\ lock' \in [Ino -> Req \cup {None}] /\ lock'[i] = r
       /\ \A j \in Ino \ {i} : lock'[j] = lock[j]
    BY <1>1, <1>6, LockForm
<1>13. Refers(req[r])' /\ Holds(r)'
    BY <1>1, <1>2, <1>3, <1>4, <1>5, <1>7, <1>8, <1>9, <1>12
       DEF Refers, Holds, WithWriter, Holding, Sending, Driving
<1>14. \A j \in Ino : lock'[j] = lock[j] \/ lock[j] \in {None, r}
    BY <1>12, <1>a
<1>15. remote' \in [Path -> Hash] /\ ops' \in Nat /\ faults' \in Nat
    BY Ranges
<1> QED
    BY <1>1, <1>2, <1>6, <1>9, <1>10, <1>11, <1>12, <1>13, <1>14, <1>15, WriterStep

\* A writer becomes terminal: its driver has the lock or could take it.
LEMMA EndStep ==
    ASSUME IInv, NEW r \in Req, NEW h \in Handle, NEW i \in Ino, wr[h].ino = i,
           ~Terminal(wr[h]), lock[i] \in {None, r},
           NEW w \in Writer, wr' = [wr EXCEPT ![h] = w],
           w.ino = i, w.gen = wr[h].gen, Terminal(w), w.info # None => w.info = w.data,
           table' \in [Ino -> Entry], \A j \in Ino \ {i} : table'[j] = table[j],
           table'[i].here => table[i].here,
           i \notin reused => LastOk(i)',
           FulfillHook(h), Unlock(i), UNCHANGED <<used, last, reused>>,
           req' \in [Req -> Request], \A s \in Req \ {r} : req'[s] = req[s],
           Refers(req[r])', Holds(r)',
           good' \in [Ino -> Hash], remote' \in [Path -> Hash], ops' \in Nat, faults' \in Nat
    PROVE  IInv' /\ StatesStay
<1>1. wr' \in [Handle -> Writer] /\ wr'[h] = w /\ \A g \in Handle \ {h} : wr'[g] = wr[g]
    BY PutWriter
<1>2. /\ lock' \in [Ino -> Req \cup {None}] /\ lock'[i] = None
      /\ \A j \in Ino \ {i} : lock'[j] = lock[j]
    BY LockForm DEF Unlock
<1>3. PendingIsLive' /\ pending' \in [Ino -> Handle \cup {None}]
    BY <1>1, PendingFulfill
<1>4. TypeOK'
    BY <1>1, <1>2, <1>3 DEF IInv, TypeOK
<1>5. ASSUME NEW g \in Handle PROVE WriterOk(g)'
  <2>1. WriterOk(g) /\ wr[g].ino \in Ino \cup {None} /\ wr[h].ino # None
    BY Ranges, ValueAssumption DEF IInv, Writer
  <2>2. \A j \in Ino : table'[j].here => table[j].here
    OBVIOUS
  <2>3. CASE g = h
    BY <1>1, <2>1, <2>2, <2>3 DEF WriterOk, Terminal
  <2>4. CASE g # h
    BY <1>1, <2>1, <2>2, <2>4 DEF WriterOk
  <2> QED
    BY <2>3, <2>4
<1>6. \A g \in Handle : wr'[g].ino = wr[g].ino /\ wr'[g].gen = wr[g].gen
                        /\ (~Terminal(wr'[g]) => ~Terminal(wr[g]))
    BY <1>1
<1>7. ASSUME NEW j \in Ino PROVE InoOk(j)'
  <2>1. InoOk(j) /\ last[j] \in Handle \cup {None} /\ (table'[j].here => table[j].here)
    BY Ranges DEF IInv
  <2> QED
    BY <1>6, <2>1 DEF InoOk
<1>8. ASSUME NEW j \in Ino \ reused PROVE Distinct(j)'
  <2>1. Distinct(j) /\ (table'[j].here => table[j].here)
    BY DEF IInv
  <2> QED
    BY <1>6, <2>1 DEF Distinct
<1>9. ASSUME NEW j \in Ino \ reused PROVE LastOk(j)'
  <2>1. CASE j = i
    BY <2>1
  <2>2. CASE j # i
    <3>1. LastOk(j) /\ InoOk(j) /\ last[j] \in Handle \cup {None} /\ table'[j] = table[j] /\ last'[j] = last[j]
      BY <2>2, Ranges DEF IInv
    <3>2. last[j] # None => wr'[last[j]] = wr[last[j]]
      BY <1>1, <2>2, <3>1 DEF InoOk
    <3> QED
      BY <3>1, <3>2 DEF LastOk
  <2> QED
    BY <2>1, <2>2
<1>10. StatesStay
    BY <1>1 DEF StatesStay
<1> DEFINE S == Req \ {r}
<1>11. \A j \in Ino : lock[j] \in S => j # i /\ lock'[j] = lock[j]
    BY <1>2, ValueAssumption
<1>12. \A j \in used : lock[j] \in S => Undisturbed(j)
  <2> SUFFICES ASSUME NEW j \in used, lock[j] \in S PROVE Undisturbed(j)
    OBVIOUS
  <2>1. j \in Ino /\ j # i /\ lock'[j] = lock[j] /\ table'[j] = table[j]
    BY <1>11, Ranges
  <2>2. \A g \in Handle : wr[g].ino = j => wr'[g] = wr[g]
    BY <1>1, <2>1
  <2> QED
    BY <2>1, <2>2 DEF Undisturbed
<1>13. \A s \in S : Refers(req[s])' /\ Holds(s)'
  <2>1. \A g \in Handle : wr[g].ino # None => wr'[g].ino = wr[g].ino
    BY <1>6
  <2> QED
    BY <1>11, <1>12, <2>1, OthersOk
<1> QED
    BY <1>3, <1>4, <1>5, <1>7, <1>8, <1>9, <1>10, <1>13 DEF IInv

\* streaming_commit() skips: only an older writer, or one of an unlinked file.
LEMMA SkipStep ==
    ASSUME IInv, NEW r \in Req, req[r].op \in {"commit", "close", "retry"},
           ~Terminal(wr[req[r].fh]), lock[req[r].ino] \in {None, r},
           SkipCommit(req[r].fh), Committed(r),
           UNCHANGED <<used, table, remote, last, reused, good, ops, faults>>
    PROVE  IInv' /\ StatesStay
<1>0. PICK i \in Ino, h \in Handle : i = req[r].ino /\ h = req[r].fh
    BY OwnWriter DEF WithWriter
<1> DEFINE q == req[r]
           w == [wr[h] EXCEPT !.state = "committed", !.hook = FALSE]
<1>1. /\ i \in Ino /\ h \in Handle /\ wr[h] \in Writer /\ wr[h].ino = i /\ WriterOk(h)
    BY <1>0, OwnWriter DEF WithWriter
<1>2. /\ w \in Writer /\ w.ino = i /\ w.gen = wr[h].gen /\ w.state = "committed" /\ Terminal(w)
      /\ w.info = wr[h].info /\ w.data = wr[h].data /\ (w.info # None => w.info = w.data)
    BY <1>1 DEF Writer, State, Terminal, WriterOk
<1>3. /\ wr' = [wr EXCEPT ![h] = w] /\ req' = [req EXCEPT ![r] = Done(q)]
      /\ FulfillHook(h) /\ Unlock(i)
    BY <1>0, Ranges DEF Committed
<1>4. ~table[i].here \/ table[i].nlink = 0 \/ wr[h].gen # table[i].gen
    BY <1>0, <1>1 DEF SkipCommit, OwnsGeneration
<1>a. lock[i] \in {None, r} /\ ~Terminal(wr[h]) /\ req[r].op \in Driving
    BY <1>0 DEF Driving, Sending
<1> HIDE DEF w
<1>5. wr'[h] = w /\ \A g \in Handle \ {h} : wr'[g] = wr[g]
    BY <1>1, <1>2, <1>3, PutWriter
<1>6. /\ req' \in [Req -> Request] /\ \A s \in Req \ {r} : req'[s] = req[s]
      /\ Refers(req[r])' /\ Holds(r)'
  <2>1. wr'[req[r].fh].ino = wr[req[r].fh].ino
    BY <1>0, <1>1, <1>2, <1>5
  <2> QED
    BY <1>3, <1>a, <2>1, DoneForm
<1> HIDE DEF q
<1>7. ASSUME i \notin reused PROVE LastOk(i)'
  <2>1. LastOk(i) /\ last[i] \in Handle \cup {None}
    BY <1>1, <1>7, Ranges DEF IInv
  <2>2. CASE last[i] = h
    <3>1. table[i].here => table[i].nlink = 0
      BY <1>1, <1>4, <1>a, <2>1, <2>2, ValueAssumption DEF LastOk
    <3>2. table'[i].here => ~(table'[i].nlink > 0)
      BY <3>1
    <3> QED
      BY <1>2, <1>5, <2>2, <3>2 DEF LastOk
  <2>3. CASE last[i] # h
    BY <1>5, <2>1, <2>3 DEF LastOk
  <2> QED
    BY <2>2, <2>3
<1>8. /\ table' \in [Ino -> Entry] /\ good' \in [Ino -> Hash] /\ remote' \in [Path -> Hash]
      /\ ops' \in Nat /\ faults' \in Nat
    BY Ranges
<1> QED
    BY <1>1, <1>2, <1>3, <1>6, <1>7, <1>8, <1>a, EndStep

\* streaming_commit() goes on or skips.
LEMMA StartCommitStep ==
    ASSUME IInv, NEW r \in Req, req[r].op \in {"commit", "close", "retry"},
           ~Terminal(wr[req[r].fh]), lock[req[r].ino] \in {None, r}, StartCommit(r),
           UNCHANGED <<used, table, remote, last, reused, good, ops, faults>>
    PROVE  IInv' /\ StatesStay
<1>1. CASE SkipCommit(req[r].fh)
  <2>1. Committed(r)
    BY <1>1 DEF StartCommit
  <2> QED
    BY <1>1, <2>1, SkipStep
<1>2. CASE ~SkipCommit(req[r].fh)
    BY <1>2, StartStep
<1> QED
    BY <1>1, <1>2

\* The second attempt of release() starts under the lock of the first.
LEMMA RetryStep ==
    ASSUME IInv, NEW r \in Req, Retry(r)
    PROVE  IInv' /\ StatesStay
<1>1. req[r].op = "retry" /\ StartCommit(r) /\ UNCHANGED <<used, table, remote, last, reused, good, ops, faults>>
    BY DEF Retry, hvars
<1>2. Holds(r)
    BY DEF IInv
<1>3. ~Terminal(wr[req[r].fh]) /\ lock[req[r].ino] = r
    BY <1>1, <1>2 DEF Holds, Holding, Sending, Terminal
<1> QED
    BY <1>1, <1>3, StartCommitStep

\* commit_streaming_now() takes the lock and reads the state under it.
LEMMA CommitLockStep ==
    ASSUME IInv, NEW r \in Req, CommitLock(r)
    PROVE  IInv' /\ StatesStay
<1>1. /\ req[r].op = "commit" /\ lock[req[r].ino] = None
      /\ UNCHANGED <<used, table, remote, last, reused, good, ops, faults>>
    BY DEF CommitLock, hvars
<1>2. CASE Finish(r) /\ UNCHANGED <<wr, pending, lock>>
    BY <1>1, <1>2, FinishForm, Ranges, CalmStep
<1>3. CASE req' = [req EXCEPT ![r] = Done(req[r])] /\ UNCHANGED <<wr, pending, lock>>
  <2>1. req[r].op \in Driving
    BY <1>1 DEF Driving
  <2>2. /\ req' \in [Req -> Request] /\ \A s \in Req \ {r} : req'[s] = req[s]
        /\ Refers(req[r])' /\ Holds(r)'
    BY <1>3, <2>1, DoneForm
  <2> QED
    BY <1>1, <1>3, <2>2, Ranges, CalmStep
<1>4. CASE ~Terminal(wr[req[r].fh]) /\ StartCommit(r)
    BY <1>1, <1>4, StartCommitStep
<1> QED
    BY <1>2, <1>3, <1>4 DEF CommitLock, Terminal

\* release() takes the lock and reads the state under it.
LEMMA ReleaseLockStep ==
    ASSUME IInv, NEW r \in Req, ReleaseLock(r)
    PROVE  IInv' /\ StatesStay
<1>1. /\ req[r].op = "close" /\ lock[req[r].ino] = None
      /\ UNCHANGED <<used, table, remote, last, reused, good, ops, faults>>
    BY DEF ReleaseLock, hvars
<1>2. CASE Step(r, "drop") /\ UNCHANGED <<wr, pending, lock>>
  <2>1. /\ req[r].fh \in Handle /\ wr[req[r].fh].ino = req[r].ino
    BY <1>1, OwnWriter DEF WithWriter
  <2>2. /\ req' \in [Req -> Request] /\ \A s \in Req \ {r} : req'[s] = req[s]
        /\ req'[r].ino = req[r].ino /\ req'[r].fh = req[r].fh
    BY <1>1, <1>2, StepForm
  <2>3. req'[r].op = "drop"
    BY <1>2, Ranges DEF Step, Request
  <2>4. Refers(req[r])' /\ Holds(r)'
    BY <1>2, <2>1, <2>2, <2>3 DEF Refers, Holds, WithWriter, Holding, Sending, Driving
  <2> QED
    BY <1>1, <1>2, <2>2, <2>4, Ranges, CalmStep
<1>3. CASE ~Terminal(wr[req[r].fh]) /\ StartCommit(r)
    BY <1>1, <1>3, StartCommitStep
<1> QED
    BY <1>2, <1>3 DEF ReleaseLock

\* The owner of the generation that ends leaves no other writer to speak for.
LEMMA OwnerIsLast ==
    ASSUME IInv, NEW i \in Ino \ reused, NEW h \in Handle, wr[h].ino = i, ~Terminal(wr[h]),
           table[i].here, wr[h].gen = table[i].gen, last[i] # None, last[i] # h
    PROVE  Terminal(wr[last[i]]) /\ ~(wr[last[i]].state = "committed" /\ table[i].nlink > 0)
<1>1. last[i] \in Handle /\ wr[last[i]].ino = i /\ Distinct(i) /\ LastOk(i) /\ i # None
    BY Ranges, ValueAssumption DEF IInv, InoOk
<1>2. wr[h].gen \in Nat /\ wr[h].gen >= 1
    BY <1>1, Ranges DEF IInv, WriterOk, Writer
<1>3. Terminal(wr[last[i]])
  <2> SUFFICES ASSUME ~Terminal(wr[last[i]]) PROVE FALSE
    OBVIOUS
  <2>1. wr[last[i]].gen = table[i].gen
    BY <1>1 DEF LastOk
  <2> QED
    BY <1>1, <2>1 DEF Distinct
<1>4. ~(wr[last[i]].state = "committed" /\ table[i].nlink > 0)
    BY <1>1, <1>2 DEF LastOk
<1> QED
    BY <1>3, <1>4

\* apply_commit() and the end of the writer: its content is the file now.
LEMMA ApplyStep ==
    ASSUME IInv, NEW r \in Req, Apply(r)
    PROVE  IInv' /\ StatesStay
<1>0. PICK i \in Ino, h \in Handle : i = req[r].ino /\ h = req[r].fh
    BY OwnWriter DEF Apply, WithWriter
<1> DEFINE q == req[r]
           e == ApplyCommit(table[i], wr[h].gen, q.hash)
           w == [wr[h] EXCEPT !.state = "committed", !.hook = FALSE]
<1>1. /\ q.op = "apply" /\ i \in Ino /\ h \in Handle /\ wr[h] \in Writer /\ wr[h].ino = i /\ WriterOk(h)
      /\ Holds(r) /\ q \in Request
    BY <1>0, OwnWriter DEF Apply, WithWriter
<1>2. /\ w \in Writer /\ w.ino = i /\ w.gen = wr[h].gen /\ w.state = "committed" /\ Terminal(w)
      /\ w.info = wr[h].info /\ w.data = wr[h].data /\ (w.info # None => w.info = w.data)
    BY <1>1 DEF Writer, State, Terminal, WriterOk
<1>3. /\ wr' = [wr EXCEPT ![h] = w] /\ req' = [req EXCEPT ![r] = Done(q)]
      /\ FulfillHook(h) /\ Unlock(i)
      /\ table' = [table EXCEPT ![i] = e] /\ good' = [good EXCEPT ![i] = q.hash]
      /\ UNCHANGED <<used, remote, last, reused, ops, faults>>
    BY <1>0, Ranges DEF Apply, Committed
<1>4. /\ lock[i] = r /\ ~Terminal(wr[h]) /\ q.hash = wr[h].data /\ q.hash \in Hash
      /\ table[i].here => wr[h].gen = table[i].gen
    BY <1>0, <1>1 DEF Holds, Holding, Sending, Terminal, Request
<1>5. /\ e \in Entry /\ (e.here => table[i].here /\ e.gen = 0 /\ e.hash = q.hash)
      /\ e.nlink = table[i].nlink
  <2>1. table[i] \in Entry
    BY <1>1, Ranges
  <2>2. CASE table[i].here
    <3>1. e = [table[i] EXCEPT !.gen = 0, !.hash = q.hash, !.pdel = {}]
      BY <1>4, <2>2 DEF ApplyCommit
    <3> HIDE DEF e
    <3> QED
      BY <1>4, <2>1, <2>2, <3>1 DEF Entry
  <2>3. CASE ~table[i].here
    BY <2>1, <2>3 DEF ApplyCommit
  <2> QED
    BY <2>2, <2>3
<1>a. req[r].op \in Driving
    BY <1>1 DEF Driving, Sending
<1> HIDE DEF w, e
<1>6. wr'[h] = w /\ \A g \in Handle \ {h} : wr'[g] = wr[g]
    BY <1>1, <1>2, <1>3, PutWriter
<1>7. /\ req' \in [Req -> Request] /\ \A s \in Req \ {r} : req'[s] = req[s]
      /\ Refers(req[r])' /\ Holds(r)'
  <2>1. wr'[req[r].fh].ino = wr[req[r].fh].ino
    BY <1>0, <1>1, <1>2, <1>6
  <2> QED
    BY <1>3, <1>a, <2>1, DoneForm
<1> HIDE DEF q
<1>8. /\ table' \in [Ino -> Entry] /\ table'[i] = e /\ \A j \in Ino \ {i} : table'[j] = table[j]
      /\ good' \in [Ino -> Hash] /\ remote' \in [Path -> Hash] /\ ops' \in Nat /\ faults' \in Nat
    BY <1>1, <1>3, <1>4, <1>5, Ranges
<1>9. ASSUME i \notin reused PROVE LastOk(i)'
  <2>1. last[i] \in Handle \cup {None} /\ last'[i] = last[i] /\ None \notin Handle
    BY <1>1, <1>3, Ranges, ValueAssumption
  <2>2. CASE last[i] = h
    BY <1>2, <1>4, <1>5, <1>6, <1>8, <2>1, <2>2 DEF LastOk
  <2>3. CASE last[i] # h /\ last[i] # None /\ table'[i].here
    <3>1. table[i].here /\ wr[h].gen = table[i].gen /\ table'[i].nlink = table[i].nlink
      BY <1>4, <1>5, <1>8, <2>3
    <3>2. Terminal(wr[last[i]]) /\ ~(wr[last[i]].state = "committed" /\ table[i].nlink > 0)
      BY <1>1, <1>4, <1>9, <2>3, <3>1, OwnerIsLast
    <3>3. wr'[last[i]] = wr[last[i]]
      BY <1>6, <2>1, <2>3
    <3> QED
      BY <2>1, <3>1, <3>2, <3>3 DEF LastOk
  <2> QED
    BY <2>1, <2>2, <2>3 DEF LastOk
<1> QED
    BY <1>1, <1>2, <1>3, <1>4, <1>5, <1>7, <1>8, <1>9, EndStep

\* A commit fails: the driver gives up, waits for its second attempt, or reverts.
LEMMA FailStep ==
    ASSUME IInv, NEW r \in Req, req[r].op \in {"upload", "send", "hub"},
           NEW info \in {None, req[r].hash}, CommitFails(r, info),
           UNCHANGED <<used, last, reused, good>>,
           remote' \in [Path -> Hash], ops' \in Nat, faults' \in Nat
    PROVE  IInv' /\ StatesStay
<1>0. PICK i \in Ino, h \in Handle : i = req[r].ino /\ h = req[r].fh
    BY OwnWriter DEF WithWriter
<1> DEFINE q == req[r]
           v == [wr[h] EXCEPT !.info = info, !.worker = "done"]
<1>1. /\ wr[h] \in Writer /\ wr[h].ino = i /\ i # None /\ WriterOk(h) /\ Refers(q) /\ Holds(r) /\ q \in Fields
      /\ q \in Request /\ (q.job = "link" => q.to \in Path)
    BY <1>0, OwnWriter DEF WithWriter
<1>2. /\ lock[i] = r /\ ~Terminal(wr[h]) /\ wr[h].state = "committing" /\ q.hash = wr[h].data
      /\ table[i].here => wr[h].gen = table[i].gen
      /\ q.job \in {"flush", "link", "release"}
      /\ info # None => info = wr[h].data
    BY <1>0, <1>1 DEF Holds, Refers, Holding, Sending, Driving, Terminal
<1>3. /\ v \in Writer /\ v.ino = i /\ v.gen = wr[h].gen /\ v.state = "committing"
      /\ v.info = info /\ v.data = wr[h].data /\ v.hook = wr[h].hook /\ v.snapshot = wr[h].snapshot
  <2>1. info \in Hash
    BY <1>1 DEF Fields, Hash
  <2> QED
    BY <1>1, <1>2, <2>1 DEF Writer
<1>4. CASE wr' = [wr EXCEPT ![h] = v] /\ Unlock(i) /\ Finish(r) /\ UNCHANGED <<table, pending>>
  <2> HIDE DEF v, q
  <2>1. wr'[h] = v /\ \A g \in Handle \ {h} : wr'[g] = wr[g]
    BY <1>3, <1>4, PutWriter
  <2>2. Keeps(h)
    BY <1>1, <1>2, <1>3, <2>1 DEF Keeps
  <2>3. PendingIsLive' /\ pending' \in [Ino -> Handle \cup {None}]
    BY <1>1, <1>3, <1>4, <2>1, PendingSame, Ranges
  <2>4. /\ lock' \in [Ino -> Req \cup {None}] /\ \A j \in Ino \ {i} : lock'[j] = lock[j]
    BY <1>4, LockForm DEF Unlock
  <2>5. \A j \in Ino : lock'[j] = lock[j] \/ lock[j] \in {None, r}
    BY <1>2, <2>4
  <2>6. /\ req' \in [Req -> Request] /\ \A s \in Req \ {r} : req'[s] = req[s]
        /\ Refers(req[r])' /\ Holds(r)'
    BY <1>4, FinishForm
  <2> QED
    BY <1>3, <1>4, <2>2, <2>3, <2>4, <2>5, <2>6, WriterStep
<1>5. CASE /\ wr' = [wr EXCEPT ![h] = v]
           /\ req' = [req EXCEPT ![r] = [q EXCEPT !.op = "retry", !.again = TRUE]]
           /\ UNCHANGED <<table, pending, lock>>
  <2> DEFINE p == [q EXCEPT !.op = "retry", !.again = TRUE]
  <2>0. p \in Request /\ p.op = "retry" /\ p.ino = i /\ p.fh = h /\ p.job = q.job
    <3>1. p \in Fields /\ p.op = "retry" /\ p.ino = i /\ p.fh = h /\ p.job = q.job /\ p.to = q.to
      BY <1>0, <1>1 DEF Fields
    <3> HIDE DEF p
    <3> QED
      BY <1>1, <3>1, RequestFields DEF Hashed, Moving
  <2> HIDE DEF v, p
  <2>1. wr'[h] = v /\ \A g \in Handle \ {h} : wr'[g] = wr[g]
    BY <1>3, <1>5, PutWriter
  <2>2. Keeps(h)
    BY <1>1, <1>2, <1>3, <2>1 DEF Keeps
  <2>3. PendingIsLive' /\ pending' \in [Ino -> Handle \cup {None}]
    BY <1>1, <1>3, <1>5, <2>1, PendingSame, Ranges
  <2>6. /\ req' \in [Req -> Request] /\ req'[r] = p /\ \A s \in Req \ {r} : req'[s] = req[s]
    BY <1>5, <2>0, PutReq DEF p
  <2>7. Refers(req[r])' /\ Holds(r)'
    <3> HIDE DEF q
    <3>1. /\ req'[r].op = "retry" /\ req'[r].ino = i /\ req'[r].fh = h /\ lock'[i] = r
          /\ req'[r].job \in {"flush", "link", "release"}
      BY <1>2, <1>5, <2>0, <2>6
    <3>2. /\ wr'[h].state = "committing" /\ wr'[h].ino = i
          /\ table'[i].here => wr'[h].gen = table'[i].gen
      BY <1>2, <1>3, <1>5, <2>1
    <3>3. Refers(req[r])'
      BY <3>1, <3>2 DEF Refers, WithWriter, Driving
    <3> QED
      BY <3>1, <3>2, <3>3 DEF Holds, Holding, Sending
  <2> QED
    BY <1>3, <1>5, <2>2, <2>3, <2>6, <2>7, Ranges, WriterStep
<1>6. CASE /\ table' = [table EXCEPT ![i] = RevertInode(@, wr[h].snapshot)]
           /\ FulfillHook(h)
           /\ wr' = [wr EXCEPT ![h] = [v EXCEPT !.state = "failed", !.hook = FALSE]]
           /\ Unlock(i) /\ Step(r, "drop")
  <2> DEFINE w == [v EXCEPT !.state = "failed", !.hook = FALSE]
             e == RevertInode(table[i], wr[h].snapshot)
  <2>1. /\ w \in Writer /\ w.ino = i /\ w.gen = wr[h].gen /\ w.state = "failed"
        /\ w.info = info /\ w.data = wr[h].data
    <3> HIDE DEF v
    <3> QED
      BY <1>3 DEF Writer, State
  <2>2. e \in Entry /\ (e.here => table[i].here /\ e.nlink = table[i].nlink)
    <3>1. table[i] \in Entry /\ wr[h].snapshot \in Snapshot
      BY <1>1, Ranges DEF Writer
    <3>2. NoEntry \in Entry /\ ~NoEntry.here
      BY SeedAssumption DEF NoEntry, Entry, Hash
    <3>3. CASE wr[h].snapshot.existed /\ table[i].here
      <4>1. e = [table[i] EXCEPT !.hash = wr[h].snapshot.hash, !.pdel = wr[h].snapshot.pdel, !.gen = 0]
        BY <3>3 DEF RevertInode
      <4> HIDE DEF e
      <4> QED
        BY <3>1, <3>3, <4>1 DEF Entry, Snapshot
    <3> QED
      BY <3>1, <3>2, <3>3 DEF RevertInode
  <2> HIDE DEF w, e, v
  <2>3. wr' = [wr EXCEPT ![h] = w] /\ table' = [table EXCEPT ![i] = e]
    BY <1>6 DEF w, e
  <2>4. wr'[h] = w /\ \A g \in Handle \ {h} : wr'[g] = wr[g]
    BY <2>1, <2>3, PutWriter
  <2>5. table' \in [Ino -> Entry] /\ table'[i] = e /\ \A j \in Ino \ {i} : table'[j] = table[j]
    BY <2>2, <2>3, Ranges
  <2>6. /\ req' \in [Req -> Request] /\ \A s \in Req \ {r} : req'[s] = req[s]
        /\ req'[r].op = "drop" /\ req'[r].ino = i /\ req'[r].fh = h
    <3>1. req'[r].op = "drop"
      BY <1>6, Ranges DEF Step, Request
    <3> QED
      BY <1>0, <1>6, <3>1, StepForm
  <2>7. Refers(req[r])' /\ Holds(r)'
    BY <2>1, <2>4, <2>6 DEF Refers, Holds, WithWriter, Holding, Sending, Driving
  <2>8. ASSUME i \notin reused PROVE LastOk(i)'
    <3>1. last[i] \in Handle \cup {None} /\ last'[i] = last[i] /\ None \notin Handle
      BY Ranges, ValueAssumption
    <3>2. CASE last[i] = h
      BY <2>1, <2>4, <3>1, <3>2 DEF LastOk, Terminal
    <3>3. CASE last[i] # h /\ last[i] # None /\ table'[i].here
      <4>1. table[i].here /\ wr[h].gen = table[i].gen /\ table'[i].nlink = table[i].nlink
        BY <1>2, <2>2, <2>5, <3>3
      <4>2. Terminal(wr[last[i]]) /\ ~(wr[last[i]].state = "committed" /\ table[i].nlink > 0)
        BY <1>1, <1>2, <2>8, <3>3, <4>1, OwnerIsLast
      <4>3. wr'[last[i]] = wr[last[i]]
        BY <2>4, <3>1, <3>3
      <4> QED
        BY <3>1, <4>1, <4>2, <4>3 DEF LastOk
    <3> QED
      BY <3>1, <3>2, <3>3 DEF LastOk
  <2>9. Terminal(w) /\ (w.info # None => w.info = w.data)
    BY <1>2, <2>1 DEF Terminal
  <2>10. good' \in [Ino -> Hash]
    BY Ranges
  <2> HIDE DEF q
  <2> QED
    BY <1>1, <1>2, <1>6, <2>1, <2>2, <2>3, <2>5, <2>6, <2>7, <2>8, <2>9, <2>10, EndStep
<1>7. \/ wr' = [wr EXCEPT ![h] = v] /\ Unlock(i) /\ Finish(r) /\ UNCHANGED <<table, pending>>
      \/ /\ wr' = [wr EXCEPT ![h] = v]
         /\ req' = [req EXCEPT ![r] = [q EXCEPT !.op = "retry", !.again = TRUE]]
         /\ UNCHANGED <<table, pending, lock>>
      \/ /\ table' = [table EXCEPT ![i] = RevertInode(@, wr[h].snapshot)]
         /\ FulfillHook(h)
         /\ wr' = [wr EXCEPT ![h] = [v EXCEPT !.state = "failed", !.hook = FALSE]]
         /\ Unlock(i) /\ Step(r, "drop")
  <2>1. [wr EXCEPT ![h].info = info, ![h].worker = "done"] = [wr EXCEPT ![h] = v]
    BY Ranges
  <2>2. [[wr EXCEPT ![h] = v] EXCEPT ![h].state = "failed", ![h].hook = FALSE]
            = [wr EXCEPT ![h] = [v EXCEPT !.state = "failed", !.hook = FALSE]]
    <3> HIDE DEF v
    <3> QED
      BY Ranges
  <2>3. [req EXCEPT ![r].op = "retry", ![r].again = TRUE]
            = [req EXCEPT ![r] = [q EXCEPT !.op = "retry", !.again = TRUE]]
    BY Ranges
  <2> HIDE DEF v
  <2> QED
    BY <1>0, <2>1, <2>2, <2>3 DEF CommitFails
<1> QED
    BY <1>4, <1>5, <1>6, <1>7

\* The upload fails.
LEMMA UploadFailStep ==
    ASSUME IInv, NEW r \in Req, UploadFail(r)
    PROVE  IInv' /\ StatesStay
<1>1. /\ req[r].op = "upload" /\ CommitFails(r, None) /\ faults' \in Nat
      /\ UNCHANGED <<used, remote, last, reused, good, ops>>
    BY Ranges DEF UploadFail, Fault
<1> QED
    BY <1>1, FailStep, Ranges

\* The commit fails, having been applied by the Hub or not.
LEMMA HubFailStep ==
    ASSUME IInv, NEW r \in Req, HubFail(r)
    PROVE  IInv' /\ StatesStay
<1>1. /\ req[r].op = "hub" /\ CommitFails(r, req[r].hash) /\ faults' \in Nat
      /\ remote' \in {remote, AfterCommit(req[r])} /\ UNCHANGED <<used, last, reused, good, ops>>
    BY Ranges DEF HubFail, Fault
<1>2. req[r].hash \in Hash
    BY Ranges DEF Request
<1>3. remote' \in [Path -> Hash]
    BY <1>1, <1>2, Ranges DEF AfterCommit, Hash
<1> QED
    BY <1>1, <1>3, FailStep, Ranges

\* The request to the Hub is made, or the inode is gone.
LEMMA SendStep ==
    ASSUME IInv, NEW r \in Req, Send(r)
    PROVE  IInv' /\ StatesStay
<1> DEFINE q == req[r]
           e == table[q.ino]
           p == [q EXCEPT !.op = "hub", !.path = e.path, !.dels = e.pdel]
<1>1. /\ q.op = "send" /\ UNCHANGED <<used, remote, last, reused, good, ops, faults>>
    BY DEF Send, hvars
<1>2. CASE req' = [req EXCEPT ![r].op = "hub", ![r].path = e.path, ![r].dels = e.pdel]
           /\ UNCHANGED <<table, wr, pending, lock>>
  <2>1. /\ q \in Request /\ q \in Fields /\ q.ino \in Ino /\ q.fh \in Handle /\ wr[q.fh].ino = q.ino
        /\ Refers(q) /\ Holds(r) /\ (q.job = "link" => q.to \in Path)
    BY <1>1, OwnWriter DEF WithWriter
  <2>2. e \in Entry /\ e.path \in Path /\ e.pdel \in SUBSET Path /\ q.hash \in Content
    BY <1>1, <2>1, Ranges DEF Entry, Request
  <2>3. /\ lock[q.ino] = r /\ wr[q.fh].state = "committing" /\ q.hash = wr[q.fh].data
        /\ table[q.ino].here => wr[q.fh].gen = table[q.ino].gen
        /\ q.job \in {"flush", "link", "release"}
    BY <1>1, <2>1 DEF Holds, Refers, Holding, Sending, Driving
  <2>4. req' = [req EXCEPT ![r] = p]
    BY <1>2, Ranges
  <2>5. p \in Request /\ p.op = "hub" /\ p.ino = q.ino /\ p.fh = q.fh /\ p.job = q.job /\ p.hash = q.hash
    <3>1. /\ p \in Fields /\ p.op = "hub" /\ p.ino = q.ino /\ p.fh = q.fh /\ p.job = q.job
          /\ p.hash = q.hash /\ p.to = q.to
      <4> HIDE DEF e
      <4> QED
        BY <2>1, <2>2 DEF Fields
    <3> HIDE DEF p
    <3> QED
      BY <2>1, <2>2, <3>1, RequestFields DEF Moving
  <2> HIDE DEF p
  <2>6. req' \in [Req -> Request] /\ req'[r] = p /\ \A s \in Req \ {r} : req'[s] = req[s]
    BY <2>4, <2>5, PutReq
  <2> HIDE DEF q, e
  <2>7. Refers(req[r])' /\ Holds(r)'
    BY <1>2, <2>1, <2>3, <2>5, <2>6 DEF Refers, Holds, WithWriter, Holding, Sending, Driving
  <2> QED
    BY <1>1, <1>2, <2>6, <2>7, Ranges, CalmStep
<1>3. CASE CommitFails(r, None)
    BY <1>1, <1>3, FailStep, Ranges
<1> QED
    BY <1>2, <1>3 DEF Send

----------------------------------------------------------------------------
(* Opens.                                                                  *)

\* A new writer: the one it supersedes fails, and unless the generation it gets
\* is another's, it is the inode's only owner.
LEMMA OpenDoneStep ==
    ASSUME IInv, NEW r \in Req, OpenDone(r)
    PROVE  IInv' /\ StatesStay
<1>0. /\ req[r] \in Request /\ req[r].op = "setup" /\ req[r].ino \in Ino
      /\ Refers(req[r]) /\ Holds(r) /\ req[r].old \in Handle \cup {None}
    BY Ranges DEF OpenDone, Request, IInv
<1>1. PICK i \in Ino, o \in Handle \cup {None}, h \in Handle :
        i = req[r].ino /\ o = req[r].old /\ h = AllocFileHandle /\ h \in NewHandles
    BY <1>0 DEF OpenDone, AllocFileHandle, NewHandles
<1> DEFINE e == table[i]
           gen == IF e.here THEN e.gen + 1 ELSE 0
           new == [NoWriter EXCEPT !.ino = i, !.open = TRUE, !.held = e.here,
                                   !.gen = gen, !.snapshot = req[r].snapshot]
           x == [wr[o] EXCEPT !.state = "failed", !.hook = FALSE]
<1>2. /\ None \notin Handle /\ None \notin Ino /\ wr[h].ino = None /\ wr[h] = NoWriter
      /\ i \in used /\ lock[i] = r
      /\ o # None => o \in Handle /\ wr[o].ino = i /\ ~Terminal(wr[o]) /\ o # h /\ wr[o] \in Writer
  <2>1. WriterOk(h) /\ wr[h].ino = None
    BY <1>1 DEF IInv, NewHandles
  <2>2. i \in used /\ lock[i] = r /\ (o # None => wr[o].ino = i /\ ~Terminal(wr[o]))
    BY <1>0, <1>1 DEF Refers, Holds, Holding
  <2> QED
    BY <2>1, <2>2, ValueAssumption, Ranges DEF WriterOk
<1>3. e \in Entry /\ e.gen \in Nat /\ gen \in Nat /\ e.here \in BOOLEAN /\ (e.here => gen >= 1 /\ gen = e.gen + 1)
    BY Ranges DEF Entry
<1>4. req[r].snapshot \in Snapshot
    BY <1>0 DEF Request
<1> HIDE DEF gen
<1>5. /\ new \in Writer /\ new.ino = i /\ new.gen = gen /\ new.state = "writing" /\ new.info = None
      /\ ~Terminal(new)
  <2>1. NoWriter \in Writer /\ NoWriter.state = "writing" /\ NoWriter.info = None
    BY ValueAssumption DEF NoWriter, Writer, State, NoSnapshot, Snapshot, Hash
  <2> HIDE DEF e
  <2> QED
    BY <1>3, <1>4, <2>1 DEF Writer, Terminal
<1>6. o # None => /\ x \in Writer /\ x.ino = i /\ x.gen = wr[o].gen /\ x.state = "failed"
                  /\ x.info = wr[o].info /\ x.data = wr[o].data /\ Terminal(x)
    BY <1>2 DEF Writer, State, Terminal
<1> HIDE DEF new, x
<1>7. /\ wr' \in [Handle -> Writer] /\ wr'[h] = new
      /\ o # None => wr'[o] = x
      /\ \A g \in Handle \ {h, o} : wr'[g] = wr[g]
  <2>1. wr' = [(IF o = None THEN wr ELSE [wr EXCEPT ![o] = x]) EXCEPT ![h] = new]
    <3>1. o # None => [wr EXCEPT ![o].state = "failed", ![o].hook = FALSE] = [wr EXCEPT ![o] = x]
      BY <1>2, Ranges DEF x
    <3>2. wr' = [(IF o = None THEN wr ELSE [wr EXCEPT ![o].state = "failed", ![o].hook = FALSE])
                    EXCEPT ![h] = new]
      BY <1>1 DEF OpenDone, new, gen
    <3> QED
      BY <3>1, <3>2
  <2>2. CASE o = None
    BY <1>5, <2>1, <2>2, Ranges
  <2>3. CASE o # None
    BY <1>2, <1>5, <1>6, <2>1, <2>3, Ranges
  <2> QED
    BY <2>2, <2>3
<1>8. /\ IF o = None THEN UNCHANGED pending ELSE FulfillHook(o)
      /\ table' = IF e.here THEN [table EXCEPT ![i].gen = gen, ![i].hash = None] ELSE table
      /\ last' = [last EXCEPT ![i] = h]
      /\ reused' = IF e.here /\ Owing(i, gen) \ {o} # {} THEN reused \cup {i} ELSE reused
      /\ Unlock(i) /\ Finish(r)
      /\ UNCHANGED <<used, remote, good, ops, faults>>
    BY <1>1 DEF OpenDone, gen
<1>9. /\ table' \in [Ino -> Entry] /\ \A j \in Ino \ {i} : table'[j] = table[j]
      /\ table'[i].here = e.here /\ (e.here => table'[i].gen = gen)
    BY <1>3, <1>8, Ranges DEF Entry, Hash
<1>10. /\ lock' \in [Ino -> Req \cup {None}] /\ \A j \in Ino \ {i} : lock'[j] = lock[j]
    BY <1>8, LockForm DEF Unlock
<1>11. /\ req' \in [Req -> Request] /\ \A s \in Req \ {r} : req'[s] = req[s]
       /\ Refers(req[r])' /\ Holds(r)'
    BY <1>8, FinishForm
<1>12. /\ last' \in [Ino -> Handle \cup {None}] /\ last'[i] = h
       /\ (\A j \in Ino \ {i} : last'[j] = last[j]) /\ reused \subseteq reused' /\ reused' \subseteq Ino
       /\ (\A j \in Ino \ {i} : j \in reused' <=> j \in reused)
    BY <1>8, Ranges
<1> HIDE DEF e
<1>13. PendingIsLive' /\ pending' \in [Ino -> Handle \cup {None}]
  <2>1. ~NoWriter.hook
    BY DEF NoWriter
  <2>2. CASE o = None
    <3>1. \A g \in Handle : wr[g].hook => wr'[g].hook /\ wr'[g].ino = wr[g].ino
      BY <1>2, <1>7, <2>1, <2>2
    <3> QED
      BY <1>8, <2>2, <3>1, PendingSame, Ranges
  <2>3. CASE o # None
    <3>1. \A g \in Handle \ {o} : wr[g].hook => wr'[g].hook /\ wr'[g].ino = wr[g].ino
      BY <1>2, <1>7, <2>1, <2>3
    <3> QED
      BY <1>2, <1>8, <2>3, <3>1, PendingFulfill
  <2> QED
    BY <2>2, <2>3
<1>14. TypeOK'
    BY <1>7, <1>8, <1>9, <1>10, <1>11, <1>12, <1>13 DEF IInv, TypeOK
<1>15. ASSUME NEW g \in Handle PROVE WriterOk(g)'
  <2>1. WriterOk(g) /\ wr[g].ino \in Ino \cup {None} /\ (\A j \in Ino : table'[j].here => table[j].here)
    BY <1>9, Ranges DEF IInv, Writer, e
  <2>2. CASE g = h
    BY <1>2, <1>3, <1>5, <1>7, <1>8, <1>9, <2>2 DEF WriterOk
  <2>3. CASE g = o
    BY <1>2, <1>6, <1>7, <1>8, <2>1, <2>3 DEF WriterOk
  <2>4. CASE g \notin {h, o}
    BY <1>7, <1>8, <2>1, <2>4 DEF WriterOk
  <2> QED
    BY <2>2, <2>3, <2>4
<1>16. \A g \in Handle : wr[g].ino # None => wr'[g].ino = wr[g].ino
    BY <1>2, <1>6, <1>7
<1>17. ASSUME NEW j \in Ino PROVE InoOk(j)'
  <2>1. InoOk(j) /\ last[j] \in Handle \cup {None}
    BY Ranges DEF IInv
  <2>2. CASE j = i
    BY <1>2, <1>5, <1>7, <1>8, <1>12, <2>2 DEF InoOk
  <2>3. CASE j # i
    BY <1>2, <1>8, <1>9, <1>12, <1>16, <2>1, <2>3 DEF InoOk
  <2> QED
    BY <2>2, <2>3
<1>18. ASSUME NEW j \in Ino \ reused' PROVE Distinct(j)' /\ LastOk(j)'
  <2>1. Distinct(j) /\ LastOk(j) /\ InoOk(j)
    BY <1>12 DEF IInv
  <2>2. CASE j # i
    <3>1. \A g \in Handle : wr[g].ino = j \/ wr'[g].ino = j => wr'[g] = wr[g]
      BY <1>2, <1>5, <1>6, <1>7, <2>2
    <3>2. table'[j] = table[j] /\ last'[j] = last[j] /\ last[j] \in Handle \cup {None}
      BY <1>9, <1>12, <2>2, Ranges
    <3>3. last[j] # None => wr'[last[j]] = wr[last[j]]
      BY <2>1, <3>1, <3>2 DEF InoOk
    <3>4. Distinct(j)'
      BY <2>1, <3>1, <3>2 DEF Distinct
    <3>5. LastOk(j)'
      BY <2>1, <3>2, <3>3 DEF LastOk
    <3> QED
      BY <3>4, <3>5
  <2>3. CASE j = i /\ ~e.here
    BY <1>9, <2>3 DEF Distinct, LastOk
  <2>4. CASE j = i /\ e.here
    <3>1. Owing(i, gen) \subseteq {o}
      BY <1>8, <1>18, <2>4
    <3>2. \A g \in Handle : wr'[g].ino = i /\ g # h /\ ~Terminal(wr'[g])
                => /\ wr'[g] = wr[g] /\ wr[g].gen # gen
      <4> SUFFICES ASSUME NEW g \in Handle, wr'[g].ino = i, g # h, ~Terminal(wr'[g])
                   PROVE  wr'[g] = wr[g] /\ wr[g].gen # gen
        OBVIOUS
      <4>1. g # o
        BY <1>2, <1>6, <1>7
      <4>2. wr'[g] = wr[g]
        BY <1>7, <4>1
      <4> QED
        BY <3>1, <4>1, <4>2 DEF Owing
    <3>3. Distinct(i)'
      <4> SUFFICES ASSUME NEW g \in Handle, NEW k \in Handle, wr'[g].ino = i, wr'[k].ino = i, g # k,
                          ~Terminal(wr'[g]), ~Terminal(wr'[k])
                   PROVE  wr'[g].gen # wr'[k].gen
        BY DEF Distinct
      <4>1. CASE g = h
        BY <1>5, <1>7, <3>2, <4>1
      <4>2. CASE k = h
        BY <1>5, <1>7, <3>2, <4>2
      <4>3. CASE g # h /\ k # h
        <5>1. wr'[g] = wr[g] /\ wr'[k] = wr[k]
          BY <3>2, <4>3
        <5> QED
          BY <2>1, <2>4, <5>1 DEF Distinct, e
      <4> QED
        BY <4>1, <4>2, <4>3
    <3>4. LastOk(i)'
      BY <1>5, <1>7, <1>9, <1>12, <2>4 DEF LastOk
    <3> QED
      BY <2>4, <3>3, <3>4
  <2> QED
    BY <2>2, <2>3, <2>4
<1>19. StatesStay
  <2>1. ~Terminal(wr[h])
    BY <1>2 DEF NoWriter, Terminal
  <2> QED
    BY <1>2, <1>7, <2>1 DEF StatesStay
<1> DEFINE S == Req \ {r}
<1>20. \A j \in Ino : lock[j] \in S => j # i /\ lock'[j] = lock[j]
    BY <1>2, <1>10
<1>21. \A j \in used : lock[j] \in S => Undisturbed(j)
  <2> SUFFICES ASSUME NEW j \in used, lock[j] \in S PROVE Undisturbed(j)
    OBVIOUS
  <2>1. j \in Ino /\ j # i /\ lock'[j] = lock[j] /\ table'[j] = table[j]
    BY <1>9, <1>20, Ranges
  <2>2. \A g \in Handle : wr[g].ino = j => wr'[g] = wr[g]
    BY <1>2, <1>7, <2>1
  <2> QED
    BY <2>1, <2>2 DEF Undisturbed
<1>22. \A s \in S : Refers(req[s])' /\ Holds(s)'
    BY <1>8, <1>11, <1>16, <1>20, <1>21, OthersOk
<1> QED
    BY <1>11, <1>13, <1>14, <1>15, <1>17, <1>18, <1>19, <1>22 DEF IInv

\* Nobody knows of an inode number that was not handed out.
LEMMA Unused ==
    ASSUME IInv, NEW i \in Ino, i \notin used
    PROVE  ~table[i].here /\ last[i] = None /\ \A h \in Handle : wr[h].ino # i
<1>1. InoOk(i) /\ last[i] \in Handle \cup {None} /\ i # None
    BY Ranges, ValueAssumption DEF IInv
<1>2. \A h \in Handle : wr[h].ino # i
    BY <1>1 DEF IInv, WriterOk
<1> QED
    BY <1>1, <1>2 DEF InoOk

\* create() makes an inode and its first writer.
LEMMA CreateStep ==
    ASSUME IInv, NEW p \in Path, NEW i \in Ino, Create(p, i)
    PROVE  IInv' /\ StatesStay
<1>0. PICK h \in Handle : h = AllocFileHandle /\ h \in NewHandles
    BY DEF Create, AllocFileHandle, NewHandles
<1> DEFINE e == [NoEntry EXCEPT !.here = TRUE, !.named = TRUE, !.nlink = 1, !.path = p, !.gen = 1]
           w == [NoWriter EXCEPT !.ino = i, !.open = TRUE, !.held = TRUE, !.gen = 1]
<1>1. /\ i \notin used /\ ~table[i].here /\ last[i] = None /\ (\A g \in Handle : wr[g].ino # i)
      /\ None \notin Ino /\ None \notin Handle /\ wr[h] = NoWriter /\ wr[h].ino = None
    BY <1>0, Unused, ValueAssumption DEF Create, IInv, WriterOk, NewHandles
<1>2. e \in Entry /\ e.here /\ e.gen = 1
    BY SeedAssumption DEF NoEntry, Entry, Hash
<1>3. w \in Writer /\ w.ino = i /\ w.gen = 1 /\ w.state = "writing" /\ w.info = None /\ ~Terminal(w)
    BY ValueAssumption DEF NoWriter, Writer, State, NoSnapshot, Snapshot, Hash, Terminal
<1>4. /\ wr' = [wr EXCEPT ![h] = w] /\ table' = [table EXCEPT ![i] = e]
      /\ used' = used \cup {i} /\ last' = [last EXCEPT ![i] = h] /\ ops' \in Nat
      /\ UNCHANGED <<pending, lock, req, remote, reused, good, faults>>
    BY <1>0, Ranges DEF Create, BeginOp
<1> HIDE DEF e, w
<1>5. wr' \in [Handle -> Writer] /\ wr'[h] = w /\ \A g \in Handle \ {h} : wr'[g] = wr[g]
    BY <1>3, <1>4, PutWriter
<1>6. table' \in [Ino -> Entry] /\ table'[i] = e /\ \A j \in Ino \ {i} : table'[j] = table[j]
    BY <1>2, <1>4, Ranges
<1>7. /\ last' \in [Ino -> Handle \cup {None}] /\ last'[i] = h
      /\ \A j \in Ino \ {i} : last'[j] = last[j]
    BY <1>4, Ranges
<1>8. TypeOK'
    BY <1>4, <1>5, <1>6, <1>7 DEF IInv, TypeOK
<1>9. PendingIsLive'
  <2>1. ~NoWriter.hook
    BY DEF NoWriter
  <2> QED
    BY <1>1, <1>4, <1>5, <2>1, PendingSame
<1>10. ASSUME NEW g \in Handle PROVE WriterOk(g)'
  <2>1. WriterOk(g) /\ wr[g].ino \in Ino \cup {None} /\ wr[g].ino # i
    BY <1>1, Ranges DEF IInv, Writer
  <2>2. CASE g = h
    BY <1>1, <1>3, <1>4, <1>5, <2>2 DEF WriterOk
  <2>3. CASE g # h
    BY <1>4, <1>5, <1>6, <2>1, <2>3 DEF WriterOk
  <2> QED
    BY <2>2, <2>3
<1>11. ASSUME NEW j \in Ino PROVE InoOk(j)' /\ (j \notin reused => Distinct(j)' /\ LastOk(j)')
  <2>1. InoOk(j) /\ last[j] \in Handle \cup {None} /\ (j \notin reused => Distinct(j) /\ LastOk(j))
    BY Ranges DEF IInv
  <2>2. CASE j = i
    <3>1. \A g \in Handle : wr'[g].ino = i => g = h
      BY <1>1, <1>5
    <3>2. Distinct(i)'
      BY <3>1 DEF Distinct
    <3>3. InoOk(i)'
      BY <1>3, <1>4, <1>5, <1>7 DEF InoOk
    <3>4. LastOk(i)'
      BY <1>2, <1>3, <1>5, <1>6, <1>7 DEF LastOk
    <3> QED
      BY <2>2, <3>2, <3>3, <3>4
  <2>3. CASE j # i
    <3>1. \A g \in Handle : wr[g].ino = j \/ wr'[g].ino = j => wr'[g] = wr[g]
      BY <1>1, <1>3, <1>5, <2>3
    <3>2. table'[j] = table[j] /\ last'[j] = last[j]
      BY <1>6, <1>7, <2>3
    <3>3. last[j] # None => wr'[last[j]] = wr[last[j]]
      BY <2>1, <3>1, <3>2 DEF InoOk
    <3>4. j \notin reused => Distinct(j)'
      BY <2>1, <3>1, <3>2 DEF Distinct
    <3>5. j \notin reused => LastOk(j)'
      BY <2>1, <3>2, <3>3 DEF LastOk
    <3>6. InoOk(j)'
      BY <1>4, <2>1, <3>2, <3>3 DEF InoOk
    <3> QED
      BY <3>4, <3>5, <3>6
  <2> QED
    BY <2>2, <2>3
<1>12. StatesStay
  <2>1. ~Terminal(NoWriter)
    BY DEF NoWriter, Terminal
  <2> QED
    BY <1>1, <1>5, <2>1 DEF StatesStay
<1>13. \A j \in used : Undisturbed(j)
  <2> SUFFICES ASSUME NEW j \in used PROVE Undisturbed(j)
    OBVIOUS
  <2>1. j \in Ino /\ table'[j] = table[j] /\ lock'[j] = lock[j]
    BY <1>1, <1>4, <1>6, Ranges
  <2>2. \A g \in Handle : wr[g].ino = j => wr'[g] = wr[g]
    BY <1>1, <1>5, <2>1
  <2> QED
    BY <2>1, <2>2 DEF Undisturbed
<1>14. \A s \in Req : Refers(req[s])' /\ Holds(s)'
  <2>1. \A g \in Handle : wr[g].ino # None => wr'[g].ino = wr[g].ino
    BY <1>1, <1>5
  <2> QED
    BY <1>4, <1>13, <2>1, OthersOk
<1> QED
    BY <1>4, <1>8, <1>9, <1>10, <1>11, <1>12, <1>14 DEF IInv

----------------------------------------------------------------------------
(* link(), unlink() and rename().                                          *)

\* link() inserts the alias, an inode without writers.
LEMMA LinkInsertStep ==
    ASSUME IInv, NEW r \in Req, NEW i \in Ino, LinkInsert(r, i)
    PROVE  IInv' /\ StatesStay
<1> DEFINE q == req[r]
           e == [NoEntry EXCEPT !.here = TRUE, !.named = TRUE, !.nlink = 1,
                                !.path = q.to, !.hash = q.hash]
<1>1. /\ q.op = "linked" /\ i \notin used /\ Finish(r)
      /\ UNCHANGED <<wr, pending, lock, remote, last, reused, ops, faults>>
    BY DEF LinkInsert
<1>2. /\ req' \in [Req -> Request] /\ \A s \in Req \ {r} : req'[s] = req[s]
      /\ Refers(req[r])' /\ Holds(r)'
    BY <1>1, FinishForm
<1>3. CASE UNCHANGED <<used, table, good>>
    BY <1>1, <1>2, <1>3, Ranges, CalmStep
<1>4. CASE /\ used' = used \cup {i} /\ table' = [table EXCEPT ![i] = e]
           /\ good' = [good EXCEPT ![i] = q.hash]
  <2>1. q \in Request /\ q.hash \in Hash /\ q.to \in Path \cup {None}
    BY Ranges DEF Request
  <2>2. ~table[i].here /\ last[i] = None /\ \A h \in Handle : wr[h].ino # i
    BY <1>1, Unused
  <2>3. e.here /\ (q.to \in Path => e \in Entry)
    BY <2>1, SeedAssumption DEF NoEntry, Entry, Hash
  <2>a. q.to \in Path
    BY <1>1, <2>1 DEF Request
  <2> HIDE DEF e
  <2>4. table' \in [Ino -> Entry] /\ table'[i] = e /\ \A j \in Ino \ {i} : table'[j] = table[j]
    BY <1>4, <2>3, <2>a, Ranges
  <2>5. TypeOK'
    BY <1>1, <1>2, <1>4, <2>1, <2>4 DEF IInv, TypeOK
  <2>6. PendingIsLive'
    BY <1>1 DEF IInv, PendingIsLive
  <2>7. ASSUME NEW g \in Handle PROVE WriterOk(g)'
    <3>1. WriterOk(g) /\ wr[g].ino \in Ino \cup {None} /\ wr[g].ino # i
      BY <2>2, Ranges DEF IInv, Writer
    <3> QED
      BY <1>1, <1>4, <2>4, <3>1 DEF WriterOk
  <2>8. ASSUME NEW j \in Ino PROVE InoOk(j)' /\ (j \notin reused => Distinct(j)' /\ LastOk(j)')
    <3>1. InoOk(j) /\ last[j] \in Handle \cup {None} /\ (j \notin reused => Distinct(j) /\ LastOk(j))
      BY Ranges DEF IInv
    <3>2. CASE j = i
      BY <1>1, <1>4, <2>2, <3>2 DEF InoOk, Distinct, LastOk
    <3>3. CASE j # i
      BY <1>1, <1>4, <2>4, <3>1, <3>3 DEF InoOk, Distinct, LastOk
    <3> QED
      BY <3>2, <3>3
  <2>9. StatesStay
    BY <1>1 DEF StatesStay
  <2>10. \A j \in used : Undisturbed(j)
    <3> SUFFICES ASSUME NEW j \in used PROVE Undisturbed(j)
      OBVIOUS
    <3>1. j \in Ino /\ table'[j] = table[j] /\ lock'[j] = lock[j]
      BY <1>1, <2>4, Ranges
    <3> QED
      BY <1>1, <3>1 DEF Undisturbed
  <2> DEFINE S == Req \ {r}
  <2>11. \A s \in S : Refers(req[s])' /\ Holds(s)'
    BY <1>1, <1>2, <1>4, <2>10, OthersOk
  <2> QED
    BY <1>1, <1>2, <2>5, <2>6, <2>7, <2>8, <2>9, <2>11 DEF IInv
<1> QED
    BY <1>1, <1>3, <1>4 DEF LinkInsert

\* A step that takes names or entries away and changes at most one writer.
LEMMA TableStep ==
    ASSUME IInv, NEW r \in Req, table' \in [Ino -> Entry], \A i \in Ino : Fades(i),
           wr' \in [Handle -> Writer], \A h \in Handle : Keeps(h),
           \A h \in Handle : wr'[h].hook = wr[h].hook,
           UNCHANGED <<used, pending, remote, last, reused, good, ops, faults>>, Finish(r),
           lock' \in [Ino -> Req \cup {None}],
           \A i \in Ino : lock'[i] = lock[i] \/ lock[i] \in {None, r}
    PROVE  IInv' /\ StatesStay
<1>1. /\ req' \in [Req -> Request] /\ \A s \in Req \ {r} : req'[s] = req[s]
      /\ Refers(req[r])' /\ Holds(r)'
    BY FinishForm
<1>2. TypeOK'
    BY <1>1 DEF IInv, TypeOK
<1>3. PendingIsLive'
    BY PendingSame DEF Keeps
<1> QED
    BY <1>1, <1>2, <1>3, QuietStep

\* What can become of an entry.
LEMMA Entries ==
    ASSUME IInv, NEW i \in Ino
    PROVE  /\ table[i] \in Entry /\ NoEntry \in Entry /\ ~NoEntry.here
           /\ Unnamed(table[i]) \in Entry /\ Unnamed(table[i]).gen = table[i].gen
           /\ Unnamed(table[i]).hash = table[i].hash /\ Unnamed(table[i]).here = table[i].here
           /\ Unnamed(table[i]).nlink = 0
<1>1. table[i] \in Entry
    BY Ranges
<1>2. NoEntry \in Entry /\ ~NoEntry.here
    BY SeedAssumption DEF NoEntry, Entry, Hash
<1> QED
    BY <1>1, <1>2 DEF Unnamed, Entry

\* release() ends; an unlinked inode goes with its last handle.
LEMMA DropStep ==
    ASSUME IInv, NEW r \in Req, Drop(r)
    PROVE  IInv' /\ StatesStay
<1>0. PICK i \in Ino, h \in Handle : i = req[r].ino /\ h = req[r].fh
    BY OwnWriter DEF WithWriter, Drop
<1> DEFINE w == [wr[h] EXCEPT !.held = FALSE]
<1>1. /\ wr[h] \in Writer /\ wr[h].ino = i /\ i # None /\ WriterOk(h)
    BY <1>0, OwnWriter DEF WithWriter, Drop
<1>2. /\ w \in Writer /\ w.ino = wr[h].ino /\ w.gen = wr[h].gen /\ w.state = wr[h].state
      /\ w.info = wr[h].info /\ w.data = wr[h].data /\ w.hook = wr[h].hook
    BY <1>1 DEF Writer
<1>3. /\ wr' = [wr EXCEPT ![h] = w] /\ Finish(r)
      /\ table' = [table EXCEPT ![i] = NoEntry] \/ UNCHANGED table
      /\ UNCHANGED <<used, pending, lock, remote, last, reused, good, ops, faults>>
    BY <1>0, Ranges DEF Drop, hvars
<1> HIDE DEF w
<1>4. wr' \in [Handle -> Writer] /\ wr'[h] = w /\ \A g \in Handle \ {h} : wr'[g] = wr[g]
    BY <1>2, <1>3, PutWriter
<1>5. Keeps(h)
    BY <1>1, <1>2, <1>4 DEF Keeps, WriterOk
<1>6. \A g \in Handle : Keeps(g) /\ wr'[g].hook = wr[g].hook
    BY <1>2, <1>4, <1>5, SameKeeps
<1>7. table' \in [Ino -> Entry] /\ \A j \in Ino : table'[j] = table[j] \/ ~table'[j].here
    BY <1>3, Entries, Ranges
<1>8. \A j \in Ino : Fades(j)
    BY <1>7, SameFades DEF Fades
<1> QED
    BY <1>3, <1>4, <1>6, <1>7, <1>8, Ranges, TableStep

\* unlink() takes the name, and the inode if nobody has it open.
LEMMA UnlinkLocalStep ==
    ASSUME IInv, NEW r \in Req, UnlinkLocal(r)
    PROVE  IInv' /\ StatesStay
<1>0. PICK i \in Ino : i = req[r].ino /\ lock[i] = r
    BY Ranges DEF UnlinkLocal, Request, IInv, Holds, Holding
<1> DEFINE owner == LookupChild(req[r].path)
<1>1. /\ table' = [j \in Ino |-> IF j \in owner
                                 THEN IF j = i /\ ~HasOpenHandles(i) THEN NoEntry
                                      ELSE Unnamed(table[j])
                                 ELSE table[j]]
      /\ Unlock(i) /\ Finish(r)
      /\ UNCHANGED <<used, wr, pending, remote, last, reused, good, ops, faults>>
    BY <1>0 DEF UnlinkLocal, hvars
<1> HIDE DEF owner
<1>2. \A j \in Ino : table'[j] \in {table[j], NoEntry, Unnamed(table[j])}
    BY <1>1
<1>3. table' \in [Ino -> Entry] /\ \A j \in Ino : Fades(j)
  <2>1. ASSUME NEW j \in Ino PROVE table'[j] \in Entry /\ Fades(j)
    <3>1. /\ table[j] \in Entry /\ NoEntry \in Entry /\ ~NoEntry.here
          /\ Unnamed(table[j]) \in Entry /\ Unnamed(table[j]).gen = table[j].gen
          /\ Unnamed(table[j]).hash = table[j].hash /\ Unnamed(table[j]).here = table[j].here
          /\ Unnamed(table[j]).nlink = 0
      BY Entries
    <3> QED
      BY <1>2, <3>1 DEF Fades
  <2> QED
    BY <1>1, <2>1
<1>4. lock' \in [Ino -> Req \cup {None}] /\ \A j \in Ino \ {i} : lock'[j] = lock[j]
    BY <1>1, LockForm DEF Unlock
<1>5. \A j \in Ino : lock'[j] = lock[j] \/ lock[j] \in {None, r}
    BY <1>0, <1>4
<1>6. \A h \in Handle : Keeps(h)
    BY <1>1, SameKeeps
<1> QED
    BY <1>1, <1>3, <1>4, <1>5, <1>6, Ranges, TableStep

\* rename() moves the name and takes that of the target.
LEMMA RenameLocalStep ==
    ASSUME IInv, NEW r \in Req, RenameLocal(r)
    PROVE  IInv' /\ StatesStay
<1>0. /\ req[r] \in Request /\ req[r].op = "renamed" /\ req[r].ino \in Ino
      /\ req[r].to \in Path /\ req[r].path \in Path
    BY Ranges DEF RenameLocal, Request
<1> DEFINE i == req[r].ino
           old == IF req[r].flag /\ req[r].hash # None THEN {req[r].path} ELSE {}
           e == [table[i] EXCEPT !.named = TRUE, !.path = req[r].to, !.pdel = @ \cup old]
           target == LookupChild(req[r].to) \ {i}
<1>1. /\ e \in Entry /\ e.here = table[i].here /\ e.gen = table[i].gen
      /\ e.hash = table[i].hash /\ e.nlink = table[i].nlink
  <2>1. table[i] \in Entry /\ old \in SUBSET Path
    BY <1>0, Ranges
  <2> HIDE DEF old, i
  <2> QED
    BY <1>0, <2>1 DEF Entry
<1>2. /\ Finish(r) /\ UNCHANGED <<used, wr, pending, lock, remote, last, reused, good, ops, faults>>
      /\ \/ UNCHANGED table
         \/ table' = [j \in Ino |-> IF j = i THEN e
                                    ELSE IF j \notin target THEN table[j]
                                    ELSE IF HasOpenHandles(j) THEN Unnamed(table[j]) ELSE NoEntry]
    BY DEF RenameLocal, hvars
<1>3. table' \in [Ino -> Entry] /\ \A j \in Ino : Fades(j)
  <2>0. CASE UNCHANGED table
    BY <2>0, Ranges, SameFades
  <2>1. CASE table' = [j \in Ino |-> IF j = i THEN e
                                    ELSE IF j \notin target THEN table[j]
                                    ELSE IF HasOpenHandles(j) THEN Unnamed(table[j]) ELSE NoEntry]
    <3> HIDE DEF e, target
    <3>1. ASSUME NEW j \in Ino PROVE table'[j] \in Entry /\ Fades(j)
      <4>1. /\ table[j] \in Entry /\ NoEntry \in Entry /\ ~NoEntry.here
            /\ Unnamed(table[j]) \in Entry /\ Unnamed(table[j]).gen = table[j].gen
            /\ Unnamed(table[j]).hash = table[j].hash /\ Unnamed(table[j]).here = table[j].here
            /\ Unnamed(table[j]).nlink = 0
        BY Entries
      <4>2. table'[j] \in {table[j], NoEntry, Unnamed(table[j])} \/ (j = i /\ table'[j] = e)
        BY <2>1
      <4> HIDE DEF i
      <4> QED
        BY <1>1, <4>1, <4>2 DEF Fades
    <3> QED
      BY <2>1, <3>1
  <2> QED
    BY <1>2, <2>0, <2>1
<1>4. \A h \in Handle : Keeps(h)
    BY <1>2, SameKeeps
<1> QED
    BY <1>2, <1>3, <1>4, Ranges, TableStep

\* Steps of a request without a writer and without the lock.
Plain == {"linkadd", "linked", "unlink", "rename", "renamed"}

\* They ask nothing of the writers.
LEMMA PlainOk ==
    ASSUME NEW r \in Req, req'[r].op \in Plain PROVE Refers(req[r])' /\ Holds(r)'
    BY DEF Plain, Refers, Holds, WithWriter, Holding, Sending, Driving

\* link() takes a clean source as it is, or commits its writer first.
LEMMA LinkStep ==
    ASSUME IInv, NEW r \in Req, NEW i \in Ino, NEW to \in Path, Link(r, i, to)
    PROVE  IInv' /\ StatesStay
<1>1. UNCHANGED <<used, table, wr, pending, lock, remote, last, reused, good, faults>>
    BY DEF Link
<1>2. CASE /\ LinkSource(i)
           /\ Begin(r, [Idle EXCEPT !.op = "linkadd", !.job = "link", !.ino = i, !.to = to,
                                    !.hash = table[i].hash])
  <2> DEFINE c == table[i].hash
             q == [Idle EXCEPT !.op = "linkadd", !.job = "link", !.ino = i, !.to = to, !.hash = c]
  <2>1. c \in Content
    BY <1>2, Ranges DEF LinkSource, Entry, Hash
  <2>2. Begin(r, q)
    BY <1>2
  <2> HIDE DEF c
  <2>3. q \in Fields /\ q.op = "linkadd" /\ q.ino = i /\ q.to = to /\ q.hash = c
    BY <2>1, RequestFields DEF Fields, Hash
  <2> HIDE DEF q
  <2>4. q \in Request
    BY <2>1, <2>3, RequestFields
  <2>5. /\ req' \in [Req -> Request] /\ req'[r] = q /\ \A s \in Req \ {r} : req'[s] = req[s]
        /\ ops' \in Nat
    BY <2>2, <2>4, BeginForm
  <2>6. Refers(req[r])' /\ Holds(r)'
    BY <2>3, <2>5, PlainOk DEF Plain
  <2> QED
    BY <1>1, <2>5, <2>6, Ranges, CalmStep
<1>3. ASSUME NEW h \in Active(i),
             Begin(r, [Idle EXCEPT !.op = "commit", !.job = "link", !.ino = i, !.fh = h, !.to = to])
      PROVE  IInv' /\ StatesStay
  <2> DEFINE q == [Idle EXCEPT !.op = "commit", !.job = "link", !.ino = i, !.fh = h, !.to = to]
  <2>1. h \in Handle /\ wr[h].ino = i
    BY <1>3 DEF Active
  <2>2. Begin(r, q)
    BY <1>3
  <2>3. q \in Fields /\ q.op = "commit" /\ q.ino = i /\ q.to = to /\ q.fh = h /\ q.job = "link"
    BY <2>1, RequestFields DEF Fields
  <2> HIDE DEF q
  <2>4. q \in Request
    BY <2>3, RequestFields DEF Hashed
  <2>5. /\ req' \in [Req -> Request] /\ req'[r] = q /\ \A s \in Req \ {r} : req'[s] = req[s]
        /\ ops' \in Nat
    BY <2>2, <2>4, BeginForm
  <2>6. Refers(req[r])' /\ Holds(r)'
    BY <1>1, <2>1, <2>3, <2>5 DEF Refers, Holds, WithWriter, Holding, Sending, Driving
  <2> QED
    BY <1>1, <2>5, <2>6, Ranges, CalmStep
<1> QED
    BY <1>2, <1>3 DEF Link

\* link() looks at its source again after the commit.
LEMMA LinkAgainStep ==
    ASSUME IInv, NEW r \in Req, LinkAgain(r)
    PROVE  IInv' /\ StatesStay
<1> DEFINE q == req[r]
           c == table[q.ino].hash
           p == [q EXCEPT !.op = "linkadd", !.fh = None, !.hash = c]
<1>1. /\ q.op = "source" /\ UNCHANGED <<used, table, wr, pending, lock, remote, last, reused, good, ops, faults>>
    BY DEF LinkAgain, hvars
<1>2. CASE Finish(r)
    BY <1>1, <1>2, FinishForm, Ranges, CalmStep
<1>3. CASE LinkSource(q.ino) /\ req' = [req EXCEPT ![r] = p]
  <2>1. q \in Fields /\ q.ino \in Ino /\ q.to \in Path
    BY <1>1, Ranges, RequestFields DEF Moving
  <2>2. c \in Content
    BY <1>3, <2>1, Ranges DEF LinkSource, Entry, Hash
  <2> HIDE DEF c
  <2>3. p \in Fields /\ p.op = "linkadd" /\ p.ino = q.ino /\ p.to = q.to /\ p.hash = c
    BY <2>1, <2>2 DEF Fields, Hash
  <2>a. req' = [req EXCEPT ![r] = p]
    BY <1>3
  <2> HIDE DEF p
  <2>4. p \in Request
    BY <2>1, <2>2, <2>3, RequestFields
  <2>5. req' \in [Req -> Request] /\ req'[r] = p /\ \A s \in Req \ {r} : req'[s] = req[s]
    BY <2>4, <2>a, PutReq
  <2>6. Refers(req[r])' /\ Holds(r)'
    BY <2>3, <2>5, PlainOk DEF Plain
  <2> QED
    BY <1>1, <2>5, <2>6, Ranges, CalmStep
<1> QED
    BY <1>2, <1>3 DEF LinkAgain

\* A request without a writer goes on, or gives up, with what the Hub has now.
LEMMA RemoteStep ==
    ASSUME IInv, NEW r \in Req, req[r].op \in {"linkadd", "rename"},
           \/ req[r].op = "linkadd" /\ Step(r, "linked")
           \/ req[r].op = "rename" /\ Step(r, "renamed")
           \/ Finish(r),
           remote' \in [Path -> Hash], faults' \in Nat,
           UNCHANGED <<used, table, wr, pending, lock, last, reused, good, ops>>
    PROVE  IInv' /\ StatesStay
<1>1. CASE Finish(r)
    BY <1>1, FinishForm, Ranges, CalmStep
<1>2. ASSUME NEW op \in {"linked", "renamed"}, req[r].op = IF op = "linked" THEN "linkadd" ELSE "rename",
             Step(r, op)
      PROVE  IInv' /\ StatesStay
  <2> DEFINE p == [req[r] EXCEPT !.op = op]
  <2>1. req[r] \in Request
    BY Ranges
  <2>2. p \in Request /\ p.op = op
    BY <1>2, <2>1 DEF Request
  <2>3. req' = [req EXCEPT ![r] = p]
    BY <1>2, Ranges DEF Step
  <2> HIDE DEF p
  <2>4. req' \in [Req -> Request] /\ req'[r] = p /\ \A s \in Req \ {r} : req'[s] = req[s]
    BY <2>2, <2>3, PutReq
  <2>5. Refers(req[r])' /\ Holds(r)'
    BY <2>2, <2>4, PlainOk DEF Plain
  <2> QED
    BY <2>4, <2>5, Ranges, CalmStep
<1> QED
    BY <1>1, <1>2

\* The alias is committed to the Hub.
LEMMA LinkAddStep ==
    ASSUME IInv, NEW r \in Req, LinkAdd(r)
    PROVE  IInv' /\ StatesStay
<1> DEFINE added == [remote EXCEPT ![req[r].to] = req[r].hash]
<1>1. added \in [Path -> Hash]
    BY Ranges DEF Request
<1> HIDE DEF added
<1>2. /\ req[r].op = "linkadd" /\ remote' \in {remote, added} /\ faults' \in Nat
      /\ Step(r, "linked") \/ Finish(r)
      /\ UNCHANGED <<used, table, wr, pending, lock, last, reused, good, ops>>
    BY Ranges DEF LinkAdd, Fault, added
<1>3. remote' \in [Path -> Hash]
    BY <1>1, <1>2, Ranges
<1> QED
    BY <1>2, <1>3, RemoteStep

\* The rename of a clean file is committed to the Hub.
LEMMA RenameRemoteStep ==
    ASSUME IInv, NEW r \in Req, RenameRemote(r)
    PROVE  IInv' /\ StatesStay
<1> DEFINE moved == [remote EXCEPT ![req[r].to] = req[r].hash, ![req[r].path] = None]
<1>1. moved \in [Path -> Hash]
    BY Ranges DEF Request, Hash
<1> HIDE DEF moved
<1>2. /\ req[r].op = "rename" /\ remote' \in {remote, moved} /\ faults' \in Nat
      /\ Step(r, "renamed") \/ Finish(r)
      /\ UNCHANGED <<used, table, wr, pending, lock, last, reused, good, ops>>
    BY Ranges DEF RenameRemote, Fault, moved
<1>3. remote' \in [Path -> Hash]
    BY <1>1, <1>2, Ranges
<1> QED
    BY <1>2, <1>3, RemoteStep

\* unlink() begins.
LEMMA UnlinkStep ==
    ASSUME IInv, NEW r \in Req, NEW i \in Ino, Unlink(r, i)
    PROVE  IInv' /\ StatesStay
<1> DEFINE q == [Idle EXCEPT !.op = "unlink", !.ino = i, !.path = table[i].path]
<1>1. table[i].path \in Path
    BY Ranges DEF Entry
<1>2. q \in Fields /\ q.op = "unlink" /\ q.ino = i /\ q.job = "none"
    BY <1>1, RequestFields DEF Fields
<1>3. Begin(r, q) /\ UNCHANGED <<used, table, wr, pending, lock, remote, last, reused, good, faults>>
    BY DEF Unlink
<1> HIDE DEF q
<1>4. q \in Request
    BY <1>2, RequestFields DEF Hashed, Moving
<1>5. /\ req' \in [Req -> Request] /\ req'[r] = q /\ \A s \in Req \ {r} : req'[s] = req[s]
      /\ ops' \in Nat
    BY <1>3, <1>4, BeginForm
<1>6. Refers(req[r])' /\ Holds(r)'
    BY <1>2, <1>5, PlainOk DEF Plain
<1> QED
    BY <1>3, <1>5, <1>6, Ranges, CalmStep

\* rename() begins.
LEMMA RenameValidateStep ==
    ASSUME IInv, NEW r \in Req, NEW i \in Ino, NEW to \in Path, RenameValidate(r, i, to)
    PROVE  IInv' /\ StatesStay
<1> DEFINE q == [Idle EXCEPT !.op = "rename", !.ino = i, !.path = table[i].path, !.to = to,
                             !.hash = table[i].hash, !.flag = Dirty(i)]
<1>1. table[i].path \in Path /\ table[i].hash \in Hash /\ Dirty(i) \in BOOLEAN
    BY Ranges DEF Entry, Dirty
<1>2. q \in Fields /\ q.op = "rename" /\ q.ino = i /\ q.job = "none" /\ q.to = to /\ q.path = table[i].path
    BY <1>1, RequestFields DEF Fields
<1>3. Begin(r, q) /\ UNCHANGED <<used, table, wr, pending, lock, remote, last, reused, good, faults>>
    BY DEF RenameValidate
<1> HIDE DEF q
<1>4. q \in Request
    BY <1>1, <1>2, RequestFields DEF Hashed, Moving
<1>5. /\ req' \in [Req -> Request] /\ req'[r] = q /\ \A s \in Req \ {r} : req'[s] = req[s]
      /\ ops' \in Nat
    BY <1>3, <1>4, BeginForm
<1>6. Refers(req[r])' /\ Holds(r)'
    BY <1>2, <1>5, PlainOk DEF Plain
<1> QED
    BY <1>3, <1>5, <1>6, Ranges, CalmStep

\* unlink() takes the staging lock of the inode that has the name now.
LEMMA UnlinkLockStep ==
    ASSUME IInv, NEW r \in Req, UnlinkLock(r)
    PROVE  IInv' /\ StatesStay
<1>0. PICK i \in Ino : i = req[r].ino /\ lock[i] = None /\ req[r].op = "unlink"
    BY Ranges DEF UnlinkLock, Request
<1>1. UNCHANGED <<used, table, wr, pending, remote, last, reused, good, ops, faults>>
    BY DEF UnlinkLock, hvars
<1>2. CASE Finish(r) /\ UNCHANGED lock
    BY <1>1, <1>2, FinishForm, Ranges, CalmStep
<1>3. ASSUME NEW j \in LookupChild(req[r].path), req' = [req EXCEPT ![r].ino = j], UNCHANGED lock
      PROVE  IInv' /\ StatesStay
  <2> DEFINE p == [req[r] EXCEPT !.ino = j]
  <2>1. req[r] \in Request /\ j \in Ino
    BY Ranges DEF LookupChild
  <2>2. p \in Request /\ p.op = "unlink"
    BY <1>0, <2>1 DEF Request
  <2>3. req' = [req EXCEPT ![r] = p]
    BY <1>3, Ranges
  <2> HIDE DEF p
  <2>4. req' \in [Req -> Request] /\ req'[r] = p /\ \A s \in Req \ {r} : req'[s] = req[s]
    BY <2>2, <2>3, PutReq
  <2>5. Refers(req[r])' /\ Holds(r)'
    BY <2>2, <2>4, PlainOk DEF Plain
  <2> QED
    BY <1>1, <1>3, <2>4, <2>5, Ranges, CalmStep
<1>4. CASE lock' = [lock EXCEPT ![i] = r] /\ (Step(r, "undelete") \/ Step(r, "unname"))
  <2>1. /\ req' \in [Req -> Request] /\ \A s \in Req \ {r} : req'[s] = req[s]
        /\ req'[r].ino = i
    BY <1>0, <1>4, StepForm
  <2>2. req'[r].op \in {"undelete", "unname"}
    BY <1>4, Ranges DEF Step, Request
  <2>3. /\ lock' \in [Ino -> Req \cup {None}] /\ lock'[i] = r
        /\ \A j \in Ino \ {i} : lock'[j] = lock[j]
    BY <1>4, LockForm
  <2>4. Refers(req[r])' /\ Holds(r)'
    BY <2>1, <2>2, <2>3 DEF Refers, Holds, WithWriter, Holding, Sending, Driving
  <2>5. \A j \in Ino : lock'[j] = lock[j] \/ lock[j] \in {None, r}
    BY <1>0, <2>3
  <2> QED
    BY <1>1, <2>1, <2>3, <2>4, <2>5, Ranges, CalmStep
<1> QED
    BY <1>0, <1>2, <1>3, <1>4 DEF UnlinkLock

\* The remote file is deleted, or unlink() gives the lock back.
LEMMA UnlinkRemoteStep ==
    ASSUME IInv, NEW r \in Req, UnlinkRemote(r)
    PROVE  IInv' /\ StatesStay
<1> DEFINE deleted == [remote EXCEPT ![req[r].path] = None]
<1>1. deleted \in [Path -> Hash]
    BY Ranges DEF Hash
<1> HIDE DEF deleted
<1>2. /\ req[r].op = "undelete" /\ remote' \in {remote, deleted}
      /\ UNCHANGED <<used, table, wr, pending, last, reused, good, ops>>
      /\ \/ Step(r, "unname") /\ UNCHANGED <<lock, faults>>
         \/ Fault /\ Finish(r) /\ Unlock(req[r].ino)
    BY DEF UnlinkRemote, deleted
<1>3. remote' \in [Path -> Hash]
    BY <1>1, <1>2, Ranges
<1>4. CASE Step(r, "unname") /\ UNCHANGED <<lock, faults>>
  <2>1. /\ req' \in [Req -> Request] /\ \A s \in Req \ {r} : req'[s] = req[s]
        /\ req'[r].ino = req[r].ino
    BY <1>2, <1>4, StepForm
  <2>2. req'[r].op = "unname"
    BY <1>4, Ranges DEF Step, Request
  <2>3. lock[req[r].ino] = r
    BY <1>2 DEF IInv, Holds, Holding
  <2>4. Refers(req[r])' /\ Holds(r)'
    BY <1>4, <2>1, <2>2, <2>3 DEF Refers, Holds, WithWriter, Holding, Sending, Driving
  <2> QED
    BY <1>2, <1>3, <1>4, <2>1, <2>4, Ranges, CalmStep
<1>5. CASE Fault /\ Finish(r) /\ Unlock(req[r].ino)
  <2>1. faults' \in Nat /\ req[r].op \in Holding
    BY <1>2, <1>5, Ranges DEF Fault, Holding
  <2> QED
    BY <1>2, <1>3, <1>5, <2>1, GiveUp
<1> QED
    BY <1>2, <1>4, <1>5

----------------------------------------------------------------------------
(* The theorems.                                                           *)

\* The invariant holds at the start.
LEMMA InitInv == Init => IInv
<1> SUFFICES ASSUME Init PROVE IInv
    OBVIOUS
<1>1. NoEntry \in Entry /\ ~NoEntry.here
    BY SeedAssumption DEF NoEntry, Entry, Hash
<1> DEFINE e == [NoEntry EXCEPT !.here = TRUE, !.named = TRUE, !.nlink = 1, !.hash = SeedContent]
<1>2. e \in Entry
    BY SeedAssumption DEF NoEntry, Entry, Hash
<1>3. /\ NoWriter \in Writer /\ NoWriter.ino = None /\ NoWriter.info = None
    BY ValueAssumption DEF NoWriter, Writer, State, NoSnapshot, Snapshot, Hash
<1> HIDE DEF e
<1>4. /\ used = {SeedIno} /\ table \in [Ino -> Entry] /\ \A i \in Ino : table[i].here => i \in used
    BY <1>1, <1>2, SeedAssumption DEF Init, e
<1>5. /\ wr \in [Handle -> Writer] /\ \A h \in Handle : wr[h] = NoWriter
    BY <1>3 DEF Init
<1>6. req \in [Req -> Request] /\ \A r \in Req : req[r].op = "idle"
    BY IdleOk DEF Init
<1>7. remote \in [Path -> Hash] /\ good \in [Ino -> Hash]
    BY SeedAssumption DEF Init, Hash
<1>8. TypeOK
    BY <1>4, <1>5, <1>6, <1>7, SeedAssumption DEF Init, TypeOK
<1>9. \A r \in Req : Refers(req[r]) /\ Holds(r)
    BY <1>6 DEF Refers, Holds, WithWriter, Holding, Sending, Driving
<1>10. \A h \in Handle : WriterOk(h)
    BY <1>3, <1>5 DEF WriterOk
<1>11. \A i \in Ino : InoOk(i) /\ Distinct(i) /\ LastOk(i)
  <2>1. \A i \in Ino : last[i] = None
    BY DEF Init
  <2>2. \A h \in Handle : wr[h].ino = None
    BY <1>3, <1>5
  <2> QED
    BY <1>4, <2>1, <2>2, ValueAssumption DEF InoOk, Distinct, LastOk
<1>12. PendingIsLive
    BY DEF Init, PendingIsLive
<1> QED
    BY <1>8, <1>9, <1>10, <1>11, <1>12 DEF IInv

\* Every step keeps the invariant and leaves terminal states as they are.
LEMMA StepInv == IInv /\ [Next]_vars => IInv' /\ StatesStay
<1> SUFFICES ASSUME IInv, [Next]_vars PROVE IInv' /\ StatesStay
    OBVIOUS
<1>1. CASE Writing
    BY <1>1, OpenStartStep, OpenLockStep, OpenDoneStep, OpenFailStep, DeferHookStep, DeferDoneStep,
       ReleaseStep, FlushStep, WriteStep, WorkerFailStep, CreateStep DEF Writing
<1>2. CASE Committing
    BY <1>2, ReleaseCheckStep, CommitLockStep, ReleaseLockStep, UploadStep, UploadFailStep, SendStep,
       HubCommitStep, HubFailStep, ApplyStep, RetryStep, DropStep DEF Committing
<1>3. CASE Linking
    BY <1>3, LinkStep, LinkAgainStep, LinkAddStep, LinkInsertStep DEF Linking
<1>4. CASE Unlinking
    BY <1>4, UnlinkStep, UnlinkLockStep, UnlinkRemoteStep, UnlinkLocalStep DEF Unlinking
<1>5. CASE Renaming
    BY <1>5, RenameValidateStep, RenameRemoteStep, RenameLocalStep DEF Renaming
<1>6. CASE UNCHANGED vars
  <2>1. UNCHANGED <<used, table, wr, pending, lock, req, remote, last, reused, good, ops, faults>>
    BY <1>6 DEF vars, hvars
  <2>2. TypeOK'
    BY <2>1 DEF IInv, TypeOK
  <2>3. (\A h \in Handle : Keeps(h)) /\ \A i \in Ino : Fades(i)
    BY <2>1, SameKeeps, SameFades
  <2>4. PendingIsLive'
    BY <2>1 DEF IInv, PendingIsLive
  <2> QED
    BY <2>1, <2>2, <2>3, <2>4, QuietMove
<1> QED
    BY <1>1, <1>2, <1>3, <1>4, <1>5, <1>6 DEF Next

\* The invariant holds in every state of every behaviour.
LEMMA Always == Spec => []IInv
<1>1. Init => IInv
    BY InitInv
<1>2. IInv /\ [Next]_vars => IInv'
    BY StepInv
<1> QED
    BY <1>1, <1>2, PTL DEF Spec

\* Types, for every request and any interleaving: open_streaming_write(), write(),
\* flush(), release(), link(), unlink() and rename() keep every field in its range.
THEOREM TypeCorrect == Spec => []TypeOK
<1>1. IInv => TypeOK
    BY DEF IInv
<1> QED
    BY <1>1, Always, PTL

\* A registration in pending_commits always belongs to a live hook of a writer of
\* that inode: install_commit_hook() and fulfill_commit_hook() keep the two together,
\* so that await_pending_commit() never waits for a writer nobody will finish.
THEOREM HooksAreLive == Spec => []PendingIsLive
<1>1. IInv => PendingIsLive
    BY DEF IInv
<1> QED
    BY <1>1, Always, PTL

\* The commit of the last writer is the file: nothing that an older writer, a
\* failed commit or a late write does comes after it, on every inode whose
\* generations were given out once.
THEOREM CommitsAreFiles == Spec => []CommittedIsFile
<1>1. IInv => CommittedIsFile
  <2> SUFFICES ASSUME IInv, NEW i \in Ino \ reused, Linked(i), last[i] # None,
                      wr[last[i]].state = "committed"
               PROVE  ~Dirty(i) /\ table[i].hash = wr[last[i]].data
    BY DEF CommittedIsFile
  <2>1. LastOk(i)
    BY DEF IInv
  <2> QED
    BY <2>1 DEF LastOk, Linked, Dirty
<1> QED
    BY <1>1, Always, PTL

\* streaming_channel_for() has at most one writer to choose from, on the same inodes.
THEOREM OneOwner == Spec => []OneActive
<1>1. IInv => OneActive
  <2> SUFFICES ASSUME IInv, NEW i \in Ino \ reused PROVE Cardinality(Active(i)) <= 1
    BY DEF OneActive
  <2>1. Distinct(i)
    BY DEF IInv
  <2>2. \A g, h \in Active(i) : g = h
    BY <2>1 DEF Active, Distinct, OwnsGeneration
  <2>3. CASE Active(i) = {}
    BY <2>3, FS_EmptySet
  <2>4. CASE Active(i) # {}
    <3>1. PICK h : h \in Active(i)
      BY <2>4
    <3>2. Active(i) = {h}
      BY <2>2, <3>1
    <3> QED
      BY <3>2, FS_Singleton
  <2> QED
    BY <2>3, <2>4
<1> QED
    BY <1>1, Always, PTL

\* A writer that is committed or failed stays so, whoever else works on it: what
\* release() and defer_commit() read without the staging lock is final.
THEOREM StatesAreFinal == Spec => TerminalStable
<1>1. IInv /\ [Next]_vars => [\A h \in Handle : Terminal(wr[h]) => wr'[h].state = wr[h].state]_vars
    BY StepInv DEF StatesStay
<1> QED
    BY <1>1, Always, PTL DEF Spec, TerminalStable
----------------------------------------------------------------------------
(* The Hub and the mount, while no call has failed and nobody renames.     *)

Changing == {"upload", "send", "hub", "apply"}
InDir(q) == q.job = "link" \/ q.op \in {"linkadd", "linked", "unlink", "undelete", "unname"}

\* Entries: no old path is owed to the Hub, a file with a name is linked, is clean
\* exactly when it has a hash, and while it is dirty an open writer owes a commit.
EntryIs(i) ==
    LET e == table[i] IN
    /\ e.pdel = {} /\ (e.named <=> e.nlink > 0)
    /\ e.named => /\ e.here
                  /\ e.gen = 0 <=> e.hash # None
                  /\ e.gen > 0 => \E h \in Handle : /\ wr[h].ino = i /\ wr[h].gen = e.gen
                                                    /\ wr[h].held /\ ~Terminal(wr[h])

\* Two files do not have one name.
OneName(i, j) == table[i].named /\ table[j].named /\ table[i].path = table[j].path => i = j

\* Requests.  A commit under way is of a file with a name, whose path it sends; the
\* name a link makes is free; a deletion is of the file that has the name.
RequestIs(q) ==
    /\ q.op \notin {"retry", "rename", "renamed"}
    /\ q.op \in Changing => table[q.ino].named
    /\ q.op \in {"hub", "apply"} => q.path = table[q.ino].path /\ q.dels = {}
    /\ q.op = "apply" => remote[q.path] = q.hash
    /\ q.op = "upload" => wr[q.fh].worker = "running"
    /\ q.op = "drop" => Terminal(wr[q.fh])
    /\ q.job = "link" => LookupChild(q.to) = {}
    /\ q.op = "linked" => remote[q.to] = q.hash
    /\ q.op \in {"source", "linkadd", "linked"} => q.job = "link"
    /\ q.op \in {"undelete", "unname"} => table[q.ino].named /\ table[q.ino].path = q.path
    /\ q.op = "unname" => remote[q.path] = None

\* The kernel's lock on the directory.
OneInDir(r, s) == InDir(req[r]) /\ InDir(req[s]) => r = s

\* A worker runs until a commit has its file.
WorkerIs(h) ==
    wr[h].ino # None /\ ~Terminal(wr[h]) =>
        /\ wr[h].info = None
        /\ \/ wr[h].worker = "running"
           \/ \E r \in Req : req[r].fh = h /\ req[r].op \in {"send", "hub", "apply"}

\* A clean file is on the Hub, unless its deletion is half way.
SyncedIs(i) ==
    table[i].named /\ table[i].gen = 0 /\ (\A r \in Req : req[r].op = "unname" => req[r].ino # i)
        => remote[table[i].path] = table[i].hash

\* A file of the Hub has a name here, or is about to get one.
ShownIs(p) ==
    remote[p] # None => LookupChild(p) # {} \/ \E r \in Req : req[r].op = "linked" /\ req[r].to = p

HubInv ==
    faults = 0 =>
        /\ \A i \in Ino : EntryIs(i) /\ SyncedIs(i)
        /\ \A i, j \in Ino : OneName(i, j)
        /\ \A r \in Req : RequestIs(req[r])
        /\ \A r, s \in Req : OneInDir(r, s)
        /\ \A h \in Handle : WorkerIs(h)
        /\ \A p \in Path : ShownIs(p)

\* The names are as before: of the files, and so what a path leads to.
NamesStay ==
    \A i \in Ino : /\ table'[i].named = table[i].named
                   /\ table[i].named => table'[i].path = table[i].path /\ table'[i].here

\* A writer that neither ends nor is dropped, with its worker as before.
Steady(h) ==
    /\ wr'[h].ino = wr[h].ino /\ wr'[h].gen = wr[h].gen /\ wr'[h].held = wr[h].held
    /\ wr'[h].worker = wr[h].worker /\ wr'[h].info = wr[h].info
    /\ Terminal(wr'[h]) => Terminal(wr[h])

\* A path leads where it did.
LEMMA SameNames ==
    ASSUME IInv, HubInv, faults = 0, NamesStay, NEW p \in Path
    PROVE  LookupChild(p)' = LookupChild(p)
<1>1. \A i \in Ino : table[i].named => table[i].here
    BY DEF HubInv, EntryIs
<1> QED
    BY <1>1 DEF NamesStay, LookupChild

\* A request that does not move is what it was.
LEMMA OthersAre ==
    ASSUME IInv, HubInv, faults = 0, StatesStay, NEW s \in Req, req'[s] = req[s],
           req[s].op \in Changing => /\ table'[req[s].ino].named
                                     /\ table'[req[s].ino].path = table[req[s].ino].path,
           InDir(req[s]) => NamesStay,
           req[s].op \in {"apply", "unname"} => remote'[req[s].path] = remote[req[s].path],
           req[s].op = "linked" => remote'[req[s].to] = remote[req[s].to],
           req[s].op = "upload" => wr'[req[s].fh].worker = wr[req[s].fh].worker
    PROVE  RequestIs(req[s])'
<1>0. PICK q \in Request : q = req[s]
    BY Ranges
<1>1. RequestIs(q)
    BY <1>0 DEF HubInv
<1>2. /\ q.op # "idle" => q.ino \in Ino
      /\ q.job = "link" => q.to \in Path
    BY <1>1, RequestFields
<1>3. q.op = "drop" => q.fh \in Handle
    BY <1>0, OwnWriter DEF WithWriter
<1>4. q.op = "drop" => Terminal(wr'[q.fh])
    BY <1>1, <1>3 DEF RequestIs, StatesStay, Terminal
<1>5. q.job = "link" => LookupChild(q.to)' = {}
    BY <1>0, <1>1, <1>2, SameNames DEF RequestIs, InDir
<1>6. q.op \in {"undelete", "unname"} => table'[q.ino].named /\ table'[q.ino].path = q.path
    BY <1>0, <1>1, <1>2 DEF RequestIs, InDir, NamesStay
<1>7. req'[s] = q
    BY <1>0
<1>8. q.op \in Changing => /\ table'[q.ino].named
                           /\ table'[q.ino].path = table[q.ino].path
    BY <1>0
<1>9. /\ q.op \in {"apply", "unname"} => remote'[q.path] = remote[q.path]
      /\ q.op = "linked" => remote'[q.to] = remote[q.to]
      /\ q.op = "upload" => wr'[q.fh].worker = wr[q.fh].worker
    BY <1>0
<1> QED
    BY <1>1, <1>4, <1>5, <1>6, <1>7, <1>8, <1>9 DEF RequestIs, Changing

\* Entries and the worker of writers that go on as before.
LEMMA EntryStays ==
    ASSUME IInv, HubInv, faults = 0, NEW i \in Ino, table'[i] = table[i],
           \A h \in Handle : wr[h].ino = i /\ wr[h].held /\ ~Terminal(wr[h]) /\ wr[h].gen = table[i].gen
               => wr'[h].ino = i /\ wr'[h].gen = wr[h].gen /\ wr'[h].held /\ ~Terminal(wr'[h])
    PROVE  EntryIs(i)'
<1>1. EntryIs(i)
    BY DEF HubInv
<1> QED
    BY <1>1 DEF EntryIs

\* The directory is one request's at a time.
LEMMA DirStays ==
    ASSUME IInv, HubInv, faults = 0, NEW r \in Req, \A s \in Req \ {r} : req'[s] = req[s],
           InDir(req'[r]) => InDir(req[r]) \/ \A s \in Req : ~InDir(req[s])
    PROVE  \A s, t \in Req : OneInDir(s, t)'
<1>1. \A s, t \in Req : OneInDir(s, t)
    BY DEF HubInv
<1>2. \A s, t \in Req : InDir(req'[s]) /\ InDir(req'[t]) => s = t
    BY <1>1 DEF OneInDir
<1> QED
    BY <1>2 DEF OneInDir, InDir

\* A step of one request that changes neither entries nor the Hub.
LEMMA SteadyStep ==
    ASSUME IInv, HubInv, faults = 0, StatesStay, UNCHANGED <<table, remote, faults>>,
           \A h \in Handle : Steady(h), NEW r \in Req, \A s \in Req \ {r} : req'[s] = req[s],
           RequestIs(req[r])', req[r].op \notin {"linked", "unname", "hub", "apply"},
           req[r].op = "send" => req'[r].op = "hub" /\ req'[r].fh = req[r].fh,
           InDir(req'[r]) => InDir(req[r]) \/ \A s \in Req : ~InDir(req[s])
    PROVE  HubInv'
<1>0. NamesStay
    BY DEF NamesStay, HubInv, EntryIs
<1>1. \A i \in Ino : EntryIs(i)'
    BY EntryStays DEF Steady
<1>2. \A i \in Ino : SyncedIs(i)'
  <2>1. \A i \in Ino : SyncedIs(i)
    BY DEF HubInv
  <2>2. \A s \in Req : req[s].op = "unname" => req'[s].op = "unname" /\ req'[s].ino = req[s].ino
    OBVIOUS
  <2> QED
    BY <2>1, <2>2 DEF SyncedIs
<1>3. \A i, j \in Ino : OneName(i, j)'
    BY DEF HubInv, OneName
<1>4. \A s \in Req : RequestIs(req[s])'
  <2>1. ASSUME NEW s \in Req \ {r} PROVE RequestIs(req[s])'
    <3>1. req[s].op = "upload" => req[s].fh \in Handle
      BY OwnWriter DEF WithWriter
    <3>2. req[s].op \in Changing => table[req[s].ino].named
      BY DEF HubInv, RequestIs
    <3> QED
      BY <1>0, <3>1, <3>2, OthersAre DEF Steady
  <2> QED
    BY <2>1
<1>5. \A s, t \in Req : OneInDir(s, t)'
    BY DirStays
<1>6. \A h \in Handle : WorkerIs(h)'
  <2> SUFFICES ASSUME NEW h \in Handle PROVE WorkerIs(h)'
    OBVIOUS
  <2>1. WorkerIs(h) /\ Steady(h)
    BY DEF HubInv
  <2>2. \A s \in Req : req[s].fh = h /\ req[s].op \in {"send", "hub", "apply"}
                        => req'[s].fh = h /\ req'[s].op \in {"send", "hub", "apply"}
    OBVIOUS
  <2>3. ~Terminal(wr'[h]) => ~Terminal(wr[h])
    BY DEF StatesStay, Terminal
  <2> QED
    BY <2>1, <2>2, <2>3 DEF WorkerIs, Steady
<1>7. \A p \in Path : ShownIs(p)'
  <2> SUFFICES ASSUME NEW p \in Path PROVE ShownIs(p)'
    OBVIOUS
  <2>1. ShownIs(p) /\ LookupChild(p)' = LookupChild(p)
    BY <1>0, SameNames DEF HubInv
  <2>2. \A s \in Req : req[s].op = "linked" => req'[s] = req[s]
    OBVIOUS
  <2> QED
    BY <2>1, <2>2 DEF ShownIs
<1> QED
    BY <1>1, <1>2, <1>3, <1>4, <1>5, <1>6, <1>7 DEF HubInv

\* A step of no request.
LEMMA StillStep ==
    ASSUME IInv, HubInv, faults = 0, StatesStay, UNCHANGED <<table, remote, faults, req>>,
           \A h \in Handle : Steady(h)
    PROVE  HubInv'
<1>0. NamesStay
    BY DEF NamesStay, HubInv, EntryIs
<1>1. \A i \in Ino : EntryIs(i)'
    BY EntryStays DEF Steady
<1>2. (\A i \in Ino : SyncedIs(i)') /\ (\A p \in Path : ShownIs(p)')
    BY DEF HubInv, SyncedIs, ShownIs, LookupChild
<1>3. \A i, j \in Ino : OneName(i, j)'
    BY DEF HubInv, OneName
<1>4. \A s \in Req : RequestIs(req[s])'
  <2> SUFFICES ASSUME NEW s \in Req PROVE RequestIs(req[s])'
    OBVIOUS
  <2>1. req[s].op = "upload" => req[s].fh \in Handle
    BY OwnWriter DEF WithWriter
  <2>2. req[s].op \in Changing => table[req[s].ino].named
    BY DEF HubInv, RequestIs
  <2> QED
    BY <1>0, <2>1, <2>2, OthersAre DEF Steady
<1>5. \A s, t \in Req : OneInDir(s, t)'
    BY DEF HubInv, OneInDir, InDir
<1>6. \A h \in Handle : WorkerIs(h)'
  <2> SUFFICES ASSUME NEW h \in Handle PROVE WorkerIs(h)'
    OBVIOUS
  <2>1. WorkerIs(h) /\ Steady(h)
    BY DEF HubInv
  <2>2. ~Terminal(wr'[h]) => ~Terminal(wr[h])
    BY DEF StatesStay, Terminal
  <2> QED
    BY <2>1, <2>2 DEF WorkerIs, Steady
<1> QED
    BY <1>1, <1>2, <1>3, <1>4, <1>5, <1>6 DEF HubInv

\* A request goes on to the next step with all else as it was.
LEMMA StepMoves ==
    ASSUME IInv, NEW r \in Req, NEW op, Step(r, op)
    PROVE  /\ req'[r].op = op /\ req'[r].job = req[r].job /\ req'[r].to = req[r].to
           /\ req'[r].ino = req[r].ino /\ req'[r].fh = req[r].fh /\ req'[r].hash = req[r].hash
           /\ req'[r].path = req[r].path /\ req'[r].dels = req[r].dels
           /\ \A s \in Req \ {r} : req'[s] = req[s]
<1>1. req[r] \in Fields
    BY Ranges, RequestFields
<1>2. req'[r] = [req[r] EXCEPT !.op = op] /\ \A s \in Req \ {r} : req'[s] = req[s]
    BY Ranges DEF Step
<1> QED
    BY <1>1, <1>2 DEF Fields

Resting == {"idle", "open", "setup", "defer", "deferred", "commit", "closing", "close", "unlink"}

\* The directory is free when its lock is.
LEMMA FreeDir ==
    ASSUME DirFree PROVE \A s \in Req : ~InDir(req[s])
    BY DEF DirFree, InDir

\* A request goes on to a step that promises nothing.
LEMMA RestStep ==
    ASSUME IInv, HubInv, faults = 0, StatesStay, UNCHANGED <<table, remote, faults>>,
           \A h \in Handle : Steady(h), NEW r \in Req, \A s \in Req \ {r} : req'[s] = req[s],
           req'[r].op \in Resting, req[r].op \notin {"linked", "unname", "send", "hub", "apply"},
           req'[r].job = "link" => req[r].job = "link" /\ req'[r].to = req[r].to,
           req'[r].op = "unlink" => InDir(req[r]) \/ \A s \in Req : ~InDir(req[s])
    PROVE  HubInv'
<1>1. RequestIs(req[r])
    BY DEF HubInv
<1>2. RequestIs(req[r])'
    BY <1>1 DEF RequestIs, Resting, Changing, LookupChild
<1>3. InDir(req'[r]) => InDir(req[r]) \/ \A s \in Req : ~InDir(req[s])
    BY DEF InDir, Resting
<1> QED
    BY <1>2, <1>3, SteadyStep

\* One writer changes, in what Steady says nothing of.
LEMMA SteadyOne ==
    ASSUME IInv, NEW h \in Handle, NEW w \in Writer, wr' = [wr EXCEPT ![h] = w],
           w.ino = wr[h].ino, w.gen = wr[h].gen, w.held = wr[h].held, w.worker = wr[h].worker,
           w.info = wr[h].info, Terminal(w) => Terminal(wr[h])
    PROVE  \A g \in Handle : Steady(g)
<1>1. wr'[h] = w /\ \A g \in Handle \ {h} : wr'[g] = wr[g]
    BY PutWriter
<1> QED
    BY <1>1 DEF Steady

\* Nothing changes but a request, which ends.
LEMMA EndsQuiet ==
    ASSUME IInv, HubInv, faults = 0, UNCHANGED <<table, remote, faults, wr>>, NEW r \in Req,
           Finish(r), req[r].op \notin {"linked", "unname", "send", "hub", "apply"}
    PROVE  HubInv'
<1>1. req'[r] = Idle /\ \A s \in Req \ {r} : req'[s] = req[s]
    BY IdleOk, PutReq DEF Finish
<1>2. req'[r].op \in Resting /\ req'[r].op # "unlink" /\ req'[r].job = "none"
    BY <1>1, IdleOk, RequestFields DEF Resting
<1>3. StatesStay /\ \A h \in Handle : Steady(h)
    BY DEF StatesStay, Steady
<1> QED
    BY <1>1, <1>2, <1>3, RestStep

\* open() begins.
LEMMA OpenStartHub ==
    ASSUME IInv, HubInv, faults = 0, NEW r \in Req, NEW i \in Ino, OpenStart(r, i)
    PROVE  HubInv'
<1> DEFINE q == [Idle EXCEPT !.op = "open", !.ino = i, !.old = pending[i]]
<1>1. q.op = "open" /\ q.job = "none"
    BY RequestFields DEF Fields
<1>2. /\ req[r] = Idle /\ req' = [req EXCEPT ![r] = q]
      /\ UNCHANGED <<table, remote, faults, wr>>
    BY DEF OpenStart, Begin
<1> HIDE DEF q
<1>3. req'[r] = q /\ \A s \in Req \ {r} : req'[s] = req[s]
    BY <1>2, Ranges
<1>4. StatesStay /\ \A h \in Handle : Steady(h)
    BY <1>2 DEF StatesStay, Steady
<1> QED
    BY <1>1, <1>2, <1>3, <1>4, IdleOk, RestStep DEF Resting

\* open() takes the lock.
LEMMA OpenLockHub ==
    ASSUME IInv, HubInv, faults = 0, NEW r \in Req, OpenLock(r)
    PROVE  HubInv'
<1> DEFINE q == req[r]
           i == q.ino
           e == table[i]
<1>0. req[r] \in Fields
    BY Ranges, RequestFields
<1>1. UNCHANGED <<used, table, wr, pending, remote, last, reused, good, ops, faults>>
    BY DEF OpenLock, hvars
<1>2. req[r].op = "open"
    BY DEF OpenLock
<1>3. CASE Finish(r) /\ UNCHANGED lock
    BY <1>1, <1>2, <1>3, EndsQuiet
<1>4. ASSUME NEW old \in IF Active(i) = {} THEN {None} ELSE Active(i),
             req' = [req EXCEPT ![r] =
                       [q EXCEPT !.op = "setup", !.old = old,
                          !.snapshot = IF old # None THEN wr[old].snapshot
                                       ELSE [hash |-> e.hash, pdel |-> e.pdel, existed |-> TRUE]]]
      PROVE  HubInv'
  <2> DEFINE sn == IF old # None THEN wr[old].snapshot
                   ELSE [hash |-> e.hash, pdel |-> e.pdel, existed |-> TRUE]
  <2>1. /\ req'[r] = [req[r] EXCEPT !.op = "setup", !.old = old, !.snapshot = sn]
        /\ \A s \in Req \ {r} : req'[s] = req[s]
    BY <1>4, Ranges
  <2> HIDE DEF sn
  <2>2. req'[r].op = "setup" /\ req'[r].job = req[r].job /\ req'[r].to = req[r].to
    BY <1>0, <2>1 DEF Fields
  <2>3. StatesStay /\ \A h \in Handle : Steady(h)
    BY <1>1 DEF StatesStay, Steady
  <2> QED
    BY <1>1, <1>2, <2>1, <2>2, <2>3, RestStep DEF Resting
<1> QED
    BY <1>3, <1>4 DEF OpenLock

\* flush() begins.
LEMMA FlushHub ==
    ASSUME IInv, HubInv, faults = 0, NEW r \in Req, NEW h \in Handle, NEW dup \in BOOLEAN,
           Flush(r, h, dup)
    PROVE  HubInv'
<1> DEFINE p == [Idle EXCEPT !.op = "defer", !.ino = wr[h].ino, !.fh = h]
           q == [Idle EXCEPT !.op = "commit", !.ino = wr[h].ino, !.fh = h, !.job = "flush"]
<1>1. p.op = "defer" /\ p.job = "none" /\ q.op = "commit" /\ q.job = "flush"
    BY RequestFields DEF Fields
<1>2. /\ req' = [req EXCEPT ![r] = p] \/ req' = [req EXCEPT ![r] = q]
      /\ UNCHANGED <<table, remote, faults, wr>> /\ req[r] = Idle
    BY DEF Flush, hvars
<1> HIDE DEF p, q
<1>3. req'[r] \in {p, q} /\ \A s \in Req \ {r} : req'[s] = req[s]
    BY <1>2, Ranges
<1>4. StatesStay /\ \A g \in Handle : Steady(g)
    BY <1>2 DEF StatesStay, Steady
<1>5. req'[r].op \in {"defer", "commit"} /\ req'[r].job # "link"
    BY <1>1, <1>3
<1> QED
    BY <1>2, <1>3, <1>4, <1>5, IdleOk, RestStep DEF Resting

\* What an application writes changes nothing here.
LEMMA WriteHub ==
    ASSUME IInv, HubInv, faults = 0, NEW h \in Handle, NEW c \in Content, Write(h, c)
    PROVE  HubInv'
<1> DEFINE w == [wr[h] EXCEPT !.data = c]
<1>1. /\ w \in Writer /\ w.ino = wr[h].ino /\ w.gen = wr[h].gen /\ w.held = wr[h].held
      /\ w.worker = wr[h].worker /\ w.info = wr[h].info /\ w.state = wr[h].state
    BY Ranges DEF Writer
<1>2. wr' = [wr EXCEPT ![h] = w] /\ UNCHANGED <<table, remote, faults, req>>
    BY Ranges DEF Write
<1> HIDE DEF w
<1>3. \A g \in Handle : Steady(g)
    BY <1>1, <1>2, SteadyOne DEF Terminal
<1>4. StatesStay
    BY WriteStep
<1> QED
    BY <1>2, <1>3, <1>4, StillStep

\* defer_commit() installs the hook.
LEMMA DeferHookHub ==
    ASSUME IInv, HubInv, faults = 0, NEW r \in Req, DeferHook(r)
    PROVE  HubInv'
<1>0. PICK h \in Handle : h = req[r].fh /\ wr[h] \in Writer /\ req[r].op = "defer"
    BY OwnWriter DEF DeferHook, WithWriter
<1> DEFINE w == [wr[h] EXCEPT !.hook = TRUE]
<1>1. /\ w \in Writer /\ w.ino = wr[h].ino /\ w.gen = wr[h].gen /\ w.held = wr[h].held
      /\ w.worker = wr[h].worker /\ w.info = wr[h].info /\ w.state = wr[h].state
    BY <1>0 DEF Writer
<1>2. wr' = [wr EXCEPT ![h] = w] /\ UNCHANGED <<table, remote, faults>> /\ Step(r, "deferred")
    BY <1>0, Ranges DEF DeferHook, hvars
<1> HIDE DEF w
<1>3. \A g \in Handle : Steady(g)
    BY <1>1, <1>2, SteadyOne DEF Terminal
<1>4. StatesStay
    BY DeferHookStep
<1>5. /\ req'[r].op = "deferred" /\ req'[r].job = req[r].job /\ req'[r].to = req[r].to
      /\ \A s \in Req \ {r} : req'[s] = req[s]
    BY <1>2, StepMoves
<1> QED
    BY <1>0, <1>2, <1>3, <1>4, <1>5, RestStep DEF Resting

\* A request whose writer is terminal goes on to drop it.
LEMMA DropsHub ==
    ASSUME IInv, HubInv, faults = 0, StatesStay, UNCHANGED <<table, remote, faults>>,
           \A g \in Handle : Steady(g), NEW r \in Req, req[r].op \in {"closing", "close"},
           Terminal(wr[req[r].fh]), Step(r, "drop")
    PROVE  HubInv'
<1>1. /\ req'[r].op = "drop" /\ req'[r].job = req[r].job /\ req'[r].to = req[r].to
      /\ req'[r].fh = req[r].fh /\ \A s \in Req \ {r} : req'[s] = req[s]
    BY StepMoves
<1>2. req[r].fh \in Handle
    BY OwnWriter DEF WithWriter
<1>3. Terminal(wr'[req[r].fh])
    BY <1>2 DEF StatesStay, Terminal
<1>4. RequestIs(req[r])
    BY DEF HubInv
<1>5. RequestIs(req[r])'
    BY <1>1, <1>3, <1>4 DEF RequestIs, Changing, LookupChild
<1>6. InDir(req'[r]) => InDir(req[r])
    BY <1>1 DEF InDir
<1> QED
    BY <1>1, <1>5, <1>6, SteadyStep

\* What a driver goes on with.
LEMMA DoneFields ==
    ASSUME NEW q \in Fields, q.job \in {"flush", "link", "release"}
    PROVE  /\ Done(q).op \in {"idle", "source", "drop"}
           /\ Done(q).op = "drop" => Done(q).fh = q.fh
           /\ Done(q).op = "source" => Done(q).job = "link"
           /\ Done(q).job = "link" => q.job = "link" /\ Done(q).to = q.to
<1>1. CASE q.job = "flush"
    BY <1>1, IdleOk, RequestFields DEF Done
<1>2. CASE q.job = "link"
  <2>1. Done(q) = [q EXCEPT !.op = "source"]
    BY <1>2 DEF Done
  <2> QED
    BY <1>2, <2>1 DEF Fields
<1>3. CASE q.job = "release"
  <2>1. Done(q) = [q EXCEPT !.op = "drop"]
    BY <1>3 DEF Done
  <2> QED
    BY <1>3, <2>1 DEF Fields
<1> QED
    BY <1>1, <1>2, <1>3

\* defer_commit() is done.
LEMMA DeferDoneHub ==
    ASSUME IInv, HubInv, faults = 0, NEW r \in Req, DeferDone(r)
    PROVE  HubInv'
<1>0. PICK h \in Handle : h = req[r].fh /\ wr[h] \in Writer /\ req[r].op = "deferred"
    BY OwnWriter DEF DeferDone, WithWriter
<1> DEFINE w == [wr[h] EXCEPT !.hook = FALSE]
           x == [wr[h] EXCEPT !.state = IF @ = "writing" THEN "deferred" ELSE @]
<1>1. /\ w \in Writer /\ w.ino = wr[h].ino /\ w.gen = wr[h].gen /\ w.held = wr[h].held
      /\ w.worker = wr[h].worker /\ w.info = wr[h].info /\ w.state = wr[h].state
    BY <1>0 DEF Writer
<1>2. /\ x \in Writer /\ x.ino = wr[h].ino /\ x.gen = wr[h].gen /\ x.held = wr[h].held
      /\ x.worker = wr[h].worker /\ x.info = wr[h].info
      /\ Terminal(x) => Terminal(wr[h])
    BY <1>0 DEF Writer, State, Terminal
<1>3. /\ wr' = [wr EXCEPT ![h] = w] \/ wr' = [wr EXCEPT ![h] = x]
      /\ UNCHANGED <<table, remote, faults>> /\ Finish(r)
    BY <1>0, Ranges DEF DeferDone, hvars
<1> HIDE DEF w, x
<1>4. \A g \in Handle : Steady(g)
  <2>1. CASE wr' = [wr EXCEPT ![h] = w]
    BY <1>1, <2>1, SteadyOne DEF Terminal
  <2>2. CASE wr' = [wr EXCEPT ![h] = x]
    BY <1>2, <2>2, SteadyOne
  <2> QED
    BY <1>3, <2>1, <2>2
<1>5. StatesStay
    BY DeferDoneStep
<1>6. /\ req'[r].op = "idle" /\ req'[r].job = "none"
      /\ \A s \in Req \ {r} : req'[s] = req[s]
    BY <1>3, IdleOk, RequestFields, PutReq DEF Finish
<1> QED
    BY <1>0, <1>3, <1>4, <1>5, <1>6, RestStep DEF Resting

\* release() begins: a terminal writer is only dropped.
LEMMA ReleaseHub ==
    ASSUME IInv, HubInv, faults = 0, NEW r \in Req, NEW h \in Handle, Release(r, h)
    PROVE  HubInv'
<1> DEFINE w == [wr[h] EXCEPT !.open = FALSE, !.hook = @ \/ ~Terminal(wr[h])]
           q == [Idle EXCEPT !.op = IF Terminal(wr[h]) THEN "drop" ELSE "closing",
                             !.ino = wr[h].ino, !.fh = h, !.job = "release"]
<1>0. wr[h] \in Writer
    BY Ranges
<1>1. /\ w \in Writer /\ w.ino = wr[h].ino /\ w.gen = wr[h].gen /\ w.held = wr[h].held
      /\ w.worker = wr[h].worker /\ w.info = wr[h].info /\ w.state = wr[h].state
    BY <1>0 DEF Writer
<1>2. q.op \in {"drop", "closing"} /\ q.job = "release" /\ q.fh = h /\ (q.op = "drop" => Terminal(wr[h]))
    BY RequestFields DEF Fields
<1>3. wr' = [wr EXCEPT ![h] = w] /\ UNCHANGED <<table, remote, faults>> /\ req[r] = Idle
    BY Ranges DEF Release, hvars
<1>4. req' = [req EXCEPT ![r] = q]
    BY DEF Release
<1> HIDE DEF w, q
<1>5. \A g \in Handle : Steady(g)
    BY <1>1, <1>3, SteadyOne DEF Terminal
<1>6. StatesStay /\ wr'[h].state = wr[h].state
    BY <1>1, <1>3, ReleaseStep, Ranges
<1>7. req'[r] = q /\ \A s \in Req \ {r} : req'[s] = req[s]
    BY <1>4, Ranges
<1>8. RequestIs(req[r])'
    BY <1>2, <1>6, <1>7 DEF RequestIs, Changing, Terminal
<1>9. ~InDir(req'[r])
    BY <1>2, <1>7 DEF InDir
<1> QED
    BY <1>3, <1>5, <1>6, <1>7, <1>8, <1>9, IdleOk, SteadyStep

\* release() finds the writer terminal, or goes on to its commit.
LEMMA ReleaseCheckHub ==
    ASSUME IInv, HubInv, faults = 0, NEW r \in Req, ReleaseCheck(r)
    PROVE  HubInv'
<1>0. PICK h \in Handle : h = req[r].fh /\ wr[h] \in Writer /\ req[r].op = "closing"
    BY OwnWriter DEF ReleaseCheck, WithWriter
<1> DEFINE w == [wr[h] EXCEPT !.hook = FALSE]
<1>1. /\ w \in Writer /\ w.ino = wr[h].ino /\ w.gen = wr[h].gen /\ w.held = wr[h].held
      /\ w.worker = wr[h].worker /\ w.info = wr[h].info /\ w.state = wr[h].state
    BY <1>0 DEF Writer
<1>2. /\ UNCHANGED <<table, remote, faults>>
      /\ \/ Terminal(wr[h]) /\ wr' = [wr EXCEPT ![h] = w] /\ Step(r, "drop")
         \/ wr' = wr /\ Step(r, "close")
    BY <1>0, Ranges DEF ReleaseCheck, hvars
<1> HIDE DEF w
<1>3. StatesStay
    BY ReleaseCheckStep
<1>4. CASE wr' = wr /\ Step(r, "close")
  <2>1. \A g \in Handle : Steady(g)
    BY <1>4 DEF Steady
  <2>2. /\ req'[r].op = "close" /\ req'[r].job = req[r].job /\ req'[r].to = req[r].to
        /\ \A s \in Req \ {r} : req'[s] = req[s]
    BY <1>4, StepMoves
  <2> QED
    BY <1>0, <1>2, <1>3, <2>1, <2>2, RestStep DEF Resting
<1>5. CASE Terminal(wr[h]) /\ wr' = [wr EXCEPT ![h] = w] /\ Step(r, "drop")
  <2>1. \A g \in Handle : Steady(g)
    BY <1>1, <1>5, SteadyOne DEF Terminal
  <2> QED
    BY <1>0, <1>2, <1>3, <1>5, <2>1, DropsHub
<1> QED
    BY <1>2, <1>4, <1>5

\* commit_streaming_now() and release(), when there is nothing to commit any more.
LEMMA DoneHub ==
    ASSUME IInv, HubInv, faults = 0, StatesStay, UNCHANGED <<table, remote, faults>>,
           \A g \in Handle : Steady(g), NEW r \in Req, req[r].op = "commit",
           Terminal(wr[req[r].fh]), req' = [req EXCEPT ![r] = Done(req[r])]
    PROVE  HubInv'
<1>1. req'[r] = Done(req[r]) /\ \A s \in Req \ {r} : req'[s] = req[s]
    BY Ranges
<1>2. /\ req[r].fh \in Handle /\ req[r].job \in {"flush", "link", "release"} /\ req[r] \in Fields
    BY OwnWriter DEF WithWriter, Refers, Driving
<1>3. Terminal(wr'[req[r].fh])
    BY <1>2 DEF StatesStay, Terminal
<1>4. /\ req'[r].op \in {"idle", "source", "drop"}
      /\ req'[r].op = "drop" => req'[r].fh = req[r].fh
      /\ req'[r].op = "source" => req'[r].job = "link"
      /\ req'[r].job = "link" => req[r].job = "link" /\ req'[r].to = req[r].to
    BY <1>1, <1>2, DoneFields
<1>5. CASE req'[r].op = "idle"
    BY <1>1, <1>4, <1>5, RestStep DEF Resting
<1>6. CASE req'[r].op \in {"source", "drop"}
  <2>1. RequestIs(req[r])
    BY DEF HubInv
  <2>2. RequestIs(req[r])'
    BY <1>3, <1>4, <1>6, <2>1 DEF RequestIs, Changing, LookupChild
  <2>3. InDir(req'[r]) => InDir(req[r])
    BY <1>4, <1>6 DEF InDir
  <2> QED
    BY <1>1, <2>2, <2>3, SteadyStep
<1> QED
    BY <1>4, <1>5, <1>6

\* commit_streaming_now() and release() begin the upload: the worker runs.
LEMMA StartHub ==
    ASSUME IInv, HubInv, faults = 0, StatesStay, NEW r \in Req, req[r].op \in {"commit", "close"},
           ~Terminal(wr[req[r].fh]), lock[req[r].ino] = None, ~SkipCommit(req[r].fh), StartCommit(r),
           UNCHANGED <<table, remote, faults>>
    PROVE  HubInv'
<1>0. PICK i \in Ino, h \in Handle : /\ i = req[r].ino /\ h = req[r].fh /\ wr[h] \in Writer
                                     /\ wr[h].ino = i /\ req[r] \in Fields /\ i # None
    BY OwnWriter DEF WithWriter
<1> DEFINE w == [wr[h] EXCEPT !.state = "committing", !.hook = TRUE]
           c == IF wr[h].info # None THEN wr[h].info ELSE wr[h].data
<1>1. /\ w \in Writer /\ w.ino = wr[h].ino /\ w.gen = wr[h].gen /\ w.held = wr[h].held
      /\ w.worker = wr[h].worker /\ w.info = wr[h].info /\ ~Terminal(w)
    BY <1>0 DEF Writer, State, Terminal
<1>2. /\ wr' = [wr EXCEPT ![h] = w]
      /\ req' = [req EXCEPT ![r] = [req[r] EXCEPT !.op = "upload", !.hash = c]]
    BY <1>0, Ranges DEF StartCommit
<1> HIDE DEF w, c
<1>3. \A g \in Handle : Steady(g)
    BY <1>1, <1>2, SteadyOne
<1>4. /\ req'[r] = [req[r] EXCEPT !.op = "upload", !.hash = c]
      /\ \A s \in Req \ {r} : req'[s] = req[s]
    BY <1>2, Ranges
<1>5. /\ req'[r].op = "upload" /\ req'[r].job = req[r].job /\ req'[r].to = req[r].to
      /\ req'[r].ino = i /\ req'[r].fh = h
    BY <1>0, <1>4 DEF Fields
<1>6. table[i].named
  <2>1. table[i].nlink \in {0, 1}
    BY Ranges DEF Entry
  <2>2. table[i].nlink > 0
    BY <1>0, <2>1 DEF SkipCommit
  <2> QED
    BY <2>2 DEF HubInv, EntryIs
<1>7. wr'[h].worker = "running"
  <2>1. ASSUME NEW s \in Req, req[s].fh = h, req[s].op \in {"send", "hub", "apply"} PROVE FALSE
    <3>1. lock[req[s].ino] = s /\ wr[h].ino = req[s].ino
      BY <2>1, OwnWriter DEF WithWriter, Holds, Holding
    <3> QED
      BY <1>0, <3>1, ValueAssumption
  <2>2. WorkerIs(h)
    BY DEF HubInv
  <2>3. wr[h].worker = "running"
    BY <1>0, <2>1, <2>2 DEF WorkerIs
  <2> QED
    BY <1>3, <2>3 DEF Steady
<1>8. RequestIs(req[r])'
  <2>1. RequestIs(req[r])
    BY DEF HubInv
  <2> QED
    BY <1>5, <1>6, <1>7, <2>1 DEF RequestIs, Changing, LookupChild
<1>9. InDir(req'[r]) => InDir(req[r])
    BY <1>5 DEF InDir
<1> QED
    BY <1>3, <1>4, <1>8, <1>9, SteadyStep

\* A writer ends: it did not own the dirty bytes, or they are clean by now.
LEMMA EndedHub ==
    ASSUME IInv, HubInv, faults = 0, StatesStay, UNCHANGED <<remote, faults>>, NamesStay,
           NEW r \in Req, NEW i \in Ino, NEW h \in Handle, i = req[r].ino, h = req[r].fh,
           req[r].op \in {"commit", "close", "apply"}, NEW w \in Writer,
           wr' = [wr EXCEPT ![h] = w], w.ino = wr[h].ino, Terminal(w), w.worker = wr[h].worker,
           req' = [req EXCEPT ![r] = Done(req[r])],
           \A j \in Ino \ {i} : table'[j] = table[j], EntryIs(i)', SyncedIs(i)'
    PROVE  HubInv'
<1>1. wr'[h] = w /\ \A g \in Handle \ {h} : wr'[g] = wr[g]
    BY PutWriter
<1>2. req'[r] = Done(req[r]) /\ \A s \in Req \ {r} : req'[s] = req[s]
    BY Ranges
<1>3. /\ wr[h].ino = i /\ req[r].job \in {"flush", "link", "release"} /\ req[r] \in Fields
      /\ req[r] \in Request
    BY OwnWriter DEF WithWriter, Refers, Driving, Sending
<1>4. /\ req'[r].op \in {"idle", "source", "drop"}
      /\ req'[r].op = "drop" => req'[r].fh = h
      /\ req'[r].op = "source" => req'[r].job = "link"
      /\ req'[r].job = "link" => req[r].job = "link" /\ req'[r].to = req[r].to
    BY <1>2, <1>3, DoneFields
<1>5. \A j \in Ino : EntryIs(j)'
  <2> SUFFICES ASSUME NEW j \in Ino \ {i} PROVE EntryIs(j)'
    OBVIOUS
  <2>1. \A g \in Handle : wr[g].ino = j => wr'[g] = wr[g]
    BY <1>1, <1>3
  <2> QED
    BY <2>1, EntryStays
<1>6. \A j \in Ino : SyncedIs(j)'
  <2> SUFFICES ASSUME NEW j \in Ino \ {i} PROVE SyncedIs(j)'
    OBVIOUS
  <2>1. SyncedIs(j) /\ table'[j] = table[j]
    BY DEF HubInv
  <2>2. \A s \in Req : req[s].op = "unname" => req'[s] = req[s]
    BY <1>2
  <2> QED
    BY <2>1, <2>2 DEF SyncedIs
<1>7. \A j, k \in Ino : OneName(j, k)'
    BY DEF HubInv, OneName, NamesStay
<1>8. \A s \in Req : RequestIs(req[s])'
  <2>1. ASSUME NEW s \in Req \ {r} PROVE RequestIs(req[s])'
    <3>1. req[s].op = "upload" => req[s].fh \in Handle
      BY OwnWriter DEF WithWriter
    <3>2. req[s].op \in Changing => req[s].ino \in Ino /\ table[req[s].ino].named
      BY Ranges, RequestFields DEF HubInv, RequestIs, Changing
    <3> QED
      BY <1>1, <1>2, <3>1, <3>2, OthersAre DEF NamesStay
  <2>2. RequestIs(req[r])'
    <3>1. RequestIs(req[r]) /\ (req[r].job = "link" => req[r].to \in Path)
      BY <1>3, RequestFields DEF HubInv
    <3>2. PICK to : to = req[r].to
      OBVIOUS
    <3>3. req[r].job = "link" => LookupChild(to)' = {}
      BY <3>1, <3>2, SameNames DEF RequestIs
    <3>4. req'[r].job = "link" => LookupChild(req[r].to)' = {}
      BY <1>4, <3>2, <3>3
    <3> QED
      BY <1>1, <1>4, <3>4 DEF RequestIs, Changing
  <2> QED
    BY <2>1, <2>2
<1>9. \A s, t \in Req : OneInDir(s, t)'
  <2>1. InDir(req'[r]) => InDir(req[r])
    BY <1>4 DEF InDir
  <2> QED
    BY <1>2, <2>1, DirStays
<1>10. \A g \in Handle : WorkerIs(g)'
  <2> SUFFICES ASSUME NEW g \in Handle PROVE WorkerIs(g)'
    OBVIOUS
  <2>1. WorkerIs(g)
    BY DEF HubInv
  <2>2. \A s \in Req : req[s].fh = g /\ g # h => req'[s] = req[s]
    BY <1>2
  <2> QED
    BY <1>1, <2>1, <2>2 DEF WorkerIs
<1>11. \A p \in Path : ShownIs(p)'
  <2> SUFFICES ASSUME NEW p \in Path PROVE ShownIs(p)'
    OBVIOUS
  <2>1. ShownIs(p) /\ LookupChild(p)' = LookupChild(p)
    BY SameNames DEF HubInv
  <2>2. \A s \in Req : req[s].op = "linked" => req'[s] = req[s]
    BY <1>2
  <2> QED
    BY <2>1, <2>2 DEF ShownIs
<1> QED
    BY <1>5, <1>6, <1>7, <1>8, <1>9, <1>10, <1>11 DEF HubInv

\* streaming_commit() skips an older writer, or one of an unlinked file.
LEMMA SkipHub ==
    ASSUME IInv, HubInv, faults = 0, StatesStay, NEW r \in Req, req[r].op \in {"commit", "close"},
           ~Terminal(wr[req[r].fh]), SkipCommit(req[r].fh), Committed(r),
           UNCHANGED <<table, remote, faults>>
    PROVE  HubInv'
<1>0. PICK i \in Ino, h \in Handle : /\ i = req[r].ino /\ h = req[r].fh /\ wr[h] \in Writer
                                     /\ wr[h].ino = i
    BY OwnWriter DEF WithWriter
<1> DEFINE w == [wr[h] EXCEPT !.state = "committed", !.hook = FALSE]
<1>1. w \in Writer /\ w.ino = wr[h].ino /\ w.worker = wr[h].worker /\ Terminal(w)
    BY <1>0 DEF Writer, State, Terminal
<1>2. wr' = [wr EXCEPT ![h] = w] /\ req' = [req EXCEPT ![r] = Done(req[r])]
    BY <1>0, Ranges DEF Committed
<1> HIDE DEF w
<1>3. wr'[h] = w /\ \A g \in Handle \ {h} : wr'[g] = wr[g]
    BY <1>1, <1>2, PutWriter
<1>4. ~table[i].named \/ wr[h].gen # table[i].gen
  <2>1. EntryIs(i)
    BY DEF HubInv
  <2> QED
    BY <1>0, <2>1 DEF EntryIs, SkipCommit, OwnsGeneration
<1>5. EntryIs(i)'
  <2>1. EntryIs(i)
    BY DEF HubInv
  <2>2. CASE ~table[i].named
    BY <2>1, <2>2 DEF EntryIs
  <2>3. CASE wr[h].gen # table[i].gen
    <3>1. \A g \in Handle : wr[g].gen = table[i].gen => wr'[g] = wr[g]
      BY <1>3, <2>3
    <3> QED
      BY <3>1, EntryStays
  <2> QED
    BY <1>4, <2>2, <2>3
<1>6. SyncedIs(i)'
  <2>1. SyncedIs(i)
    BY DEF HubInv
  <2>2. \A s \in Req : req[s].op = "unname" => req'[s] = req[s]
    BY <1>2, Ranges
  <2> QED
    BY <2>1, <2>2 DEF SyncedIs
<1>7. NamesStay
    BY DEF NamesStay, HubInv, EntryIs
<1> QED
    BY <1>0, <1>1, <1>2, <1>5, <1>6, <1>7, EndedHub

\* commit_streaming_now() takes the lock.
LEMMA CommitLockHub ==
    ASSUME IInv, HubInv, faults = 0, NEW r \in Req, CommitLock(r)
    PROVE  HubInv'
<1>1. req[r].op = "commit" /\ lock[req[r].ino] = None /\ UNCHANGED <<table, remote, faults>>
    BY DEF CommitLock, hvars
<1>2. StatesStay
    BY CommitLockStep
<1>3. CASE Finish(r) /\ UNCHANGED wr
    BY <1>1, <1>3, EndsQuiet
<1>4. CASE wr[req[r].fh].state = "committed" /\ req' = [req EXCEPT ![r] = Done(req[r])] /\ UNCHANGED wr
  <2>1. Terminal(wr[req[r].fh]) /\ \A g \in Handle : Steady(g)
    BY <1>4 DEF Terminal, Steady
  <2> QED
    BY <1>1, <1>2, <1>4, <2>1, DoneHub
<1>5. CASE ~Terminal(wr[req[r].fh]) /\ StartCommit(r)
  <2>1. CASE SkipCommit(req[r].fh)
    <3>1. Committed(r)
      BY <1>5, <2>1 DEF StartCommit
    <3> QED
      BY <1>1, <1>2, <1>5, <2>1, <3>1, SkipHub
  <2>2. CASE ~SkipCommit(req[r].fh)
    BY <1>1, <1>2, <1>5, <2>2, StartHub
  <2> QED
    BY <2>1, <2>2
<1> QED
    BY <1>3, <1>4, <1>5 DEF CommitLock, Terminal

\* release() takes the lock.
LEMMA ReleaseLockHub ==
    ASSUME IInv, HubInv, faults = 0, NEW r \in Req, ReleaseLock(r)
    PROVE  HubInv'
<1>1. req[r].op = "close" /\ lock[req[r].ino] = None /\ UNCHANGED <<table, remote, faults>>
    BY DEF ReleaseLock, hvars
<1>2. StatesStay
    BY ReleaseLockStep
<1>3. CASE Terminal(wr[req[r].fh]) /\ Step(r, "drop") /\ UNCHANGED wr
  <2>1. \A g \in Handle : Steady(g)
    BY <1>3 DEF Steady
  <2> QED
    BY <1>1, <1>2, <1>3, <2>1, DropsHub
<1>4. CASE ~Terminal(wr[req[r].fh]) /\ StartCommit(r)
  <2>1. CASE SkipCommit(req[r].fh)
    <3>1. Committed(r)
      BY <1>4, <2>1 DEF StartCommit
    <3> QED
      BY <1>1, <1>2, <1>4, <2>1, <3>1, SkipHub
  <2>2. CASE ~SkipCommit(req[r].fh)
    BY <1>1, <1>2, <1>4, <2>2, StartHub
  <2> QED
    BY <2>1, <2>2
<1> QED
    BY <1>3, <1>4 DEF ReleaseLock

\* The commit is applied: the file is clean, and the Hub has it.
LEMMA ApplyHub ==
    ASSUME IInv, HubInv, faults = 0, NEW r \in Req, Apply(r)
    PROVE  HubInv'
<1>0. PICK i \in Ino, h \in Handle : /\ i = req[r].ino /\ h = req[r].fh /\ wr[h] \in Writer
                                     /\ wr[h].ino = i /\ Holds(r)
    BY OwnWriter DEF WithWriter, Apply
<1> DEFINE w == [wr[h] EXCEPT !.state = "committed", !.hook = FALSE]
           e == [table[i] EXCEPT !.gen = 0, !.hash = req[r].hash, !.pdel = {}]
<1>1. w \in Writer /\ w.ino = wr[h].ino /\ w.worker = wr[h].worker /\ Terminal(w)
    BY <1>0 DEF Writer, State, Terminal
<1>2. /\ req[r].op = "apply" /\ req[r].hash \in Content /\ table[i] \in Entry /\ RequestIs(req[r])
      /\ EntryIs(i)
    BY Ranges, RequestFields DEF Apply, Hashed, HubInv
<1>3. table[i].named /\ table[i].here /\ wr[h].gen = table[i].gen /\ remote[table[i].path] = req[r].hash
    BY <1>0, <1>2 DEF RequestIs, Changing, EntryIs, Holds, Sending
<1>4. /\ wr' = [wr EXCEPT ![h] = w] /\ req' = [req EXCEPT ![r] = Done(req[r])]
      /\ UNCHANGED <<remote, faults>> /\ table' = [table EXCEPT ![i] = e]
    BY <1>0, <1>3, Ranges DEF Apply, Committed, ApplyCommit
<1>5. /\ e.gen = 0 /\ e.hash = req[r].hash /\ e.pdel = {} /\ e.named = table[i].named
      /\ e.nlink = table[i].nlink /\ e.path = table[i].path /\ e.here = table[i].here
    BY <1>2 DEF Entry
<1> HIDE DEF w, e
<1>6. table'[i] = e /\ \A j \in Ino \ {i} : table'[j] = table[j]
    BY <1>4, Ranges
<1>7. EntryIs(i)'
  <2>1. /\ e.pdel = {} /\ (e.named <=> e.nlink > 0) /\ e.here /\ e.gen = 0 /\ e.hash # None
        /\ ~(e.gen > 0)
    BY <1>2, <1>3, <1>5, ValueAssumption DEF EntryIs
  <2> QED
    BY <1>6, <2>1 DEF EntryIs
<1>8. SyncedIs(i)'
    BY <1>3, <1>4, <1>5, <1>6 DEF SyncedIs
<1>9. NamesStay
    BY <1>3, <1>5, <1>6 DEF NamesStay, HubInv, EntryIs
<1>10. StatesStay
    BY ApplyStep
<1> QED
    BY <1>0, <1>1, <1>2, <1>4, <1>6, <1>7, <1>8, <1>9, <1>10, EndedHub

\* The Hub changes one path, which no request that has finished with it relies on.
LEMMA RemoteHub ==
    ASSUME IInv, HubInv, faults = 0, UNCHANGED <<table, wr, faults>>, NEW r \in Req,
           \A s \in Req \ {r} : req'[s] = req[s], RequestIs(req[r])', NEW p \in Path,
           \A x \in Path \ {p} : remote'[x] = remote[x],
           \A s \in Req \ {r} : /\ req[s].op \in {"apply", "unname"} => req[s].path # p
                                /\ req[s].op = "linked" => req[s].to # p,
           \A i \in Ino : table[i].named /\ table[i].path = p => SyncedIs(i)', ShownIs(p)',
           req[r].op \in {"hub", "linkadd", "undelete"},
           req[r].op = "hub" => req'[r].op = "apply" /\ req'[r].fh = req[r].fh,
           InDir(req'[r]) => InDir(req[r])
    PROVE  HubInv'
<1>0. NamesStay /\ StatesStay
    BY DEF NamesStay, HubInv, EntryIs, StatesStay
<1>1. \A i \in Ino : EntryIs(i)'
    BY EntryStays
<1>2. \A i \in Ino : SyncedIs(i)'
  <2> SUFFICES ASSUME NEW i \in Ino, ~(table[i].named /\ table[i].path = p) PROVE SyncedIs(i)'
    OBVIOUS
  <2>1. SyncedIs(i) /\ table[i].path \in Path
    BY Ranges DEF HubInv, Entry
  <2>2. \A s \in Req : req[s].op = "unname" => req'[s] = req[s]
    OBVIOUS
  <2> QED
    BY <2>1, <2>2 DEF SyncedIs
<1>3. \A i, j \in Ino : OneName(i, j)'
    BY DEF HubInv, OneName
<1>4. \A s \in Req : RequestIs(req[s])'
  <2>1. ASSUME NEW s \in Req \ {r} PROVE RequestIs(req[s])'
    <3>1. /\ req[s].op # "idle" => req[s].ino \in Ino
          /\ req[s].job = "link" => req[s].to \in Path
          /\ RequestIs(req[s])
      BY Ranges, RequestFields DEF HubInv
    <3>2. req[s].op \in Changing => table[req[s].ino].named
      BY <3>1 DEF RequestIs
    <3>3. req[s].op \in {"apply", "unname"} => req[s].path \in Path
      BY <3>1, Ranges DEF RequestIs, Entry
    <3>4. req[s].op = "linked" => req[s].to \in Path
      BY <3>1 DEF RequestIs
    <3> QED
      BY <1>0, <3>2, <3>3, <3>4, OthersAre
  <2> QED
    BY <2>1
<1>5. \A s, t \in Req : OneInDir(s, t)'
    BY DirStays
<1>6. \A h \in Handle : WorkerIs(h)'
  <2> SUFFICES ASSUME NEW h \in Handle PROVE WorkerIs(h)'
    OBVIOUS
  <2>1. WorkerIs(h)
    BY DEF HubInv
  <2>2. \A s \in Req : req[s].fh = h /\ req[s].op \in {"send", "hub", "apply"}
                        => req'[s].fh = h /\ req'[s].op \in {"send", "hub", "apply"}
    OBVIOUS
  <2> QED
    BY <2>1, <2>2 DEF WorkerIs
<1>7. \A x \in Path : ShownIs(x)'
  <2> SUFFICES ASSUME NEW x \in Path \ {p} PROVE ShownIs(x)'
    OBVIOUS
  <2>1. ShownIs(x) /\ LookupChild(x)' = LookupChild(x)
    BY <1>0, SameNames DEF HubInv
  <2>2. \A s \in Req : req[s].op = "linked" => req'[s] = req[s]
    OBVIOUS
  <2> QED
    BY <2>1, <2>2 DEF ShownIs
<1> QED
    BY <1>1, <1>2, <1>3, <1>4, <1>5, <1>6, <1>7 DEF HubInv

\* Two requests that hold a staging lock do not work on one inode.
LEMMA OneHolder ==
    ASSUME IInv, NEW r \in Req, NEW s \in Req, req[r].op \in Holding, req[s].op \in Holding,
           req[r].ino = req[s].ino
    PROVE  r = s
    BY DEF IInv, Holds

\* The Hub has the commit: the path is the file's, and the file is dirty.
LEMMA HubCommitHub ==
    ASSUME IInv, HubInv, faults = 0, NEW r \in Req, HubCommit(r)
    PROVE  HubInv'
<1>0. PICK i \in Ino, h \in Handle : /\ i = req[r].ino /\ h = req[r].fh /\ wr[h] \in Writer
                                     /\ wr[h].ino = i /\ Holds(r) /\ WriterOk(h) /\ i # None
    BY OwnWriter DEF WithWriter, HubCommit
<1>1. /\ req[r].op = "hub" /\ RequestIs(req[r]) /\ EntryIs(i) /\ table[i] \in Entry
      /\ req[r].hash \in Content
    BY Ranges, RequestFields DEF HubCommit, HubInv, Hashed
<1>2. PICK p \in Path : /\ p = table[i].path /\ req[r].path = p /\ req[r].dels = {}
                        /\ table[i].named /\ table[i].here /\ table[i].gen > 0
  <2>1. /\ req[r].path = table[i].path /\ req[r].dels = {} /\ table[i].named /\ table[i].here
        /\ wr[h].gen = table[i].gen /\ wr[h].gen >= 1 /\ table[i].path \in Path /\ wr[h].gen \in Nat
    BY <1>0, <1>1 DEF RequestIs, Changing, EntryIs, Holds, Sending, WriterOk, Entry, Writer
  <2> QED
    BY <2>1
<1>3. /\ remote' = AfterCommit(req[r]) /\ Step(r, "apply") /\ UNCHANGED <<table, wr, faults>>
    BY DEF HubCommit, hvars
<1>4. remote'[p] = req[r].hash /\ \A x \in Path \ {p} : remote'[x] = remote[x]
    BY <1>2, <1>3 DEF AfterCommit
<1>5. /\ req'[r].op = "apply" /\ req'[r].job = req[r].job /\ req'[r].to = req[r].to
      /\ req'[r].ino = i /\ req'[r].fh = h /\ req'[r].hash = req[r].hash
      /\ req'[r].path = req[r].path /\ req'[r].dels = req[r].dels
      /\ \A s \in Req \ {r} : req'[s] = req[s]
    BY <1>0, <1>3, StepMoves
<1>6. RequestIs(req[r])'
    BY <1>1, <1>2, <1>3, <1>4, <1>5 DEF RequestIs, Changing, LookupChild
<1>7. ASSUME NEW s \in Req \ {r}
      PROVE  /\ req[s].op \in {"apply", "unname"} => req[s].path # p
             /\ req[s].op = "linked" => req[s].to # p
  <2>1. RequestIs(req[s]) /\ (req[s].op # "idle" => req[s].ino \in Ino)
    BY Ranges, RequestFields DEF HubInv
  <2>2. CASE req[s].op \in {"apply", "unname"}
    <3>1. /\ table[req[s].ino].named /\ req[s].path = table[req[s].ino].path /\ req[s].ino \in Ino
      BY <2>1, <2>2 DEF RequestIs, Changing
    <3>2. req[s].ino # i
      BY <1>0, <1>1, <2>2, OneHolder DEF Holding
    <3>3. OneName(req[s].ino, i)
      BY <3>1 DEF HubInv
    <3> QED
      BY <1>2, <2>2, <3>1, <3>2, <3>3 DEF OneName
  <2>3. CASE req[s].op = "linked"
    <3>1. LookupChild(req[s].to) = {}
      BY <2>1, <2>3 DEF RequestIs
    <3> QED
      BY <1>2, <2>3, <3>1 DEF LookupChild
  <2> QED
    BY <2>2, <2>3
<1>8. \A j \in Ino : table[j].named /\ table[j].path = p => SyncedIs(j)'
  <2>1. \A j \in Ino : table[j].named /\ table[j].path = p => j = i
    BY <1>2 DEF HubInv, OneName
  <2>2. table'[i].gen # 0
    BY <1>1, <1>2, <1>3 DEF Entry
  <2> QED
    BY <2>1, <2>2 DEF SyncedIs
<1>9. ShownIs(p)'
    BY <1>2, <1>3 DEF ShownIs, LookupChild
<1>10. InDir(req'[r]) => InDir(req[r])
    BY <1>5 DEF InDir
<1> QED
    BY <1>0, <1>1, <1>3, <1>4, <1>5, <1>6, <1>7, <1>8, <1>9, <1>10, RemoteHub

\* The Hub has the alias, whose name is free here.
LEMMA LinkAddHub ==
    ASSUME IInv, HubInv, faults = 0, faults' = 0, NEW r \in Req, LinkAdd(r)
    PROVE  HubInv'
<1>1. /\ req[r].op = "linkadd" /\ RequestIs(req[r]) /\ req[r].hash \in Content /\ req[r].to \in Path
    BY Ranges, RequestFields DEF LinkAdd, HubInv, Hashed, Moving
<1>2. PICK p \in Path : p = req[r].to
    BY <1>1
<1>3. /\ remote' = [remote EXCEPT ![p] = req[r].hash] /\ Step(r, "linked")
      /\ UNCHANGED <<table, wr, faults>>
  <2>1. ~Fault
    BY Ranges DEF Fault
  <2> QED
    BY <1>2, <2>1 DEF LinkAdd
<1>4. remote'[p] = req[r].hash /\ \A x \in Path \ {p} : remote'[x] = remote[x]
    BY <1>3, Ranges
<1>5. /\ req'[r].op = "linked" /\ req'[r].job = req[r].job /\ req'[r].to = p
      /\ req'[r].hash = req[r].hash /\ \A s \in Req \ {r} : req'[s] = req[s]
    BY <1>2, <1>3, StepMoves
<1>6. LookupChild(p) = {} /\ req[r].job = "link"
    BY <1>1, <1>2 DEF RequestIs
<1>7. RequestIs(req[r])'
    BY <1>3, <1>4, <1>5, <1>6 DEF RequestIs, Changing, LookupChild
<1>8. \A j \in Ino : ~(table[j].named /\ table[j].path = p)
    BY <1>6 DEF LookupChild, HubInv, EntryIs
<1>9. ASSUME NEW s \in Req \ {r}
      PROVE  /\ req[s].op \in {"apply", "unname"} => req[s].path # p
             /\ req[s].op = "linked" => req[s].to # p
  <2>1. RequestIs(req[s]) /\ (req[s].op # "idle" => req[s].ino \in Ino)
    BY Ranges, RequestFields DEF HubInv
  <2>2. req[s].op # "linked"
    BY <1>1 DEF HubInv, OneInDir, InDir
  <2> QED
    BY <1>8, <2>1, <2>2 DEF RequestIs, Changing
<1>10. ShownIs(p)'
    BY <1>5 DEF ShownIs
<1>11. InDir(req'[r]) => InDir(req[r])
    BY <1>6 DEF InDir
<1> QED
    BY <1>1, <1>3, <1>4, <1>5, <1>7, <1>8, <1>9, <1>10, <1>11, RemoteHub

\* The file of an unlink is gone from the Hub.
LEMMA UnlinkRemoteHub ==
    ASSUME IInv, HubInv, faults = 0, faults' = 0, NEW r \in Req, UnlinkRemote(r)
    PROVE  HubInv'
<1>1. /\ req[r].op = "undelete" /\ RequestIs(req[r]) /\ req[r].ino \in Ino
    BY Ranges, RequestFields DEF UnlinkRemote, HubInv
<1>2. PICK i \in Ino, p \in Path : i = req[r].ino /\ p = req[r].path /\ p = table[i].path /\ table[i].named
    BY <1>1, Ranges DEF RequestIs, Entry
<1>3. /\ remote' = [remote EXCEPT ![p] = None] /\ Step(r, "unname")
      /\ UNCHANGED <<table, wr, faults>>
  <2>1. ~Fault
    BY Ranges DEF Fault
  <2> QED
    BY <1>2, <2>1 DEF UnlinkRemote
<1>4. remote'[p] = None /\ \A x \in Path \ {p} : remote'[x] = remote[x]
    BY <1>3, Ranges
<1>5. /\ req'[r].op = "unname" /\ req'[r].job = req[r].job /\ req'[r].to = req[r].to
      /\ req'[r].ino = i /\ req'[r].path = p /\ \A s \in Req \ {r} : req'[s] = req[s]
    BY <1>2, <1>3, StepMoves
<1>6. RequestIs(req[r])'
    BY <1>1, <1>2, <1>3, <1>4, <1>5 DEF RequestIs, Changing, LookupChild
<1>7. \A j \in Ino : table[j].named /\ table[j].path = p => SyncedIs(j)'
  <2>1. \A j \in Ino : table[j].named /\ table[j].path = p => j = i
    BY <1>2 DEF HubInv, OneName
  <2> QED
    BY <1>5, <2>1 DEF SyncedIs
<1>8. ASSUME NEW s \in Req \ {r}
      PROVE  /\ req[s].op \in {"apply", "unname"} => req[s].path # p
             /\ req[s].op = "linked" => req[s].to # p
  <2>1. RequestIs(req[s]) /\ (req[s].op # "idle" => req[s].ino \in Ino)
    BY Ranges, RequestFields DEF HubInv
  <2>2. req[s].op \notin {"linked", "unname"}
    BY <1>1 DEF HubInv, OneInDir, InDir
  <2>3. CASE req[s].op = "apply"
    <3>1. /\ table[req[s].ino].named /\ req[s].path = table[req[s].ino].path /\ req[s].ino \in Ino
      BY <2>1, <2>3 DEF RequestIs, Changing
    <3>2. req[s].ino # i
      BY <1>1, <1>2, <2>3, OneHolder DEF Holding
    <3>3. OneName(req[s].ino, i)
      BY <3>1 DEF HubInv
    <3> QED
      BY <1>2, <2>3, <3>1, <3>2, <3>3 DEF OneName
  <2> QED
    BY <2>2, <2>3
<1>9. ShownIs(p)'
    BY <1>4 DEF ShownIs
<1>10. InDir(req'[r]) => InDir(req[r])
    BY <1>1 DEF InDir
<1> QED
    BY <1>1, <1>3, <1>4, <1>5, <1>6, <1>7, <1>8, <1>9, <1>10, RemoteHub

\* The upload is done: the worker is gone, and its commit has the file.
LEMMA UploadHub ==
    ASSUME IInv, HubInv, faults = 0, NEW r \in Req, Upload(r)
    PROVE  HubInv'
<1>0. PICK i \in Ino, h \in Handle : /\ i = req[r].ino /\ h = req[r].fh /\ wr[h] \in Writer
                                     /\ wr[h].ino = i /\ req[r].op = "upload"
    BY OwnWriter DEF WithWriter, Upload
<1> DEFINE w == [wr[h] EXCEPT !.info = None, !.worker = "done"]
<1>1. /\ w \in Writer /\ w.ino = wr[h].ino /\ w.gen = wr[h].gen /\ w.held = wr[h].held
      /\ w.info = None /\ w.state = wr[h].state
    BY <1>0 DEF Writer, Hash
<1>2. wr' = [wr EXCEPT ![h] = w] /\ Step(r, "send") /\ UNCHANGED <<table, remote, faults>>
    BY <1>0, Ranges DEF Upload, hvars
<1> HIDE DEF w
<1>3. wr'[h] = w /\ \A g \in Handle \ {h} : wr'[g] = wr[g]
    BY <1>1, <1>2, PutWriter
<1>4. /\ req'[r].op = "send" /\ req'[r].job = req[r].job /\ req'[r].to = req[r].to
      /\ req'[r].ino = i /\ req'[r].fh = h /\ \A s \in Req \ {r} : req'[s] = req[s]
    BY <1>0, <1>2, StepMoves
<1>5. StatesStay
    BY UploadStep
<1>6. NamesStay
    BY <1>2 DEF NamesStay, HubInv, EntryIs
<1>7. \A j \in Ino : EntryIs(j)'
  <2>1. \A g \in Handle : /\ wr'[g].ino = wr[g].ino /\ wr'[g].gen = wr[g].gen
                          /\ wr'[g].held = wr[g].held /\ wr'[g].state = wr[g].state
    BY <1>1, <1>3
  <2> QED
    BY <1>2, <2>1, EntryStays DEF Terminal
<1>8. \A j \in Ino : SyncedIs(j)'
  <2>1. \A j \in Ino : SyncedIs(j)
    BY DEF HubInv
  <2>2. \A s \in Req : req[s].op = "unname" => req'[s] = req[s]
    BY <1>0, <1>4
  <2> QED
    BY <1>2, <2>1, <2>2 DEF SyncedIs
<1>9. \A j, k \in Ino : OneName(j, k)'
    BY <1>2 DEF HubInv, OneName
<1>10. \A s \in Req : RequestIs(req[s])'
  <2>1. ASSUME NEW s \in Req \ {r} PROVE RequestIs(req[s])'
    <3>1. req[s].op = "upload" => req[s].fh \in Handle /\ req[s].fh # h
      BY <1>0, OwnWriter, OneHolder DEF WithWriter, Holding
    <3>2. req[s].op \in Changing => table[req[s].ino].named
      BY DEF HubInv, RequestIs
    <3> QED
      BY <1>2, <1>3, <1>4, <1>5, <1>6, <3>1, <3>2, OthersAre
  <2>2. RequestIs(req[r])
    BY DEF HubInv
  <2>3. RequestIs(req[r])'
    BY <1>0, <1>2, <1>4, <2>2 DEF RequestIs, Changing, LookupChild
  <2> QED
    BY <2>1, <2>3
<1>11. \A s, t \in Req : OneInDir(s, t)'
  <2>1. InDir(req'[r]) => InDir(req[r])
    BY <1>4 DEF InDir
  <2> QED
    BY <1>4, <2>1, DirStays
<1>12. \A g \in Handle : WorkerIs(g)'
  <2> SUFFICES ASSUME NEW g \in Handle PROVE WorkerIs(g)'
    OBVIOUS
  <2>1. WorkerIs(g)
    BY DEF HubInv
  <2>2. \A s \in Req : req[s].fh = g /\ g # h => req'[s] = req[s]
    BY <1>0, <1>4
  <2>3. CASE g = h
    BY <1>1, <1>3, <1>4, <2>3 DEF WorkerIs
  <2>4. CASE g # h
    BY <1>3, <2>1, <2>2, <2>4 DEF WorkerIs
  <2> QED
    BY <2>3, <2>4
<1>13. \A p \in Path : ShownIs(p)'
  <2> SUFFICES ASSUME NEW p \in Path PROVE ShownIs(p)'
    OBVIOUS
  <2>1. ShownIs(p) /\ LookupChild(p)' = LookupChild(p)
    BY <1>6, SameNames DEF HubInv
  <2>2. \A s \in Req : req[s].op = "linked" => req'[s] = req[s]
    BY <1>0, <1>4
  <2> QED
    BY <1>2, <2>1, <2>2 DEF ShownIs
<1> QED
    BY <1>7, <1>8, <1>9, <1>10, <1>11, <1>12, <1>13 DEF HubInv

\* A worker that runs does not fail without a fault.
LEMMA UploadFailHub ==
    ASSUME IInv, HubInv, faults = 0, faults' = 0, NEW r \in Req, UploadFail(r)
    PROVE  HubInv'
<1>1. wr[req[r].fh].worker = "running"
    BY DEF HubInv, RequestIs, UploadFail
<1>2. Fault
    BY <1>1 DEF UploadFail
<1> QED
    BY <1>2, Ranges DEF Fault

\* The path for the request to the Hub is that of the file.
LEMMA SendHub ==
    ASSUME IInv, HubInv, faults = 0, NEW r \in Req, Send(r)
    PROVE  HubInv'
<1>0. PICK i \in Ino, h \in Handle : /\ i = req[r].ino /\ h = req[r].fh /\ req[r] \in Fields
                                     /\ req[r].op = "send"
    BY OwnWriter DEF WithWriter, Send
<1>1. RequestIs(req[r]) /\ EntryIs(i) /\ table[i].named /\ table[i].here
    BY <1>0 DEF HubInv, RequestIs, EntryIs, Changing
<1>2. /\ req' = [req EXCEPT ![r].op = "hub", ![r].path = table[i].path, ![r].dels = table[i].pdel]
      /\ UNCHANGED <<table, wr, remote, faults>>
    BY <1>0, <1>1 DEF Send, hvars
<1>3. /\ req'[r] = [req[r] EXCEPT !.op = "hub", !.path = table[i].path, !.dels = table[i].pdel]
      /\ \A s \in Req \ {r} : req'[s] = req[s]
    BY <1>2, Ranges
<1>4. /\ req'[r].op = "hub" /\ req'[r].path = table[i].path /\ req'[r].dels = {}
      /\ req'[r].ino = i /\ req'[r].fh = h /\ req'[r].job = req[r].job /\ req'[r].to = req[r].to
    BY <1>0, <1>1, <1>3 DEF Fields, EntryIs
<1>5. RequestIs(req[r])'
    BY <1>1, <1>2, <1>4 DEF RequestIs, Changing, LookupChild
<1>6. InDir(req'[r]) => InDir(req[r])
    BY <1>4 DEF InDir
<1>7. StatesStay /\ \A g \in Handle : Steady(g)
    BY <1>2 DEF StatesStay, Steady
<1> QED
    BY <1>0, <1>2, <1>3, <1>4, <1>5, <1>6, <1>7, SteadyStep

\* link() begins with the directory its own and the name free.
LEMMA LinkHub ==
    ASSUME IInv, HubInv, faults = 0, NEW r \in Req, NEW i \in Ino, NEW to \in Path, Link(r, i, to)
    PROVE  HubInv'
<1>1. /\ \A s \in Req : ~InDir(req[s])
      /\ LookupChild(to) = {} /\ UNCHANGED <<table, wr, remote, faults>>
    BY FreeDir DEF Link
<1>2. StatesStay /\ \A g \in Handle : Steady(g)
    BY <1>1 DEF StatesStay, Steady
<1>3. ASSUME NEW q, q.op \in {"linkadd", "commit"}, q.job = "link", q.to = to, Begin(r, q)
      PROVE  HubInv'
  <2>1. req[r] = Idle /\ req'[r] = q /\ \A s \in Req \ {r} : req'[s] = req[s]
    BY <1>3, Ranges DEF Begin
  <2>2. RequestIs(req[r])'
    BY <1>1, <1>3, <2>1 DEF RequestIs, Changing, LookupChild
  <2> QED
    BY <1>1, <1>2, <2>1, <2>2, IdleOk, SteadyStep
<1> DEFINE a == [Idle EXCEPT !.op = "linkadd", !.job = "link", !.ino = i, !.to = to,
                             !.hash = table[i].hash]
           b(h) == [Idle EXCEPT !.op = "commit", !.job = "link", !.ino = i, !.fh = h, !.to = to]
<1>4. a.op = "linkadd" /\ a.job = "link" /\ a.to = to
    BY RequestFields DEF Fields
<1>5. \A h \in Handle : b(h).op = "commit" /\ b(h).job = "link" /\ b(h).to = to
    BY RequestFields DEF Fields
<1>6. Begin(r, a) \/ \E h \in Handle : Begin(r, b(h))
    BY DEF Link, Active
<1> HIDE DEF a, b
<1>7. CASE Begin(r, a)
    BY <1>3, <1>4, <1>7
<1>8. ASSUME NEW h \in Handle, Begin(r, b(h)) PROVE HubInv'
    BY <1>3, <1>5, <1>8
<1> QED
    BY <1>6, <1>7, <1>8

\* link() reads the source again.
LEMMA LinkAgainHub ==
    ASSUME IInv, HubInv, faults = 0, NEW r \in Req, LinkAgain(r)
    PROVE  HubInv'
<1>1. /\ req[r].op = "source" /\ UNCHANGED <<table, wr, remote, faults>> /\ req[r] \in Fields
      /\ RequestIs(req[r])
    BY Ranges, RequestFields DEF LinkAgain, hvars, HubInv
<1>2. CASE Finish(r)
    BY <1>1, <1>2, EndsQuiet
<1>3. CASE req' = [req EXCEPT ![r] = [req[r] EXCEPT !.op = "linkadd", !.fh = None,
                                                    !.hash = table[req[r].ino].hash]]
  <2>1. /\ req'[r] = [req[r] EXCEPT !.op = "linkadd", !.fh = None, !.hash = table[req[r].ino].hash]
        /\ \A s \in Req \ {r} : req'[s] = req[s]
    BY <1>3, Ranges
  <2>2. req'[r].op = "linkadd" /\ req'[r].job = req[r].job /\ req'[r].to = req[r].to
    BY <1>1, <2>1 DEF Fields
  <2>3. StatesStay /\ \A g \in Handle : Steady(g)
    BY <1>1 DEF StatesStay, Steady
  <2>4. RequestIs(req[r])'
    BY <1>1, <2>2 DEF RequestIs, Changing, LookupChild
  <2>5. InDir(req'[r]) => InDir(req[r])
    BY <1>1 DEF RequestIs, InDir
  <2> QED
    BY <1>1, <2>1, <2>3, <2>4, <2>5, SteadyStep
<1> QED
    BY <1>2, <1>3 DEF LinkAgain

\* unlink() begins with the directory its own.
LEMMA UnlinkHub ==
    ASSUME IInv, HubInv, faults = 0, NEW r \in Req, NEW i \in Ino, Unlink(r, i)
    PROVE  HubInv'
<1> DEFINE q == [Idle EXCEPT !.op = "unlink", !.ino = i, !.path = table[i].path]
<1>1. q.op = "unlink" /\ q.job = "none"
    BY RequestFields DEF Fields
<1>2. /\ req[r] = Idle /\ req' = [req EXCEPT ![r] = q] /\ \A s \in Req : ~InDir(req[s])
      /\ UNCHANGED <<table, remote, faults, wr>>
    BY FreeDir DEF Unlink, Begin
<1> HIDE DEF q
<1>3. req'[r] = q /\ \A s \in Req \ {r} : req'[s] = req[s]
    BY <1>2, Ranges
<1>4. StatesStay /\ \A h \in Handle : Steady(h)
    BY <1>2 DEF StatesStay, Steady
<1> QED
    BY <1>1, <1>2, <1>3, <1>4, IdleOk, RestStep DEF Resting

\* unlink() takes the lock: a file it does not delete on the Hub has no commit there,
\* for a dirty file has open handles and is refused.
LEMMA UnlinkLockHub ==
    ASSUME IInv, HubInv, faults = 0, NEW r \in Req, UnlinkLock(r)
    PROVE  HubInv'
<1>0. PICK i \in Ino : i = req[r].ino /\ req[r] \in Fields /\ req[r].op = "unlink"
    BY Ranges, RequestFields DEF UnlinkLock
<1>1. UNCHANGED <<table, remote, faults, wr>>
    BY DEF UnlinkLock, hvars
<1>2. StatesStay /\ \A h \in Handle : Steady(h)
    BY <1>1 DEF StatesStay, Steady
<1> DEFINE owner == LookupChild(req[r].path)
<1>3. CASE Finish(r)
    BY <1>0, <1>1, <1>3, EndsQuiet
<1>4. ASSUME NEW j \in owner, req' = [req EXCEPT ![r].ino = j] PROVE HubInv'
  <2>1. req'[r] = [req[r] EXCEPT !.ino = j] /\ \A s \in Req \ {r} : req'[s] = req[s]
    BY <1>4, Ranges
  <2>2. req'[r].op = "unlink" /\ req'[r].job = req[r].job /\ req'[r].to = req[r].to
    BY <1>0, <2>1 DEF Fields
  <2>3. InDir(req[r])
    BY <1>0 DEF InDir
  <2> QED
    BY <1>0, <1>1, <1>2, <2>1, <2>2, <2>3, RestStep DEF Resting
<1>5. ASSUME i \in owner, ~(owner = {i} /\ Dirty(i) /\ HasOpenHandles(i)),
             Step(r, IF table[i].hash # None THEN "undelete" ELSE "unname")
      PROVE  HubInv'
  <2>1. table[i].named /\ table[i].path = req[r].path /\ table[i] \in Entry /\ EntryIs(i)
    BY <1>5, Ranges DEF LookupChild, HubInv
  <2>2. owner = {i}
    BY <1>5, <2>1 DEF LookupChild, HubInv, OneName
  <2>3. table[i].hash # None
    <3> SUFFICES ASSUME table[i].hash = None PROVE FALSE
      OBVIOUS
    <3>1. table[i].gen > 0
      BY <2>1 DEF EntryIs, Entry
    <3>2. HasOpenHandles(i)
      BY <2>1, <3>1 DEF EntryIs, HasOpenHandles
    <3> QED
      BY <1>5, <2>2, <3>1, <3>2 DEF Dirty
  <2>4. /\ req'[r].op = "undelete" /\ req'[r].job = req[r].job /\ req'[r].to = req[r].to
        /\ req'[r].ino = i /\ req'[r].path = req[r].path /\ \A s \in Req \ {r} : req'[s] = req[s]
    BY <1>0, <1>5, <2>3, StepMoves
  <2>5. RequestIs(req[r])
    BY DEF HubInv
  <2>6. RequestIs(req[r])'
    BY <1>1, <2>1, <2>4, <2>5 DEF RequestIs, Changing, LookupChild
  <2>7. InDir(req[r])
    BY <1>0 DEF InDir
  <2> QED
    BY <1>0, <1>1, <1>2, <2>4, <2>6, <2>7, SteadyStep
<1> HIDE DEF owner
<1> QED
    BY <1>0, <1>3, <1>4, <1>5 DEF UnlinkLock, owner

\* A request ends; names, the Hub and the workers are as before.
LEMMA KeepNames ==
    ASSUME IInv, HubInv, faults = 0, UNCHANGED <<remote, faults>>, NamesStay, StatesStay,
           NEW r \in Req, Finish(r), req[r].op \in {"setup", "drop"},
           \A j \in Ino : EntryIs(j)',
           \A j \in Ino : table'[j].named /\ table'[j].gen = 0 => table'[j] = table[j],
           \A h \in Handle : WorkerIs(h)',
           \A h \in Handle : wr[h].ino # None => wr'[h].worker = wr[h].worker
    PROVE  HubInv'
<1>1. /\ req'[r].op = "idle" /\ req'[r].job = "none"
      /\ \A s \in Req \ {r} : req'[s] = req[s]
    BY IdleOk, RequestFields, PutReq DEF Finish
<1>2. \A j \in Ino : SyncedIs(j)'
  <2>1. \A j \in Ino : SyncedIs(j)
    BY DEF HubInv
  <2>2. \A s \in Req : req[s].op = "unname" => req'[s] = req[s]
    BY <1>1
  <2> QED
    BY <2>1, <2>2 DEF SyncedIs
<1>3. \A j, k \in Ino : OneName(j, k)'
    BY DEF HubInv, OneName, NamesStay
<1>4. \A s \in Req : RequestIs(req[s])'
  <2>1. ASSUME NEW s \in Req \ {r} PROVE RequestIs(req[s])'
    <3>1. req[s].op = "upload" => req[s].fh \in Handle /\ wr[req[s].fh].ino # None
      BY OwnWriter DEF WithWriter
    <3>2. req[s].op \in Changing => req[s].ino \in Ino /\ table[req[s].ino].named
      BY Ranges, RequestFields DEF HubInv, RequestIs, Changing
    <3> QED
      BY <1>1, <3>1, <3>2, OthersAre DEF NamesStay
  <2>2. RequestIs(req[r])'
    BY <1>1 DEF RequestIs, Changing
  <2> QED
    BY <2>1, <2>2
<1>5. \A s, t \in Req : OneInDir(s, t)'
  <2>1. ~InDir(req'[r])
    BY <1>1 DEF InDir
  <2> QED
    BY <1>1, <2>1, DirStays
<1>6. \A p \in Path : ShownIs(p)'
  <2> SUFFICES ASSUME NEW p \in Path PROVE ShownIs(p)'
    OBVIOUS
  <2>1. ShownIs(p) /\ LookupChild(p)' = LookupChild(p)
    BY SameNames DEF HubInv
  <2>2. \A s \in Req : req[s].op = "linked" => req'[s] = req[s]
    BY <1>1
  <2> QED
    BY <2>1, <2>2 DEF ShownIs
<1> QED
    BY <1>2, <1>3, <1>4, <1>5, <1>6 DEF HubInv

\* release() drops a terminal writer, and an inode that has no name.
LEMMA DropHub ==
    ASSUME IInv, HubInv, faults = 0, NEW r \in Req, Drop(r)
    PROVE  HubInv'
<1>0. PICK i \in Ino, h \in Handle : /\ i = req[r].ino /\ h = req[r].fh /\ wr[h] \in Writer
                                     /\ wr[h].ino = i /\ req[r].op = "drop"
    BY OwnWriter DEF WithWriter, Drop
<1> DEFINE w == [wr[h] EXCEPT !.held = FALSE]
<1>1. /\ w \in Writer /\ w.ino = wr[h].ino /\ w.worker = wr[h].worker /\ w.state = wr[h].state
    BY <1>0 DEF Writer
<1>2. Terminal(wr[h]) /\ Terminal(w)
    BY <1>0, <1>1 DEF HubInv, RequestIs, Terminal
<1>3. /\ wr' = [wr EXCEPT ![h] = w] /\ Finish(r) /\ UNCHANGED <<remote, faults>>
      /\ \/ UNCHANGED table
         \/ table[i].nlink = 0 /\ table' = [table EXCEPT ![i] = NoEntry]
    BY <1>0, Ranges DEF Drop, hvars
<1> HIDE DEF w
<1>4. wr'[h] = w /\ \A g \in Handle \ {h} : wr'[g] = wr[g]
    BY <1>1, <1>3, PutWriter
<1>5. StatesStay
    BY DropStep
<1>6. \A j \in Ino : table'[j] = table[j] \/ (~table[j].named /\ table'[j] = NoEntry)
  <2>1. table[i].nlink = 0 => ~table[i].named
    BY DEF HubInv, EntryIs
  <2> QED
    BY <1>3, <2>1, Ranges
<1>7. ~NoEntry.named /\ NoEntry.pdel = {} /\ NoEntry.nlink = 0
    BY DEF NoEntry
<1>8. \A j \in Ino : EntryIs(j)'
  <2> SUFFICES ASSUME NEW j \in Ino PROVE EntryIs(j)'
    OBVIOUS
  <2>1. CASE table'[j] = table[j]
    <3>1. \A g \in Handle : ~Terminal(wr[g]) => wr'[g] = wr[g]
      BY <1>2, <1>4
    <3> QED
      BY <2>1, <3>1, EntryStays
  <2>2. CASE table'[j] = NoEntry
    BY <1>7, <2>2 DEF EntryIs
  <2> QED
    BY <1>6, <2>1, <2>2
<1>9. NamesStay
  <2>1. \A j \in Ino : table[j].named \in BOOLEAN /\ NoEntry.named = FALSE
    BY Ranges DEF Entry, NoEntry
  <2>2. \A j \in Ino : table[j].named => table[j].here
    BY DEF HubInv, EntryIs
  <2> QED
    BY <1>6, <2>1, <2>2 DEF NamesStay
<1>10. \A j \in Ino : table'[j].named /\ table'[j].gen = 0 => table'[j] = table[j]
    BY <1>6, <1>7
<1>11. \A g \in Handle : WorkerIs(g)'
  <2> SUFFICES ASSUME NEW g \in Handle PROVE WorkerIs(g)'
    OBVIOUS
  <2>1. WorkerIs(g)
    BY DEF HubInv
  <2>2. \A s \in Req : req[s].op \in {"send", "hub", "apply"} => req'[s] = req[s]
    BY <1>0, <1>3, Ranges DEF Finish
  <2> QED
    BY <1>2, <1>4, <2>1, <2>2 DEF WorkerIs
<1>12. \A g \in Handle : wr'[g].worker = wr[g].worker
    BY <1>1, <1>4
<1> QED
    BY <1>0, <1>3, <1>5, <1>8, <1>9, <1>10, <1>11, <1>12, KeepNames

\* open() sets a writer up: the file is dirty with it, and the superseded one has ended.
LEMMA OpenDoneHub ==
    ASSUME IInv, HubInv, faults = 0, NEW r \in Req, OpenDone(r)
    PROVE  HubInv'
<1>0. /\ req[r] \in Request /\ req[r].op = "setup" /\ req[r].ino \in Ino
      /\ Refers(req[r]) /\ Holds(r) /\ req[r].old \in Handle \cup {None}
    BY Ranges DEF OpenDone, Request, IInv
<1>1. PICK i \in Ino, o \in Handle \cup {None}, h \in Handle :
        i = req[r].ino /\ o = req[r].old /\ h = AllocFileHandle /\ h \in NewHandles
    BY <1>0 DEF OpenDone, AllocFileHandle, NewHandles
<1> DEFINE e == table[i]
           gen == IF e.here THEN e.gen + 1 ELSE 0
           new == [NoWriter EXCEPT !.ino = i, !.open = TRUE, !.held = e.here,
                                   !.gen = gen, !.snapshot = req[r].snapshot]
           x == [wr[o] EXCEPT !.state = "failed", !.hook = FALSE]
<1>2. /\ None \notin Handle /\ None \notin Ino /\ wr[h].ino = None
      /\ o # None => o \in Handle /\ wr[o].ino = i /\ o # h /\ wr[o] \in Writer
  <2>1. wr[h].ino = None /\ (o # None => wr[o].ino = i)
    BY <1>0, <1>1 DEF NewHandles, Refers
  <2> QED
    BY <2>1, ValueAssumption, Ranges
<1>3. e \in Entry /\ e.gen \in Nat /\ e.here \in BOOLEAN /\ (e.here => gen = e.gen + 1 /\ gen > 0)
    BY Ranges DEF Entry
<1>4. /\ new.ino = i /\ new.gen = gen /\ new.held = e.here /\ new.info = None
      /\ new.worker = "running" /\ ~Terminal(new)
    BY DEF NoWriter, Terminal
<1> HIDE DEF gen
<1>5. o # None => x.ino = i /\ x.worker = wr[o].worker /\ Terminal(x)
    BY <1>2 DEF Writer, Terminal
<1> HIDE DEF new, x
<1>6. /\ wr'[h] = new
      /\ o # None => wr'[o] = x
      /\ \A g \in Handle \ {h, o} : wr'[g] = wr[g]
  <2>1. wr' = [(IF o = None THEN wr ELSE [wr EXCEPT ![o] = x]) EXCEPT ![h] = new]
    <3>1. o # None => [wr EXCEPT ![o].state = "failed", ![o].hook = FALSE] = [wr EXCEPT ![o] = x]
      BY <1>2, Ranges DEF x
    <3>2. wr' = [(IF o = None THEN wr ELSE [wr EXCEPT ![o].state = "failed", ![o].hook = FALSE])
                    EXCEPT ![h] = new]
      BY <1>1 DEF OpenDone, new, gen
    <3> QED
      BY <3>1, <3>2
  <2>2. CASE o = None
    BY <2>1, <2>2, Ranges
  <2>3. CASE o # None
    BY <1>2, <2>1, <2>3, Ranges
  <2> QED
    BY <2>2, <2>3
<1>7. /\ table' = IF e.here THEN [table EXCEPT ![i].gen = gen, ![i].hash = None] ELSE table
      /\ Finish(r) /\ UNCHANGED <<remote, faults>>
    BY <1>1 DEF OpenDone, gen
<1>8. /\ \A j \in Ino \ {i} : table'[j] = table[j]
      /\ ~e.here => table'[i] = table[i]
      /\ e.here => table'[i] = [table[i] EXCEPT !.gen = gen, !.hash = None]
    BY <1>7, Ranges
<1>9. e.here => /\ table'[i].gen = gen /\ table'[i].hash = None /\ table'[i].named = e.named
                /\ table'[i].path = e.path /\ table'[i].here = e.here /\ table'[i].nlink = e.nlink
                /\ table'[i].pdel = e.pdel
  <2>1. PICK d \in Entry : d = table[i]
    BY <1>3
  <2> DEFINE f == [d EXCEPT !.gen = gen, !.hash = None]
  <2>2. /\ f.gen = gen /\ f.hash = None /\ f.named = d.named /\ f.path = d.path
        /\ f.here = d.here /\ f.nlink = d.nlink /\ f.pdel = d.pdel
    BY DEF Entry
  <2>3. e.here => table'[i] = f
    BY <1>8, <2>1
  <2> HIDE DEF f
  <2> QED
    BY <2>1, <2>2, <2>3
<1>10. \A g \in Handle : wr[g].ino # None /\ wr[g].ino # i => wr'[g] = wr[g]
    BY <1>2, <1>6
<1>11. \A j \in Ino : EntryIs(j)'
  <2> SUFFICES ASSUME NEW j \in Ino PROVE EntryIs(j)'
    OBVIOUS
  <2>0. EntryIs(j)
    BY DEF HubInv
  <2>1. CASE j # i
    <3>1. \A g \in Handle : wr[g].ino = j => wr'[g] = wr[g]
      BY <1>2, <1>10, <2>1
    <3> QED
      BY <1>8, <2>1, <3>1, EntryStays
  <2>2. CASE j = i /\ ~e.here
    <3>1. ~table[i].named
      BY <2>0, <2>2 DEF EntryIs
    <3> QED
      BY <1>8, <2>0, <2>2, <3>1 DEF EntryIs
  <2>3. CASE j = i /\ e.here
    <3>1. /\ wr'[h].ino = i /\ wr'[h].gen = table'[i].gen /\ wr'[h].held /\ ~Terminal(wr'[h])
      BY <1>4, <1>6, <1>9, <2>3
    <3>2. /\ table'[i].pdel = {} /\ (table'[i].named <=> table'[i].nlink > 0)
          /\ table'[i].gen = gen /\ table'[i].hash = None /\ table'[i].here
      BY <1>9, <2>0, <2>3 DEF EntryIs
    <3>3. gen # 0
      BY <1>3, <2>3
    <3> QED
      BY <2>3, <3>1, <3>2, <3>3 DEF EntryIs
  <2> QED
    BY <2>1, <2>2, <2>3
<1>12. NamesStay
  <2>1. \A j \in Ino : table[j].named => table[j].here
    BY DEF HubInv, EntryIs
  <2> QED
    BY <1>8, <1>9, <2>1 DEF NamesStay
<1>13. \A j \in Ino : table'[j].named /\ table'[j].gen = 0 => table'[j] = table[j]
    BY <1>3, <1>8, <1>9
<1>14. \A g \in Handle : WorkerIs(g)'
  <2> SUFFICES ASSUME NEW g \in Handle PROVE WorkerIs(g)'
    OBVIOUS
  <2>1. WorkerIs(g)
    BY DEF HubInv
  <2>2. \A s \in Req : req[s].op \in {"send", "hub", "apply"} => req'[s] = req[s]
    BY <1>0, <1>7, Ranges DEF Finish
  <2>3. CASE g = h
    BY <1>4, <1>6, <2>3 DEF WorkerIs
  <2>4. CASE g = o
    BY <1>5, <1>6, <2>4, ValueAssumption DEF WorkerIs
  <2>5. CASE g \notin {h, o}
    BY <1>6, <2>1, <2>2, <2>5 DEF WorkerIs
  <2> QED
    BY <2>3, <2>4, <2>5
<1>15. \A g \in Handle : wr[g].ino # None => wr'[g].worker = wr[g].worker
    BY <1>2, <1>5, <1>6
<1>16. StatesStay
    BY OpenDoneStep
<1> QED
    BY <1>0, <1>7, <1>11, <1>12, <1>13, <1>14, <1>15, <1>16, KeepNames

\* A new file gets a free name.
LEMMA NewName ==
    ASSUME IInv, HubInv, faults = 0, NEW i \in Ino, i \notin used, NEW p \in Path,
           LookupChild(p) = {}, \A j \in Ino \ {i} : table'[j] = table[j],
           table'[i].named, table'[i].path = p, table'[i].here
    PROVE  /\ ~table[i].named
           /\ \A j, k \in Ino : OneName(j, k)'
           /\ i \in LookupChild(p)' /\ \A x \in Path : LookupChild(x) \subseteq LookupChild(x)'
<1>1. ~table[i].named /\ \A j \in Ino : table[j].named => table[j].here
    BY DEF IInv, InoOk, HubInv, EntryIs
<1>2. \A j \in Ino : ~(table[j].named /\ table[j].path = p)
    BY <1>1 DEF LookupChild
<1>3. \A j, k \in Ino : OneName(j, k)
    BY DEF HubInv
<1>4. \A j, k \in Ino : OneName(j, k)'
    BY <1>1, <1>2, <1>3 DEF OneName
<1>5. \A x \in Path : LookupChild(x) \subseteq LookupChild(x)'
    BY <1>1 DEF LookupChild
<1>6. i \in LookupChild(p)'
    BY DEF LookupChild
<1> QED
    BY <1>1, <1>4, <1>5, <1>6

\* create() makes a dirty file with its writer.
LEMMA CreateHub ==
    ASSUME IInv, HubInv, faults = 0, NEW p \in Path, NEW i \in Ino, Create(p, i)
    PROVE  HubInv'
<1>1. PICK h \in Handle : h = AllocFileHandle /\ wr[h].ino = None
    BY DEF Create, AllocFileHandle, NewHandles
<1> DEFINE e == [NoEntry EXCEPT !.here = TRUE, !.named = TRUE, !.nlink = 1, !.path = p, !.gen = 1]
           w == [NoWriter EXCEPT !.ino = i, !.open = TRUE, !.held = TRUE, !.gen = 1]
<1>2. /\ e.here /\ e.named /\ e.nlink = 1 /\ e.path = p /\ e.gen = 1 /\ e.hash = None /\ e.pdel = {}
    BY DEF NoEntry
<1>3. /\ w.ino = i /\ w.held /\ w.gen = 1 /\ w.info = None /\ w.worker = "running" /\ ~Terminal(w)
    BY DEF NoWriter, Terminal
<1>4. /\ table' = [table EXCEPT ![i] = e] /\ wr' = [wr EXCEPT ![h] = w]
      /\ UNCHANGED <<req, remote, faults>> /\ i \notin used /\ LookupChild(p) = {}
      /\ \A s \in Req : ~InDir(req[s])
    BY <1>1, FreeDir DEF Create
<1> HIDE DEF e, w
<1>5. /\ table'[i] = e /\ wr'[h] = w
      /\ \A j \in Ino \ {i} : table'[j] = table[j]
      /\ \A g \in Handle \ {h} : wr'[g] = wr[g]
    BY <1>4, Ranges
<1>6. /\ ~table[i].named
      /\ \A j, k \in Ino : OneName(j, k)'
      /\ i \in LookupChild(p)' /\ \A x \in Path : LookupChild(x) \subseteq LookupChild(x)'
    BY <1>2, <1>4, <1>5, NewName
<1>7. StatesStay
    BY CreateStep
<1>8. \A j \in Ino : EntryIs(j)'
  <2> SUFFICES ASSUME NEW j \in Ino PROVE EntryIs(j)'
    OBVIOUS
  <2>1. CASE j = i
    <3>1. wr'[h].ino = i /\ wr'[h].gen = table'[i].gen /\ wr'[h].held /\ ~Terminal(wr'[h])
      BY <1>2, <1>3, <1>5
    <3> QED
      BY <1>2, <1>5, <2>1, <3>1 DEF EntryIs
  <2>2. CASE j # i
    <3>1. \A g \in Handle : wr[g].ino = j => wr'[g] = wr[g]
      BY <1>1, <1>5, ValueAssumption
    <3> QED
      BY <1>5, <2>2, <3>1, EntryStays
  <2> QED
    BY <2>1, <2>2
<1>9. \A j \in Ino : SyncedIs(j)'
  <2>1. \A j \in Ino : SyncedIs(j)
    BY DEF HubInv
  <2> QED
    BY <1>2, <1>4, <1>5, <2>1 DEF SyncedIs
<1>10. \A s \in Req : RequestIs(req[s])'
  <2> SUFFICES ASSUME NEW s \in Req PROVE RequestIs(req[s])'
    OBVIOUS
  <2>1. req[s].op = "upload" => req[s].fh \in Handle /\ wr[req[s].fh].ino # None
    BY OwnWriter DEF WithWriter
  <2>2. req[s].op \in Changing => req[s].ino \in Ino /\ table[req[s].ino].named
    BY Ranges, RequestFields DEF HubInv, RequestIs, Changing
  <2> QED
    BY <1>1, <1>4, <1>5, <1>6, <1>7, <2>1, <2>2, OthersAre
<1>11. \A s, t \in Req : OneInDir(s, t)'
    BY <1>4 DEF HubInv, OneInDir, InDir
<1>12. \A g \in Handle : WorkerIs(g)'
    BY <1>3, <1>4, <1>5 DEF HubInv, WorkerIs
<1>13. \A x \in Path : ShownIs(x)'
    BY <1>4, <1>6 DEF HubInv, ShownIs
<1> QED
    BY <1>6, <1>8, <1>9, <1>10, <1>11, <1>12, <1>13 DEF HubInv

\* release() tries again only after a fault.
LEMMA RetryHub ==
    ASSUME IInv, HubInv, faults = 0, NEW r \in Req, Retry(r)
    PROVE  HubInv'
    BY DEF Retry, HubInv, RequestIs

\* A step meets at most one fault.
LEMMA FaultsGrow ==
    ASSUME IInv, [Writing \/ Committing \/ Linking \/ Unlinking]_vars
    PROVE  faults' \in {faults, faults + 1}
<1>1. CASE Writing
    BY <1>1 DEF Writing, OpenStart, OpenLock, OpenDone, OpenFail, DeferHook, DeferDone, Release, Flush,
               Write, WorkerFail, Create, Fault, hvars
<1>2. CASE Committing
    BY <1>2 DEF Committing, ReleaseCheck, CommitLock, ReleaseLock, Upload, UploadFail, Send, HubCommit,
               HubFail, Apply, Retry, Drop, Fault, hvars
<1>3. CASE Linking
    BY <1>3 DEF Linking, Link, LinkAgain, LinkAdd, LinkInsert, Fault, hvars
<1>4. CASE Unlinking
    BY <1>4 DEF Unlinking, Unlink, UnlinkLock, UnlinkRemote, UnlinkLocal, Fault, hvars
<1>5. CASE UNCHANGED vars
    BY <1>5 DEF vars, hvars
<1> QED
    BY <1>1, <1>2, <1>3, <1>4, <1>5

\* link() makes the alias, clean, with what the Hub has.
LEMMA LinkInsertHub ==
    ASSUME IInv, HubInv, faults = 0, NEW r \in Req, NEW i \in Ino, LinkInsert(r, i)
    PROVE  HubInv'
<1>0. /\ req[r].op = "linked" /\ RequestIs(req[r]) /\ req[r].to \in Path /\ req[r].hash \in Content
    BY Ranges, RequestFields DEF LinkInsert, HubInv, Hashed, Moving
<1>1. PICK p \in Path, c \in Content : p = req[r].to /\ c = req[r].hash
    BY <1>0
<1>2. LookupChild(p) = {} /\ remote[p] = c
    BY <1>0, <1>1 DEF RequestIs
<1> DEFINE e == [NoEntry EXCEPT !.here = TRUE, !.named = TRUE, !.nlink = 1, !.path = p, !.hash = c]
<1>3. /\ e.here /\ e.named /\ e.nlink = 1 /\ e.path = p /\ e.gen = 0 /\ e.hash = c /\ e.pdel = {}
    BY DEF NoEntry
<1>4. /\ table' = [table EXCEPT ![i] = e] /\ Finish(r)
      /\ UNCHANGED <<wr, remote, faults>> /\ i \notin used
    BY <1>1, <1>2 DEF LinkInsert
<1> HIDE DEF e
<1>5. table'[i] = e /\ \A j \in Ino \ {i} : table'[j] = table[j]
    BY <1>4, Ranges
<1>6. /\ ~table[i].named
      /\ \A j, k \in Ino : OneName(j, k)'
      /\ i \in LookupChild(p)' /\ \A x \in Path : LookupChild(x) \subseteq LookupChild(x)'
    BY <1>2, <1>3, <1>4, <1>5, NewName
<1>7. /\ req'[r].op = "idle" /\ req'[r].job = "none"
      /\ \A s \in Req \ {r} : req'[s] = req[s]
    BY <1>4, IdleOk, RequestFields, PutReq DEF Finish
<1>8. \A j \in Ino : EntryIs(j)'
  <2> SUFFICES ASSUME NEW j \in Ino PROVE EntryIs(j)'
    OBVIOUS
  <2>1. CASE j = i
    BY <1>3, <1>5, <2>1, ValueAssumption DEF EntryIs
  <2>2. CASE j # i
    BY <1>4, <1>5, <2>2, EntryStays
  <2> QED
    BY <2>1, <2>2
<1>9. \A j \in Ino : SyncedIs(j)'
  <2> SUFFICES ASSUME NEW j \in Ino PROVE SyncedIs(j)'
    OBVIOUS
  <2>1. CASE j = i
    BY <1>2, <1>3, <1>4, <1>5, <2>1 DEF SyncedIs
  <2>2. CASE j # i
    <3>1. SyncedIs(j)
      BY DEF HubInv
    <3>2. \A s \in Req : req[s].op = "unname" => req'[s] = req[s]
      BY <1>0, <1>7
    <3> QED
      BY <1>4, <1>5, <2>2, <3>1, <3>2 DEF SyncedIs
  <2> QED
    BY <2>1, <2>2
<1>10. \A s \in Req : RequestIs(req[s])'
  <2>1. ASSUME NEW s \in Req \ {r} PROVE RequestIs(req[s])'
    <3>1. ~InDir(req[s])
      BY <1>0 DEF HubInv, OneInDir, InDir
    <3>2. req[s].op \in Changing => req[s].ino \in Ino /\ table[req[s].ino].named
      BY Ranges, RequestFields DEF HubInv, RequestIs, Changing
    <3>3. StatesStay
      BY <1>4 DEF StatesStay
    <3> QED
      BY <1>4, <1>5, <1>6, <1>7, <3>1, <3>2, <3>3, OthersAre
  <2>2. RequestIs(req[r])'
    BY <1>7 DEF RequestIs, Changing
  <2> QED
    BY <2>1, <2>2
<1>11. \A s, t \in Req : OneInDir(s, t)'
  <2>1. ~InDir(req'[r])
    BY <1>7 DEF InDir
  <2> QED
    BY <1>7, <2>1, DirStays
<1>12. \A g \in Handle : WorkerIs(g)'
  <2>1. \A s \in Req : req[s].op \in {"send", "hub", "apply"} => req'[s] = req[s]
    BY <1>0, <1>7
  <2>2. \A g \in Handle : WorkerIs(g)
    BY DEF HubInv
  <2> QED
    BY <1>4, <2>1, <2>2 DEF WorkerIs
<1>13. \A x \in Path : ShownIs(x)'
  <2> SUFFICES ASSUME NEW x \in Path PROVE ShownIs(x)'
    OBVIOUS
  <2>1. ShownIs(x)
    BY DEF HubInv
  <2>2. CASE x = p
    BY <1>6, <2>2 DEF ShownIs
  <2>3. CASE x # p
    <3>1. \A s \in Req : req[s].op = "linked" /\ req[s].to = x => req'[s] = req[s]
      BY <1>1, <1>7, <2>3
    <3> QED
      BY <1>4, <1>6, <2>1, <3>1 DEF ShownIs
  <2> QED
    BY <2>2, <2>3
<1> QED
    BY <1>6, <1>8, <1>9, <1>10, <1>11, <1>12, <1>13 DEF HubInv

\* unlink() takes the name of the file that the Hub does not have any more.
LEMMA UnlinkLocalHub ==
    ASSUME IInv, HubInv, faults = 0, NEW r \in Req, UnlinkLocal(r)
    PROVE  HubInv'
<1>0. /\ req[r].op = "unname" /\ RequestIs(req[r]) /\ req[r].ino \in Ino
    BY Ranges, RequestFields DEF UnlinkLocal, HubInv
<1>1. PICK i \in Ino, p \in Path : /\ i = req[r].ino /\ p = req[r].path /\ p = table[i].path
                                   /\ table[i].named /\ remote[p] = None
    BY <1>0, Ranges DEF RequestIs, Entry
<1>2. LookupChild(p) = {i}
    BY <1>1 DEF LookupChild, HubInv, OneName, EntryIs
<1>3. /\ table' = [j \in Ino |-> IF j \in {i}
                                 THEN IF j = i /\ ~HasOpenHandles(i) THEN NoEntry
                                      ELSE Unnamed(table[j])
                                 ELSE table[j]]
      /\ Finish(r) /\ UNCHANGED <<wr, remote, faults>>
    BY <1>1, <1>2 DEF UnlinkLocal, hvars
<1>4. /\ \A j \in Ino \ {i} : table'[j] = table[j]
      /\ ~table'[i].named /\ table'[i].nlink = 0 /\ table'[i].pdel = {}
  <2>1. /\ ~NoEntry.named /\ NoEntry.nlink = 0 /\ NoEntry.pdel = {}
    BY DEF NoEntry
  <2>2. /\ ~Unnamed(table[i]).named /\ Unnamed(table[i]).nlink = 0 /\ Unnamed(table[i]).pdel = {}
    BY Ranges DEF Unnamed, Entry, HubInv, EntryIs
  <2> QED
    BY <1>3, <2>1, <2>2
<1>5. /\ req'[r].op = "idle" /\ req'[r].job = "none"
      /\ \A s \in Req \ {r} : req'[s] = req[s]
    BY <1>3, IdleOk, RequestFields, PutReq DEF Finish
<1>6. \A j \in Ino : EntryIs(j)'
  <2> SUFFICES ASSUME NEW j \in Ino PROVE EntryIs(j)'
    OBVIOUS
  <2>1. CASE j = i
    BY <1>4, <2>1 DEF EntryIs
  <2>2. CASE j # i
    BY <1>3, <1>4, <2>2, EntryStays
  <2> QED
    BY <2>1, <2>2
<1>7. \A j \in Ino : SyncedIs(j)'
  <2> SUFFICES ASSUME NEW j \in Ino PROVE SyncedIs(j)'
    OBVIOUS
  <2>1. CASE j = i
    BY <1>4, <2>1 DEF SyncedIs
  <2>2. CASE j # i
    <3>1. SyncedIs(j)
      BY DEF HubInv
    <3>2. \A s \in Req : req[s].op = "unname" /\ req[s].ino = j => req'[s] = req[s]
      BY <1>1, <1>5, <2>2
    <3> QED
      BY <1>3, <1>4, <2>2, <3>1, <3>2 DEF SyncedIs
  <2> QED
    BY <2>1, <2>2
<1>8. \A j, k \in Ino : OneName(j, k)'
  <2>1. \A j, k \in Ino : OneName(j, k)
    BY DEF HubInv
  <2> QED
    BY <1>4, <2>1 DEF OneName
<1>9. \A s \in Req : RequestIs(req[s])'
  <2>1. ASSUME NEW s \in Req \ {r} PROVE RequestIs(req[s])'
    <3>1. ~InDir(req[s])
      BY <1>0 DEF HubInv, OneInDir, InDir
    <3>2. req[s].op \in Changing => req[s].ino \in Ino /\ table[req[s].ino].named
      BY Ranges, RequestFields DEF HubInv, RequestIs, Changing
    <3>3. req[s].op \in Changing => req[s].ino # i
      BY <1>0, <1>1, OneHolder DEF Holding, Changing
    <3>4. StatesStay
      BY <1>3 DEF StatesStay
    <3> QED
      BY <1>3, <1>4, <1>5, <3>1, <3>2, <3>3, <3>4, OthersAre
  <2>2. RequestIs(req[r])'
    BY <1>5 DEF RequestIs, Changing
  <2> QED
    BY <2>1, <2>2
<1>10. \A s, t \in Req : OneInDir(s, t)'
  <2>1. ~InDir(req'[r])
    BY <1>5 DEF InDir
  <2> QED
    BY <1>5, <2>1, DirStays
<1>11. \A g \in Handle : WorkerIs(g)'
  <2>1. \A s \in Req : req[s].op \in {"send", "hub", "apply"} => req'[s] = req[s]
    BY <1>0, <1>5
  <2>2. \A g \in Handle : WorkerIs(g)
    BY DEF HubInv
  <2> QED
    BY <1>3, <2>1, <2>2 DEF WorkerIs
<1>12. \A x \in Path : ShownIs(x)'
  <2> SUFFICES ASSUME NEW x \in Path PROVE ShownIs(x)'
    OBVIOUS
  <2>1. ShownIs(x)
    BY DEF HubInv
  <2>2. CASE x = p
    BY <1>1, <1>3, <2>2 DEF ShownIs
  <2>3. CASE x # p
    <3>1. LookupChild(x) \subseteq LookupChild(x)'
      BY <1>1, <1>4, <2>3 DEF LookupChild
    <3>2. \A s \in Req : req[s].op = "linked" => req'[s] = req[s]
      BY <1>0, <1>5
    <3> QED
      BY <1>3, <2>1, <3>1, <3>2 DEF ShownIs
  <2> QED
    BY <2>2, <2>3
<1> QED
    BY <1>6, <1>7, <1>8, <1>9, <1>10, <1>11, <1>12 DEF HubInv

\* The Hub and the mount agree at the start.
LEMMA InitHub == Init => HubInv
<1> SUFFICES ASSUME Init PROVE HubInv
    OBVIOUS
<1> DEFINE e == [NoEntry EXCEPT !.here = TRUE, !.named = TRUE, !.nlink = 1, !.hash = SeedContent]
<1>1. /\ e.here /\ e.named /\ e.nlink = 1 /\ e.path = SeedPath /\ e.gen = 0 /\ e.hash = SeedContent
      /\ e.pdel = {} /\ ~NoEntry.here /\ ~NoEntry.named /\ NoEntry.nlink = 0 /\ NoEntry.pdel = {}
    BY DEF NoEntry
<1> HIDE DEF e
<1>2. table[SeedIno] = e /\ \A i \in Ino \ {SeedIno} : table[i] = NoEntry
    BY SeedAssumption DEF Init, e
<1>3. \A i \in Ino : EntryIs(i)
    BY <1>1, <1>2, SeedAssumption, ValueAssumption DEF EntryIs
<1>4. \A i \in Ino : SyncedIs(i)
    BY <1>1, <1>2, SeedAssumption DEF Init, SyncedIs
<1>5. \A i, j \in Ino : OneName(i, j)
    BY <1>1, <1>2 DEF OneName
<1>6. \A r \in Req : req[r].op = "idle" /\ req[r].job = "none"
    BY IdleOk, RequestFields DEF Init
<1>7. \A r \in Req : RequestIs(req[r])
    BY <1>6 DEF RequestIs, Changing
<1>8. \A r, s \in Req : OneInDir(r, s)
    BY <1>6 DEF OneInDir, InDir
<1>9. \A h \in Handle : WorkerIs(h)
    BY DEF Init, WorkerIs, NoWriter
<1>10. \A p \in Path : ShownIs(p)
    BY <1>1, <1>2, SeedAssumption DEF Init, ShownIs, LookupChild
<1> QED
    BY <1>3, <1>4, <1>5, <1>7, <1>8, <1>9, <1>10 DEF HubInv

\* Every step but a rename keeps the agreement.
LEMMA StepHub ==
    IInv /\ HubInv /\ [Writing \/ Committing \/ Linking \/ Unlinking]_vars => HubInv'
<1> SUFFICES ASSUME IInv, HubInv, [Writing \/ Committing \/ Linking \/ Unlinking]_vars, faults' = 0
             PROVE  HubInv'
    BY DEF HubInv
<1>0. faults = 0 /\ ~Fault
  <2>1. faults \in Nat /\ faults' \in {faults, faults + 1}
    BY Ranges, FaultsGrow
  <2> QED
    BY <2>1 DEF Fault
<1>1. CASE Writing
    BY <1>0, <1>1, OpenStartHub, OpenLockHub, OpenDoneHub, DeferHookHub, DeferDoneHub, ReleaseHub,
       FlushHub, WriteHub, CreateHub DEF Writing, OpenFail, WorkerFail
<1>2. CASE Committing
    BY <1>0, <1>2, ReleaseCheckHub, CommitLockHub, ReleaseLockHub, UploadHub, UploadFailHub, SendHub,
       HubCommitHub, ApplyHub, RetryHub, DropHub DEF Committing, HubFail
<1>3. CASE Linking
    BY <1>0, <1>3, LinkHub, LinkAgainHub, LinkAddHub, LinkInsertHub DEF Linking
<1>4. CASE Unlinking
    BY <1>0, <1>4, UnlinkHub, UnlinkLockHub, UnlinkRemoteHub, UnlinkLocalHub DEF Unlinking
<1>5. CASE UNCHANGED vars
  <2>1. UNCHANGED <<table, wr, req, remote, faults>>
    BY <1>5 DEF vars, hvars
  <2>2. StatesStay /\ \A h \in Handle : Steady(h)
    BY <2>1 DEF StatesStay, Steady
  <2> QED
    BY <1>0, <2>1, <2>2, StillStep
<1> QED
    BY <1>1, <1>2, <1>3, <1>4, <1>5

\* A behaviour without renames is one of the specification.
LEMMA StreamIsSpec == StreamSpec => Spec
<1>1. [Writing \/ Committing \/ Linking \/ Unlinking]_vars => [Next]_vars
    BY DEF Next
<1> QED
    BY <1>1, PTL DEF Spec, StreamSpec

\* Without renames the Hub and the mount agree until a call fails.
LEMMA HubAlways == StreamSpec => []HubInv
<1> QED
    BY StreamIsSpec, Always, InitHub, StepHub, PTL DEF StreamSpec

\* A clean file that nobody works on is on the Hub, with the content the mount
\* shows: no order of flushes, closes, links and unlinks leaves an old commit there.
THEOREM CleanFilesAreOnTheHub == StreamSpec => []RemoteSynced
<1>1. IInv /\ HubInv => RemoteSynced
  <2> SUFFICES ASSUME IInv, HubInv, faults = 0, NEW i \in Ino, Linked(i), ~Dirty(i), Settled(i)
               PROVE  remote[table[i].path] = table[i].hash
    BY DEF RemoteSynced
  <2>1. EntryIs(i) /\ SyncedIs(i) /\ table[i].gen \in Nat
    BY Ranges DEF HubInv, Entry
  <2>2. table[i].named /\ table[i].gen = 0
    BY <2>1 DEF EntryIs, Linked, Dirty
  <2> QED
    BY <2>1, <2>2 DEF SyncedIs, Settled
<1> QED
    BY <1>1, StreamIsSpec, Always, HubAlways, PTL

\* The Hub has no file that the mount does not show: what unlink() does not delete
\* there was never committed, and an alias that was committed gets its inode.
THEOREM HubFilesAreShown == StreamSpec => []NothingExtra
<1>1. HubInv => NothingExtra
  <2> SUFFICES ASSUME HubInv, faults = 0, \A r \in Req : req[r] = Idle, NEW p \in Path, remote[p] # None
               PROVE  LookupChild(p) # {}
    BY DEF NothingExtra
  <2>1. ShownIs(p) /\ \A r \in Req : req[r].op = "idle"
    BY IdleOk DEF HubInv
  <2> QED
    BY <2>1 DEF ShownIs
<1> QED
    BY <1>1, HubAlways, PTL
=============================================================================
