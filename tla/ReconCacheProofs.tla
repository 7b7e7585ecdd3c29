-------------------------- MODULE ReconCacheProofs --------------------------
(***************************************************************************)
(* Proofs about ReconCache, for any number of files, ranges and callers    *)
(* and any limit: the cache and its order of use agree and stay within the *)
(* limit, every entry is the answer the CAS gave for its key, and the      *)
(* table of requests in flight implements SingleFlight as long as no       *)
(* caller that leads is dropped.                                           *)
(***************************************************************************)
EXTENDS ReconCache, SeqOpsProofs

Pc == {"idle", "check", "enter", "wait", "cas", "answer"}

\* What a caller can be told: the answer of the CAS for its key, a range of
\* the plan that the CAS gave for the whole file, or nothing.
Told == {CasAnswer(k) : k \in Key}
            \cup {Derived(k[1], CasAnswer(Full(k[1])), k[2]) : k \in Key} \cup {None}

CallState == [pc : Pc, key : Key \cup {None}, answer : Told]
Entry == [resp : Told, fresh : BOOLEAN]

\* The order of use lists every entry once, and there is room for all.
OrderInv ==
    /\ order \in Seq(Key) /\ IsInjective(order) /\ ToSet(order) = DOMAIN cache
    /\ IsFiniteSet(DOMAIN cache) /\ Cardinality(DOMAIN cache) <= MaxEntries

DataInv ==
    /\ DOMAIN cache \subseteq Key
    /\ cache \in [DOMAIN cache -> Entry]
    /\ \A k \in DOMAIN cache : cache[k].resp = CasAnswer(k)
    /\ inflight \subseteq Key
    /\ call \in [Caller -> CallState]
    /\ \A c \in Caller : call[c].pc # "idle" => call[c].key \in Key
    /\ calls \in 0..MaxCalls

IInv == DataInv /\ OrderInv

\* The inductive invariant has what TypeOK asks for.
LEMMA IInvTypeOK == IInv => TypeOK
<1> SUFFICES ASSUME IInv PROVE TypeOK
    OBVIOUS
<1>1. Len(order) = Cardinality(DOMAIN cache)
    BY InjectiveLen DEF IInv, OrderInv
<1>2. \A c \in Caller : call[c] \in CallState
    BY DEF IInv, DataInv
<1>3. \A c \in Caller : call[c].pc \in Pc /\ call[c].key \in Key \cup {None}
    BY <1>2 DEF CallState
<1>4. \A k \in DOMAIN cache : cache[k] \in Entry
    BY DEF IInv, DataInv
<1>5. \A k \in DOMAIN cache : cache[k].fresh \in BOOLEAN
    BY <1>4 DEF Entry
<1> QED
    BY <1>1, <1>3, <1>5 DEF TypeOK, IInv, DataInv, OrderInv, Pc

\* A caller goes on with its key.
LEMMA GotoForm ==
    ASSUME DataInv, NEW c \in Caller, NEW p \in Pc, call' = [call EXCEPT ![c].pc = p]
    PROVE  /\ call' \in [Caller -> CallState]
           /\ call'[c].pc = p /\ call'[c].key = call[c].key
           /\ \A d \in Caller \ {c} : call'[d] = call[d]
<1>1. call[c] \in CallState /\ call \in [Caller -> CallState]
    BY DEF DataInv
<1>2. [call[c] EXCEPT !.pc = p] \in CallState
    BY <1>1 DEF CallState
<1>3. call' = [call EXCEPT ![c] = [call[c] EXCEPT !.pc = p]]
    BY <1>1
<1> QED
    BY <1>1, <1>2, <1>3 DEF CallState

\* A caller gets its answer.
LEMMA AnswerForm ==
    ASSUME DataInv, NEW c \in Caller, NEW a \in Told, call' = Answer(c, a)
    PROVE  /\ call' \in [Caller -> CallState]
           /\ call'[c].pc = "answer" /\ call'[c].key = call[c].key /\ call'[c].answer = a
           /\ \A d \in Caller \ {c} : call'[d] = call[d]
<1>1. call[c] \in CallState /\ call \in [Caller -> CallState]
    BY DEF DataInv
<1> DEFINE r == [call[c] EXCEPT !.pc = "answer", !.answer = a]
<1>2. r \in CallState /\ r.pc = "answer" /\ r.key = call[c].key /\ r.answer = a
    BY <1>1 DEF CallState, Pc
<1>3. call' = [call EXCEPT ![c] = r]
    BY <1>1 DEF Answer
<1> HIDE DEF r
<1> QED
    BY <1>1, <1>2, <1>3

\* A caller starts or returns.
LEMMA PutForm ==
    ASSUME DataInv, NEW c \in Caller, NEW r \in CallState, call' = [call EXCEPT ![c] = r]
    PROVE  /\ call' \in [Caller -> CallState] /\ call'[c] = r
           /\ \A d \in Caller \ {c} : call'[d] = call[d]
    BY DEF DataInv

\* The states a caller is put into.
LEMMA Records ==
    /\ Idle \in CallState /\ Idle.pc = "idle"
    /\ \A k \in Key : LET r == [pc |-> "check", key |-> k, answer |-> None] IN
            r \in CallState /\ r.pc = "check" /\ r.key = k
    BY DEF Idle, CallState, Pc, Told

\* The whole-file key of a key is a key.
LEMMA FullKey == \A k \in Key : Full(k[1]) \in Key
    BY DEF Key, Full

\* A step that leaves the cache alone.
LEMMA SameOrder ==
    ASSUME OrderInv, UNCHANGED <<cache, order>>
    PROVE  OrderInv'
    BY DEF OrderInv

\* Entries are dropped from the cache and from the order of use.
LEMMA DropOrder ==
    ASSUME OrderInv, NEW K, DOMAIN cache' = DOMAIN cache \ K, order' = Without(order, K)
    PROVE  OrderInv'
<1>1. order' \in Seq(Key) /\ ToSet(order') = ToSet(order) \ K /\ IsInjective(order')
    BY WithoutSeq DEF OrderInv
<1>2. IsFiniteSet(DOMAIN cache') /\ Cardinality(DOMAIN cache') <= Cardinality(DOMAIN cache)
  <2>1. DOMAIN cache' \subseteq DOMAIN cache
    OBVIOUS
  <2> QED
    BY <2>1, FS_Subset DEF OrderInv
<1>3. Cardinality(DOMAIN cache') \in Nat /\ Cardinality(DOMAIN cache) \in Nat /\ MaxEntries \in Nat
    BY <1>2, FS_CardinalityType, BoundAssumption DEF OrderInv
<1> QED
    BY <1>1, <1>2, <1>3 DEF OrderInv

\* A key that is used goes to the end of a sequence of keys.
LEMMA Moved ==
    ASSUME NEW s \in Seq(Key), IsInjective(s), NEW K, NEW k \in Key, k \in K
    PROVE  LET r == Append(Without(s, K), k) IN
           r \in Seq(Key) /\ IsInjective(r) /\ ToSet(r) = (ToSet(s) \ K) \cup {k}
<1> DEFINE q == Without(s, K)
<1>1. q \in Seq(Key) /\ ToSet(q) = ToSet(s) \ K /\ IsInjective(q)
    BY WithoutSeq
<1> HIDE DEF q
<1>2. Append(q, k) \in Seq(Key)
    BY <1>1
<1>3. ToSet(Append(q, k)) = ToSet(q) \cup {k}
    BY <1>1, ToSetAppend
<1>4. IsInjective(Append(q, k))
    BY <1>1, InjAppend
<1> QED
    BY <1>1, <1>2, <1>3, <1>4 DEF q

\* An entry is used.
LEMMA TouchOrder ==
    ASSUME OrderInv, NEW k \in DOMAIN cache, cache' = cache, order' = Touched(order, k)
    PROVE  OrderInv'
<1>1. k \in Key /\ order \in Seq(Key) /\ IsInjective(order) /\ ToSet(order) = DOMAIN cache
  <2>1. \A x \in ToSet(order) : x \in Key
    BY DEF OrderInv, ToSet
  <2> QED
    BY <2>1 DEF OrderInv
<1>2. /\ order' \in Seq(Key) /\ IsInjective(order') /\ ToSet(order') = (ToSet(order) \ {k}) \cup {k}
    BY <1>1, Moved DEF Touched
<1> QED
    BY <1>1, <1>2 DEF OrderInv

----------------------------------------------------------------------------
(* One lemma per action.                                                   *)

\* Dropped entries leave the other entries as they are.
LEMMA DropEntries ==
    ASSUME DataInv, NEW K, cache' = Drop(cache, K)
    PROVE  /\ DOMAIN cache' = DOMAIN cache \ K /\ DOMAIN cache' \subseteq Key
           /\ cache' \in [DOMAIN cache' -> Entry]
           /\ \A k \in DOMAIN cache' : cache'[k].resp = CasAnswer(k)
<1>1. DOMAIN cache' = DOMAIN cache \ K /\ \A k \in DOMAIN cache' : cache'[k] = cache[k]
    BY DEF Drop
<1>2. \A k \in DOMAIN cache : cache[k] \in Entry
    BY DEF DataInv
<1>3. cache' \in [DOMAIN cache' -> Entry]
    BY <1>1, <1>2 DEF Drop
<1> QED
    BY <1>1, <1>3 DEF DataInv

\* The calls of the other callers, the table and the counter stay.
LEMMA SameData ==
    ASSUME DataInv, NEW c \in Caller, call' \in [Caller -> CallState],
           \A d \in Caller \ {c} : call'[d] = call[d],
           call'[c].pc # "idle" => call'[c].key \in Key,
           cache' = cache, inflight' \subseteq Key, calls' \in 0..MaxCalls
    PROVE  DataInv'
    BY DEF DataInv

\* A call begins.
LEMMA CallStep ==
    ASSUME IInv, NEW c \in Caller, NEW k \in Key, Call(c, k)
    PROVE  IInv'
<1> DEFINE r == [pc |-> "check", key |-> k, answer |-> None]
<1>1. r \in CallState /\ r.pc = "check" /\ r.key = k
    BY Records
<1>2. call' = [call EXCEPT ![c] = r] /\ UNCHANGED <<cache, order, inflight>>
    BY DEF Call
<1> HIDE DEF r
<1>3. /\ call' \in [Caller -> CallState] /\ call'[c] = r
      /\ \A d \in Caller \ {c} : call'[d] = call[d]
    BY <1>1, <1>2, PutForm DEF IInv
<1>4. calls' \in 0..MaxCalls
    BY BoundAssumption DEF Call, IInv, DataInv
<1>5. DataInv'
    BY <1>1, <1>2, <1>3, <1>4, SameData DEF IInv, DataInv
<1> QED
    BY <1>2, <1>5, SameOrder DEF IInv

\* A look into the cache touches the caller and the cache only.
LEMMA CheckStep ==
    ASSUME IInv, NEW c \in Caller, Check(c)
    PROVE  /\ IInv' /\ UNCHANGED inflight
           /\ call'[c].pc \in {"answer", "enter"} /\ \A d \in Caller \ {c} : call'[d] = call[d]
<1> DEFINE k == call[c].key
           full == Full(k[1])
           has(x) == x \in DOMAIN cache /\ cache[x].fresh
           expired == {x \in {k, full} \cap DOMAIN cache : ~cache[x].fresh}
<1>1. k \in Key /\ call[c].pc = "check" /\ DataInv /\ OrderInv
    BY DEF Check, IInv, DataInv
<1>2. full \in Key
    BY <1>1, FullKey
<1>3. UNCHANGED <<inflight, calls>>
    BY DEF Check
<1>4. CASE /\ has(k) /\ call' = Answer(c, cache[k].resp) /\ order' = Touched(order, k)
           /\ UNCHANGED cache
  <2>1. cache[k].resp \in Told
    BY <1>1, <1>4 DEF DataInv, Told
  <2>2. /\ call' \in [Caller -> CallState]
        /\ call'[c].pc = "answer" /\ call'[c].key = k
        /\ \A d \in Caller \ {c} : call'[d] = call[d]
    BY <1>1, <1>4, <2>1, AnswerForm
  <2>3. DataInv'
    BY <1>1, <1>3, <1>4, <2>2, SameData DEF DataInv
  <2>4. OrderInv'
    BY <1>1, <1>4, TouchOrder
  <2> QED
    BY <1>3, <2>2, <2>3, <2>4 DEF IInv
<1>5. CASE /\ has(full) /\ call' = Answer(c, Derived(k[1], cache[full].resp, k[2]))
           /\ order' = Touched(Without(order, expired), full) /\ cache' = Drop(cache, expired)
  <2> DEFINE a == Derived(k[1], cache[full].resp, k[2])
  <2>1. a \in Told
    <3>1. cache[full].resp = CasAnswer(Full(k[1]))
      BY <1>1, <1>5 DEF DataInv
    <3> QED
      BY <1>1, <3>1 DEF Told
  <2> HIDE DEF a
  <2>2. /\ call' \in [Caller -> CallState]
        /\ call'[c].pc = "answer" /\ call'[c].key = k
        /\ \A d \in Caller \ {c} : call'[d] = call[d]
    BY <1>1, <1>5, <2>1, AnswerForm DEF a
  <2>3. /\ DOMAIN cache' = DOMAIN cache \ expired /\ DOMAIN cache' \subseteq Key
        /\ cache' \in [DOMAIN cache' -> Entry]
        /\ \A x \in DOMAIN cache' : cache'[x].resp = CasAnswer(x)
    BY <1>1, <1>5, DropEntries
  <2>4. DataInv'
    BY <1>1, <1>3, <2>2, <2>3 DEF DataInv
  <2>5. full \in DOMAIN cache \ expired
    BY <1>5
  <2> HIDE DEF expired, full, k
  <2> DEFINE s == Without(order, expired)
  <2>6. s \in Seq(Key) /\ IsInjective(s) /\ ToSet(s) = DOMAIN cache \ expired
    BY <1>1, WithoutSeq DEF OrderInv
  <2> HIDE DEF s
  <2>7. /\ order' \in Seq(Key) /\ IsInjective(order') /\ ToSet(order') = (ToSet(s) \ {full}) \cup {full}
    <3>1. order' = Append(Without(s, {full}), full)
      BY <1>5 DEF Touched, s
    <3> QED
      BY <1>2, <2>6, <3>1, Moved
  <2>8. IsFiniteSet(DOMAIN cache') /\ Cardinality(DOMAIN cache') <= Cardinality(DOMAIN cache)
    <3>1. DOMAIN cache' \subseteq DOMAIN cache
      BY <2>3
    <3> QED
      BY <1>1, <3>1, FS_Subset DEF OrderInv
  <2>9. Cardinality(DOMAIN cache') \in Nat /\ Cardinality(DOMAIN cache) \in Nat /\ MaxEntries \in Nat
    BY <1>1, <2>8, FS_CardinalityType, BoundAssumption DEF OrderInv
  <2>10. OrderInv'
    BY <1>1, <2>3, <2>5, <2>6, <2>7, <2>8, <2>9 DEF OrderInv
  <2> QED
    BY <1>3, <2>2, <2>4, <2>10 DEF IInv
<1>6. CASE /\ call' = [call EXCEPT ![c].pc = "enter"] /\ order' = Without(order, expired)
           /\ cache' = Drop(cache, expired)
  <2>1. /\ call' \in [Caller -> CallState]
        /\ call'[c].pc = "enter" /\ call'[c].key = k
        /\ \A d \in Caller \ {c} : call'[d] = call[d]
    BY <1>1, <1>6, GotoForm DEF Pc
  <2> HIDE DEF expired, full
  <2>2. /\ DOMAIN cache' = DOMAIN cache \ expired /\ DOMAIN cache' \subseteq Key
        /\ cache' \in [DOMAIN cache' -> Entry]
        /\ \A x \in DOMAIN cache' : cache'[x].resp = CasAnswer(x)
    BY <1>1, <1>6, DropEntries
  <2>3. DataInv'
    BY <1>1, <1>3, <2>1, <2>2 DEF DataInv
  <2>4. OrderInv'
    BY <1>1, <1>6, <2>2, DropOrder
  <2> QED
    BY <1>3, <2>1, <2>3, <2>4 DEF IInv
<1> QED
    BY <1>4, <1>5, <1>6 DEF Check

\* A caller waits for the one that leads its key, or leads.
LEMMA EnterStep ==
    ASSUME IInv, NEW c \in Caller, Enter(c)
    PROVE  /\ IInv' /\ call'[c].key = call[c].key /\ \A d \in Caller \ {c} : call'[d] = call[d]
           /\ call'[c].pc = IF call[c].key \in inflight THEN "wait" ELSE "cas"
<1> DEFINE p == IF call[c].key \in inflight THEN "wait" ELSE "cas"
<1>1. call[c].key \in Key /\ p \in Pc
    BY DEF Enter, IInv, DataInv, Pc
<1>2. call' = [call EXCEPT ![c].pc = p] /\ UNCHANGED <<cache, order, calls>>
    BY DEF Enter
<1> HIDE DEF p
<1>3. /\ call' \in [Caller -> CallState]
      /\ call'[c].pc = p /\ call'[c].key = call[c].key
      /\ \A d \in Caller \ {c} : call'[d] = call[d]
    BY <1>1, <1>2, GotoForm DEF IInv
<1>4. inflight' \subseteq Key
    BY <1>1 DEF Enter, IInv, DataInv
<1>5. DataInv'
    BY <1>1, <1>2, <1>3, <1>4, SameData DEF IInv, DataInv
<1> QED
    BY <1>2, <1>3, <1>5, SameOrder DEF IInv, p

\* A caller returns or is dropped.
LEMMA ReturnStep ==
    ASSUME IInv, NEW c \in Caller, call' = [call EXCEPT ![c] = Idle],
           UNCHANGED <<cache, order, inflight, calls>>
    PROVE  IInv' /\ call'[c] = Idle /\ \A d \in Caller \ {c} : call'[d] = call[d]
<1>1. /\ call' \in [Caller -> CallState] /\ call'[c] = Idle
      /\ \A d \in Caller \ {c} : call'[d] = call[d]
    BY Records, PutForm DEF IInv
<1>2. DataInv'
    BY <1>1, Records, SameData DEF IInv, DataInv
<1> QED
    BY <1>1, <1>2, SameOrder DEF IInv

\* An entry that expires keeps its answer.
LEMMA ExpireStep ==
    ASSUME IInv, NEW k \in Key, Expire(k)
    PROVE  IInv' /\ UNCHANGED <<inflight, call>>
<1> DEFINE e == [cache[k] EXCEPT !.fresh = FALSE]
<1>1. k \in DOMAIN cache /\ UNCHANGED <<order, inflight, call, calls>>
    BY DEF Expire
<1>2. cache[k] \in Entry /\ cache \in [DOMAIN cache -> Entry]
    BY <1>1 DEF IInv, DataInv
<1>3. e \in Entry /\ e.resp = cache[k].resp
    BY <1>2 DEF Entry
<1>4. cache' = [cache EXCEPT ![k] = e]
    BY <1>1, <1>2 DEF Expire
<1> HIDE DEF e
<1>5. /\ DOMAIN cache' = DOMAIN cache /\ cache' \in [DOMAIN cache -> Entry]
      /\ cache'[k] = e /\ \A x \in DOMAIN cache \ {k} : cache'[x] = cache[x]
    BY <1>1, <1>2, <1>3, <1>4
<1>6. DataInv'
    BY <1>1, <1>3, <1>5 DEF IInv, DataInv
<1>7. OrderInv'
    BY <1>1, <1>5 DEF IInv, OrderInv
<1> QED
    BY <1>1, <1>6, <1>7 DEF IInv

\* A set that loses what Evicted says has room for one more.
LEMMA Room ==
    ASSUME IInv, NEW k \in Key, NEW left, left = DOMAIN cache \ Purged(k)
    PROVE  /\ IsFiniteSet(left \ Evicted(k)) /\ Cardinality(left \ Evicted(k)) < MaxEntries
<1> DEFINE plans == {x \in left : x[2] = None}
           kept == Without(order, DOMAIN cache \ plans)
           N == MaxEntries
<1>0. /\ IsFiniteSet(DOMAIN cache) /\ Cardinality(DOMAIN cache) <= N /\ N \in Nat \ {0}
      /\ order \in Seq(Key) /\ ToSet(order) = DOMAIN cache
    BY BoundAssumption DEF IInv, OrderInv
<1>1. plans \subseteq left /\ left \subseteq DOMAIN cache
    OBVIOUS
<1>2. Evicted(k) = CASE Cardinality(left) < N -> {}
          [] Cardinality(left) >= N /\ Cardinality(plans) < N -> left \ plans
          [] OTHER -> (left \ plans) \cup {Head(kept)}
    BY DEF Evicted
<1> HIDE DEF plans
<1>3. kept \in Seq(Key) /\ ToSet(kept) = plans
  <2>1. kept \in Seq(Key) /\ ToSet(kept) = ToSet(order) \ (DOMAIN cache \ plans)
    BY <1>0, WithoutSeq
  <2> HIDE DEF kept
  <2> QED
    BY <1>0, <1>1, <2>1
<1>4. /\ IsFiniteSet(left) /\ IsFiniteSet(plans) /\ Cardinality(plans) <= Cardinality(DOMAIN cache)
      /\ Cardinality(left) \in Nat /\ Cardinality(plans) \in Nat /\ Cardinality(DOMAIN cache) \in Nat
  <2>1. IsFiniteSet(left)
    BY <1>0, <1>1, FS_Subset
  <2>2. plans \subseteq DOMAIN cache
    BY <1>1
  <2>3. IsFiniteSet(plans) /\ Cardinality(plans) <= Cardinality(DOMAIN cache)
    BY <1>0, <2>2, FS_Subset
  <2> QED
    BY <1>0, <2>1, <2>3, FS_CardinalityType
<1> HIDE DEF kept, N
<1>5. CASE Cardinality(left) < N
  <2>1. Evicted(k) = {}
    BY <1>0, <1>2, <1>4, <1>5
  <2>3. left \ Evicted(k) = left
    BY <2>1
  <2> QED
    BY <1>4, <1>5, <2>3 DEF N
<1>6. CASE ~(Cardinality(left) < N) /\ Cardinality(plans) < N
  <2>1. Evicted(k) = left \ plans
    BY <1>0, <1>2, <1>4, <1>6
  <2>2. left \ Evicted(k) = plans
    BY <1>1, <2>1
  <2> QED
    BY <1>4, <1>6, <2>2 DEF N
<1>7. CASE ~(Cardinality(left) < N) /\ ~(Cardinality(plans) < N)
  <2>1. Evicted(k) = (left \ plans) \cup {Head(kept)}
    BY <1>0, <1>2, <1>4, <1>7
  <2>2. plans # {}
    BY <1>0, <1>4, <1>7, FS_EmptySet
  <2>3. Head(kept) \in plans
    <3>1. kept # <<>>
      BY <1>3, <2>2 DEF ToSet
    <3>2. Len(kept) \in Nat /\ Len(kept) # 0 /\ Head(kept) = kept[1] /\ DOMAIN kept = 1..Len(kept)
      BY <1>3, <3>1
    <3>3. kept[1] \in ToSet(kept)
      BY <3>2 DEF ToSet
    <3> QED
      BY <1>3, <3>2, <3>3
  <2>4. left \ Evicted(k) = plans \ {Head(kept)}
    BY <1>1, <2>1
  <2>5. /\ IsFiniteSet(plans \ {Head(kept)})
        /\ Cardinality(plans \ {Head(kept)}) = Cardinality(plans) - 1
    BY <1>4, <2>3, FS_RemoveElement
  <2>6. Cardinality(plans) - 1 < N
    BY <1>0, <1>4
  <2> QED
    BY <2>4, <2>5, <2>6 DEF N
<1> QED
    BY <1>5, <1>6, <1>7

\* The answer of the CAS goes into the cache, and the limit holds.
LEMMA InsertOps ==
    ASSUME IInv, NEW k \in Key, Insert(k, CasAnswer(k))
    PROVE  /\ OrderInv' /\ DOMAIN cache' \subseteq Key /\ cache' \in [DOMAIN cache' -> Entry]
           /\ \A x \in DOMAIN cache' : cache'[x].resp = CasAnswer(x)
<1> DEFINE gone == Purged(k) \cup Evicted(k)
           left == DOMAIN cache \ Purged(k)
           D == (DOMAIN cache \ (gone \cup {k})) \cup {k}
           new == [resp |-> CasAnswer(k), fresh |-> TRUE]
           rest == Drop(cache, gone \cup {k})
<1>1. /\ cache' = [x \in DOMAIN rest \cup {k} |-> IF x = k THEN new ELSE rest[x]]
      /\ order' = Append(Without(order, gone \cup {k}), k)
    BY DEF Insert
<1>2. /\ DOMAIN rest = DOMAIN cache \ (gone \cup {k})
      /\ \A x \in DOMAIN rest : rest[x] = cache[x]
    BY DEF Drop
<1>3. /\ DOMAIN cache' = D /\ cache'[k] = new
      /\ \A x \in D \ {k} : x \in DOMAIN cache /\ cache'[x] = cache[x]
      /\ cache' = [x \in D |-> cache'[x]]
  <2> HIDE DEF gone, new, rest
  <2> QED
    BY <1>1, <1>2
<1>4. new \in Entry /\ new.resp = CasAnswer(k)
    BY DEF Entry, Told
<1>5. /\ DOMAIN cache \subseteq Key /\ \A x \in DOMAIN cache : cache[x] \in Entry /\ cache[x].resp = CasAnswer(x)
    BY DEF IInv, DataInv
<1> HIDE DEF new, rest
<1>6. /\ DOMAIN cache' \subseteq Key /\ \A x \in D : cache'[x] \in Entry /\ cache'[x].resp = CasAnswer(x)
  <2>1. D \subseteq Key
    BY <1>5
  <2>2. ASSUME NEW x \in D PROVE cache'[x] \in Entry /\ cache'[x].resp = CasAnswer(x)
    <3> HIDE DEF D, gone
    <3> QED
      BY <1>3, <1>4, <1>5, <2>2
  <2> QED
    BY <1>3, <2>1, <2>2
<1>7. cache' \in [D -> Entry]
    BY <1>3, <1>6
<1>8. order \in Seq(Key) /\ IsInjective(order) /\ ToSet(order) = DOMAIN cache
    BY DEF IInv, OrderInv
<1>9. order' \in Seq(Key) /\ IsInjective(order') /\ ToSet(order') = D
  <2> DEFINE K == gone \cup {k}
  <2>1. k \in K /\ order' = Append(Without(order, K), k) /\ D = (DOMAIN cache \ K) \cup {k}
    BY <1>1
  <2> HIDE DEF K, D
  <2>2. /\ order' \in Seq(Key) /\ IsInjective(order') /\ ToSet(order') = (ToSet(order) \ K) \cup {k}
    BY <1>8, <2>1, Moved
  <2> QED
    BY <1>8, <2>1, <2>2
<1>10. IsFiniteSet(D) /\ Cardinality(D) <= MaxEntries
  <2> DEFINE L == left \ Evicted(k)
             M == DOMAIN cache \ (gone \cup {k})
  <2>1. IsFiniteSet(L) /\ Cardinality(L) < MaxEntries
    BY Room
  <2>2. M \subseteq L /\ k \notin M /\ D = M \cup {k}
    OBVIOUS
  <2> HIDE DEF L, M, D
  <2>3. IsFiniteSet(M) /\ Cardinality(M) <= Cardinality(L)
    BY <2>1, <2>2, FS_Subset
  <2>4. IsFiniteSet(D) /\ Cardinality(D) = Cardinality(M) + 1
    BY <2>2, <2>3, FS_AddElement
  <2>5. Cardinality(M) \in Nat /\ Cardinality(L) \in Nat /\ MaxEntries \in Nat
    BY <2>1, <2>3, FS_CardinalityType, BoundAssumption
  <2> QED
    BY <2>1, <2>3, <2>4, <2>5
<1> HIDE DEF D
<1>11. OrderInv'
    BY <1>3, <1>9, <1>10 DEF OrderInv
<1> QED
    BY <1>3, <1>6, <1>7, <1>11

\* What the end of a request does to the calls.
LEMMA ReleasedForm ==
    ASSUME DataInv, NEW k \in Key
    PROVE  /\ Released(k) \in [Caller -> CallState]
           /\ \A d \in Caller : /\ Released(k)[d].key = call[d].key
                                /\ IF call[d].pc = "wait" /\ call[d].key = k
                                   THEN Released(k)[d].pc = "check" ELSE Released(k)[d] = call[d]
<1>1. \A d \in Caller : call[d] \in CallState
    BY DEF DataInv
<1>2. \A d \in Caller : LET r == [call[d] EXCEPT !.pc = "check"] IN
                        r \in CallState /\ r.pc = "check" /\ r.key = call[d].key
    BY <1>1 DEF CallState, Pc
<1>3. \A d \in Caller : Released(k)[d] =
            IF call[d].pc = "wait" /\ call[d].key = k THEN [call[d] EXCEPT !.pc = "check"] ELSE call[d]
    BY DEF Released
<1>4. Released(k) \in [Caller -> CallState]
    BY <1>1, <1>2 DEF Released
<1> QED
    BY <1>2, <1>3, <1>4

\* The calls after the end of the request that c led: c has its answer or
\* returns, those who waited look again.
Ended(c) ==
    /\ call[c].pc = "cas"
    /\ inflight' = inflight \ {call[c].key}
    /\ call'[c].pc \in {"answer", "idle"}
    /\ \A d \in Caller \ {c} : IF call[d].pc = "wait" /\ call[d].key = call[c].key
                               THEN call'[d].pc = "check" ELSE call'[d] = call[d]

\* The CAS has answered the caller that leads.
LEMMA CasDoneStep ==
    ASSUME IInv, NEW c \in Caller, CasDone(c)
    PROVE  IInv' /\ Ended(c) /\ call'[c].key = call[c].key /\ call'[c].answer = CasAnswer(call[c].key)
<1> DEFINE k == call[c].key
           a == CasAnswer(k)
           R == Released(k)
           r == [R[c] EXCEPT !.pc = "answer", !.answer = a]
<1>1. k \in Key /\ call[c].pc = "cas" /\ DataInv /\ OrderInv
    BY DEF CasDone, IInv, DataInv
<1>2. /\ R \in [Caller -> CallState]
      /\ \A d \in Caller : /\ R[d].key = call[d].key
                           /\ IF call[d].pc = "wait" /\ call[d].key = k
                              THEN R[d].pc = "check" ELSE R[d] = call[d]
    BY <1>1, ReleasedForm
<1>3. a \in Told
    BY <1>1 DEF Told
<1>4. /\ inflight' = inflight \ {k} /\ UNCHANGED calls
      /\ call' = [R EXCEPT ![c].pc = "answer", ![c].answer = a]
      /\ IF a = None THEN UNCHANGED <<cache, order>> ELSE Insert(k, a)
    BY DEF CasDone
<1> HIDE DEF R
<1>5. r \in CallState /\ r.pc = "answer" /\ r.key = k /\ r.answer = a
  <2> HIDE DEF a
  <2>1. R[c] \in CallState /\ R[c].key = k
    BY <1>2
  <2> QED
    BY <1>3, <2>1 DEF CallState, Pc
<1>6. call' = [R EXCEPT ![c] = r]
    BY <1>2, <1>4
<1> HIDE DEF r
<1>7. /\ call' \in [Caller -> CallState] /\ call'[c] = r /\ \A d \in Caller \ {c} : call'[d] = R[d]
    BY <1>2, <1>5, <1>6
<1>8. Ended(c)
    BY <1>1, <1>2, <1>4, <1>5, <1>7 DEF Ended
<1>9. /\ OrderInv' /\ DOMAIN cache' \subseteq Key /\ cache' \in [DOMAIN cache' -> Entry]
      /\ \A x \in DOMAIN cache' : cache'[x].resp = CasAnswer(x)
  <2>1. CASE UNCHANGED <<cache, order>>
    BY <1>1, <2>1, SameOrder DEF DataInv
  <2>2. CASE Insert(k, a)
    BY <1>1, <2>2, InsertOps
  <2> QED
    BY <1>4, <2>1, <2>2
<1>10. \A d \in Caller : call'[d].pc # "idle" => call'[d].key \in Key
  <2> TAKE d \in Caller
  <2>1. CASE d = c
    BY <1>1, <1>5, <1>7, <2>1
  <2>2. CASE d # c
    <3>1. call'[d].key = call[d].key /\ (call'[d].pc # "idle" => call[d].pc # "idle")
      BY <1>2, <1>7, <2>2
    <3> QED
      BY <1>1, <3>1 DEF DataInv
  <2> QED
    BY <2>1, <2>2
<1>11. DataInv'
    BY <1>1, <1>4, <1>7, <1>9, <1>10 DEF DataInv
<1> QED
    BY <1>5, <1>7, <1>8, <1>9, <1>11 DEF IInv

\* The request of the caller that leads has failed.
LEMMA CasFailStep ==
    ASSUME IInv, NEW c \in Caller, CasFail(c)
    PROVE  IInv' /\ Ended(c) /\ call'[c] = Idle
<1> DEFINE k == call[c].key
           R == Released(k)
<1>1. k \in Key /\ call[c].pc = "cas" /\ DataInv /\ OrderInv
    BY DEF CasFail, IInv, DataInv
<1>2. /\ R \in [Caller -> CallState]
      /\ \A d \in Caller : /\ R[d].key = call[d].key
                           /\ IF call[d].pc = "wait" /\ call[d].key = k
                              THEN R[d].pc = "check" ELSE R[d] = call[d]
    BY <1>1, ReleasedForm
<1>3. /\ inflight' = inflight \ {k} /\ UNCHANGED <<cache, order, calls>>
      /\ call' = [R EXCEPT ![c] = Idle]
    BY DEF CasFail
<1> HIDE DEF R
<1>4. /\ call' \in [Caller -> CallState] /\ call'[c] = Idle /\ \A d \in Caller \ {c} : call'[d] = R[d]
    BY <1>2, <1>3, Records
<1>5. Ended(c)
    BY <1>1, <1>2, <1>3, <1>4, Records DEF Ended
<1>6. \A d \in Caller : call'[d].pc # "idle" => call'[d].key \in Key
  <2> TAKE d \in Caller
  <2>1. CASE d = c
    BY <1>4, <2>1, Records
  <2>2. CASE d # c
    <3>1. call'[d].key = call[d].key /\ (call'[d].pc # "idle" => call[d].pc # "idle")
      BY <1>2, <1>4, <2>2
    <3> QED
      BY <1>1, <3>1 DEF DataInv
  <2> QED
    BY <2>1, <2>2
<1>7. DataInv'
    BY <1>1, <1>3, <1>4, <1>6 DEF DataInv
<1> QED
    BY <1>1, <1>3, <1>4, <1>5, <1>7, SameOrder DEF IInv

----------------------------------------------------------------------------
(* Plans: which bytes the terms of an answer hold.                         *)

\* Values that grow as FlattenSeq does are its values.
LEMMA FlattenChain ==
    ASSUME NEW X, NEW t \in Seq(Seq(X)), Len(t) # 0, NEW h \in [1..Len(t) -> Seq(X)],
           h[1] = t[1], \A n \in 2..Len(t) : h[n] = h[n - 1] \o t[n]
    PROVE  FlattenSeq(t) = h[Len(t)]
<1> DEFINE N == Len(t)
           G(g) == [i \in 1..N |-> IF i = 1 THEN t[i] ELSE g[i - 1] \o t[i]]
<1>1. N \in Nat /\ N >= 1
    OBVIOUS
<1>2. FlattenSeq(t) = (CHOOSE g : g = G(g))[N]
    BY DEF FlattenSeq
<1>3. h = G(h)
  <2>1. \A i \in 1..N : h[i] = IF i = 1 THEN t[i] ELSE h[i - 1] \o t[i]
    <3> TAKE i \in 1..N
    <3>1. i = 1 \/ i \in 2..N
      BY <1>1
    <3> HIDE DEF N
    <3> QED
      BY <3>1 DEF N
  <2>2. h = [i \in 1..N |-> h[i]]
    OBVIOUS
  <2> QED
    BY <2>1, <2>2
<1>4. ASSUME NEW g, g = G(g) PROVE g[N] = h[N]
  <2> DEFINE S == {n \in 0..N : n = 0 \/ g[n] = h[n]}
  <2> HIDE DEF N
  <2>5. \A i \in 1..N : g[i] = IF i = 1 THEN t[i] ELSE g[i - 1] \o t[i]
    BY <1>4
  <2>1. g[1] = h[1] /\ \A n \in 2..N : g[n] = g[n - 1] \o t[n]
    <3>1. 1 \in 1..N /\ \A n \in 2..N : n \in 1..N /\ n # 1
      BY <1>1
    <3> QED
      BY <2>5, <3>1
  <2>2. ASSUME NEW n \in 1..N, n - 1 \in S PROVE n \in S
    <3>1. CASE n = 1
      BY <1>1, <2>1, <3>1
    <3>2. CASE n # 1
      <4>1. n \in 2..N /\ g[n - 1] = h[n - 1]
        BY <1>1, <2>2, <3>2
      <4>2. g[n] = h[n]
        BY <2>1, <4>1 DEF N
      <4> QED
        BY <4>2
    <3> QED
      BY <3>1, <3>2
  <2>3. 0 \in S
    BY <1>1
  <2>4. \A n \in 0..N : n \in S
    <3> HIDE DEF S
    <3> QED
      BY <1>1, <2>2, <2>3, InductTo
  <2> QED
    BY <1>1, <2>4
<1>5. PICK f : f = CHOOSE g : g = G(g)
    OBVIOUS
<1> HIDE DEF G
<1>6. f = G(f)
    BY <1>3, <1>5
<1> QED
    BY <1>2, <1>4, <1>5, <1>6

\* The terms of a file follow each other without a gap and hold at least one
\* byte each.
LEMMA Terms ==
    ASSUME NEW f \in File
    PROVE  /\ Lens[f] \in Seq(Nat \ {0}) /\ Len(Lens[f]) \in Nat
           /\ TermStart(f, 1) = 0
           /\ \A i \in 1..(Len(Lens[f]) + 1) : TermStart(f, i) \in Nat
           /\ \A i \in 1..Len(Lens[f]) :
                /\ Lens[f][i] \in Nat \ {0}
                /\ TermEnd(f, i) = TermStart(f, i) + Lens[f][i]
                /\ TermEnd(f, i) = TermStart(f, i + 1)
<1> DEFINE s == Lens[f]
           N == Len(s)
<1>1. s \in Seq(Nat \ {0}) /\ s \in Seq(Nat) /\ N \in Nat /\ \A i \in 1..N : s[i] \in Nat \ {0}
  <2>1. s \in Seq(Nat \ {0})
    BY FileAssumption
  <2> QED
    BY <2>1
<1> HIDE DEF s
<1>2. TermStart(f, 1) = 0
  <2>1. SubSeq(s, 1, 0) = <<>>
    BY <1>1
  <2>2. Total(<<>>) = 0
    BY <1>1, TotalSeq
  <2>3. 1 - 1 = 0
    OBVIOUS
  <2> QED
    BY <2>1, <2>2, <2>3 DEF TermStart, s
<1>3. ASSUME NEW i \in 1..(N + 1) PROVE TermStart(f, i) \in Nat
  <2>1. i - 1 \in 0..N
    BY <1>1
  <2>2. Total(SubSeq(s, 1, i - 1)) \in Nat
    BY <1>1, <2>1, TotalSeq
  <2> QED
    BY <2>2 DEF TermStart, s
<1>4. ASSUME NEW i \in 1..N PROVE TermStart(f, i + 1) = TermStart(f, i) + s[i]
  <2> DEFINE p == SubSeq(s, 1, i - 1)
  <2>1. p \in Seq(Nat) /\ SubSeq(s, 1, i) = Append(p, s[i]) /\ s[i] \in Nat
    BY <1>1
  <2> HIDE DEF p
  <2>2. Total(Append(p, s[i])) = Total(p) + s[i]
    BY <2>1, TotalSeq
  <2>3. (i + 1) - 1 = i
    BY <1>1
  <2> QED
    BY <2>1, <2>2, <2>3 DEF TermStart, p, s
<1> QED
    BY <1>1, <1>2, <1>3, <1>4 DEF TermEnd, s

\* Later terms start later.
LEMMA Increasing ==
    ASSUME NEW f \in File, NEW i \in 1..(Len(Lens[f]) + 1), NEW j \in 1..(Len(Lens[f]) + 1), i <= j
    PROVE  TermStart(f, i) + (j - i) <= TermStart(f, j)
<1> DEFINE N == Len(Lens[f]) + 1
           S == {d \in 0..(N - i) : TermStart(f, i) + d <= TermStart(f, i + d)}
<1>1. N \in Nat /\ i \in Nat /\ j \in Nat /\ \A n \in 1..N : TermStart(f, n) \in Nat
    BY Terms
<1>2. \A n \in 1..(N - 1) : TermStart(f, n) + 1 <= TermStart(f, n + 1)
  <2> TAKE n \in 1..(N - 1)
  <2>1. n \in 1..Len(Lens[f])
    BY Terms
  <2>2. /\ Lens[f][n] \in Nat \ {0} /\ TermEnd(f, n) = TermStart(f, n) + Lens[f][n]
        /\ TermEnd(f, n) = TermStart(f, n + 1)
    BY <2>1, Terms
  <2>3. TermStart(f, n) \in Nat
    BY <1>1
  <2> QED
    BY <2>2, <2>3
<1> HIDE DEF N
<1>3. 0 \in S
    BY <1>1 DEF N
<1>4. ASSUME NEW d \in 1..(N - i), d - 1 \in S PROVE d \in S
  <2> DEFINE m == i + (d - 1)
  <2>1. m \in 1..(N - 1) /\ m + 1 = i + d /\ m \in 1..N /\ m + 1 \in 1..N
    BY <1>1 DEF N
  <2>2. TermStart(f, i) + (d - 1) <= TermStart(f, m)
    BY <1>4
  <2>3. TermStart(f, m) + 1 <= TermStart(f, m + 1)
    BY <1>2, <2>1
  <2> HIDE DEF m
  <2>4. TermStart(f, m) \in Nat /\ TermStart(f, m + 1) \in Nat /\ TermStart(f, i) \in Nat
    BY <1>1, <2>1 DEF N
  <2>5. TermStart(f, i) + d <= TermStart(f, i + d)
    BY <1>1, <2>1, <2>2, <2>3, <2>4
  <2> QED
    BY <1>1, <2>5
<1>5. \A d \in 0..(N - i) : d \in S
  <2>1. N - i \in Nat
    BY <1>1 DEF N
  <2> HIDE DEF S
  <2> QED
    BY <1>3, <1>4, <2>1, InductTo
<1>6. j - i \in 0..(N - i) /\ i + (j - i) = j
    BY <1>1 DEF N
<1> QED
    BY <1>5, <1>6

\* Runs of bytes: their length, two in a row, the end of one, its beginning.
LEMMA Runs ==
    ASSUME NEW a \in Nat, NEW b \in Nat, a <= b
    PROVE  /\ Bytes(a, b) \in Seq(Nat) /\ Len(Bytes(a, b)) = b - a
           /\ \A c \in Nat : b <= c => Bytes(a, b) \o Bytes(b, c) = Bytes(a, c)
           /\ \A d \in 0..(b - a) : SubSeq(Bytes(a, b), d + 1, b - a) = Bytes(a + d, b)
           /\ \A c \in Nat : a <= c /\ c <= b => IsPrefix(Bytes(a, c), Bytes(a, b))
<1>1. \A x, y \in Nat : x <= y =>
            /\ Bytes(x, y) \in Seq(Nat) /\ Len(Bytes(x, y)) = y - x
            /\ \A p \in 1..(y - x) : Bytes(x, y)[p] = x + p - 1
    BY DEF Bytes
<1>2. ASSUME NEW c \in Nat, b <= c PROVE Bytes(a, b) \o Bytes(b, c) = Bytes(a, c)
  <2> DEFINE u == Bytes(a, b)
             v == Bytes(b, c)
             w == Bytes(a, c)
  <2>1. /\ u \in Seq(Nat) /\ Len(u) = b - a /\ \A p \in 1..(b - a) : u[p] = a + p - 1
        /\ v \in Seq(Nat) /\ Len(v) = c - b /\ \A p \in 1..(c - b) : v[p] = b + p - 1
        /\ w \in Seq(Nat) /\ Len(w) = c - a /\ \A p \in 1..(c - a) : w[p] = a + p - 1
    <3>1. a <= c
      BY <1>2
    <3>2. u \in Seq(Nat) /\ Len(u) = b - a /\ \A p \in 1..(b - a) : u[p] = a + p - 1
      BY <1>1
    <3>3. v \in Seq(Nat) /\ Len(v) = c - b /\ \A p \in 1..(c - b) : v[p] = b + p - 1
      BY <1>1, <1>2
    <3>4. w \in Seq(Nat) /\ Len(w) = c - a /\ \A p \in 1..(c - a) : w[p] = a + p - 1
      BY <1>1, <3>1
    <3> QED
      BY <3>2, <3>3, <3>4
  <2> HIDE DEF u, v, w
  <2>2. u \o v \in Seq(Nat) /\ Len(u \o v) = c - a
    BY <1>2, <2>1
  <2>3. ASSUME NEW p \in 1..(c - a) PROVE (u \o v)[p] = w[p]
    <3>1. CASE p <= b - a
      BY <1>2, <2>1, <3>1
    <3>2. CASE p > b - a
      <4>1. p - (b - a) \in 1..(c - b) /\ p \in 1..(Len(u) + Len(v)) /\ ~(p <= Len(u))
        BY <1>2, <2>1, <3>2
      <4>2. (u \o v)[p] = v[p - Len(u)]
        BY <2>1, <4>1, ConcatProperties
      <4>3. v[p - (b - a)] = b + (p - (b - a)) - 1 /\ w[p] = a + p - 1
        BY <2>1, <4>1
      <4> QED
        BY <2>1, <4>2, <4>3
    <3>3. p <= b - a \/ p > b - a
      OBVIOUS
    <3> QED
      BY <3>1, <3>2, <3>3
  <2>4. u \o v = w
    BY <2>1, <2>2, <2>3, SeqEqual
  <2> QED
    BY <2>4 DEF u, v, w
<1>3. ASSUME NEW d \in 0..(b - a) PROVE SubSeq(Bytes(a, b), d + 1, b - a) = Bytes(a + d, b)
  <2> DEFINE u == Bytes(a, b)
             w == Bytes(a + d, b)
             z == SubSeq(u, d + 1, b - a)
  <2>1. /\ u \in Seq(Nat) /\ Len(u) = b - a /\ \A p \in 1..(b - a) : u[p] = a + p - 1
        /\ w \in Seq(Nat) /\ Len(w) = b - (a + d) /\ \A p \in 1..(b - (a + d)) : w[p] = (a + d) + p - 1
    <3>1. a + d \in Nat /\ a + d <= b
      OBVIOUS
    <3>2. u \in Seq(Nat) /\ Len(u) = b - a /\ \A p \in 1..(b - a) : u[p] = a + p - 1
      BY <1>1
    <3>3. w \in Seq(Nat) /\ Len(w) = b - (a + d) /\ \A p \in 1..(b - (a + d)) : w[p] = (a + d) + p - 1
      BY <1>1, <3>1
    <3> QED
      BY <3>2, <3>3
  <2> HIDE DEF u, w
  <2>2. z \in Seq(Nat) /\ Len(z) = b - (a + d) /\ \A p \in 1..(b - (a + d)) : z[p] = u[d + p]
    <3> DEFINE l == b - a
    <3>1. l \in Nat /\ l = Len(u) /\ d \in 0..l /\ l - d = b - (a + d)
      BY <2>1
    <3> HIDE DEF l
    <3>a. d + 1 \in Int /\ l \in Int /\ \A p \in (d + 1)..l : u[p] \in Nat
      BY <2>1, <3>1
    <3>b. /\ SubSeq(u, d + 1, l) \in Seq(Nat)
          /\ Len(SubSeq(u, d + 1, l)) = IF d + 1 <= l THEN (l - (d + 1)) + 1 ELSE 0
          /\ \A p \in 1..((l - (d + 1)) + 1) : SubSeq(u, d + 1, l)[p] = u[((d + 1) + p) - 1]
      BY <3>a, SubSeqProperties
    <3>3. SubSeq(u, d + 1, l) \in Seq(Nat)
      BY <3>b
    <3>4. Len(SubSeq(u, d + 1, l)) = l - d
      BY <3>1, <3>b
    <3>5. ASSUME NEW p \in 1..(l - d) PROVE SubSeq(u, d + 1, l)[p] = u[d + p]
      <4>1. p \in 1..((l - (d + 1)) + 1) /\ ((d + 1) + p) - 1 = d + p
        BY <3>1
      <4> QED
        BY <3>b, <4>1
    <3>2. /\ SubSeq(u, d + 1, l) \in Seq(Nat) /\ Len(SubSeq(u, d + 1, l)) = l - d
          /\ \A p \in 1..(l - d) : SubSeq(u, d + 1, l)[p] = u[d + p]
      BY <3>3, <3>4, <3>5
    <3> QED
      BY <3>1, <3>2 DEF l
  <2> HIDE DEF z
  <2>3. \A p \in 1..Len(z) : z[p] = w[p]
    BY <2>1, <2>2
  <2>4. z = w
    BY <2>1, <2>2, <2>3, SeqEqual
  <2> QED
    BY <2>4 DEF u, w, z
<1>4. ASSUME NEW c \in Nat, a <= c, c <= b PROVE IsPrefix(Bytes(a, c), Bytes(a, b))
  <2> DEFINE u == Bytes(a, b)
             w == Bytes(a, c)
  <2>1. /\ u \in Seq(Nat) /\ Len(u) = b - a /\ \A p \in 1..(b - a) : u[p] = a + p - 1
        /\ w \in Seq(Nat) /\ Len(w) = c - a /\ \A p \in 1..(c - a) : w[p] = a + p - 1
    BY <1>1, <1>4
  <2> HIDE DEF u, w
  <2>2. SubSeq(w, 1, c - a) = SubSeq(u, 1, c - a)
    BY <1>4, <2>1
  <2> QED
    BY <1>4, <2>1, <2>2 DEF IsPrefix, u, w
<1> QED
    BY <1>1, <1>2, <1>3, <1>4

\* The terms of a whole-file plan.
LEMMA PlanTerms ==
    ASSUME NEW f \in File
    PROVE  /\ FullPlan(f).terms \in Seq(Seq(Nat)) /\ FullPlan(f).skip = 0
           /\ Len(FullPlan(f).terms) = Len(Lens[f])
           /\ DOMAIN FullPlan(f).terms = 1..Len(Lens[f])
           /\ \A i \in 1..Len(Lens[f]) :
                FullPlan(f).terms[i] = Bytes(TermStart(f, i), TermStart(f, i + 1))
<1> DEFINE N == Len(Lens[f])
           t == [i \in DOMAIN Lens[f] |-> Bytes(TermStart(f, i), TermEnd(f, i))]
<1>1. N \in Nat /\ DOMAIN Lens[f] = 1..N
    BY Terms
<1>2. ASSUME NEW i \in 1..N
      PROVE  /\ Bytes(TermStart(f, i), TermEnd(f, i)) \in Seq(Nat)
             /\ TermEnd(f, i) = TermStart(f, i + 1)
  <2>1. i \in 1..(N + 1) /\ i + 1 \in 1..(N + 1)
    BY <1>1
  <2>2. /\ TermStart(f, i) \in Nat /\ TermStart(f, i + 1) \in Nat
        /\ TermEnd(f, i) = TermStart(f, i + 1)
    BY <2>1, Terms
  <2>3. TermStart(f, i) + ((i + 1) - i) <= TermStart(f, i + 1)
    BY <1>1, <2>1, Increasing
  <2>4. TermStart(f, i) <= TermStart(f, i + 1)
    BY <1>1, <2>2, <2>3
  <2> QED
    BY <2>2, <2>4, Runs
<1>3. t \in Seq(Seq(Nat)) /\ Len(t) = N /\ DOMAIN t = 1..N
  <2>1. t \in [1..N -> Seq(Nat)]
    BY <1>1, <1>2
  <2> HIDE DEF t
  <2> QED
    BY <1>1, <2>1
<1>4. FullPlan(f).terms = t /\ FullPlan(f).skip = 0
    BY DEF FullPlan
<1> QED
    BY <1>1, <1>2, <1>3, <1>4

\* Terms a to b of a plan hold the bytes from the start of a to the end of b.
LEMMA PlanBytes ==
    ASSUME NEW f \in File, NEW t, t = FullPlan(f).terms,
           NEW a \in 1..Len(Lens[f]), NEW b \in a..Len(Lens[f])
    PROVE  /\ SubSeq(t, a, b) \in Seq(Seq(Nat)) /\ Len(SubSeq(t, a, b)) = b - a + 1
           /\ SubSeq(t, a, b)[1] = Bytes(TermStart(f, a), TermStart(f, a + 1))
           /\ FlattenSeq(SubSeq(t, a, b)) = Bytes(TermStart(f, a), TermStart(f, b + 1))
<1> DEFINE N == Len(Lens[f])
           M == b - a + 1
           q == SubSeq(t, a, b)
           TS(i) == TermStart(f, i)
           h == [n \in 1..M |-> Bytes(TS(a), TS(a + n))]
<1>1. N \in Nat /\ a \in Nat /\ b \in Nat /\ M \in Nat /\ M >= 1
    BY Terms
<1>2. t \in Seq(Seq(Nat)) /\ Len(t) = N /\ \A i \in 1..N : t[i] = Bytes(TS(i), TS(i + 1))
    BY PlanTerms
<1>3. q \in Seq(Seq(Nat)) /\ Len(q) = M /\ \A n \in 1..M : q[n] = t[a + n - 1]
  <2>1. \A i \in a..b : t[i] \in Seq(Nat)
    BY <1>1, <1>2
  <2>2. /\ SubSeq(t, a, b) \in Seq(Seq(Nat))
        /\ Len(SubSeq(t, a, b)) = IF a <= b THEN b - a + 1 ELSE 0
        /\ \A i \in 1..(b - a + 1) : SubSeq(t, a, b)[i] = t[a + i - 1]
    BY <1>1, <2>1, SubSeqProperties
  <2> QED
    BY <1>1, <2>2
<1>4. \A i, j \in 1..(N + 1) : i <= j => TS(i) \in Nat /\ TS(j) \in Nat /\ TS(i) <= TS(j)
  <2> TAKE i, j \in 1..(N + 1)
  <2> HAVE i <= j
  <2>1. TS(i) \in Nat /\ TS(j) \in Nat
    BY Terms
  <2>2. TS(i) + (j - i) <= TS(j)
    BY Increasing
  <2> HIDE DEF TS
  <2> QED
    BY <1>1, <2>1, <2>2
<1> HIDE DEF q, TS
<1>5. \A n \in 1..M : /\ a + n \in 1..(N + 1) /\ a \in 1..(N + 1) /\ a <= a + n
                      /\ (a + n) - 1 \in 1..N /\ ((a + n) - 1) + 1 = a + n /\ a <= (a + n) - 1
                      /\ a + n - 1 = (a + n) - 1 /\ a + (n - 1) = (a + n) - 1
                      /\ (a + n) - 1 \in 1..(N + 1) /\ (a + n) - 1 <= a + n
    BY <1>1
<1>6. h \in [1..M -> Seq(Nat)]
  <2>1. \A n \in 1..M : Bytes(TS(a), TS(a + n)) \in Seq(Nat)
    BY <1>4, <1>5, Runs
  <2> QED
    BY <2>1
<1>7. \A n \in 1..M : q[n] = Bytes(TS((a + n) - 1), TS(a + n))
    BY <1>2, <1>3, <1>5
<1>8. h[1] = q[1] /\ 1 \in 1..M
  <2>1. 1 \in 1..M /\ (a + 1) - 1 = a
    BY <1>1
  <2> QED
    BY <1>7, <2>1
<1>9. ASSUME NEW n \in 2..M PROVE h[n] = h[n - 1] \o q[n]
  <2>1. n \in 1..M /\ n - 1 \in 1..M
    BY <1>1
  <2>2. h[n] = Bytes(TS(a), TS(a + n)) /\ h[n - 1] = Bytes(TS(a), TS((a + n) - 1))
    BY <1>5, <2>1
  <2>3. /\ TS(a) \in Nat /\ TS((a + n) - 1) \in Nat /\ TS(a + n) \in Nat
        /\ TS(a) <= TS((a + n) - 1) /\ TS((a + n) - 1) <= TS(a + n)
    BY <1>4, <1>5, <2>1
  <2>4. Bytes(TS(a), TS((a + n) - 1)) \o Bytes(TS((a + n) - 1), TS(a + n)) = Bytes(TS(a), TS(a + n))
    BY <2>3, Runs
  <2> QED
    BY <1>7, <2>1, <2>2, <2>4
<1>10. h[M] = Bytes(TS(a), TS(b + 1)) /\ h[1] = Bytes(TS(a), TS(a + 1))
  <2>1. M \in 1..M /\ 1 \in 1..M /\ a + M = b + 1
    BY <1>1
  <2> QED
    BY <2>1
<1> HIDE DEF h, M
<1>12. /\ h \in [1..Len(q) -> Seq(Nat)] /\ Len(q) # 0 /\ h[1] = q[1] /\ q \in Seq(Seq(Nat))
       /\ \A n \in 2..Len(q) : h[n] = h[n - 1] \o q[n]
  <2>1. Len(q) = M /\ M # 0
    BY <1>1, <1>3
  <2>2. h \in [1..Len(q) -> Seq(Nat)]
    BY <1>6, <2>1
  <2>3. \A n \in 2..Len(q) : h[n] = h[n - 1] \o q[n]
    BY <1>9, <2>1
  <2> QED
    BY <1>3, <1>8, <2>1, <2>2, <2>3
<1>11. FlattenSeq(q) = h[Len(q)]
    BY <1>12, FlattenChain
<1> QED
    BY <1>3, <1>8, <1>10, <1>11 DEF q, TS, M

\* The whole plan, also of a file without terms.
LEMMA WholePlan ==
    ASSUME NEW f \in File
    PROVE  /\ SizeOf(f) \in Nat
           /\ FlattenSeq(FullPlan(f).terms) = Bytes(0, SizeOf(f))
           /\ Len(Lens[f]) = 0 => FullPlan(f).terms = <<>> /\ SizeOf(f) = 0
           /\ Len(Lens[f]) # 0 => SizeOf(f) > 0
           /\ FullPlan(f).terms # <<>> => Len(FullPlan(f).terms[1]) > 0 /\ Len(Lens[f]) # 0
<1> DEFINE N == Len(Lens[f])
           t == FullPlan(f).terms
<1>1. N \in Nat /\ SizeOf(f) = TermStart(f, N + 1) /\ TermStart(f, 1) = 0
    BY Terms DEF SizeOf
<1>2. SizeOf(f) \in Nat
  <2>1. N + 1 \in 1..(N + 1)
    BY <1>1
  <2> QED
    BY <1>1, <2>1, Terms
<1>3. t \in Seq(Seq(Nat)) /\ Len(t) = N /\ \A i \in 1..N : t[i] = Bytes(TermStart(f, i), TermStart(f, i + 1))
    BY PlanTerms
<1> HIDE DEF t
<1>4. CASE N = 0
  <2>1. t = <<>> /\ SizeOf(f) = 0
    BY <1>1, <1>3, <1>4
  <2>2. FlattenSeq(<<>>) = <<>>
    BY DEF FlattenSeq
  <2>3. Bytes(0, 0) = <<>>
    BY DEF Bytes
  <2> QED
    BY <1>2, <1>4, <2>1, <2>2, <2>3 DEF t
<1>5. CASE N # 0
  <2>1. 1 \in 1..N /\ N \in 1..N /\ 1 \in 1..(N + 1) /\ 2 \in 1..(N + 1) /\ N + 1 \in 1..(N + 1) /\ 1 <= N
    BY <1>1, <1>5
  <2>2. SubSeq(t, 1, N) = t
    BY <1>1, <1>3
  <2>3. FlattenSeq(SubSeq(t, 1, N)) = Bytes(TermStart(f, 1), TermStart(f, N + 1))
    BY <2>1, PlanBytes DEF t
  <2>4. TermStart(f, 2) \in Nat
    BY <2>1, Terms
  <2>5. TermStart(f, 1) + (2 - 1) <= TermStart(f, 2)
    BY <2>1, Increasing
  <2>6. TermStart(f, 2) + ((N + 1) - 2) <= TermStart(f, N + 1)
    BY <1>1, <2>1, Increasing
  <2>7. t[1] = Bytes(0, TermStart(f, 2))
    BY <1>1, <1>3, <2>1
  <2>8. Len(Bytes(0, TermStart(f, 2))) = TermStart(f, 2) - 0
    <3>1. 0 \in Nat /\ 0 <= TermStart(f, 2)
      BY <2>4
    <3> QED
      BY <2>4, <3>1, Runs
  <2>9. TermStart(f, 2) > 0
    BY <1>1, <2>4, <2>5
  <2>10. SizeOf(f) > 0
    BY <1>1, <1>2, <1>5, <2>4, <2>6, <2>9
  <2>11. Len(t[1]) > 0
    BY <2>4, <2>7, <2>8, <2>9
  <2>12. FlattenSeq(t) = Bytes(0, SizeOf(f))
    BY <1>1, <2>2, <2>3
  <2> QED
    BY <1>2, <1>5, <2>10, <2>11, <2>12 DEF t
<1> QED
    BY <1>4, <1>5

\* AnswerIsRange for one key and one answer.
Exact(k, a) ==
    LET f == k[1]
        r == IF k[2] = None THEN <<0, SizeOf(f)>> ELSE k[2]
        want == Bytes(r[1], Min({r[2], SizeOf(f)}))
        all == FlattenSeq(a.terms)
    IN  IF r[1] > 0 /\ r[1] >= SizeOf(f)
        THEN a = None
        ELSE /\ a # None
             /\ IsPrefix(want, SubSeq(all, a.skip + 1, Len(all)))
             /\ a.terms # <<>> => a.skip < Len(a.terms[1])

Plan == [terms : Seq(Seq(Nat)), skip : Nat]

\* The smaller and the larger of two numbers.
LEMMA Extremes ==
    /\ \A x, y \in Nat : Min({x, y}) = IF x <= y THEN x ELSE y
    /\ \A x \in Int : Max({x, 0}) = IF x >= 0 THEN x ELSE 0
<1>1. ASSUME NEW x \in Nat, NEW y \in Nat PROVE Min({x, y}) = IF x <= y THEN x ELSE y
  <2> DEFINE T == {x, y}
  <2>1. \E u \in T : \A v \in T : u =< v
    OBVIOUS
  <2>2. Min(T) \in T /\ \A v \in T : Min(T) =< v
    <3> HIDE DEF T
    <3> QED
      BY <2>1 DEF Min
  <2> QED
    BY <2>2
<1>2. ASSUME NEW x \in Int PROVE Max({x, 0}) = IF x >= 0 THEN x ELSE 0
  <2> DEFINE T == {x, 0}
  <2>1. \E u \in T : \A v \in T : u >= v
    OBVIOUS
  <2>2. Max(T) \in T /\ \A v \in T : Max(T) >= v
    <3> HIDE DEF T
    <3> QED
      BY <2>1 DEF Max
  <2> QED
    BY <2>2
<1> QED
    BY <1>1, <1>2

\* The first and the last of a set of indices.
LEMMA FirstLast ==
    ASSUME NEW N \in Nat, NEW K \in SUBSET (1..N), K # {}
    PROVE  /\ Min(K) \in K /\ \A i \in K : Min(K) <= i
           /\ Max(K) \in K /\ \A i \in K : i <= Max(K)
<1>1. \E m \in K : \A n \in K : m <= n
  <2>1. K \subseteq Nat
    OBVIOUS
  <2> QED
    BY <2>1, MinNat
<1>2. Min(K) \in K /\ \A i \in K : Min(K) =< i
    BY <1>1 DEF Min
<1> DEFINE T == {u \in 1..N : \A i \in K : i <= u}
<1>9. PICK j \in K : j \in 1..N
    OBVIOUS
<1>3. T \subseteq Nat /\ N \in T
  <2>1. N \in 1..N /\ \A i \in 1..N : i <= N
    BY <1>9
  <2> QED
    BY <2>1
<1>4. PICK u \in T : \A v \in T : u <= v
  <2> HIDE DEF T
  <2> QED
    BY <1>3, MinNat
<1>5. u \in K
  <2> SUFFICES ASSUME u \notin K PROVE FALSE
    OBVIOUS
  <2>1. \A i \in K : i \in 1..N /\ i <= u /\ i # u
    OBVIOUS
  <2>2. \A i \in K : i <= u - 1
    BY <2>1
  <2>3. u - 1 >= 1
    <3>1. j >= 1 /\ j <= u - 1 /\ u \in Nat /\ j \in Nat
      BY <1>9, <2>2
    <3> QED
      BY <3>1
  <2>4. u - 1 \in T
    BY <2>2, <2>3
  <2> QED
    BY <1>4, <2>4
<1>6. \E m \in K : \A n \in K : m >= n
    BY <1>5
<1>7. Max(K) \in K /\ \A i \in K : Max(K) >= i
    BY <1>6 DEF Max
<1>8. \A i \in K : i \in Nat
    OBVIOUS
<1> QED
    BY <1>2, <1>7, <1>8

\* The bytes of a run from its offset on begin with the bytes asked for.
LEMMA Begins ==
    ASSUME NEW x \in Nat, NEW y \in Nat, NEW e \in Nat, NEW z \in Nat, x <= y, y <= e, e <= z
    PROVE  IsPrefix(Bytes(y, e), SubSeq(Bytes(x, z), (y - x) + 1, Len(Bytes(x, z))))
<1>1. y - x \in 0..(z - x) /\ x <= z /\ y <= z /\ x + (y - x) = y
    OBVIOUS
<1>2. Len(Bytes(x, z)) = z - x
    BY <1>1, Runs
<1>3. SubSeq(Bytes(x, z), (y - x) + 1, z - x) = Bytes(x + (y - x), z)
    BY <1>1, Runs
<1>4. IsPrefix(Bytes(y, e), Bytes(y, z))
    BY <1>1, Runs
<1> QED
    BY <1>1, <1>2, <1>3, <1>4

\* The answers of the CAS are exact.
LEMMA CasExact ==
    ASSUME NEW k \in Key
    PROVE  Exact(k, CasAnswer(k))
<1>1. PICK f \in File, r \in Ranges \cup {None} : k = <<f, r>>
    BY DEF Key
<1> DEFINE S == SizeOf(f)
           a == CasAnswer(k)
<1>2. k[1] = f /\ k[2] = r
    BY <1>1
<1>3. /\ S \in Nat /\ FlattenSeq(FullPlan(f).terms) = Bytes(0, S)
      /\ FullPlan(f).terms # <<>> => Len(FullPlan(f).terms[1]) > 0
    BY WholePlan
<1> HIDE DEF S
<1>4. CASE r = None
  <2>1. a = FullPlan(f)
    BY <1>2, <1>4 DEF CasAnswer
  <2>2. a.terms \in Seq(Seq(Nat)) /\ a.skip = 0 /\ a # None
    <3>1. FullPlan(f).terms \in Seq(Seq(Nat)) /\ FullPlan(f).skip = 0
      BY PlanTerms
    <3>2. FullPlan(f) \in Plan
      BY <3>1 DEF FullPlan, Plan
    <3> QED
      BY <2>1, <3>1, <3>2, NoneAssumption DEF Plan
  <2>3. Min({S, S}) = S
    BY <1>3, Extremes
  <2>4. IsPrefix(Bytes(0, S), SubSeq(Bytes(0, S), (0 - 0) + 1, Len(Bytes(0, S))))
    <3>1. 0 \in Nat /\ 0 <= 0 /\ 0 <= S /\ S <= S
      BY <1>3
    <3> QED
      BY <1>3, <3>1, Begins
  <2>5. (0 - 0) + 1 = 0 + 1
    OBVIOUS
  <2> HIDE DEF a
  <2>6. FlattenSeq(a.terms) = Bytes(0, S) /\ (a.terms # <<>> => Len(a.terms[1]) > 0)
    BY <1>3, <2>1
  <2>7. /\ IsPrefix(Bytes(0, S), SubSeq(Bytes(0, S), a.skip + 1, Len(Bytes(0, S))))
        /\ a.terms # <<>> => a.skip < Len(a.terms[1])
    <3>1. a.terms # <<>> => Len(a.terms[1]) \in Nat
      BY <2>2
    <3> QED
      BY <2>2, <2>4, <2>5, <2>6, <3>1
  <2>8. Exact(k, a)
    <3> DEFINE q == <<0, S>>
    <3>1. q[1] = 0 /\ q[2] = S /\ ~(q[1] > 0)
      OBVIOUS
    <3> QED
      BY <1>2, <1>4, <2>2, <2>3, <2>6, <2>7, <3>1 DEF Exact, S
  <2> QED
    BY <2>8 DEF a
<1>5. CASE r # None
  <2>1. r \in Nat \X Nat /\ r[1] \in Nat /\ r[2] \in Nat /\ r[1] < r[2]
    BY <1>5, RangeAssumption
  <2> DEFINE e == Min({r[2], S})
  <2>2. e = IF r[2] <= S THEN r[2] ELSE S
    BY <1>3, <2>1, Extremes
  <2> HIDE DEF e
  <2>3. CASE r[1] < S
    <3> DEFINE b == Bytes(r[1], e)
               p == [terms |-> <<b>>, skip |-> 0]
    <3>1. e \in Nat /\ r[1] < e /\ r[1] <= e
      BY <1>3, <2>1, <2>2, <2>3
    <3>2. b \in Seq(Nat) /\ Len(b) = e - r[1]
      BY <2>1, <3>1, Runs
    <3>3. a = p
      BY <1>2, <1>5, <2>3 DEF CasAnswer, S, e
    <3> HIDE DEF b
    <3>4. p \in Plan /\ p.terms = <<b>> /\ p.skip = 0 /\ p # None
      <4>1. <<b>> \in Seq(Seq(Nat))
        BY <3>2
      <4>2. p \in Plan /\ p.terms = <<b>> /\ p.skip = 0
        BY <4>1 DEF Plan
      <4> HIDE DEF p
      <4> QED
        BY <4>2, NoneAssumption DEF Plan
    <3> HIDE DEF p
    <3>5. FlattenSeq(<<b>>) = b
      <4> DEFINE t == <<b>>
                 h == [n \in 1..1 |-> b]
      <4>1. t \in Seq(Seq(Nat)) /\ Len(t) = 1 /\ t[1] = b
        BY <3>2
      <4>2. h \in [1..Len(t) -> Seq(Nat)] /\ h[1] = t[1] /\ h[Len(t)] = b
        BY <3>2, <4>1
      <4>3. Len(t) # 0 /\ \A n \in 2..Len(t) : h[n] = h[n - 1] \o t[n]
        BY <4>1
      <4> HIDE DEF t, h
      <4>4. FlattenSeq(t) = h[Len(t)]
        BY <4>1, <4>2, <4>3, FlattenChain
      <4> QED
        BY <4>2, <4>4 DEF t
    <3>6. IsPrefix(b, SubSeq(b, (r[1] - r[1]) + 1, Len(b)))
      <4>1. e <= e /\ r[1] <= r[1]
        BY <2>1, <3>1
      <4> QED
        BY <2>1, <3>1, <4>1, Begins DEF b
    <3>7. (r[1] - r[1]) + 1 = 0 + 1 /\ Len(b) > 0 /\ <<b>>[1] = b
      BY <2>1, <3>1, <3>2
    <3>8. ~(r[1] > 0 /\ r[1] >= S)
      BY <1>3, <2>1, <2>3
    <3> QED
      BY <1>2, <1>5, <3>3, <3>4, <3>5, <3>6, <3>7, <3>8 DEF Exact, S, e, b
  <2>4. CASE ~(r[1] < S) /\ r[1] = 0 /\ S = 0
    <3> DEFINE p == [terms |-> <<>>, skip |-> 0]
    <3>1. a = p
      BY <1>2, <1>5, <2>4 DEF CasAnswer, S
    <3>2. p \in Plan /\ p.terms = <<>> /\ p.skip = 0
      BY DEF Plan
    <3> HIDE DEF p
    <3>3. p # None
      BY <3>2, NoneAssumption DEF Plan
    <3>4. e = 0 /\ Bytes(0, 0) = <<>>
      BY <2>1, <2>2, <2>4 DEF Bytes
    <3>5. FlattenSeq(<<>>) = <<>>
      BY DEF FlattenSeq
    <3>6. IsPrefix(<<>>, SubSeq(<<>>, 0 + 1, Len(<<>>)))
      BY DEF IsPrefix
    <3>7. ~(r[1] > 0)
      BY <2>4
    <3> QED
      BY <1>2, <1>5, <2>4, <3>1, <3>2, <3>3, <3>4, <3>5, <3>6, <3>7 DEF Exact, S, e
  <2>5. CASE ~(r[1] < S) /\ ~(r[1] = 0 /\ S = 0)
    <3>1. a = None
      BY <1>2, <1>5, <2>5 DEF CasAnswer, S
    <3>2. r[1] > 0 /\ r[1] >= S
      BY <1>3, <2>1, <2>5
    <3> QED
      BY <1>2, <1>5, <3>1, <3>2 DEF Exact, S
  <2> QED
    BY <2>3, <2>4, <2>5
<1> QED
    BY <1>4, <1>5

\* A range that does not start past the end of the file has a first term.
LEMMA SomeTerm ==
    ASSUME NEW f \in File, NEW x \in Nat, x < SizeOf(f)
    PROVE  \E i \in 1..Len(Lens[f]) : TermStart(f, i) <= x /\ x < TermStart(f, i + 1)
<1> DEFINE N == Len(Lens[f])
           T == {i \in 1..N : x < TermStart(f, i + 1)}
<1>1. /\ N \in Nat /\ SizeOf(f) = TermStart(f, N + 1) /\ TermStart(f, 1) = 0
      /\ \A i \in 1..(N + 1) : TermStart(f, i) \in Nat
    BY Terms DEF SizeOf
<1>2. N # 0
    BY <1>1
<1>3. T \subseteq Nat /\ N \in T
    BY <1>1, <1>2
<1>4. PICK i \in T : \A j \in T : i <= j
  <2> HIDE DEF T
  <2> QED
    BY <1>3, MinNat
<1>5. TermStart(f, i) <= x
  <2>1. CASE i = 1
    BY <1>1, <2>1
  <2>2. CASE i # 1
    <3>1. i - 1 \in 1..N /\ (i - 1) + 1 = i /\ ~(i <= i - 1) /\ i \in 1..(N + 1)
      BY <1>1, <2>2
    <3>2. i - 1 \notin T
      BY <1>4, <3>1
    <3>3. ~(x < TermStart(f, i)) /\ TermStart(f, i) \in Nat
      BY <1>1, <3>1, <3>2
    <3> QED
      BY <3>3
  <2> QED
    BY <2>1, <2>2
<1> QED
    BY <1>4, <1>5

\* Answers derived from a plan for the whole file are exact: the terms kept
\* are those that overlap the range, the first is entered where it starts.
LEMMA DerivedExact ==
    ASSUME NEW f \in File, NEW r \in Ranges, r # None
    PROVE  Exact(<<f, r>>, Derived(f, FullPlan(f), r))
<1> DEFINE N == Len(Lens[f])
           S == SizeOf(f)
           t == FullPlan(f).terms
           TS(i) == TermStart(f, i)
           kept == {i \in DOMAIN FullPlan(f).terms : Overlaps(r, TermStart(f, i), TermEnd(f, i))}
           e == Min({r[2], S})
           d == Derive(f, FullPlan(f), r)
           ans == Derived(f, FullPlan(f), r)
           k == <<f, r>>
<1>0. k[1] = f /\ k[2] = r
    OBVIOUS
<1>1. r \in Nat \X Nat /\ r[1] \in Nat /\ r[2] \in Nat /\ r[1] < r[2]
    BY RangeAssumption
<1>2. /\ N \in Nat /\ S \in Nat /\ S = TS(N + 1) /\ TS(1) = 0
      /\ \A i \in 1..(N + 1) : TS(i) \in Nat
      /\ \A i \in 1..N : TermEnd(f, i) = TS(i + 1)
    BY Terms, WholePlan DEF SizeOf
<1>3. /\ t \in Seq(Seq(Nat)) /\ Len(t) = N /\ DOMAIN t = 1..N
      /\ N = 0 => t = <<>> /\ S = 0
      /\ N # 0 => S > 0
    BY PlanTerms, WholePlan
<1>4. e = IF r[2] <= S THEN r[2] ELSE S
    BY <1>1, <1>2, Extremes
<1>5. /\ kept \subseteq 1..N
      /\ \A i \in 1..N : i \in kept <=> r[1] < TS(i + 1) /\ TS(i) < r[2]
  <2>1. kept = {i \in 1..N : ~(TS(i + 1) <= r[1]) /\ ~(TS(i) >= r[2])}
    BY <1>2, <1>3 DEF Overlaps
  <2>2. \A i \in 1..N : i \in 1..(N + 1) /\ i + 1 \in 1..(N + 1)
    BY <1>2
  <2>3. \A i \in 1..N : TS(i) \in Nat /\ TS(i + 1) \in Nat
    BY <1>2, <2>2
  <2> HIDE DEF TS, kept
  <2> QED
    BY <1>1, <2>1, <2>3
<1>6. /\ d = IF kept = {} THEN [terms |-> <<>>, skip |-> 0]
             ELSE [terms |-> SubSeq(t, Min(kept), Max(kept)),
                   skip |-> Max({r[1] - TS(Min(kept)), 0})]
      /\ ans = IF d.terms = <<>> /\ (t # <<>> \/ r[1] > 0) THEN None ELSE d
    BY DEF Derive, Derived
<1>7. \A i, j \in 1..(N + 1) : i <= j => TS(i) + (j - i) <= TS(j)
    BY Increasing
<1> HIDE DEF t, TS, kept, d, ans
<1>8. CASE kept = {}
  <2>1. d.terms = <<>> /\ d.skip = 0 /\ d \in Plan
    BY <1>6, <1>8 DEF Plan
  <2>2. S <= r[1]
    <3> SUFFICES ASSUME r[1] < S PROVE FALSE
      BY <1>1, <1>2
    <3>1. PICK i \in 1..N : TS(i) <= r[1] /\ r[1] < TS(i + 1)
      BY <1>1, SomeTerm DEF TS
    <3>2. TS(i) < r[2]
      <4>1. i \in 1..(N + 1)
        BY <1>2
      <4>2. TS(i) \in Nat
        BY <1>2, <4>1
      <4> QED
        BY <1>1, <3>1, <4>2
    <3> QED
      BY <1>5, <1>8, <3>1, <3>2
  <2>3. CASE r[1] > 0
    <3>1. ans = None
      BY <1>6, <2>1, <2>3
    <3>2. r[1] >= S
      BY <1>1, <1>2, <2>2
    <3> QED
      BY <1>0, <2>3, <3>1, <3>2 DEF Exact, ans
  <2>4. CASE r[1] = 0
    <3>1. S = 0 /\ N = 0 /\ t = <<>> /\ ~(r[1] > 0)
      BY <1>2, <1>3, <2>2, <2>4
    <3>2. ans = d /\ d # None
      BY <1>6, <2>1, <3>1, NoneAssumption DEF Plan
    <3>3. e = 0 /\ Bytes(0, 0) = <<>>
      BY <1>1, <1>4, <3>1 DEF Bytes
    <3>4. FlattenSeq(<<>>) = <<>> /\ IsPrefix(<<>>, SubSeq(<<>>, 0 + 1, Len(<<>>)))
      BY DEF FlattenSeq, IsPrefix
    <3> QED
      BY <1>0, <2>1, <2>4, <3>1, <3>2, <3>3, <3>4 DEF Exact, ans
  <2> QED
    BY <1>1, <2>3, <2>4
<1>9. CASE kept # {}
  <2> DEFINE a == Min(kept)
             b == Max(kept)
             q == SubSeq(t, a, b)
  <2>1. a \in kept /\ b \in kept /\ \A i \in kept : a <= i /\ i <= b
    BY <1>2, <1>5, <1>9, FirstLast
  <2>2. a \in 1..N /\ b \in 1..N /\ b \in a..N
    <3> HIDE DEF a, b
    <3>1. a \in 1..N /\ b \in 1..N /\ a <= b
      BY <1>5, <2>1
    <3> QED
      BY <1>2, <3>1
  <2>3. d = [terms |-> q, skip |-> Max({r[1] - TS(a), 0})]
    BY <1>6, <1>9
  <2> HIDE DEF a, b, q
  <2>4. /\ a \in 1..(N + 1) /\ a + 1 \in 1..(N + 1) /\ b + 1 \in 1..(N + 1) /\ N + 1 \in 1..(N + 1)
        /\ a + 1 <= b + 1 /\ b + 1 <= N + 1
    BY <1>2, <2>2
  <2>5. /\ TS(a) \in Nat /\ TS(a + 1) \in Nat /\ TS(b + 1) \in Nat
        /\ TS(a + 1) <= TS(b + 1) /\ TS(b + 1) <= S
    <3>1. TS(a) \in Nat /\ TS(a + 1) \in Nat /\ TS(b + 1) \in Nat /\ TS(N + 1) \in Nat
      BY <1>2, <2>4
    <3>2. TS(a + 1) + ((b + 1) - (a + 1)) <= TS(b + 1) /\ TS(b + 1) + ((N + 1) - (b + 1)) <= TS(N + 1)
      BY <1>7, <2>4
    <3> QED
      BY <1>2, <2>2, <3>1, <3>2
  <2>6. r[1] < TS(a + 1) /\ TS(a) < r[2]
    BY <1>5, <2>1, <2>2
  <2>7. TS(a) <= r[1]
    <3>1. CASE a = 1
      BY <1>1, <1>2, <3>1
    <3>2. CASE a # 1
      <4>1. a - 1 \in 1..N /\ (a - 1) + 1 = a /\ ~(a <= a - 1) /\ a - 1 \in 1..(N + 1) /\ a - 1 <= a
        BY <1>2, <2>2, <3>2
      <4>2. a - 1 \notin kept
        BY <2>1, <4>1
      <4>3. ~(r[1] < TS(a) /\ TS(a - 1) < r[2])
        BY <1>5, <4>1, <4>2
      <4>4. TS(a - 1) \in Nat /\ TS(a - 1) + (a - (a - 1)) <= TS(a)
        BY <1>2, <1>7, <2>4, <4>1
      <4>5. TS(a - 1) < r[2]
        BY <1>1, <2>2, <2>5, <2>6, <4>4
      <4> QED
        BY <1>1, <2>5, <4>3, <4>5
    <3> QED
      BY <3>1, <3>2
  <2>8. e \in Nat /\ r[1] <= e /\ e <= TS(b + 1)
    <3>1. CASE b = N
      BY <1>1, <1>2, <1>4, <2>5, <2>6, <3>1
    <3>2. CASE b # N
      <4>1. /\ b + 1 \in 1..N /\ ~(b + 1 <= b) /\ (b + 1) + 1 \in 1..(N + 1)
            /\ b + 1 <= (b + 1) + 1
        BY <1>2, <2>2, <3>2
      <4>2. b + 1 \notin kept
        BY <2>1, <4>1
      <4>3. ~(r[1] < TS((b + 1) + 1) /\ TS(b + 1) < r[2])
        BY <1>5, <4>1, <4>2
      <4>4. TS((b + 1) + 1) \in Nat /\ TS(b + 1) + (((b + 1) + 1) - (b + 1)) <= TS((b + 1) + 1)
        BY <1>2, <1>7, <2>4, <4>1
      <4>5. r[1] < TS((b + 1) + 1)
        BY <1>1, <2>2, <2>5, <2>6, <4>4
      <4>6. r[2] <= TS(b + 1)
        BY <1>1, <2>5, <4>3, <4>5
      <4> QED
        BY <1>1, <1>2, <1>4, <2>5, <2>6, <4>6
    <3> QED
      BY <3>1, <3>2
  <2>9. Max({r[1] - TS(a), 0}) = r[1] - TS(a) /\ r[1] - TS(a) \in Nat
    <3>1. r[1] - TS(a) \in Int /\ r[1] - TS(a) >= 0
      BY <1>1, <2>5, <2>7
    <3> QED
      BY <3>1, Extremes
  <2>10. /\ q \in Seq(Seq(Nat)) /\ Len(q) = b - a + 1 /\ q[1] = Bytes(TS(a), TS(a + 1))
         /\ FlattenSeq(q) = Bytes(TS(a), TS(b + 1))
    BY <2>2, PlanBytes DEF t, TS, q
  <2>11. q # <<>>
    BY <1>2, <2>2, <2>10
  <2>12. d.terms = q /\ d.skip = r[1] - TS(a) /\ d \in Plan
    BY <2>3, <2>9, <2>10 DEF Plan
  <2>13. ans = d /\ d # None
    <3>1. d # None
      BY <2>12, NoneAssumption DEF Plan
    <3> QED
      BY <1>6, <2>11, <2>12, <3>1
  <2>14. IsPrefix(Bytes(r[1], e), SubSeq(FlattenSeq(q), (r[1] - TS(a)) + 1, Len(FlattenSeq(q))))
    BY <1>1, <2>5, <2>7, <2>8, <2>10, Begins
  <2>15. r[1] - TS(a) < Len(q[1])
    <3>1. Len(Bytes(TS(a), TS(a + 1))) = TS(a + 1) - TS(a)
      <4>1. TS(a) <= TS(a + 1)
        BY <1>1, <2>5, <2>6, <2>7
      <4> QED
        BY <2>5, <4>1, Runs
    <3> QED
      BY <1>1, <2>5, <2>6, <2>10, <3>1
  <2>16. ~(r[1] > 0 /\ r[1] >= S)
    BY <1>1, <1>2, <2>5, <2>6
  <2>17. Exact(k, d)
    <3> HIDE DEF S, e, k
    <3> QED
      BY <1>0, <2>12, <2>13, <2>14, <2>15, <2>16 DEF Exact, S, e
  <2> QED
    BY <2>13, <2>17 DEF ans
<1> QED
    BY <1>8, <1>9

----------------------------------------------------------------------------
(* Every answer is exact.                                                  *)

AnswerInv == \A c \in Caller : call[c].pc = "answer" => Exact(call[c].key, call[c].answer)

\* AnswerInv says what AnswerIsRange says.
LEMMA AnswerInvIsRange == AnswerInv => AnswerIsRange
    BY DEF AnswerInv, AnswerIsRange, Exact

\* A caller that gets no answer leaves the answers of the others alone.
LEMMA SameAnswers ==
    ASSUME AnswerInv, NEW c \in Caller, \A d \in Caller \ {c} : call'[d] = call[d],
           call'[c].pc = "answer" => Exact(call'[c].key, call'[c].answer)
    PROVE  AnswerInv'
<1> SUFFICES ASSUME NEW d \in Caller, call'[d].pc = "answer"
             PROVE  Exact(call'[d].key, call'[d].answer)
    BY DEF AnswerInv, Exact, SizeOf, TermStart, Bytes, Total
<1>1. CASE d = c
    BY <1>1
<1>2. CASE d # c
    BY <1>2 DEF AnswerInv
<1> QED
    BY <1>1, <1>2

\* The look into the cache: the entry for the key is the answer of the CAS, and
\* what is derived from the plan for the whole file holds the same bytes.
LEMMA CheckAnswers ==
    ASSUME IInv, AnswerInv, NEW c \in Caller, Check(c)
    PROVE  AnswerInv'
<1> DEFINE k == call[c].key
           full == Full(k[1])
           has(x) == x \in DOMAIN cache /\ cache[x].fresh
<1>0. /\ call'[c].pc \in {"answer", "enter"} /\ \A d \in Caller \ {c} : call'[d] = call[d]
    BY CheckStep
<1>1. k \in Key /\ DataInv
    BY DEF Check, IInv, DataInv
<1>2. full \in Key
    BY <1>1, FullKey
<1>3. CASE has(k) /\ call' = Answer(c, cache[k].resp)
  <2>1. cache[k].resp = CasAnswer(k) /\ cache[k].resp \in Told
    BY <1>1, <1>3 DEF DataInv, Told
  <2>2. call'[c].key = k /\ call'[c].answer = CasAnswer(k)
    BY <1>1, <1>3, <2>1, AnswerForm
  <2>3. Exact(k, CasAnswer(k))
    BY <1>1, CasExact
  <2> QED
    BY <1>0, <2>2, <2>3, SameAnswers
<1>4. CASE ~has(k) /\ has(full) /\ call' = Answer(c, Derived(k[1], cache[full].resp, k[2]))
  <2>1. PICK f \in File, r \in Ranges \cup {None} : k = <<f, r>>
    BY <1>1 DEF Key
  <2>2. k[1] = f /\ k[2] = r /\ full = <<f, None>>
    BY <2>1 DEF Full
  <2>3. r \in Ranges /\ r # None
    BY <1>4, <2>1, <2>2
  <2>4. cache[full].resp = FullPlan(f)
    <3>1. cache[full].resp = CasAnswer(full) /\ full[1] = f /\ full[2] = None
      BY <1>1, <1>4, <2>2 DEF DataInv
    <3> HIDE DEF full
    <3> QED
      BY <3>1 DEF CasAnswer
  <2> DEFINE a == Derived(f, FullPlan(f), r)
  <2>5. a \in Told
    <3>1. cache[full].resp = CasAnswer(Full(k[1]))
      BY <1>1, <1>4 DEF DataInv
    <3> QED
      BY <1>1, <2>2, <2>4, <3>1 DEF Told
  <2>6. call' = Answer(c, a)
    BY <1>4, <2>2, <2>4
  <2>7. Exact(<<f, r>>, a)
    BY <2>3, DerivedExact
  <2> HIDE DEF a
  <2>8. call'[c].key = k /\ call'[c].answer = a
    BY <1>1, <2>5, <2>6, AnswerForm
  <2> QED
    BY <1>0, <2>1, <2>7, <2>8, SameAnswers
<1>5. CASE call' = [call EXCEPT ![c].pc = "enter"]
  <2>1. call'[c].pc = "enter"
    BY <1>1, <1>5, GotoForm DEF Pc
  <2> QED
    BY <1>0, <2>1, SameAnswers
<1> QED
    BY <1>3, <1>4, <1>5 DEF Check

\* The end of a request: the waiters have no answer yet.
LEMMA EndAnswers ==
    ASSUME AnswerInv, NEW c \in Caller, Ended(c),
           call'[c].pc = "answer" => Exact(call'[c].key, call'[c].answer)
    PROVE  AnswerInv'
<1> SUFFICES ASSUME NEW d \in Caller, call'[d].pc = "answer"
             PROVE  Exact(call'[d].key, call'[d].answer)
    BY DEF AnswerInv, Exact, SizeOf, TermStart, Bytes, Total
<1>1. CASE d = c
    BY <1>1
<1>2. CASE d # c
  <2>1. call'[d] = call[d]
    BY <1>2 DEF Ended
  <2> QED
    BY <2>1 DEF AnswerInv
<1> QED
    BY <1>1, <1>2

----------------------------------------------------------------------------
(* The table of requests in flight.                                        *)

Leads(c, k) == call[c].pc = "cas" /\ call[c].key = k
WaitsFor(c) == IF call[c].pc = "wait" THEN call[c].key ELSE None

\* A caller that leads or waits is on a key in the table, and the key has one
\* caller that leads.
FlightInv ==
    /\ \A c \in Caller : call[c].pc \in {"cas", "wait"} => call[c].key \in inflight
    /\ \A k \in inflight : \E c \in Caller : Leads(c, k)
    /\ \A k \in Key, c, d \in Caller : Leads(c, k) /\ Leads(d, k) => c = d

\* The choice of a member of a set that has at most one.
LEMMA OnlyOne ==
    ASSUME NEW L \in SUBSET Caller, \A c, d \in L : c = d,
           NEW x, x = IF L = {} THEN None ELSE CHOOSE c \in L : TRUE
    PROVE  /\ x = None <=> L = {}
           /\ x # None => x \in Caller
           /\ \A c \in Caller : x = c <=> c \in L
<1>1. None \notin Caller
    BY NoneAssumption
<1>2. CASE L = {}
    BY <1>1, <1>2
<1>3. CASE L # {}
  <2>1. PICK y \in L : x = y
    BY <1>3
  <2> QED
    BY <1>1, <1>3, <2>1
<1> QED
    BY <1>2, <1>3

\* The caller that leads, as the refinement mapping names it.
LEMMA LeaderFacts ==
    ASSUME inflight \subseteq Key, FlightInv, NEW k \in Key
    PROVE  /\ LeaderOf(k) = None <=> k \notin inflight
           /\ LeaderOf(k) # None => LeaderOf(k) \in Caller
           /\ \A c \in Caller : LeaderOf(k) = c <=> Leads(c, k)
<1> DEFINE L == {c \in Caller : call[c].pc = "cas" /\ call[c].key = k}
<1>1. L \in SUBSET Caller /\ \A c \in Caller : c \in L <=> Leads(c, k)
    BY DEF Leads
<1>2. LeaderOf(k) = IF L = {} THEN None ELSE CHOOSE c \in L : TRUE
    BY DEF LeaderOf
<1> HIDE DEF L
<1>3. L = {} <=> k \notin inflight
    BY <1>1 DEF FlightInv, Leads
<1>4. \A c, d \in L : c = d
    BY <1>1 DEF FlightInv
<1> QED
    BY <1>1, <1>2, <1>3, <1>4, OnlyOne

\* ... and after a step.
LEMMA LeaderFactsNext ==
    ASSUME inflight' \subseteq Key, FlightInv', NEW k \in Key
    PROVE  /\ LeaderOf(k)' = None <=> k \notin inflight'
           /\ LeaderOf(k)' # None => LeaderOf(k)' \in Caller
           /\ \A c \in Caller : LeaderOf(k)' = c <=> Leads(c, k)'
<1> DEFINE L == {c \in Caller : call'[c].pc = "cas" /\ call'[c].key = k}
<1>1. L \in SUBSET Caller /\ \A c \in Caller : c \in L <=> Leads(c, k)'
    BY DEF Leads
<1>2. LeaderOf(k)' = IF L = {} THEN None ELSE CHOOSE c \in L : TRUE
    BY DEF LeaderOf
<1> HIDE DEF L
<1>3. L = {} <=> k \notin inflight'
    BY <1>1 DEF FlightInv, Leads
<1>4. \A c, d \in L : c = d
    BY <1>1 DEF FlightInv
<1> QED
    BY <1>1, <1>2, <1>3, <1>4, OnlyOne

TheLeader == [k \in Key |-> LeaderOf(k)]
TheWaiting == [c \in Caller |-> WaitsFor(c)]

\* A step that leaves the callers that lead as they are.
LEMMA SameLeaders ==
    ASSUME inflight \subseteq Key, FlightInv, FlightInv', inflight' = inflight,
           \A c \in Caller, k \in Key : Leads(c, k)' <=> Leads(c, k)
    PROVE  TheLeader' = TheLeader
<1> SUFFICES ASSUME NEW k \in Key PROVE LeaderOf(k)' = LeaderOf(k)
    BY DEF TheLeader
<1>1. /\ LeaderOf(k) = None <=> k \notin inflight
      /\ LeaderOf(k) # None => LeaderOf(k) \in Caller
      /\ \A c \in Caller : LeaderOf(k) = c <=> Leads(c, k)
    BY LeaderFacts
<1>2. /\ LeaderOf(k)' = None <=> k \notin inflight'
      /\ LeaderOf(k)' # None => LeaderOf(k)' \in Caller
      /\ \A c \in Caller : LeaderOf(k)' = c <=> Leads(c, k)'
    BY LeaderFactsNext
<1> QED
    BY <1>1, <1>2

\* A step of a caller that leads nothing before and after it, and waits after
\* it only for a key in the table.
LEMMA MoveFlight ==
    ASSUME inflight \subseteq Key, FlightInv, inflight' = inflight, NEW c \in Caller,
           \A d \in Caller \ {c} : call'[d] = call[d],
           call[c].pc # "cas", call'[c].pc # "cas",
           call'[c].pc = "wait" => call'[c].key \in inflight
    PROVE  /\ FlightInv' /\ TheLeader' = TheLeader
           /\ TheWaiting' = [TheWaiting EXCEPT ![c] = WaitsFor(c)']
<1>1. \A d \in Caller, k \in Key : Leads(d, k)' <=> Leads(d, k)
  <2> TAKE d \in Caller, k \in Key
  <2>1. CASE d = c
    BY <2>1 DEF Leads
  <2>2. CASE d # c
    BY <2>2 DEF Leads
  <2> QED
    BY <2>1, <2>2
<1>2. FlightInv'
  <2>1. ASSUME NEW d \in Caller, call'[d].pc \in {"cas", "wait"} PROVE call'[d].key \in inflight'
    <3>1. CASE d = c
      BY <2>1, <3>1
    <3>2. CASE d # c
      BY <2>1, <3>2 DEF FlightInv
    <3> QED
      BY <3>1, <3>2
  <2>2. \A k \in inflight' : \E d \in Caller : Leads(d, k)'
    BY <1>1 DEF FlightInv
  <2>3. \A k \in Key, d, e \in Caller : Leads(d, k)' /\ Leads(e, k)' => d = e
    BY <1>1 DEF FlightInv
  <2> QED
    BY <2>1, <2>2, <2>3 DEF FlightInv
<1>3. TheLeader' = TheLeader
    BY <1>1, <1>2, SameLeaders
<1>4. \A d \in Caller \ {c} : WaitsFor(d)' = WaitsFor(d)
    BY DEF WaitsFor
<1> QED
    BY <1>2, <1>3, <1>4 DEF TheWaiting

\* A caller that neither leads nor waits is not busy.
LEMMA NotBusy ==
    ASSUME inflight \subseteq Key, FlightInv, NEW c \in Caller, call[c].pc \notin {"cas", "wait"}
    PROVE  ~Flight!Busy(c)
<1>1. TheWaiting[c] = None
    BY DEF TheWaiting, WaitsFor
<1>2. ASSUME NEW k \in Key PROVE TheLeader[k] # c
  <2>1. ~Leads(c, k)
    BY DEF Leads
  <2>2. LeaderOf(k) # c
    BY <2>1, LeaderFacts
  <2> QED
    BY <2>2 DEF TheLeader
<1> QED
    BY <1>1, <1>2 DEF Flight!Busy, TheLeader, TheWaiting, WaitsFor

\* A call begins, looks into the cache or returns: nothing for the table.
LEMMA QuietFlight ==
    ASSUME IInv, FlightInv, inflight' = inflight, NEW c \in Caller,
           \A d \in Caller \ {c} : call'[d] = call[d],
           call[c].pc \notin {"cas", "wait"}, call'[c].pc \notin {"cas", "wait"}
    PROVE  FlightInv' /\ UNCHANGED Flight!vars
<1>1. inflight \subseteq Key
    BY DEF IInv, DataInv
<1>2. /\ FlightInv' /\ TheLeader' = TheLeader
      /\ TheWaiting' = [TheWaiting EXCEPT ![c] = WaitsFor(c)']
    BY <1>1, MoveFlight
<1>3. WaitsFor(c)' = None /\ WaitsFor(c) = None
    BY DEF WaitsFor
<1>4. TheWaiting' = TheWaiting
    BY <1>2, <1>3 DEF TheWaiting
<1> QED
    BY <1>2, <1>4 DEF Flight!vars, TheLeader, TheWaiting, WaitsFor

\* Enter, when the key is in the table, and when it is not.
LEMMA EnterFlight ==
    ASSUME IInv, FlightInv, NEW c \in Caller, Enter(c), IInv',
           call'[c].key = call[c].key, \A d \in Caller \ {c} : call'[d] = call[d],
           call'[c].pc = IF call[c].key \in inflight THEN "wait" ELSE "cas"
    PROVE  FlightInv' /\ Flight!Next
<1> DEFINE k == call[c].key
<1>1. /\ inflight \subseteq Key /\ inflight' \subseteq Key /\ k \in Key /\ call[c].pc = "enter"
      /\ inflight' = inflight \cup {k}
    BY DEF IInv, DataInv, Enter
<1>2. ~Flight!Busy(c)
    BY <1>1, NotBusy
<1>3. CASE k \in inflight
  <2>1. inflight' = inflight /\ call'[c].pc = "wait"
    BY <1>1, <1>3
  <2>2. /\ FlightInv' /\ TheLeader' = TheLeader
        /\ TheWaiting' = [TheWaiting EXCEPT ![c] = WaitsFor(c)']
    BY <1>1, <1>3, <2>1, MoveFlight
  <2>3. WaitsFor(c)' = k
    BY <2>1 DEF WaitsFor
  <2>4. TheLeader[k] # None
    BY <1>1, <1>3, LeaderFacts DEF TheLeader
  <2>7. PICK h \in Key : h = k
    BY <1>1
  <2>5. Flight!Join(c, h)
    BY <1>2, <2>2, <2>3, <2>4, <2>7 DEF Flight!Join, TheLeader, TheWaiting, WaitsFor
  <2>6. \E g \in Key : Flight!Lead(c, g) \/ Flight!Join(c, g)
    BY <2>5
  <2> QED
    BY <2>2, <2>6 DEF Flight!Next
<1>4. CASE k \notin inflight
  <2>1. call'[c].pc = "cas"
    BY <1>4
  <2>2. \A d \in Caller : ~Leads(d, k)
    BY <1>4 DEF FlightInv, Leads
  <2>3. \A d \in Caller, g \in Key : Leads(d, g)' <=> Leads(d, g) \/ (d = c /\ g = k)
    <3> TAKE d \in Caller, g \in Key
    <3>1. CASE d = c
      BY <1>1, <2>1, <3>1 DEF Leads
    <3>2. CASE d # c
      BY <3>2 DEF Leads
    <3> QED
      BY <3>1, <3>2
  <2> HIDE DEF k
  <2>4. FlightInv'
    <3>1. ASSUME NEW d \in Caller, call'[d].pc \in {"cas", "wait"} PROVE call'[d].key \in inflight'
      <4>1. CASE d = c
        BY <1>1, <4>1 DEF k
      <4>2. CASE d # c
        BY <1>1, <3>1, <4>2 DEF FlightInv
      <4> QED
        BY <4>1, <4>2
    <3>2. ASSUME NEW g \in inflight' PROVE \E d \in Caller : Leads(d, g)'
      <4>1. CASE g = k
        BY <1>1, <2>3, <4>1
      <4>2. CASE g # k
        <5>1. g \in inflight /\ g \in Key
          BY <1>1, <4>2
        <5>2. PICK d \in Caller : Leads(d, g)
          BY <5>1 DEF FlightInv
        <5> QED
          BY <2>3, <5>1, <5>2
      <4> QED
        BY <4>1, <4>2
    <3>3. ASSUME NEW g \in Key, NEW d \in Caller, NEW e \in Caller, Leads(d, g)', Leads(e, g)'
          PROVE  d = e
      <4>1. CASE g = k
        BY <2>2, <2>3, <3>3, <4>1
      <4>2. CASE g # k
        BY <2>3, <3>3, <4>2 DEF FlightInv
      <4> QED
        BY <4>1, <4>2
    <3> QED
      BY <3>1, <3>2, <3>3 DEF FlightInv
  <2>5. ASSUME NEW g \in Key PROVE LeaderOf(g)' = IF g = k THEN c ELSE LeaderOf(g)
    <3>1. /\ LeaderOf(g) = None <=> g \notin inflight
          /\ LeaderOf(g) # None => LeaderOf(g) \in Caller
          /\ \A d \in Caller : LeaderOf(g) = d <=> Leads(d, g)
      BY <1>1, LeaderFacts
    <3>2. /\ LeaderOf(g)' = None <=> g \notin inflight'
          /\ LeaderOf(g)' # None => LeaderOf(g)' \in Caller
          /\ \A d \in Caller : LeaderOf(g)' = d <=> Leads(d, g)'
      BY <1>1, <2>4, LeaderFactsNext
    <3>3. CASE g = k
      BY <2>3, <3>2, <3>3
    <3>4. CASE g # k
      <4>1. LeaderOf(g)' = LeaderOf(g)
        BY <1>1, <2>3, <3>1, <3>2, <3>4
      <4> QED
        BY <3>4, <4>1
    <3> QED
      BY <3>3, <3>4
  <2>6. TheLeader' = [TheLeader EXCEPT ![k] = c] /\ TheLeader[k] = None
    <3>1. LeaderOf(k) = None
      BY <1>1, <1>4, LeaderFacts
    <3> QED
      BY <1>1, <2>5, <3>1 DEF TheLeader
  <2>7. TheWaiting' = TheWaiting
    <3>1. \A d \in Caller : WaitsFor(d)' = WaitsFor(d)
      <4> TAKE d \in Caller
      <4>1. CASE d = c
        BY <1>1, <2>1, <4>1 DEF WaitsFor
      <4>2. CASE d # c
        BY <4>2 DEF WaitsFor
      <4> QED
        BY <4>1, <4>2
    <3> QED
      BY <3>1 DEF TheWaiting
  <2>8. Flight!Lead(c, k)
    BY <1>2, <2>6, <2>7 DEF Flight!Lead, TheLeader, TheWaiting, WaitsFor
  <2> QED
    BY <1>1, <2>4, <2>8 DEF Flight!Next
<1> QED
    BY <1>3, <1>4

\* A caller that waits is dropped.
LEMMA LeaveFlight ==
    ASSUME IInv, FlightInv, inflight' = inflight, NEW c \in Caller,
           \A d \in Caller \ {c} : call'[d] = call[d],
           call[c].pc = "wait", call'[c].pc = "idle"
    PROVE  FlightInv' /\ Flight!Next
<1>1. inflight \subseteq Key /\ call[c].key \in Key
    BY DEF IInv, DataInv
<1>2. /\ FlightInv' /\ TheLeader' = TheLeader
      /\ TheWaiting' = [TheWaiting EXCEPT ![c] = WaitsFor(c)']
    BY <1>1, MoveFlight
<1>3. WaitsFor(c)' = None /\ TheWaiting[c] # None
    BY <1>1, NoneAssumption DEF WaitsFor, TheWaiting, Key
<1>4. Flight!Leave(c)
    BY <1>2, <1>3 DEF Flight!Leave, TheLeader, TheWaiting, WaitsFor
<1> QED
    BY <1>2, <1>4 DEF Flight!Next

\* A request ends.
LEMMA EndFlight ==
    ASSUME IInv, IInv', FlightInv, NEW c \in Caller, Ended(c)
    PROVE  FlightInv' /\ Flight!Next
<1> DEFINE k == call[c].key
<1>1. /\ inflight \subseteq Key /\ inflight' \subseteq Key /\ k \in Key /\ Leads(c, k)
      /\ inflight' = inflight \ {k}
    BY DEF IInv, DataInv, Ended, Leads
<1>2. /\ call'[c].pc \in {"answer", "idle"}
      /\ \A d \in Caller \ {c} : IF call[d].pc = "wait" /\ call[d].key = k
                                 THEN call'[d].pc = "check" ELSE call'[d] = call[d]
    BY DEF Ended
<1>3. \A d \in Caller, g \in Key : Leads(d, g)' <=> Leads(d, g) /\ g # k
  <2> TAKE d \in Caller, g \in Key
  <2>1. CASE d = c
    BY <1>2, <2>1 DEF Leads
  <2>2. CASE d # c
    <3>1. ~Leads(d, k)
      BY <1>1, <2>2 DEF FlightInv
    <3> HIDE DEF k
    <3> QED
      BY <1>2, <2>2, <3>1 DEF Leads
  <2> QED
    BY <2>1, <2>2
<1>0. None # k
    BY <1>1, NoneAssumption DEF Key
<1> HIDE DEF k
<1>4. FlightInv'
  <2>1. ASSUME NEW d \in Caller, call'[d].pc \in {"cas", "wait"} PROVE call'[d].key \in inflight'
    <3>1. d # c /\ call'[d] = call[d] /\ ~(call[d].pc = "wait" /\ call[d].key = k)
      BY <1>2, <2>1
    <3>2. ~Leads(d, k)
      BY <1>1, <3>1 DEF FlightInv
    <3>3. call[d].key \in inflight /\ call[d].key # k
      BY <2>1, <3>1, <3>2 DEF FlightInv, Leads
    <3> QED
      BY <1>1, <3>1, <3>3
  <2>2. ASSUME NEW g \in inflight' PROVE \E d \in Caller : Leads(d, g)'
    <3>1. g \in inflight /\ g \in Key /\ g # k
      BY <1>1
    <3>2. PICK d \in Caller : Leads(d, g)
      BY <3>1 DEF FlightInv
    <3> QED
      BY <1>3, <3>1, <3>2
  <2>3. \A g \in Key, d, e \in Caller : Leads(d, g)' /\ Leads(e, g)' => d = e
    BY <1>3 DEF FlightInv
  <2> QED
    BY <2>1, <2>2, <2>3 DEF FlightInv
<1>5. ASSUME NEW g \in Key PROVE LeaderOf(g)' = IF g \in {k} THEN None ELSE LeaderOf(g)
  <2>1. /\ LeaderOf(g) = None <=> g \notin inflight
        /\ LeaderOf(g) # None => LeaderOf(g) \in Caller
        /\ \A d \in Caller : LeaderOf(g) = d <=> Leads(d, g)
    BY <1>1, LeaderFacts
  <2>2. /\ LeaderOf(g)' = None <=> g \notin inflight'
        /\ LeaderOf(g)' # None => LeaderOf(g)' \in Caller
        /\ \A d \in Caller : LeaderOf(g)' = d <=> Leads(d, g)'
    BY <1>1, <1>4, LeaderFactsNext
  <2>3. CASE g = k
    BY <1>1, <2>2, <2>3
  <2>4. CASE g # k
    <3>1. LeaderOf(g)' = LeaderOf(g)
      BY <1>1, <1>3, <2>1, <2>2, <2>4
    <3> QED
      BY <2>4, <3>1
  <2> QED
    BY <2>3, <2>4
<1>6. ASSUME NEW d \in Caller PROVE WaitsFor(d)' = IF WaitsFor(d) \in {k} THEN None ELSE WaitsFor(d)
  <2>1. CASE d = c
    <3>1. WaitsFor(d) = None /\ WaitsFor(d)' = None
      BY <1>1, <1>2, <2>1 DEF WaitsFor, Leads
    <3> QED
      BY <1>0, <3>1
  <2>2. CASE d # c /\ call[d].pc = "wait" /\ call[d].key = k
    <3>1. WaitsFor(d) = k /\ WaitsFor(d)' = None
      BY <1>2, <2>2 DEF WaitsFor
    <3> QED
      BY <3>1
  <2>3. CASE d # c /\ ~(call[d].pc = "wait" /\ call[d].key = k)
    <3>1. call'[d] = call[d]
      BY <1>2, <2>3
    <3>2. WaitsFor(d)' = WaitsFor(d) /\ WaitsFor(d) # k
      BY <1>0, <2>3, <3>1 DEF WaitsFor
    <3> QED
      BY <3>2
  <2> QED
    BY <2>1, <2>2, <2>3
<1>10. PICK h \in Key : h = k
    BY <1>1
<1>7. Flight!Finish({h})
  <2>1. TheLeader' = [g \in Key |-> IF g \in {h} THEN None ELSE TheLeader[g]]
    BY <1>5, <1>10 DEF TheLeader
  <2>2. TheWaiting' = [d \in Caller |-> IF TheWaiting[d] \in {h} THEN None ELSE TheWaiting[d]]
    BY <1>6, <1>10 DEF TheWaiting
  <2> QED
    BY <2>1, <2>2 DEF Flight!Finish, TheLeader, TheWaiting, WaitsFor
<1>8. {h} \in SUBSET Flight!Fetching
  <2>1. LeaderOf(h) = c
    BY <1>1, <1>10, LeaderFacts
  <2>2. TheLeader[h] # None
    BY <2>1, NoneAssumption DEF TheLeader
  <2> QED
    BY <2>2 DEF Flight!Fetching, TheLeader
<1>9. \E K \in SUBSET Flight!Fetching : Flight!Finish(K)
    BY <1>7, <1>8
<1> QED
    BY <1>4, <1>9 DEF Flight!Next

----------------------------------------------------------------------------
(* The theorems.                                                           *)

\* The invariant holds at the start.
LEMMA InitIInv == Init => IInv
<1> SUFFICES ASSUME Init PROVE IInv
    OBVIOUS
<1>1. DOMAIN cache = {} /\ cache = <<>> /\ order = <<>>
    BY DEF Init
<1>2. OrderInv
  <2>1. IsFiniteSet({}) /\ Cardinality({}) = 0
    BY FS_EmptySet
  <2>2. order \in Seq(Key) /\ ToSet(order) = {} /\ IsInjective(order)
    BY <1>1 DEF ToSet, IsInjective
  <2> QED
    BY <1>1, <2>1, <2>2, BoundAssumption DEF OrderInv
<1>3. DataInv
  <2>1. cache \in [DOMAIN cache -> Entry]
    BY <1>1
  <2>2. \A c \in Caller : call[c] = Idle
    BY DEF Init
  <2>3. call \in [Caller -> CallState]
    BY Records DEF Init
  <2> QED
    BY <1>1, <2>1, <2>2, <2>3, Records, BoundAssumption DEF Init, DataInv
<1> QED
    BY <1>2, <1>3 DEF IInv

\* A stuttering step keeps the invariant.
LEMMA SameIInv ==
    ASSUME IInv, UNCHANGED vars
    PROVE  IInv'
    BY SameOrder DEF IInv, DataInv, vars

\* Every step keeps the invariant.
LEMMA NextIInv == IInv /\ [Next]_vars => IInv'
<1> SUFFICES ASSUME IInv, [Next]_vars PROVE IInv'
    OBVIOUS
<1>1. ASSUME NEW c \in Caller, Check(c) PROVE IInv'
    BY <1>1, CheckStep
<1>2. ASSUME NEW c \in Caller, Enter(c) PROVE IInv'
    BY <1>2, EnterStep
<1>3. ASSUME NEW c \in Caller, CasDone(c) PROVE IInv'
    BY <1>3, CasDoneStep
<1>4. ASSUME NEW c \in Caller, CasFail(c) PROVE IInv'
    BY <1>4, CasFailStep
<1>5. ASSUME NEW c \in Caller, Return(c) \/ Cancel(c) PROVE IInv'
    BY <1>5, ReturnStep DEF Return, Cancel
<1>6. ASSUME NEW c \in Caller, NEW k \in Key, Call(c, k) PROVE IInv'
    BY <1>6, CallStep
<1>7. ASSUME NEW k \in Key, Expire(k) PROVE IInv'
    BY <1>7, ExpireStep
<1>8. CASE UNCHANGED vars
    BY <1>8, SameIInv
<1> QED
    BY <1>1, <1>2, <1>3, <1>4, <1>5, <1>6, <1>7, <1>8 DEF Next, Proceed

\* The invariant holds in every state of every behaviour.
LEMMA Invariant == Spec => []IInv
    BY InitIInv, NextIInv, PTL DEF Spec

\* The first callers, and the empty table.
LEMMA InitFlight == Init => FlightInv /\ Flight!Init
<1> SUFFICES ASSUME Init PROVE FlightInv /\ Flight!Init
    OBVIOUS
<1>1. inflight = {} /\ \A c \in Caller : call[c].pc = "idle"
    BY Records DEF Init
<1>2. FlightInv
    BY <1>1 DEF FlightInv, Leads
<1>3. \A k \in Key : LeaderOf(k) = None
    BY <1>1, <1>2, LeaderFacts
<1>4. \A c \in Caller : WaitsFor(c) = None
    BY <1>1 DEF WaitsFor
<1> QED
    BY <1>2, <1>3, <1>4 DEF Flight!Init, WaitsFor

\* Unless a caller that leads is dropped, a step of ReconCache is one of
\* SingleFlight or leaves its table alone.
LEMMA NextFlight ==
    ASSUME ~Cancels
    PROVE  IInv /\ FlightInv /\ [Next]_vars => FlightInv' /\ [Flight!Next]_Flight!vars
<1> SUFFICES ASSUME IInv, FlightInv, [Next]_vars
             PROVE  FlightInv' /\ (Flight!Next \/ UNCHANGED Flight!vars)
    OBVIOUS
<1>0. IInv'
    BY NextIInv
<1>1. ASSUME NEW c \in Caller, Check(c) PROVE FlightInv' /\ UNCHANGED Flight!vars
  <2>1. /\ UNCHANGED inflight /\ call'[c].pc \in {"answer", "enter"}
        /\ \A d \in Caller \ {c} : call'[d] = call[d]
    BY <1>1, CheckStep
  <2>2. call[c].pc = "check"
    BY <1>1 DEF Check
  <2> QED
    BY <2>1, <2>2, QuietFlight
<1>2. ASSUME NEW c \in Caller, Enter(c) PROVE FlightInv' /\ Flight!Next
  <2>1. /\ call'[c].key = call[c].key /\ \A d \in Caller \ {c} : call'[d] = call[d]
        /\ call'[c].pc = IF call[c].key \in inflight THEN "wait" ELSE "cas"
    BY <1>2, EnterStep
  <2> QED
    BY <1>0, <1>2, <2>1, EnterFlight
<1>3. ASSUME NEW c \in Caller, CasDone(c) PROVE FlightInv' /\ Flight!Next
    BY <1>0, <1>3, CasDoneStep, EndFlight
<1>4. ASSUME NEW c \in Caller, CasFail(c) PROVE FlightInv' /\ Flight!Next
    BY <1>0, <1>4, CasFailStep, EndFlight
<1>5. ASSUME NEW c \in Caller, Return(c) PROVE FlightInv' /\ UNCHANGED Flight!vars
  <2>1. call[c].pc = "answer" /\ UNCHANGED inflight
    BY <1>5 DEF Return
  <2>2. call'[c] = Idle /\ \A d \in Caller \ {c} : call'[d] = call[d]
    BY <1>5, ReturnStep DEF Return
  <2>3. call'[c].pc = "idle"
    BY <2>2, Records
  <2> QED
    BY <2>1, <2>2, <2>3, QuietFlight
<1>6. ASSUME NEW c \in Caller, Cancel(c) PROVE FlightInv' /\ Flight!Next
  <2>1. call[c].pc = "wait" /\ UNCHANGED inflight
    BY <1>6 DEF Cancel
  <2>2. call'[c] = Idle /\ \A d \in Caller \ {c} : call'[d] = call[d]
    BY <1>6, ReturnStep DEF Cancel
  <2>3. call'[c].pc = "idle"
    BY <2>2, Records
  <2> QED
    BY <2>1, <2>2, <2>3, LeaveFlight
<1>7. ASSUME NEW c \in Caller, NEW k \in Key, Call(c, k) PROVE FlightInv' /\ UNCHANGED Flight!vars
  <2> DEFINE r == [pc |-> "check", key |-> k, answer |-> None]
  <2>1. call[c].pc = "idle" /\ UNCHANGED inflight /\ call' = [call EXCEPT ![c] = r]
    BY <1>7 DEF Call
  <2>2. r \in CallState /\ r.pc = "check"
    BY Records
  <2> HIDE DEF r
  <2>3. call'[c] = r /\ \A d \in Caller \ {c} : call'[d] = call[d]
    BY <2>1, <2>2, PutForm DEF IInv
  <2> QED
    BY <2>1, <2>2, <2>3, QuietFlight
<1>8. ASSUME UNCHANGED <<inflight, call>> PROVE FlightInv' /\ UNCHANGED Flight!vars
  <2>1. FlightInv'
    BY <1>8 DEF FlightInv, Leads
  <2>2. \A k \in Key : LeaderOf(k)' = LeaderOf(k)
    BY <1>8 DEF LeaderOf
  <2> QED
    BY <1>8, <2>1, <2>2 DEF Flight!vars
<1>9. ASSUME NEW k \in Key, Expire(k) PROVE FlightInv' /\ UNCHANGED Flight!vars
    BY <1>8, <1>9 DEF Expire
<1>10. CASE UNCHANGED vars
    BY <1>8, <1>10 DEF vars
<1> QED
    BY <1>1, <1>2, <1>3, <1>4, <1>5, <1>6, <1>7, <1>9, <1>10 DEF Next, Proceed

\* The variables keep their types; the order of use lists the entries, each
\* once; and the cache never has more than MAX_CACHE_ENTRIES of them, however
\* many requests come back at once.
THEOREM CacheStaysWithinLimit == Spec => []TypeOK
    BY Invariant, IInvTypeOK, PTL

\* get_reconstruction implements the abstract single-flight table, if no
\* caller is dropped while it leads.
THEOREM SingleFlightImplemented ==
    ASSUME ~Cancels
    PROVE  Spec => ImplementsSingleFlight
<1>1. Init => FlightInv /\ Flight!Init
    BY InitFlight
<1>2. IInv /\ FlightInv /\ [Next]_vars => FlightInv' /\ [Flight!Next]_Flight!vars
    BY NextFlight
<1> QED
    BY <1>1, <1>2, Invariant, PTL DEF Spec, ImplementsSingleFlight

\* AnswerInv over one step.
LEMMA NextAnswers == IInv /\ AnswerInv /\ [Next]_vars => AnswerInv'
<1> SUFFICES ASSUME IInv, AnswerInv, [Next]_vars PROVE AnswerInv'
    OBVIOUS
<1>1. ASSUME NEW c \in Caller, Check(c) PROVE AnswerInv'
    BY <1>1, CheckAnswers
<1>2. ASSUME NEW c \in Caller, Enter(c) PROVE AnswerInv'
  <2>1. call'[c].pc \in {"wait", "cas"} /\ \A d \in Caller \ {c} : call'[d] = call[d]
    BY <1>2, EnterStep
  <2> QED
    BY <2>1, SameAnswers
<1>3. ASSUME NEW c \in Caller, CasDone(c) PROVE AnswerInv'
  <2>1. Ended(c) /\ call'[c].key = call[c].key /\ call'[c].answer = CasAnswer(call[c].key)
    BY <1>3, CasDoneStep
  <2>2. call[c].key \in Key
    BY <1>3 DEF CasDone, IInv, DataInv
  <2>3. Exact(call[c].key, CasAnswer(call[c].key))
    BY <2>2, CasExact
  <2> QED
    BY <2>1, <2>3, EndAnswers
<1>4. ASSUME NEW c \in Caller, CasFail(c) PROVE AnswerInv'
  <2>1. Ended(c) /\ call'[c] = Idle
    BY <1>4, CasFailStep
  <2> QED
    BY <2>1, Records, EndAnswers
<1>5. ASSUME NEW c \in Caller, Return(c) \/ Cancel(c) PROVE AnswerInv'
  <2>1. call'[c] = Idle /\ \A d \in Caller \ {c} : call'[d] = call[d]
    BY <1>5, ReturnStep DEF Return, Cancel
  <2> QED
    BY <2>1, Records, SameAnswers
<1>6. ASSUME NEW c \in Caller, NEW k \in Key, Call(c, k) PROVE AnswerInv'
  <2> DEFINE r == [pc |-> "check", key |-> k, answer |-> None]
  <2>1. call' = [call EXCEPT ![c] = r]
    BY <1>6 DEF Call
  <2>2. r \in CallState /\ r.pc = "check"
    BY Records
  <2> HIDE DEF r
  <2>3. call'[c] = r /\ \A d \in Caller \ {c} : call'[d] = call[d]
    BY <2>1, <2>2, PutForm DEF IInv
  <2> QED
    BY <2>2, <2>3, SameAnswers
<1>7. ASSUME UNCHANGED call PROVE AnswerInv'
    BY <1>7 DEF AnswerInv
<1> QED
    BY <1>1, <1>2, <1>3, <1>4, <1>5, <1>6, <1>7 DEF Next, Proceed, Expire, vars

\* Whoever answered, the CAS, an entry of the cache or a plan for the whole
\* file that a range was derived from: a caller is told exactly the bytes it
\* asked for.
THEOREM AnswersAreExact == Spec => []AnswerIsRange
<1>1. Init => AnswerInv
    BY Records DEF Init, AnswerInv
<1> QED
    BY <1>1, NextAnswers, AnswerInvIsRange, Invariant, PTL DEF Spec
=============================================================================
