----------------------------- MODULE ReconCache -----------------------------
(***************************************************************************)
(* CachedXetClient of src/src/cached_xet_client.rs: a cache in front of    *)
(* the CAS query that says which terms (pieces of xorbs) make up a file or *)
(* a range of it.  A plan for the whole file answers queries for its       *)
(* ranges too; concurrent queries for one key share one CAS request; the   *)
(* cache has a size limit, and its entries expire with the URLs in them.   *)
(*                                                                         *)
(* A term is the sequence of the file's byte positions it holds, so that a *)
(* plan shows which bytes it reconstructs.                                 *)
(***************************************************************************)
EXTENDS Integers, Sequences, FiniteSets, FiniteSetsExt, SequencesExt, SeqOps

CONSTANTS
    File,       \* file hashes
    Lens,       \* the lengths of a file's terms, in order
    Ranges,     \* the byte ranges asked for, <<start, end>> with start < end
    Caller,     \* concurrent callers of get_reconstruction
    MaxEntries, \* MAX_CACHE_ENTRIES
    MaxCalls,   \* bound: calls made in a behaviour
    Cancels,    \* bound: whether a caller that leads may be dropped
    None

ASSUME FileAssumption == Lens \in [File -> Seq(Nat \ {0})]
ASSUME RangeAssumption == \A r \in Ranges : r \in Nat \X Nat /\ r[1] < r[2]
ASSUME BoundAssumption == MaxEntries \in Nat \ {0} /\ MaxCalls \in Nat /\ Cancels \in BOOLEAN
ASSUME NoneAssumption ==
    /\ None \notin Caller \cup (File \X (Ranges \cup {None}))
    /\ None \notin [terms : Seq(Seq(Nat)), skip : Nat]

VARIABLES
    cache,      \* entries by key, with the freshness of their URLs
    order,      \* the keys of the cache, least recently accessed first
    inflight,   \* the keys in `inflight`
    call,       \* what a caller is doing
    calls       \* calls made so far

vars == <<cache, order, inflight, call, calls>>

\* None for the range of a key is the whole-file plan.
Key == File \X (Ranges \cup {None})
Full(f) == <<f, None>>

\* The byte positions before term i of file f, and after it.
TermStart(f, i) == Total(SubSeq(Lens[f], 1, i - 1))
TermEnd(f, i) == TermStart(f, i) + Lens[f][i]
SizeOf(f) == TermStart(f, Len(Lens[f]) + 1)
Bytes(a, b) == [p \in 1..(b - a) |-> a + p - 1]

\* A QueryReconstructionResponseV2: terms, and the offset into the first.
FullPlan(f) ==
    [terms |-> [i \in DOMAIN Lens[f] |-> Bytes(TermStart(f, i), TermEnd(f, i))], skip |-> 0]

\* The CAS server trims the terms of a range to the chunks it needs (here:
\* bytes); it answers None for a range past the end.
CasAnswer(k) ==
    LET f == k[1]
        r == k[2]
        end == Min({r[2], SizeOf(f)})
    IN  CASE r = None -> FullPlan(f)
          [] r # None /\ r[1] < SizeOf(f) -> [terms |-> <<Bytes(r[1], end)>>, skip |-> 0]
          [] r # None /\ r[1] = 0 /\ SizeOf(f) = 0 -> [terms |-> <<>>, skip |-> 0]
          [] OTHER -> None

\* Mutant: a term that ends where the range starts is taken along.
OverlapsWide(r, start, end) == ~(end < r[1]) /\ ~(start >= r[2])
\* derive_range_response keeps the terms that overlap the range; the first of
\* them is entered at the start of the range.
Overlaps(r, start, end) == ~(end <= r[1]) /\ ~(start >= r[2])
Derive(f, plan, r) ==
    LET kept == {i \in DOMAIN plan.terms : Overlaps(r, TermStart(f, i), TermEnd(f, i))} IN
    IF kept = {}
    THEN [terms |-> <<>>, skip |-> 0]
    ELSE [terms |-> SubSeq(plan.terms, Min(kept), Max(kept)),
          skip |-> Max({r[1] - TermStart(f, Min(kept)), 0})]

\* A derived answer keeps the server's contract at the end of the file.
Derived(f, plan, r) ==
    LET d == Derive(f, plan, r) IN
    IF d.terms = <<>> /\ (plan.terms # <<>> \/ r[1] > 0) THEN None ELSE d

-----------------------------------------------------------------------------
\* Calls: "check" looks into the cache, "enter" is about to take the inflight
\* lock, "wait" waits for the caller that leads, "cas" leads, "answer" is about
\* to return.
Idle == [pc |-> "idle", key |-> None, answer |-> None]

\* Type correctness, with the two structural promises of the cache's data: the
\* order of use lists exactly the entries, each once, and there are never more
\* entries than the limit, although several leaders may come back at once.
TypeOK ==
    /\ DOMAIN cache \subseteq Key
    /\ \A k \in DOMAIN cache : cache[k].fresh \in BOOLEAN
    /\ Len(order) = Cardinality(DOMAIN cache) /\ ToSet(order) = DOMAIN cache
    /\ Cardinality(DOMAIN cache) <= MaxEntries
    /\ inflight \subseteq Key
    /\ \A c \in Caller :
        /\ call[c].pc \in {"idle", "check", "enter", "wait", "cas", "answer"}
        /\ call[c].key \in Key \cup {None}
    /\ calls \in 0..MaxCalls

Touched(s, k) == Append(Without(s, {k}), k)
Drop(f, K) == [k \in DOMAIN f \ K |-> f[k]]
Answer(c, a) == [call EXCEPT ![c].pc = "answer", ![c].answer = a]

Init ==
    /\ cache = <<>>
    /\ order = <<>>
    /\ inflight = {}
    /\ call = [c \in Caller |-> Idle]
    /\ calls = 0

Call(c, k) ==
    /\ call[c].pc = "idle"
    /\ calls < MaxCalls
    /\ calls' = calls + 1
    /\ call' = [call EXCEPT ![c] = [pc |-> "check", key |-> k, answer |-> None]]
    /\ UNCHANGED <<cache, order, inflight>>

\* One look under the cache lock: the exact key, then the plan of the whole
\* file; entries found expired are removed on the way.
Check(c) ==
    LET k == call[c].key
        full == Full(k[1])
        has(x) == x \in DOMAIN cache /\ cache[x].fresh
        expired == {x \in {k, full} \cap DOMAIN cache : ~cache[x].fresh}
    IN
    /\ call[c].pc = "check"
    /\ \/ /\ has(k)
          /\ call' = Answer(c, cache[k].resp)
          /\ order' = Touched(order, k)
          /\ UNCHANGED cache
       \/ /\ ~has(k) /\ has(full)
          /\ call' = Answer(c, Derived(k[1], cache[full].resp, k[2]))
          /\ order' = Touched(Without(order, expired), full)
          /\ cache' = Drop(cache, expired)
       \/ /\ ~has(k) /\ ~has(full)
          /\ call' = [call EXCEPT ![c].pc = "enter"]
          /\ order' = Without(order, expired)
          /\ cache' = Drop(cache, expired)
    /\ UNCHANGED <<inflight, calls>>

\* Mutant: the table is not looked at.
EnterAlone(c) ==
    /\ call[c].pc = "enter"
    /\ call' = [call EXCEPT ![c].pc = "cas"]
    /\ inflight' = inflight \cup {call[c].key}
    /\ UNCHANGED <<cache, order, calls>>

\* Under the inflight lock: wait for the caller that leads, or lead.
Enter(c) ==
    LET k == call[c].key IN
    /\ call[c].pc = "enter"
    /\ call' = [call EXCEPT ![c].pc = IF k \in inflight THEN "wait" ELSE "cas"]
    /\ inflight' = inflight \cup {k}
    /\ UNCHANGED <<cache, order, calls>>

\* The cache after the answer for k has come: a whole-file plan replaces the
\* ranges of its file; a full cache loses its ranges or, having none, the plan
\* that was not used for longest.
Purged(k) == {x \in DOMAIN cache : k[2] = None /\ x[1] = k[1] /\ x[2] # None}
\* Mutant: only the ranges are evicted.
EvictedRanges(k) ==
    IF Cardinality(DOMAIN cache \ Purged(k)) < MaxEntries
    THEN {} ELSE {x \in DOMAIN cache : x[2] # None}
Evicted(k) ==
    LET left == DOMAIN cache \ Purged(k)
        plans == {x \in left : x[2] = None}
        kept == Without(order, DOMAIN cache \ plans)
    IN  CASE Cardinality(left) < MaxEntries -> {}
          [] Cardinality(left) >= MaxEntries /\ Cardinality(plans) < MaxEntries -> left \ plans
          [] OTHER -> (left \ plans) \cup {Head(kept)}

Insert(k, resp) ==
    LET gone == Purged(k) \cup Evicted(k)
        rest == Drop(cache, gone \cup {k})
    IN
    /\ cache' = [x \in DOMAIN rest \cup {k} |->
                    IF x = k THEN [resp |-> resp, fresh |-> TRUE] ELSE rest[x]]
    /\ order' = Append(Without(order, gone \cup {k}), k)

\* The leader removes the key and everybody who waits for it looks again.
Released(k) ==
    [c \in Caller |->
        IF call[c].pc = "wait" /\ call[c].key = k
        THEN [call[c] EXCEPT !.pc = "check"] ELSE call[c]]

\* The CAS answers, with a plan or with None, or fails: the plan goes into the
\* cache, the key out of the table.
CasDone(c) ==
    LET k == call[c].key IN
    /\ call[c].pc = "cas"
    /\ IF CasAnswer(k) = None THEN UNCHANGED <<cache, order>> ELSE Insert(k, CasAnswer(k))
    /\ inflight' = inflight \ {k}
    /\ call' = [Released(k) EXCEPT ![c].pc = "answer", ![c].answer = CasAnswer(k)]
    /\ UNCHANGED calls

\* Mutant: an error returns at once and leaves the key in the table.
CasFailEarly(c) ==
    /\ call[c].pc = "cas"
    /\ call' = [call EXCEPT ![c] = Idle]
    /\ UNCHANGED <<cache, order, inflight, calls>>

CasFail(c) ==
    LET k == call[c].key IN
    /\ call[c].pc = "cas"
    /\ inflight' = inflight \ {k}
    /\ call' = [Released(k) EXCEPT ![c] = Idle]
    /\ UNCHANGED <<cache, order, calls>>

Return(c) ==
    /\ call[c].pc = "answer"
    /\ call' = [call EXCEPT ![c] = Idle]
    /\ UNCHANGED <<cache, order, inflight, calls>>

\* The caller is dropped at an await: waiting, or leading.
Cancel(c) ==
    /\ call[c].pc = "wait" \/ (Cancels /\ call[c].pc = "cas")
    /\ call' = [call EXCEPT ![c] = Idle]
    /\ UNCHANGED <<cache, order, inflight, calls>>

\* 59 minutes have passed since the entry was made.
Expire(k) ==
    /\ k \in DOMAIN cache /\ cache[k].fresh
    /\ cache' = [cache EXCEPT ![k].fresh = FALSE]
    /\ UNCHANGED <<order, inflight, call, calls>>

Proceed(c) == Check(c) \/ Enter(c) \/ CasDone(c) \/ CasFail(c) \/ Return(c)

Next ==
    \/ \E c \in Caller : Proceed(c) \/ Cancel(c) \/ \E k \in Key : Call(c, k)
    \/ \E k \in Key : Expire(k)

\* Calls are polled, and the CAS client's requests end (they have timeouts).
Fairness == \A c \in Caller : WF_vars(Proceed(c))

Spec == Init /\ [][Next]_vars /\ Fairness

-----------------------------------------------------------------------------
\* Properties

\* Whoever answered, the CAS, an entry for the range or a plan for the whole
\* file: the terms from the offset on begin with exactly the bytes asked for,
\* and there is no answer only for ranges past the end of the file.
AnswerIsRange ==
    \A c \in Caller : call[c].pc = "answer" =>
        LET f == call[c].key[1]
            r == IF call[c].key[2] = None THEN <<0, SizeOf(f)>> ELSE call[c].key[2]
            want == Bytes(r[1], Min({r[2], SizeOf(f)}))
            all == FlattenSeq(call[c].answer.terms)
        IN  IF r[1] > 0 /\ r[1] >= SizeOf(f)
            THEN call[c].answer = None
            ELSE /\ call[c].answer # None
                 /\ IsPrefix(want, SubSeq(all, call[c].answer.skip + 1, Len(all)))
                 /\ call[c].answer.terms # <<>> => call[c].answer.skip < Len(call[c].answer.terms[1])

\* Every call returns: a waiter is released by the end of the request it waits
\* for, also if the request failed or its result is gone before the waiter looks.
Returns == \A c \in Caller : call[c].pc # "idle" ~> call[c].pc = "idle"

\* `inflight` is a single-flight table: see SingleFlight.
LeaderOf(k) ==
    LET L == {c \in Caller : call[c].pc = "cas" /\ call[c].key = k} IN
    IF L = {} THEN None ELSE CHOOSE c \in L : TRUE

Flight == INSTANCE SingleFlight WITH
    leader <- [k \in Key |-> LeaderOf(k)],
    waiting <- [c \in Caller |-> IF call[c].pc = "wait" THEN call[c].key ELSE None]

\* Callers of one key share one CAS request, and its end releases them all.
ImplementsSingleFlight == Flight!Init /\ [][Flight!Next]_Flight!vars
=============================================================================
