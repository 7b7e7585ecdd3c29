-------------------------------- MODULE Reads --------------------------------
(***************************************************************************)
(* Reads of remote files: VirtualFs::read with its prefetch buffer         *)
(* (src/src/virtual_fs/prefetch.rs) for plain files, and encrypted_read    *)
(* for encrypted ones.  One handle; its mutex makes reads follow one       *)
(* another, so that the state between two reads is what matters: buffer,   *)
(* window of bytes for backward seeks, and the stream kept for the next    *)
(* sequential read.                                                        *)
(*                                                                         *)
(* The byte at position p of the file is the number p.                     *)
(***************************************************************************)
EXTENDS Container, Sequences, SequencesExt, FiniteSetsExt

CONSTANTS
    FileSize,       \* bytes of the plain file
    InitialWindow,  \* INITIAL_WINDOW
    MaxWindow,      \* MAX_WINDOW
    SeekWindow,     \* SEEK_WINDOW
    ForwardSkip,    \* FORWARD_SKIP
    MaxAttempts,    \* MAX_ATTEMPTS of fetch_data
    Sizes,          \* sizes of reads
    ChunkLens,      \* lengths of the chunks streams deliver
    FirstAt,        \* offsets of a handle's first read
    Objects,        \* the encrypted objects of the remote
    None

ASSUME WindowAssumption ==
    /\ InitialWindow \in Nat \ {0} /\ MaxWindow \in Nat /\ InitialWindow <= MaxWindow
    /\ SeekWindow \in Nat \ {0} /\ ForwardSkip \in Nat /\ MaxAttempts \in Nat \ {0}
ASSUME ReadAssumption ==
    /\ FileSize \in Nat /\ Sizes \subseteq Nat \ {0} /\ ChunkLens \subseteq Nat \ {0}
    /\ Objects \subseteq Object
ASSUME NoneAssumption == None \notin Nat /\ None \notin Seq(Nat) /\ None \notin Object

VARIABLES
    pf,     \* PrefetchState
    enc,    \* EncReadState: the object, and what is cached of its header
    rd      \* the read under way

vars == <<pf, enc, rd>>

\* The byte positions a .. b - 1.
Positions(a, b) == [i \in 1..(b - a) |-> a + i - 1]

\* The bytes of a chain of chunks.
Flat(chunks) ==
    LET upTo[i \in 0..Len(chunks)] == IF i = 0 THEN <<>> ELSE upTo[i - 1] \o chunks[i]
    IN  upTo[Len(chunks)]

\* chunks are the download chunks of the forward buffer, of whose first one
\* `front` bytes are consumed; the buffer is [start, start + len).  The seek
\* window has bytes from seekStart on.  stream is the position of the
\* download stream, or None.
NewPrefetch(forwardOnly) ==
    [chunks |-> <<>>, len |-> 0, front |-> 0, start |-> 0,
     seek |-> <<>>, seekStart |-> 0, window |-> InitialWindow,
     stream |-> None, forwardOnly |-> forwardOnly]

NoRead == [pc |-> "idle", off |-> 0, size |-> 0, resp |-> <<>>,
           plan |-> None, fetch |-> 0, stream |-> None, got |-> <<>>, attempt |-> 0]

Strategy == {"start", "continue", "range"}

\* A header that came short is cached like a whole one.
Header == {"none", "whole", "short"}

TypeOK ==
    /\ pf.chunks \in Seq(Seq(0..FileSize))
    /\ pf.len = Len(Flat(pf.chunks)) - pf.front
    /\ pf.chunks # <<>> => pf.front < Len(pf.chunks[1])
    /\ pf.start + pf.len <= FileSize
    /\ pf.window \in InitialWindow..MaxWindow
    /\ pf.stream \in 0..FileSize \cup {None}
    /\ enc.object \in Objects \cup {None} /\ enc.header \in Header
    /\ rd.pc \in {"idle", "loop", "fetch", "answer", "decrypt_failed"}
    /\ rd.plan \in Strategy \cup {None}

\* A handle of the plain file, with or without --direct-io, or of an encrypted
\* object: one whose header does not probe is not in the directory.
Init ==
    /\ \E b \in BOOLEAN : pf = NewPrefetch(b)
    /\ \E o \in {x \in Objects : Probe(x) # NoPlan} \cup {None} :
        enc = [object |-> o, header |-> "none"]
    /\ rd = NoRead

-----------------------------------------------------------------------------
\* PrefetchState

BufEnd(p) == p.start + p.len

\* The bytes of the buffer that are not consumed.
Buffered(p) == LET s == Flat(p.chunks) IN SubSeq(s, p.front + 1, Len(s))

\* The bytes of the first k chunks.
EndAt(chunks, k) == Len(Flat(SubSeq(chunks, 1, k)))

\* How many chunks lie within the first n bytes.
Consumed(chunks, n) == Max({k \in 0..Len(chunks) : EndAt(chunks, k) <= n})

\* Mutant: the offset into the first chunk outlives that chunk.
PoppedOffset(p, n) ==
    LET used == p.front + n
        k == Consumed(p.chunks, used)
    IN  [p EXCEPT !.chunks = SubSeq(@, k + 1, Len(@)), !.front = used, !.len = @ - n, !.start = @ + n]

\* Chunks that are consumed entirely are popped, the next one is cut.
Popped(p, n) ==
    LET used == p.front + n
        k == Consumed(p.chunks, used)
    IN  [p EXCEPT !.chunks = SubSeq(@, k + 1, Len(@)),
                  !.front = used - EndAt(p.chunks, k),
                  !.len = @ - n,
                  !.start = @ + n]

\* Consumed bytes become the window for backward seeks: behind the ones there
\* if they follow them (an empty window takes any), else in their place.
Seek(p, n) ==
    LET data == SubSeq(Buffered(p), 1, n)
        contiguous == p.seek = <<>> \/ p.seekStart + Len(p.seek) = p.start
        grown == p.seek \o data
        excess == Max({Len(grown) - SeekWindow, 0})
        keep == Min({n, SeekWindow})
    IN  IF contiguous /\ n <= SeekWindow
        THEN [p EXCEPT !.seek = SubSeq(grown, excess + 1, Len(grown)), !.seekStart = @ + excess]
        ELSE [p EXCEPT !.seek = SubSeq(data, n - keep + 1, n), !.seekStart = p.start + n - keep]

DrainToSeek(p, consumed) ==
    LET n == Min({consumed, p.len}) IN
    IF n = 0 THEN p ELSE Popped(IF p.forwardOnly THEN p ELSE Seek(p, n), n)

\* try_serve_forward: bytes from the buffer, None if it does not have the
\* first one; with --direct-io they are gone then.
Forward(p, off, size) ==
    IF p.len = 0 \/ off < p.start \/ off >= BufEnd(p) THEN None
    ELSE SubSeq(Buffered(p), off - p.start + 1, Min({off - p.start + size, p.len}))
AfterForward(p, off, data) ==
    IF p.forwardOnly /\ data \notin {None, <<>>}
    THEN DrainToSeek(p, off - p.start + Len(data)) ELSE p

\* try_serve_seek
Backward(p, off, size) ==
    IF p.forwardOnly \/ off < p.seekStart \/ off >= p.seekStart + Len(p.seek) THEN None
    ELSE SubSeq(p.seek, off - p.seekStart + 1, Min({off - p.seekStart + size, Len(p.seek)}))

\* prepare_fetch: classify the access, adjust the window, choose the strategy.
IsFirst(p) == p.len = 0 /\ p.start = 0
Sequential(p, off) == IsFirst(p) \/ (off >= BufEnd(p) /\ off <= BufEnd(p) + ForwardSkip)
StrategyFor(p, off) ==
    LET start == IF off >= p.start THEN p.start + p.len ELSE p.start IN
    CASE ~Sequential(p, off) -> "range"
      [] Sequential(p, off) /\ off = start /\ ~(p.stream = None /\ IsFirst(p) /\ off = 0) -> "continue"
      [] OTHER -> "start"

\* Mutant: the stream is kept over gaps and seeks.
PreparedSameStream(p, off) ==
    [(IF off >= p.start THEN DrainToSeek(p, p.len) ELSE p) EXCEPT
        !.window = IF Sequential(p, off) THEN Min({@ * 2, MaxWindow}) ELSE InitialWindow]

Prepared(p, off) ==
    [(IF off >= p.start THEN DrainToSeek(p, p.len) ELSE p) EXCEPT
        !.window = CASE IsFirst(p) -> @
                     [] ~IsFirst(p) /\ Sequential(p, off) -> Min({@ * 2, MaxWindow})
                     [] OTHER -> InitialWindow,
        !.stream = IF StrategyFor(p, off) = "continue" THEN @ ELSE None]
FetchSize(p, strategy, off, size) ==
    LET needed == Min({size, FileSize - off}) IN
    IF strategy = "range" THEN needed ELSE Min({Max({needed, p.window}), FileSize - off})

Stored(p, off, chunks) ==
    [p EXCEPT !.chunks = chunks, !.len = Len(Flat(chunks)), !.front = 0, !.start = off]

-----------------------------------------------------------------------------
\* VirtualFs::read of a plain file

ToRead == Min({rd.size, FileSize - rd.off})
Cursor == rd.off + Len(rd.resp)

\* What the buffer or the seek window has is taken first.
Read(off, size) ==
    LET fwd == Forward(pf, off, size)
        data == IF fwd # None THEN fwd ELSE Backward(pf, off, size)
    IN
    /\ enc.object = None
    /\ rd.pc = "idle"
    /\ IsFirst(pf) /\ ~pf.forwardOnly => off \in FirstAt
    /\ pf' = AfterForward(pf, off, fwd)
    /\ rd' = [NoRead EXCEPT
                !.pc = "loop", !.off = off, !.size = size,
                !.resp = IF data = None THEN <<>> ELSE data]
    /\ UNCHANGED enc

\* The assembly loop: plan a fetch and take the stream along.
Plan ==
    \E strategy \in {StrategyFor(pf, Cursor)}, p \in {Prepared(pf, Cursor)} :
    /\ rd.pc = "loop"
    /\ Len(rd.resp) < ToRead
    /\ pf' = [p EXCEPT !.stream = None]
    /\ rd' = [rd EXCEPT !.pc = "fetch", !.plan = strategy,
                !.fetch = FetchSize(p, strategy, Cursor, ToRead - Len(rd.resp)),
                !.stream = p.stream, !.got = <<>>, !.attempt = 1]
    /\ UNCHANGED enc

\* fetch_data: without a stream, one is opened at the cursor.
OpenStream ==
    /\ rd.pc = "fetch" /\ rd.stream = None
    /\ rd' = [rd EXCEPT !.stream = Cursor]
    /\ UNCHANGED <<pf, enc>>

\* A chunk of it; a bounded stream ends with the range.
TotalLen == Len(Flat(rd.got))
Chunk(n) ==
    LET end == IF rd.plan = "range" THEN Cursor + rd.fetch ELSE FileSize IN
    /\ rd.pc = "fetch" /\ rd.stream # None
    /\ TotalLen < rd.fetch
    /\ rd.stream + n <= end
    /\ rd' = [rd EXCEPT !.got = Append(@, Positions(rd.stream, rd.stream + n)),
                        !.stream = @ + n]
    /\ UNCHANGED <<pf, enc>>

\* fetch_data returns chunks: they become the buffer, which serves the read.
\* The stream of a sequential read is kept unless it failed.  (A singleton's
\* member names a value that is computed once.)
Serve(stream) ==
    \E p \in {Stored([pf EXCEPT !.stream = stream], Cursor, rd.got)} :
    \E data \in {Forward(p, Cursor, ToRead - Len(rd.resp))} :
    /\ pf' = AfterForward(p, Cursor, data)
    /\ rd' = [rd EXCEPT !.pc = "loop", !.resp = @ \o (IF data = None THEN <<>> ELSE data),
                        !.plan = None, !.fetch = 0, !.stream = None, !.got = <<>>, !.attempt = 0]
    /\ UNCHANGED enc

Fetched ==
    /\ rd.pc = "fetch" /\ rd.stream # None
    /\ TotalLen >= rd.fetch
    /\ Serve(IF rd.plan = "range" THEN None ELSE rd.stream)

\* A stream that ended before it brought anything: it has nothing left.
Exhausted == IF rd.plan = "range" THEN pf.stream ELSE FileSize

\* Mutant: failures without data are retried for ever.
FetchFailRetry ==
    /\ rd.pc = "fetch"
    /\ TotalLen < rd.fetch
    /\ \/ TotalLen > 0 /\ Serve(pf.stream)
       \/ TotalLen = 0 /\ rd' = [rd EXCEPT !.stream = None] /\ UNCHANGED <<pf, enc>>

\* The stream does not open, fails, ends or times out: what has come is used;
\* with nothing to use there is another attempt, and EIO after the last.  A
\* sequential stream that ended without data is kept, as one at its end.
FetchFail ==
    /\ rd.pc = "fetch"
    /\ TotalLen < rd.fetch
    /\ \/ /\ TotalLen > 0
          /\ Serve(pf.stream)
       \/ /\ TotalLen = 0
          /\ \E s \in {pf.stream} \cup (IF rd.stream = None THEN {} ELSE {Exhausted}) :
                pf' = [pf EXCEPT !.stream = s]
          /\ rd' = IF rd.attempt < MaxAttempts
                   THEN [rd EXCEPT !.attempt = @ + 1, !.stream = None] ELSE NoRead
          /\ UNCHANGED enc

\* Mutant: what the first fetch brought is returned.
AssembledShort ==
    /\ rd.pc = "loop"
    /\ rd.resp # <<>> \/ ToRead = 0
    /\ rd' = [rd EXCEPT !.pc = "answer"]
    /\ UNCHANGED <<pf, enc>>

Assembled ==
    /\ rd.pc = "loop"
    /\ Len(rd.resp) >= ToRead
    /\ rd' = [rd EXCEPT !.pc = "answer"]
    /\ UNCHANGED <<pf, enc>>

-----------------------------------------------------------------------------
\* encrypted_read: the header, once per handle, then the slots of the plan.  A
\* stream that ends early counts as fetched, so that slots up to `end` came;
\* what cannot be decrypted then is EIO.
EncryptedRead(off, size, end) ==
    LET o == enc.object
        plan == PlanRead(o.size, off, size)
        n == DecryptRead(o, [plan EXCEPT !.end = end], off, size)
    IN
    /\ enc.object # None /\ enc.header # "short"
    /\ rd.pc = "idle"
    /\ plan # NoPlan /\ end \in plan.base..plan.end
    /\ enc' = [enc EXCEPT !.header = "whole"]
    /\ rd' = CASE n # NoPlan ->
                   [NoRead EXCEPT !.pc = "answer", !.off = off, !.size = size,
                                  !.resp = Positions(off, off + n)]
              [] n = NoPlan /\ end # plan.end -> NoRead
              [] OTHER -> [NoRead EXCEPT !.pc = "decrypt_failed"]
    /\ UNCHANGED pf

\* A fetch fails three times, or the header comes or came short: EIO, with
\* what there is of the header in the cache.
EncryptedFail(header) ==
    /\ enc.object # None
    /\ rd.pc = "idle"
    /\ enc.header # "none" => header = enc.header
    /\ enc' = [enc EXCEPT !.header = header]
    /\ UNCHANGED <<pf, rd>>

Return ==
    /\ rd.pc = "answer"
    /\ rd' = NoRead
    /\ UNCHANGED <<pf, enc>>

Proceed ==
    \/ Plan \/ OpenStream \/ Fetched \/ FetchFail \/ Assembled \/ Return
    \/ \E n \in ChunkLens : Chunk(n)

Next ==
    \/ Proceed
    \/ \E off \in 0..FileSize, size \in Sizes :
        \/ Read(off, size)
        \/ enc.object # None /\ \E end \in 0..enc.object.size : EncryptedRead(off, size, end)
    \/ \E header \in Header : EncryptedFail(header)

\* A read is polled until it returns; the read timeout ends stalled chunks.
Spec == Init /\ [][Next]_vars /\ WF_vars(Proceed)

-----------------------------------------------------------------------------
\* Properties

EndOf == IF enc.object = None THEN FileSize ELSE enc.object.fileSize

\* A read returns exactly the bytes of the file at its offset, and never fewer
\* than it was asked for before the end of the file ("Never return a short
\* read unless at real EOF": the kernel would truncate the file), whatever mix
\* of buffer, seek window, stream and retries they came from.
ReadIsExact ==
    rd.pc = "answer" =>
        rd.resp = Positions(rd.off, Max({rd.off, Min({rd.off + rd.size, EndOf})}))

\* A stream kept for the next sequential read stands at the end of the buffer,
\* so that a read that goes on with it gets the bytes it asked for, or at its
\* own end, where it has none to give.
StreamIsAligned == pf.stream \in {None, BufEnd(pf), FileSize}

\* What plan_read asks for is enough to decrypt, for every object whose header
\* probes, if it comes (a stream that ends early is an EIO of its own).
DecryptSucceeds == rd.pc # "decrypt_failed"

\* The cached header is the object's ("fetched once per handle and reused across
\* reads"): a read that failed may be tried again on the same handle.
HeaderIsWhole == enc.header # "short"

\* Every read returns, with data or with an error, whatever fails.
Returns == rd.pc # "idle" ~> rd.pc = "idle"
=============================================================================
