------------------------------ MODULE Container ------------------------------
(***************************************************************************)
(* The container of an encrypted file, src/src/encryption/content.rs: an   *)
(* HFEB prefix, the header of the RAF container behind it, and slots of    *)
(* one size that hold a chunk of plaintext each, the last one padded.  The *)
(* cipher is the library's; this module has the arithmetic by which a      *)
(* plaintext read finds the bytes of the object it needs.                  *)
(***************************************************************************)
EXTENDS Integers, FiniteSets

CONSTANTS
    HfebLen,    \* HFEB_HEADER_LEN
    RafLen,     \* RAF_HEADER_LEN
    ChunkSize,  \* RAF_CHUNK_SIZE
    Overhead,   \* RAF_CHUNK_OVERHEAD
    NoPlan      \* the None of the source

ASSUME ContainerAssumption ==
    /\ HfebLen \in Nat /\ RafLen \in Nat \ {0}
    /\ ChunkSize \in Nat \ {0} /\ Overhead \in Nat
    /\ NoPlan \notin Nat

Record == ChunkSize + Overhead
HeaderLen == HfebLen + RafLen
Smaller(a, b) == IF a < b THEN a ELSE b

ChunksOf(plaintext) == (plaintext + ChunkSize - 1) \div ChunkSize

CiphertextSize(plaintext) == HeaderLen + ChunksOf(plaintext) * Record

\* Object sizes that are no container sizes are recognised as such.
ContainerChunkCount(size) ==
    IF size >= HeaderLen /\ (size - HeaderLen) % Record = 0
    THEN (size - HeaderLen) \div Record ELSE NoPlan

\* An object of the remote: what its two headers say and how long it is.
\* `format` is FALSE if magic, version, algorithm or chunk size are not those
\* this mount writes.
Object == [format : BOOLEAN, fileSize : Nat, size : Nat]

\* Mutant: the header's word is not compared with the object.
ProbeHeaderOnly(o) ==
    IF o.size >= HeaderLen /\ o.format THEN o.fileSize ELSE NoPlan

\* probe_plaintext_size_with: the plaintext size, if the object is a container
\* of this mount and its length is the one that size has.
Probe(o) ==
    IF o.size >= HeaderLen /\ o.format /\ CiphertextSize(o.fileSize) = o.size
    THEN o.fileSize ELSE NoPlan

\* The slots to fetch for len bytes of plaintext at off: as a half-open range
\* of RAF offsets, which is empty if there is nothing to read.
PlanRead(size, off, len) ==
    LET chunks == ContainerChunkCount(size)
        first == off \div ChunkSize
        last == Smaller((off + len - 1) \div ChunkSize, chunks - 1)
    IN  CASE chunks = NoPlan -> NoPlan
          [] chunks # NoPlan /\ (len = 0 \/ chunks = 0 \/ first >= chunks) ->
                [base |-> RafLen, end |-> RafLen]
          [] OTHER ->
                [base |-> RafLen + first * Record, end |-> RafLen + (last + 1) * Record]

\* ReadIo::read_at has the header and the slots fetched, and nothing else.
Available(plan, a, b) == b <= RafLen \/ (a >= plan.base /\ b <= plan.end)

\* The slots the RAF reads to decrypt: those of the plaintext asked for.
Touches(plaintext, off, len) ==
    {c \in 0..ChunksOf(plaintext) :
        /\ len > 0 /\ off < plaintext
        /\ c >= off \div ChunkSize
        /\ c <= (Smaller(off + len, plaintext) - 1) \div ChunkSize}

\* decrypt_read: as many bytes as there are, or an error for a slot that was
\* not fetched.
DecryptRead(o, plan, off, len) ==
    IF \A c \in Touches(o.fileSize, off, len) :
            Available(plan, RafLen + c * Record, RafLen + (c + 1) * Record)
    THEN IF off < o.fileSize THEN Smaller(len, o.fileSize - off) ELSE 0
    ELSE NoPlan
=============================================================================
