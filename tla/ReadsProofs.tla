----------------------------- MODULE ReadsProofs -----------------------------
(***************************************************************************)
(* Proofs about Reads, for files, windows, chunks and containers of every  *)
(* size: the buffer's counters, the position of a kept stream, the bytes a *)
(* read returns, and that a plan has every slot its read decrypts.         *)
(***************************************************************************)
EXTENDS Reads, SeqOpsProofs

\* A prefetch state whose fields have their types.
Prefetch ==
    [chunks : Seq(Seq(0..FileSize)), len : Nat, front : Nat, start : Nat,
     seek : Seq(Nat), seekStart : Nat, window : InitialWindow..MaxWindow,
     stream : 0..FileSize \cup {None}, forwardOnly : BOOLEAN]

\* The buffer's counters describe its chunks, and what they leave of them are
\* the bytes of the file from `start` on.
BufferOk(p) ==
    /\ p \in Prefetch
    /\ p.len = Len(Flat(p.chunks)) - p.front
    /\ p.chunks # <<>> => p.front < Len(p.chunks[1])
    /\ BufEnd(p) <= FileSize
    /\ \A i \in 1..p.len : Flat(p.chunks)[p.front + i] = p.start + i - 1

\* A read whose fields have their types.
ReadState ==
    [pc : {"idle", "loop", "fetch", "answer", "decrypt_failed"}, off : 0..FileSize,
     size : Nat, resp : Seq(Nat), plan : Strategy \cup {None}, fetch : Nat,
     stream : 0..FileSize \cup {None}, got : Seq(Seq(0..FileSize)), attempt : Nat]

\* A fetch brings the bytes from the cursor on; a stream it took over stands
\* there too, or has nothing left.
FetchOk ==
    rd.pc = "fetch" =>
        /\ Len(rd.resp) < ToRead
        /\ rd.fetch >= 1 /\ Cursor + rd.fetch <= FileSize
        /\ Cursor + TotalLen <= FileSize
        /\ Flat(rd.got) = Positions(Cursor, Cursor + TotalLen)
        /\ rd.got # <<>> => Len(rd.got[1]) > 0
        /\ rd.stream = None => TotalLen = 0
        /\ rd.stream \in {None, Cursor + TotalLen, FileSize}
        /\ pf.stream \in {None, FileSize}

\* Objects that are read have passed the probe; what they answer is exact.
EncryptedOk ==
    /\ enc \in [object : Objects \cup {None}, header : Header]
    /\ enc.object # None =>
        Probe(enc.object) # NoPlan /\ rd.pc \in {"idle", "answer"} /\ ReadIsExact

\* What holds of every handle.
IInv ==
    /\ BufferOk(pf) /\ rd \in ReadState
    /\ StreamIsAligned /\ DecryptSucceeds
    /\ FetchOk /\ EncryptedOk

\* The window for backward seeks has the bytes it says; it is empty only
\* before the first fetch of the handle is left behind.
SeekOk(p) ==
    /\ p.seek = Positions(p.seekStart, p.seekStart + Len(p.seek))
    /\ p.seekStart + Len(p.seek) <= FileSize
    /\ p.forwardOnly => p.seek = <<>>
    /\ ~p.forwardOnly /\ p.seek = <<>> => p.seekStart = 0 /\ p.start = 0
    /\ IsFirst(p) => p.seek = <<>>

\* What holds of a handle that is first read at its start: what a read has so far
\* are the bytes at its offset, and the window never claims bytes it has not.
ExactInv ==
    /\ SeekOk(pf)
    /\ rd.pc = "fetch" /\ ~pf.forwardOnly /\ pf.seek = <<>> => IsFirst(pf)
    /\ rd.pc \in {"loop", "fetch"} /\ ~pf.forwardOnly /\ IsFirst(pf) => Cursor = 0
    /\ enc.object = None /\ rd.pc \in {"loop", "fetch", "answer"} =>
        /\ rd.resp = Positions(rd.off, Cursor)
        /\ Len(rd.resp) <= ToRead
        /\ rd.pc = "answer" => Len(rd.resp) = ToRead

----------------------------------------------------------------------------
(* Chains of chunks.                                                       *)

\* A name for concatenation, which the provers leave unexpanded.
Cat(x, y) == x \o y

\* Concatenation is associative.
LEMMA CatAssoc ==
    ASSUME NEW X, NEW x \in Seq(X), NEW y \in Seq(X), NEW z \in Seq(X)
    PROVE  Cat(Cat(x, y), z) = Cat(x, Cat(y, z))
    BY ConcatAssociative DEF Cat

\* f[n] is the bytes of the first n chunks of c.
Chains(f, c) == f[0] = <<>> /\ \A n \in 1..Len(c) : f[n] = f[n - 1] \o c[n]

\* The recursion of Flat, as a function of its own.
LEMMA FlatFcn ==
    ASSUME NEW X, NEW c \in Seq(Seq(X))
    PROVE  \E f \in [0..Len(c) -> Seq(X)] : Chains(f, c) /\ Flat(c) = f[Len(c)]
<1> DEFINE N == Len(c)
           V == Seq(X)
           v == <<>>
           Up(n, a) == a \o c[n]
           G(f) == [n \in 0..N |-> IF n = 0 THEN v ELSE Up(n, f[n - 1])]
           Good(f) == f \in [0..N -> V] /\ f[0] = v /\ \A n \in 1..N : f[n] = Up(n, f[n - 1])
           st == [n \in 1..N |-> [a \in V |-> Up(n, a)]]
<1>1. N \in Nat /\ v \in V /\ \A n \in 1..N, a \in V : Up(n, a) \in V
    OBVIOUS
<1>2. Flat(c) = (CHOOSE g : g = G(g))[N]
    BY DEF Flat
<1>3. Good(CHOOSE g : g = G(g))
  <2> HIDE DEF N, V, v, Up
  <2>1. st \in [1..N -> [V -> V]]
    BY <1>1
  <2>2. PICK f \in [0..N -> V] : Computed(f, v, N, st)
    <3> HIDE DEF st
    <3> QED
      BY <1>1, <2>1, Recursion
  <2>3. \A n \in 1..N : f[n] = Up(n, f[n - 1])
    <3> SUFFICES ASSUME NEW n \in 1..N PROVE f[n] = Up(n, f[n - 1])
      OBVIOUS
    <3>1. f[n - 1] \in V /\ f[n] = st[n][f[n - 1]]
      BY <1>1, <2>2 DEF Computed
    <3> QED
      BY <3>1
  <2>4. f = G(f)
    BY <1>1, <2>2, <2>3 DEF Computed
  <2>5. ASSUME NEW g, g = G(g) PROVE Good(g)
    <3> DEFINE T == {k \in 0..N : g[k] \in V}
    <3>1. g[0] = v /\ \A n \in 1..N : g[n] = Up(n, g[n - 1])
      BY <1>1, <2>5
    <3>2. 0 \in T /\ \A n \in 1..N : n - 1 \in T => n \in T
      BY <1>1, <3>1
    <3>3. \A n \in 0..N : n \in T
      <4> HIDE DEF T
      <4> QED
        BY <1>1, <3>2, InductTo
    <3>4. g \in [0..N -> V]
      BY <2>5, <3>3
    <3> QED
      BY <3>1, <3>4
  <2> HIDE DEF G, Good
  <2> QED
    BY <2>4, <2>5
<1>4. PICK f : f = CHOOSE g : g = G(g)
    OBVIOUS
<1> HIDE DEF G
<1> QED
    BY <1>2, <1>3, <1>4 DEF Chains

\* The bytes of two chains, one after the other.
LEMMA FlatConcat ==
    ASSUME NEW X, NEW s \in Seq(Seq(X)), NEW t \in Seq(Seq(X))
    PROVE  /\ Flat(s) \in Seq(X) /\ Flat(t) \in Seq(X)
           /\ Flat(s \o t) = Flat(s) \o Flat(t)
<1>0. s \o t \in Seq(Seq(X)) /\ Len(s \o t) = Len(s) + Len(t) /\ Len(s) \in Nat /\ Len(t) \in Nat
    OBVIOUS
<1>1. PICK f \in [0..Len(s) -> Seq(X)] : Chains(f, s) /\ Flat(s) = f[Len(s)]
    BY FlatFcn
<1>2. PICK g \in [0..Len(t) -> Seq(X)] : Chains(g, t) /\ Flat(t) = g[Len(t)]
    BY FlatFcn
<1>3. PICK h \in [0..Len(s \o t) -> Seq(X)] : Chains(h, s \o t) /\ Flat(s \o t) = h[Len(s \o t)]
    BY <1>0, FlatFcn
<1> DEFINE A == {n \in 0..Len(s) : h[n] = f[n]}
           B == {n \in 0..Len(t) : h[Len(s) + n] = f[Len(s)] \o g[n]}
<1>4. 0 \in A
    BY <1>0, <1>1, <1>3 DEF Chains
<1>5. ASSUME NEW n \in 1..Len(s), n - 1 \in A PROVE n \in A
  <2>1. (s \o t)[n] = s[n] /\ n \in 1..Len(s \o t)
    BY <1>0
  <2>2. h[n] = h[n - 1] \o (s \o t)[n] /\ f[n] = f[n - 1] \o s[n]
    BY <1>1, <1>3, <2>1 DEF Chains
  <2>3. h[n - 1] = f[n - 1]
    BY <1>5
  <2>4. h[n] = f[n]
    BY <2>1, <2>2, <2>3, Zenon
  <2> QED
    BY <2>4
<1>6. \A n \in 0..Len(s) : n \in A
  <2> HIDE DEF A
  <2> QED
    BY <1>0, <1>4, <1>5, InductTo
<1>7. 0 \in B
  <2>1. h[Len(s)] = f[Len(s)] /\ g[0] = <<>> /\ f[Len(s)] \in Seq(X)
    BY <1>0, <1>2, <1>6 DEF Chains
  <2>2. f[Len(s)] \o <<>> = f[Len(s)]
    BY <2>1, ConcatEmptySeq
  <2> QED
    BY <1>0, <2>1, <2>2
<1>8. ASSUME NEW n \in 1..Len(t), n - 1 \in B PROVE n \in B
  <2> DEFINE k == Len(s) + n
  <2>1. (s \o t)[k] = t[n] /\ k \in 1..Len(s \o t) /\ k - 1 = Len(s) + (n - 1) /\ t[n] \in Seq(X)
    BY <1>0
  <2>2. h[k] = h[k - 1] \o (s \o t)[k]
    <3> HIDE DEF k
    <3> QED
      BY <1>3, <2>1 DEF Chains
  <2>3. g[n] = g[n - 1] \o t[n] /\ g[n - 1] \in Seq(X) /\ f[Len(s)] \in Seq(X)
    <3>1. n - 1 \in 0..Len(t) /\ Len(s) \in 0..Len(s)
      BY <1>0
    <3> QED
      BY <1>2, <3>1 DEF Chains
  <2>4. h[k - 1] = f[Len(s)] \o g[n - 1]
    BY <1>8, <2>1
  <2>5. Cat(Cat(f[Len(s)], g[n - 1]), t[n]) = Cat(f[Len(s)], Cat(g[n - 1], t[n]))
    BY <2>1, <2>3, CatAssoc
  <2>6. h[k] = f[Len(s)] \o g[n]
    <3>1. h[k] = Cat(h[k - 1], (s \o t)[k])
      BY <2>2, Zenon DEF Cat
    <3>2. g[n] = Cat(g[n - 1], t[n])
      BY <2>3, Zenon DEF Cat
    <3>3. h[k - 1] = Cat(f[Len(s)], g[n - 1])
      BY <2>4, Zenon DEF Cat
    <3>4. h[k] = Cat(f[Len(s)], g[n])
      BY <2>1, <2>5, <3>1, <3>2, <3>3, Zenon
    <3> QED
      BY <3>4, Zenon DEF Cat
  <2>7. n \in 0..Len(t)
    OBVIOUS
  <2> QED
    BY <2>6, <2>7, Zenon
<1>9. \A n \in 0..Len(t) : n \in B
  <2> HIDE DEF B
  <2> QED
    BY <1>0, <1>7, <1>8, InductTo
<1>10. /\ Len(s) \in 0..Len(s) /\ Len(t) \in 0..Len(t) /\ Len(t) \in B
    BY <1>0, <1>9
<1> QED
    BY <1>0, <1>1, <1>2, <1>3, <1>10

\* The bytes of no chunk, of one, of one more, and of two parts of a chain.
LEMMA FlatSeq ==
    ASSUME NEW X, NEW c \in Seq(Seq(X))
    PROVE  /\ Flat(c) \in Seq(X) /\ Flat(<<>>) = <<>>
           /\ \A x \in Seq(X) : Flat(Append(c, x)) = Flat(c) \o x
           /\ \A n \in 0..Len(c) :
                /\ SubSeq(c, 1, n) \in Seq(Seq(X)) /\ SubSeq(c, n + 1, Len(c)) \in Seq(Seq(X))
                /\ Flat(SubSeq(c, 1, n)) \in Seq(X) /\ Flat(SubSeq(c, n + 1, Len(c))) \in Seq(X)
                /\ Flat(c) = Flat(SubSeq(c, 1, n)) \o Flat(SubSeq(c, n + 1, Len(c)))
           /\ \A n \in 1..Len(c) : Flat(SubSeq(c, 1, n)) = Flat(SubSeq(c, 1, n - 1)) \o c[n]
<1>1. Flat(<<>>) = <<>>
  <2>1. <<>> \in Seq(Seq(X)) /\ Len(<<>>) = 0
    OBVIOUS
  <2>2. PICK e \in [0..0 -> Seq(X)] : Chains(e, <<>>) /\ Flat(<<>>) = e[0]
    BY <2>1, FlatFcn
  <2> QED
    BY <2>2 DEF Chains
<1>2. ASSUME NEW x \in Seq(X) PROVE <<x>> \in Seq(Seq(X)) /\ Flat(<<x>>) = x
  <2>1. PICK o : o = <<x>>
    OBVIOUS
  <2>2. o \in Seq(Seq(X)) /\ Len(o) = 1 /\ o[1] = x
    BY <2>1
  <2>3. PICK f \in [0..1 -> Seq(X)] : Chains(f, o) /\ Flat(o) = f[1]
    BY <2>2, FlatFcn
  <2>4. f[0] = <<>> /\ f[1] = f[1 - 1] \o o[1]
    BY <2>2, <2>3 DEF Chains
  <2>5. <<>> \o x = x
    BY ConcatEmptySeq
  <2>6. Flat(o) = x
    BY <2>2, <2>3, <2>4, <2>5
  <2> QED
    BY <2>1, <2>2, <2>6
<1>3. ASSUME NEW x \in Seq(X) PROVE Flat(Append(c, x)) = Flat(c) \o x
  <2>1. PICK o \in Seq(Seq(X)) : o = <<x>>
    BY <1>2
  <2>2. Append(c, x) = c \o o
    BY <2>1
  <2>3. Flat(c \o o) = Flat(c) \o Flat(o)
    BY FlatConcat
  <2>4. Flat(o) = x
    BY <1>2, <2>1, Zenon
  <2> QED
    BY <2>2, <2>3, <2>4
<1>4. ASSUME NEW n \in 0..Len(c)
      PROVE  /\ SubSeq(c, 1, n) \in Seq(Seq(X)) /\ SubSeq(c, n + 1, Len(c)) \in Seq(Seq(X))
             /\ SubSeq(c, 1, n) \o SubSeq(c, n + 1, Len(c)) = c
  <2>0. Len(c) \in Nat /\ n \in Nat /\ n <= Len(c)
    OBVIOUS
  <2>1. \A i \in 1..Len(c) : c[i] \in Seq(X)
    BY ElementOfSeq
  <2>2. SubSeq(c, 1, n) \in Seq(Seq(X)) /\ SubSeq(c, n + 1, Len(c)) \in Seq(Seq(X))
    <3>1. (\A i \in 1..n : c[i] \in Seq(X)) /\ (\A i \in (n + 1)..Len(c) : c[i] \in Seq(X))
      BY <2>0, <2>1
    <3>2. 1 \in Int /\ n \in Int /\ n + 1 \in Int /\ Len(c) \in Int
      BY <2>0
    <3> QED
      BY <3>1, <3>2, SubSeqProperties
  <2>3. SubSeq(c, 1, n) \o SubSeq(c, n + 1, Len(c)) = SubSeq(c, 1, Len(c))
    <3>1. 1 \in 1..(Len(c) + 1) /\ n \in (1 - 1)..Len(c) /\ Len(c) \in n..Len(c)
      BY <2>0
    <3> QED
      BY <3>1, ConcatAdjacentSubSeq
  <2> QED
    BY <2>2, <2>3, SubSeqFull
<1>5. ASSUME NEW n \in 1..Len(c) PROVE Flat(SubSeq(c, 1, n)) = Flat(SubSeq(c, 1, n - 1)) \o c[n]
  <2>0. Len(c) \in Nat /\ n \in Nat /\ 1 \in 1..Len(c) /\ n \in 1..Len(c) /\ n - 1 \in 0..Len(c)
    OBVIOUS
  <2>1. SubSeq(c, 1, n) = SubSeq(c, 1, n - 1) \o <<c[n]>>
    BY <2>0, SubSeqRecursiveSecond
  <2>2. c[n] \in Seq(X)
    BY ElementOfSeq
  <2>3. SubSeq(c, 1, n - 1) \in Seq(Seq(X))
    BY <2>0, <1>4
  <2>4. PICK o \in Seq(Seq(X)) : o = <<c[n]>> /\ Flat(o) = c[n]
    BY <1>2, <2>2, Zenon
  <2>5. PICK a \in Seq(Seq(X)) : a = SubSeq(c, 1, n - 1)
    BY <2>3
  <2>6. Flat(a \o o) = Flat(a) \o Flat(o)
    BY FlatConcat
  <2> QED
    BY <2>1, <2>4, <2>5, <2>6
<1>6. Flat(c) \in Seq(X)
    BY FlatConcat
<1>7. ASSUME NEW n \in 0..Len(c)
      PROVE  /\ Flat(SubSeq(c, 1, n)) \in Seq(X) /\ Flat(SubSeq(c, n + 1, Len(c))) \in Seq(X)
             /\ Flat(c) = Flat(SubSeq(c, 1, n)) \o Flat(SubSeq(c, n + 1, Len(c)))
  <2>1. PICK a, b : a = SubSeq(c, 1, n) /\ b = SubSeq(c, n + 1, Len(c))
    OBVIOUS
  <2> QED
    BY <1>4, <2>1, FlatConcat
<1> QED
    BY <1>1, <1>3, <1>4, <1>5, <1>6, <1>7

----------------------------------------------------------------------------
(* Bounds, and runs of positions.                                          *)

\* The smaller and the larger of two numbers.
LEMMA MinMax ==
    ASSUME NEW a \in Int, NEW b \in Int
    PROVE  /\ Min({a, b}) = IF a <= b THEN a ELSE b
           /\ Max({a, b}) = IF a >= b THEN a ELSE b
<1>1. \E x \in {a, b} : \A y \in {a, b} : x <= y
    OBVIOUS
<1>2. \E x \in {a, b} : \A y \in {a, b} : x >= y
    OBVIOUS
<1>3. Min({a, b}) \in {a, b} /\ \A y \in {a, b} : Min({a, b}) <= y
    BY <1>1 DEF Min
<1>4. Max({a, b}) \in {a, b} /\ \A y \in {a, b} : Max({a, b}) >= y
    BY <1>2 DEF Max
<1>5. Min({a, b}) <= a /\ Min({a, b}) <= b /\ Max({a, b}) >= a /\ Max({a, b}) >= b
    BY <1>3, <1>4, Zenon
<1>6. (Min({a, b}) = a \/ Min({a, b}) = b) /\ (Max({a, b}) = a \/ Max({a, b}) = b)
    BY <1>3, <1>4, Zenon
<1>7. PICK m \in Int, n \in Int : m = Min({a, b}) /\ n = Max({a, b})
    BY <1>6, Zenon
<1> QED
    BY <1>5, <1>6, <1>7

\* Positions(a, b) are the numbers from a on, b - a of them.
LEMMA PositionsSeq ==
    ASSUME NEW a \in Nat, NEW b \in Nat, a <= b
    PROVE  /\ Positions(a, b) \in Seq(Nat) /\ Len(Positions(a, b)) = b - a
           /\ \A i \in 1..(b - a) : Positions(a, b)[i] = a + i - 1
           /\ b <= FileSize => Positions(a, b) \in Seq(0..FileSize)
<1>1. b - a \in Nat
    OBVIOUS
<1>2. PICK n \in Nat : n = b - a
    BY <1>1
<1>3. Positions(a, b) = [i \in 1..n |-> a + i - 1]
    BY <1>2 DEF Positions
<1>4. \A i \in 1..n : a + i - 1 \in Nat
    OBVIOUS
<1>5. [i \in 1..n |-> a + i - 1] \in Seq(Nat) /\ Len([i \in 1..n |-> a + i - 1]) = n
    BY <1>4
<1>6. ASSUME b <= FileSize PROVE Positions(a, b) \in Seq(0..FileSize)
  <2>1. \A i \in 1..n : a + i - 1 \in 0..FileSize
    BY <1>2, <1>6, ReadAssumption
  <2>2. [i \in 1..n |-> a + i - 1] \in Seq(0..FileSize)
    BY <2>1
  <2> QED
    BY <1>3, <2>2
<1> QED
    BY <1>2, <1>3, <1>5, <1>6

\* The elements of s behind the i-th, up to the j-th.
Slice(s, i, j) == SubSeq(s, i + 1, j)

\* A slice of a sequence of naturals is one too.
LEMMA SliceNat ==
    ASSUME NEW s \in Seq(Nat), NEW i \in Nat, NEW j \in Nat, j <= Len(s)
    PROVE  Slice(s, i, j) \in Seq(Nat)
<1>1. \A k \in (i + 1)..j : s[k] \in Nat
    OBVIOUS
<1>2. i + 1 \in Int /\ j \in Int
    OBVIOUS
<1> QED
    BY <1>1, <1>2, SubSeqProperties DEF Slice

\* A slice of consecutive positions are the positions between its ends.
LEMMA PositionsSlice ==
    ASSUME NEW a \in Nat, NEW b \in Nat, a <= b,
           NEW i \in Nat, NEW j \in Nat, i <= j, j <= b - a
    PROVE  Slice(Positions(a, b), i, j) = Positions(a + i, a + j)
<1>1. PICK s \in Seq(Nat) : s = Positions(a, b) /\ Len(s) = b - a /\ \A k \in 1..(b - a) : s[k] = a + k - 1
    BY PositionsSeq
<1>2. /\ a + i \in Nat /\ a + j \in Nat /\ a + i <= a + j
    OBVIOUS
<1>3. PICK t \in Seq(Nat) : /\ t = Positions(a + i, a + j) /\ Len(t) = (a + j) - (a + i)
                            /\ \A k \in 1..((a + j) - (a + i)) : t[k] = (a + i) + k - 1
    BY <1>2, PositionsSeq
<1>4. \A k \in (i + 1)..j : s[k] \in Nat
    BY <1>1
<1>5. PICK u \in Seq(Nat) : /\ u = SubSeq(s, i + 1, j)
                            /\ Len(u) = (IF i + 1 <= j THEN j - (i + 1) + 1 ELSE 0)
                            /\ \A k \in 1..(j - (i + 1) + 1) : u[k] = s[i + 1 + k - 1]
  <2>1. i + 1 \in Int /\ j \in Int
    OBVIOUS
  <2>2. /\ SubSeq(s, i + 1, j) \in Seq(Nat)
        /\ Len(SubSeq(s, i + 1, j)) = IF i + 1 <= j THEN j - (i + 1) + 1 ELSE 0
        /\ \A k \in 1..(j - (i + 1) + 1) : SubSeq(s, i + 1, j)[k] = s[i + 1 + k - 1]
    BY <1>4, <2>1, SubSeqProperties
  <2> QED
    BY <2>2, Zenon
<1>6. Len(u) = j - i /\ Len(t) = j - i
    BY <1>3, <1>5
<1>7. ASSUME NEW k \in 1..(j - i) PROVE u[k] = t[k]
  <2>1. u[k] = s[i + k] /\ i + k \in 1..(b - a)
    BY <1>5
  <2>2. u[k] = a + (i + k) - 1
    BY <1>1, <2>1
  <2>3. t[k] = (a + i) + k - 1
    BY <1>3
  <2> QED
    BY <2>2, <2>3
<1>8. u = t
    BY <1>6, <1>7, SeqEqual
<1> QED
    BY <1>1, <1>3, <1>5, <1>8 DEF Slice

\* Consecutive positions, one run after the other.
LEMMA PositionsCat ==
    ASSUME NEW a \in Nat, NEW b \in Nat, NEW c \in Nat, a <= b, b <= c
    PROVE  Positions(a, b) \o Positions(b, c) = Positions(a, c)
<1>1. PICK s \in Seq(Nat) : s = Positions(a, b) /\ Len(s) = b - a /\ \A k \in 1..(b - a) : s[k] = a + k - 1
    BY PositionsSeq
<1>2. PICK t \in Seq(Nat) : t = Positions(b, c) /\ Len(t) = c - b /\ \A k \in 1..(c - b) : t[k] = b + k - 1
    BY PositionsSeq
<1>3. PICK u \in Seq(Nat) : u = Positions(a, c) /\ Len(u) = c - a /\ \A k \in 1..(c - a) : u[k] = a + k - 1
  <2>1. a <= c
    OBVIOUS
  <2> QED
    BY <2>1, PositionsSeq
<1>4. PICK v \in Seq(Nat) : /\ v = s \o t /\ Len(v) = Len(s) + Len(t)
                            /\ \A k \in 1..(Len(s) + Len(t)) : v[k] = IF k <= Len(s) THEN s[k] ELSE t[k - Len(s)]
  <2>1. /\ s \o t \in Seq(Nat) /\ Len(s \o t) = Len(s) + Len(t)
        /\ \A k \in 1..(Len(s) + Len(t)) : (s \o t)[k] = IF k <= Len(s) THEN s[k] ELSE t[k - Len(s)]
    BY ConcatProperties
  <2> QED
    BY <2>1, Zenon
<1>5. Len(v) = c - a
    BY <1>1, <1>2, <1>4
<1>6. ASSUME NEW k \in 1..(c - a) PROVE v[k] = u[k]
  <2>1. CASE k <= b - a
    BY <1>1, <1>2, <1>3, <1>4, <2>1
  <2>2. CASE k > b - a
    <3>1. k - (b - a) \in 1..(c - b)
      BY <2>2
    <3>2. v[k] = t[k - (b - a)]
      <4>1. k \in 1..(Len(s) + Len(t)) /\ ~(k <= Len(s)) /\ k - Len(s) = k - (b - a)
        BY <1>1, <1>2, <2>2
      <4> QED
        BY <1>4, <4>1
    <3>3. t[k - (b - a)] = b + (k - (b - a)) - 1
      BY <1>2, <3>1
    <3> QED
      BY <1>3, <3>2, <3>3
  <2> QED
    BY <2>1, <2>2
<1>7. v = u
    BY <1>3, <1>5, <1>6, SeqEqual
<1> QED
    BY <1>1, <1>2, <1>3, <1>4, <1>7

----------------------------------------------------------------------------
(* The prefetch buffer.                                                    *)

\* The chunks behind the k-th.
Behind(c, k) == SubSeq(c, k + 1, Len(c))

\* Every chunk ends its length after the one before.
LEMMA FlatEnds ==
    ASSUME NEW X, NEW c \in Seq(Seq(X))
    PROVE  /\ Len(c) \in Nat /\ EndAt(c, 0) = 0 /\ \A i \in 0..Len(c) : EndAt(c, i) \in Nat
           /\ \A i \in 1..Len(c) : Len(c[i]) \in Nat /\ EndAt(c, i) = EndAt(c, i - 1) + Len(c[i])
<1> DEFINE E == [i \in 0..Len(c) |-> Len(Flat(SubSeq(c, 1, i)))]
<1>0. Len(c) \in Nat /\ \A i \in 1..Len(c) : c[i] \in Seq(X) /\ Len(c[i]) \in Nat
    OBVIOUS
<1>1. \A i \in 0..Len(c) : Flat(SubSeq(c, 1, i)) \in Seq(X)
    BY FlatSeq
<1>2. \A i \in 0..Len(c) : Len(Flat(SubSeq(c, 1, i))) \in Nat
    BY <1>1, LenProperties, Zenon
<1>3. E[0] = 0
  <2>1. SubSeq(c, 1, 0) = <<>>
    BY SubSeqEmpty
  <2>2. Flat(<<>>) = <<>>
    BY FlatSeq
  <2>3. Len(<<>>) = 0
    OBVIOUS
  <2>4. E[0] = Len(Flat(SubSeq(c, 1, 0)))
    BY <1>0
  <2> QED
    BY <2>1, <2>2, <2>3, <2>4, Zenon
<1>4. ASSUME NEW i \in 1..Len(c) PROVE E[i] = E[i - 1] + Len(c[i])
  <2>1. i \in 0..Len(c) /\ i - 1 \in 0..Len(c)
    BY <1>0
  <2>2. PICK a \in Seq(X), b \in Seq(X), z \in Seq(X) :
          a = Flat(SubSeq(c, 1, i - 1)) /\ b = c[i] /\ z = Flat(SubSeq(c, 1, i))
    BY <1>0, <1>1, <2>1, Zenon
  <2>3. Flat(SubSeq(c, 1, i)) = Flat(SubSeq(c, 1, i - 1)) \o c[i]
    BY FlatSeq
  <2>4. z = a \o b
    BY <2>2, <2>3, Zenon
  <2>5. Len(z) = Len(a) + Len(b)
    BY <2>4, ConcatProperties
  <2>6. E[i] = Len(z) /\ E[i - 1] = Len(a)
    BY <2>1, <2>2
  <2> QED
    BY <2>2, <2>5, <2>6
<1>5. \A i \in 0..Len(c) : EndAt(c, i) = E[i]
    BY DEF EndAt
<1>6. \A i \in 0..Len(c) : EndAt(c, i) \in Nat
    BY <1>2 DEF EndAt
<1>7. ASSUME NEW i \in 1..Len(c) PROVE EndAt(c, i) = EndAt(c, i - 1) + Len(c[i])
  <2>1. i \in 0..Len(c) /\ i - 1 \in 0..Len(c)
    BY <1>0
  <2> HIDE DEF E
  <2> QED
    BY <1>4, <1>5, <2>1
<1>8. EndAt(c, 0) = 0
  <2>1. 0 \in 0..Len(c)
    BY <1>0
  <2> HIDE DEF E
  <2> QED
    BY <1>3, <1>5, <2>1
<1> QED
    BY <1>0, <1>6, <1>7, <1>8

\* The bytes behind a chunk.
LEMMA FlatBehind ==
    ASSUME NEW X, NEW c \in Seq(Seq(X)), NEW k \in 0..Len(c)
    PROVE  /\ Behind(c, k) \in Seq(Seq(X)) /\ Len(Flat(Behind(c, k))) \in Nat
           /\ Len(Flat(c)) = EndAt(c, k) + Len(Flat(Behind(c, k)))
           /\ \A i \in 1..Len(Flat(Behind(c, k))) : Flat(Behind(c, k))[i] = Flat(c)[EndAt(c, k) + i]
           /\ Behind(c, k) # <<>> => k + 1 \in 1..Len(c) /\ Behind(c, k)[1] = c[k + 1]
<1>a. /\ SubSeq(c, k + 1, Len(c)) \in Seq(Seq(X)) /\ Flat(SubSeq(c, 1, k)) \in Seq(X)
      /\ Flat(SubSeq(c, k + 1, Len(c))) \in Seq(X) /\ Flat(c) \in Seq(X)
      /\ Flat(c) = Flat(SubSeq(c, 1, k)) \o Flat(SubSeq(c, k + 1, Len(c)))
    BY FlatSeq
<1>0. PICK e, d : e = Len(Flat(SubSeq(c, 1, k))) /\ d = SubSeq(c, k + 1, Len(c)) /\ e = EndAt(c, k) /\ d = Behind(c, k)
    BY DEF EndAt, Behind
<1>1. /\ d \in Seq(Seq(X)) /\ Flat(SubSeq(c, 1, k)) \in Seq(X) /\ Flat(d) \in Seq(X) /\ Flat(c) \in Seq(X)
      /\ Flat(c) = Flat(SubSeq(c, 1, k)) \o Flat(d)
    BY <1>0, <1>a, Zenon
<1>2. PICK a \in Seq(X), b \in Seq(X), z \in Seq(X) :
        a = Flat(SubSeq(c, 1, k)) /\ b = Flat(d) /\ z = Flat(c)
    BY <1>1, Zenon
<1>3. z = a \o b /\ Len(a) = e
    BY <1>0, <1>1, <1>2, Zenon
<1>4. /\ Len(z) = Len(a) + Len(b) /\ Len(a) \in Nat /\ Len(b) \in Nat
      /\ \A i \in 1..(Len(a) + Len(b)) : z[i] = IF i <= Len(a) THEN a[i] ELSE b[i - Len(a)]
  <2>1. Len(a) \in Nat /\ Len(b) \in Nat
    OBVIOUS
  <2>2. /\ Len(a \o b) = Len(a) + Len(b)
        /\ \A i \in 1..(Len(a) + Len(b)) : (a \o b)[i] = IF i <= Len(a) THEN a[i] ELSE b[i - Len(a)]
    BY ConcatProperties
  <2> QED
    BY <1>3, <2>1, <2>2, Zenon
<1>5. ASSUME NEW i \in 1..Len(b) PROVE b[i] = z[Len(a) + i]
  <2>1. /\ Len(a) + i \in 1..(Len(a) + Len(b)) /\ ~(Len(a) + i <= Len(a)) /\ Len(a) + i - Len(a) = i
    BY <1>4
  <2> QED
    BY <1>4, <2>1
<1>6. d # <<>> => k + 1 \in 1..Len(c) /\ d[1] = c[k + 1]
  <2> SUFFICES ASSUME d # <<>> PROVE k + 1 \in 1..Len(c) /\ d[1] = c[k + 1]
    OBVIOUS
  <2>0. Len(c) \in Nat /\ k \in Nat
    OBVIOUS
  <2>1. k < Len(c)
    <3> SUFFICES ASSUME k = Len(c) PROVE FALSE
      BY <2>0
    <3>1. k + 1 \in Int /\ Len(c) \in Int /\ Len(c) < k + 1
      BY <2>0
    <3> QED
      BY <1>0, <3>1, SubSeqEmpty
  <2>2. k + 1 \in 1..Len(c) /\ 1 \in 1..(Len(c) - (k + 1) + 1) /\ k + 1 + 1 - 1 = k + 1
    BY <2>0, <2>1
  <2>3. \A i \in (k + 1)..Len(c) : c[i] \in Seq(X)
    <3>1. \A i \in 1..Len(c) : c[i] \in Seq(X)
      OBVIOUS
    <3> QED
      BY <2>0, <3>1
  <2>4. \A i \in 1..(Len(c) - (k + 1) + 1) : SubSeq(c, k + 1, Len(c))[i] = c[k + 1 + i - 1]
    <3>1. k + 1 \in Int /\ Len(c) \in Int
      BY <2>0
    <3> QED
      BY <2>3, <3>1, SubSeqProperties
  <2>5. SubSeq(c, k + 1, Len(c))[1] = c[k + 1 + 1 - 1]
    BY <2>2, <2>4, Zenon
  <2> QED
    BY <1>0, <2>2, <2>5
<1>7. /\ d \in Seq(Seq(X)) /\ Len(Flat(d)) \in Nat /\ Len(Flat(c)) = e + Len(Flat(d))
      /\ \A i \in 1..Len(Flat(d)) : Flat(d)[i] = Flat(c)[e + i]
    BY <1>1, <1>2, <1>3, <1>4, <1>5
<1>8. e = EndAt(c, k) /\ d = Behind(c, k)
    BY <1>0
<1> QED
    BY <1>6, <1>7, <1>8, Zenon

\* A prefetch state with another buffer, with another seek window.
WithBuffer(p, c, f, l, st) == [p EXCEPT !.chunks = c, !.front = f, !.len = l, !.start = st]
WithSeek(p, s, ss) == [p EXCEPT !.seek = s, !.seekStart = ss]

\* What a good buffer still has are the bytes of the file it stands for.
LEMMA BufferedPositions ==
    ASSUME NEW p, BufferOk(p)
    PROVE  /\ Buffered(p) = Positions(p.start, BufEnd(p))
           /\ p.start \in Nat /\ BufEnd(p) \in Nat /\ p.start <= BufEnd(p) /\ p.len \in Nat
           /\ BufEnd(p) - p.start = p.len /\ BufEnd(p) = p.start + p.len
<1>0. PICK c \in Seq(Seq(0..FileSize)), f \in Nat, st \in Nat, len \in Nat :
        c = p.chunks /\ f = p.front /\ st = p.start /\ len = p.len
    BY DEF BufferOk, Prefetch
<1>1. PICK s \in Seq(0..FileSize) : s = Flat(c)
    BY FlatSeq
<1>2. len = Len(s) - f /\ \A i \in 1..len : s[f + i] = st + i - 1
    BY <1>0, <1>1 DEF BufferOk
<1>3. Len(s) \in Nat
    OBVIOUS
<1>4. PICK u : u = SubSeq(s, f + 1, Len(s))
    OBVIOUS
<1>5. ASSUME NEW i \in (f + 1)..Len(s) PROVE s[i] \in Nat
  <2>1. i \in 1..Len(s)
    BY <1>3
  <2>2. s[i] \in 0..FileSize
    BY <2>1, ElementOfSeq
  <2> QED
    BY <2>2, ReadAssumption
<1>6. /\ u \in Seq(Nat)
      /\ Len(u) = IF f + 1 <= Len(s) THEN Len(s) - (f + 1) + 1 ELSE 0
      /\ \A i \in 1..(Len(s) - (f + 1) + 1) : u[i] = s[f + 1 + i - 1]
  <2>1. f + 1 \in Int /\ Len(s) \in Int
    BY <1>3
  <2>2. /\ SubSeq(s, f + 1, Len(s)) \in Seq(Nat)
        /\ Len(SubSeq(s, f + 1, Len(s))) = IF f + 1 <= Len(s) THEN Len(s) - (f + 1) + 1 ELSE 0
        /\ \A i \in 1..(Len(s) - (f + 1) + 1) : SubSeq(s, f + 1, Len(s))[i] = s[f + 1 + i - 1]
    BY <1>5, <2>1, SubSeqProperties
  <2> QED
    BY <1>4, <2>2, Zenon
<1>7. Len(u) = len
    BY <1>2, <1>3, <1>6
<1>8. ASSUME NEW i \in 1..len PROVE u[i] = st + i - 1
  <2>1. i \in 1..(Len(s) - (f + 1) + 1) /\ f + 1 + i - 1 = f + i
    BY <1>2, <1>3
  <2>2. u[i] = s[f + i]
    BY <1>6, <2>1
  <2> QED
    BY <1>2, <2>2
<1>9. /\ st + len \in Nat /\ st <= st + len /\ (st + len) - st = len
    OBVIOUS
<1>10. PICK t \in Seq(Nat) : /\ t = Positions(st, st + len) /\ Len(t) = len
                             /\ \A i \in 1..len : t[i] = st + i - 1
  <2>1. PICK b \in Nat : b = st + len
    BY <1>9
  <2>2. b - st = len /\ st <= b
    BY <2>1
  <2>3. PICK t \in Seq(Nat) : /\ t = Positions(st, b) /\ Len(t) = b - st
                              /\ \A i \in 1..(b - st) : t[i] = st + i - 1
    BY <2>2, PositionsSeq
  <2> QED
    BY <2>1, <2>2, <2>3
<1>11. u = t
    BY <1>6, <1>7, <1>8, <1>10, SeqEqual
<1>12. Buffered(p) = u
    BY <1>0, <1>1, <1>4 DEF Buffered
<1>13. BufEnd(p) = st + len
    BY <1>0 DEF BufEnd
<1> QED
    BY <1>0, <1>9, <1>10, <1>11, <1>12, <1>13

\* Popping consumed chunks and cutting the next one consumes n bytes.
LEMMA PoppedOk ==
    ASSUME NEW p, BufferOk(p), NEW n \in 1..p.len, NEW q, q = Popped(p, n)
    PROVE  /\ BufferOk(q) /\ q.start = p.start + n /\ q.len = p.len - n
           /\ q.seek = p.seek /\ q.seekStart = p.seekStart /\ q.window = p.window
           /\ q.stream = p.stream /\ q.forwardOnly = p.forwardOnly
<1>0. p \in Prefetch
    BY DEF BufferOk
<1>1. PICK c \in Seq(Seq(0..FileSize)), f \in Nat, st \in Nat, len \in Nat :
        c = p.chunks /\ f = p.front /\ st = p.start /\ len = p.len
    BY <1>0 DEF Prefetch
<1>3. /\ Len(c) \in Nat /\ EndAt(c, 0) = 0 /\ \A i \in 0..Len(c) : EndAt(c, i) \in Nat
      /\ \A i \in 1..Len(c) : Len(c[i]) \in Nat /\ EndAt(c, i) = EndAt(c, i - 1) + Len(c[i])
    BY FlatEnds
<1>4. PICK S : S = {i \in 0..Len(c) : EndAt(c, i) <= f + n}
    OBVIOUS
<1>5. /\ len = Len(Flat(c)) - f /\ st + len <= FileSize
      /\ \A i \in 1..len : Flat(c)[f + i] = st + i - 1
      /\ n \in Nat /\ n >= 1 /\ n <= len
    BY <1>1 DEF BufferOk, BufEnd
<1>6. 0 \in S /\ S \subseteq Nat /\ \A i \in S : i <= Len(c)
    BY <1>3, <1>4, <1>5
<1>7. PICK k \in 0..Len(c) : k = Max(S) /\ EndAt(c, k) <= f + n /\ \A i \in S : i <= k
  <2>1. Max(S) \in S /\ \A i \in S : i <= Max(S)
    BY <1>3, <1>6, MaxNat
  <2> QED
    BY <1>4, <2>1
<1>8. PICK e \in Nat, d \in Seq(Seq(0..FileSize)) : e = EndAt(c, k) /\ d = Behind(c, k)
    BY <1>3, FlatBehind
<1>9. /\ Len(Flat(d)) \in Nat /\ Len(Flat(c)) = e + Len(Flat(d))
      /\ \A i \in 1..Len(Flat(d)) : Flat(d)[i] = Flat(c)[e + i]
      /\ d # <<>> => k + 1 \in 1..Len(c) /\ d[1] = c[k + 1]
    BY <1>8, FlatBehind
<1>11. q = WithBuffer(p, d, (f + n) - e, len - n, st + n)
  <2>1. Consumed(c, f + n) = k
    BY <1>4, <1>7 DEF Consumed
  <2> QED
    BY <1>1, <1>8, <2>1 DEF Popped, WithBuffer, Behind
<1>12. (f + n) - e \in Nat /\ len - n \in Nat /\ st + n \in Nat
    BY <1>5, <1>7, <1>8
<1>13. /\ q \in Prefetch
       /\ q.chunks = d /\ q.front = (f + n) - e /\ q.len = len - n /\ q.start = st + n
       /\ q.seek = p.seek /\ q.seekStart = p.seekStart /\ q.window = p.window
       /\ q.stream = p.stream /\ q.forwardOnly = p.forwardOnly
  <2>1. PICK f1 \in Nat, l1 \in Nat, s1 \in Nat : f1 = (f + n) - e /\ l1 = len - n /\ s1 = st + n
    BY <1>12
  <2>2. q = WithBuffer(p, d, f1, l1, s1)
    BY <1>11, <2>1
  <2>3. /\ q \in Prefetch
        /\ q.chunks = d /\ q.front = f1 /\ q.len = l1 /\ q.start = s1
        /\ q.seek = p.seek /\ q.seekStart = p.seekStart /\ q.window = p.window
        /\ q.stream = p.stream /\ q.forwardOnly = p.forwardOnly
    BY <1>0, <2>2 DEF WithBuffer, Prefetch
  <2> QED
    BY <2>1, <2>3
<1>14. len - n = Len(Flat(d)) - ((f + n) - e)
    BY <1>5, <1>9
<1>15. ASSUME d # <<>> PROVE (f + n) - e < Len(d[1])
  <2>1. k + 1 \in 1..Len(c) /\ d[1] = c[k + 1] /\ k + 1 - 1 = k
    BY <1>9, <1>15
  <2>2. EndAt(c, k + 1) = e + Len(c[k + 1]) /\ Len(c[k + 1]) \in Nat
    BY <1>3, <1>8, <2>1
  <2>3. k + 1 \notin S
    BY <1>7
  <2>4. ~(EndAt(c, k + 1) <= f + n)
    BY <1>4, <2>1, <2>3
  <2> QED
    BY <1>5, <1>9, <2>1, <2>2, <2>4
<1>16. ASSUME NEW i \in 1..(len - n) PROVE Flat(d)[((f + n) - e) + i] = (st + n) + i - 1
  <2>1. ((f + n) - e) + i \in 1..Len(Flat(d)) /\ e + (((f + n) - e) + i) = f + (n + i) /\ n + i \in 1..len
    BY <1>5, <1>9, <1>12
  <2>2. Flat(d)[((f + n) - e) + i] = Flat(c)[f + (n + i)]
    BY <1>9, <2>1
  <2>3. Flat(c)[f + (n + i)] = st + (n + i) - 1
    BY <1>5, <2>1
  <2> QED
    BY <1>5, <2>2, <2>3
<1>17. st + n + (len - n) <= FileSize
    BY <1>5
<1>18. BufferOk(q)
  <2>1. q.len = Len(Flat(q.chunks)) - q.front
    BY <1>13, <1>14
  <2>2. q.chunks # <<>> => q.front < Len(q.chunks[1])
    BY <1>13, <1>15
  <2>3. q.start + q.len <= FileSize
    BY <1>13, <1>17
  <2>4. \A i \in 1..q.len : Flat(q.chunks)[q.front + i] = q.start + i - 1
    BY <1>13, <1>16
  <2> QED
    BY <1>13, <2>1, <2>2, <2>3, <2>4 DEF BufferOk, BufEnd
<1> QED
    BY <1>1, <1>13, <1>18

\* The seek window loses its oldest bytes when it grows.
LEMMA WindowExcess ==
    ASSUME NEW g \in Seq(Nat), Len(g) >= 1
    PROVE  \E x \in Nat : /\ x = Max({Len(g) - SeekWindow, 0}) /\ x < Len(g)
                          /\ Slice(g, x, Len(g)) \in Seq(Nat)
<1>1. PICK l \in Nat : l = Len(g) /\ l >= 1
    OBVIOUS
<1>2. PICK w \in Nat : w = SeekWindow /\ w >= 1
    BY WindowAssumption
<1>3. PICK y \in Int : y = l - w
    OBVIOUS
<1>4. Max({y, 0}) = IF y >= 0 THEN y ELSE 0
  <2>1. 0 \in Int
    OBVIOUS
  <2> QED
    BY <2>1, MinMax
<1>5. PICK x \in Nat : x = Max({y, 0}) /\ x < l
    BY <1>1, <1>2, <1>3, <1>4
<1>6. Slice(g, x, l) \in Seq(Nat)
    BY <1>1, SliceNat
<1> QED
    BY <1>1, <1>2, <1>3, <1>5, <1>6

\* What it keeps of n bytes that do not follow it.
LEMMA WindowRest ==
    ASSUME NEW n \in Nat, n >= 1
    PROVE  \E d \in Nat : d = n - Min({n, SeekWindow}) /\ d < n
<1>1. PICK w \in Nat : w = SeekWindow /\ w >= 1
    BY WindowAssumption
<1>2. Min({n, w}) = IF n <= w THEN n ELSE w
    BY <1>1, MinMax
<1> QED
    BY <1>1, <1>2

\* The first n bytes of the buffer.
Taken(p, n) == SubSeq(Buffered(p), 1, n)

\* What Seek computes, in these names.
LEMMA SeekIs ==
    ASSUME NEW p, NEW n, NEW data, data = Taken(p, n), NEW g, g = Cat(p.seek, data),
           NEW x, x = Max({Len(g) - SeekWindow, 0}), NEW k, k = Min({n, SeekWindow})
    PROVE  Seek(p, n) =
             IF (p.seek = <<>> \/ p.seekStart + Len(p.seek) = p.start) /\ n <= SeekWindow
             THEN WithSeek(p, Slice(g, x, Len(g)), p.seekStart + x)
             ELSE WithSeek(p, Slice(data, n - k, n), p.start + (n - k))
    BY Zenon DEF Seek, WithSeek, Slice, Taken, Cat

\* The seek window gets the n bytes that are consumed, or the last of them.
LEMMA SeekStep ==
    ASSUME NEW p, BufferOk(p), NEW n \in 1..p.len, NEW q, q = Seek(p, n)
    PROVE  /\ BufferOk(q) /\ q.start = p.start /\ q.len = p.len /\ q.window = p.window
           /\ q.stream = p.stream /\ q.forwardOnly = p.forwardOnly
           /\ SeekOk(p) /\ ~p.forwardOnly =>
                /\ q.seekStart < p.start + n
                /\ q.seek = Positions(q.seekStart, p.start + n)
<1>0. p \in Prefetch
    BY DEF BufferOk
<1>1. PICK sk \in Seq(Nat), ss \in Nat, st \in Nat, len \in Nat :
        sk = p.seek /\ ss = p.seekStart /\ st = p.start /\ len = p.len
    BY <1>0 DEF Prefetch
<1>2. PICK m \in Nat : m = n /\ m >= 1 /\ m <= len
    BY <1>1
<1>3. PICK data \in Seq(Nat) : data = Taken(p, m) /\ data = Positions(st, st + m) /\ Len(data) = m
  <2>1. PICK e \in Nat : e = st + len /\ e = BufEnd(p) /\ Buffered(p) = Positions(st, e)
    BY <1>1, BufferedPositions
  <2>2. st <= e /\ m <= e - st /\ 0 \in Nat /\ 0 <= m
    BY <1>2, <2>1
  <2>3. Slice(Positions(st, e), 0, m) = Positions(st + 0, st + m)
    BY <2>2, PositionsSlice
  <2>4. st + 0 = st /\ 0 + 1 = 1
    OBVIOUS
  <2>5. Taken(p, m) = Positions(st, st + m)
    BY <2>1, <2>3, <2>4 DEF Slice, Taken
  <2>6. PICK f \in Nat : f = st + m /\ st <= f /\ f - st = m
    OBVIOUS
  <2>7. Positions(st, f) \in Seq(Nat) /\ Len(Positions(st, f)) = f - st
    BY <2>6, PositionsSeq
  <2> QED
    BY <2>5, <2>6, <2>7
<1>4. PICK g \in Seq(Nat) : g = Cat(sk, data) /\ Len(g) = Len(sk) + m
    BY <1>3, ConcatProperties DEF Cat
<1>5. PICK x \in Nat : /\ x = Max({Len(g) - SeekWindow, 0}) /\ x < Len(g)
                      /\ Slice(g, x, Len(g)) \in Seq(Nat)
  <2>1. Len(sk) \in Nat
    OBVIOUS
  <2>2. Len(g) >= 1
    BY <1>2, <1>4, <2>1
  <2> QED
    BY <2>2, WindowExcess
<1>6. PICK d \in Nat : d = m - Min({m, SeekWindow}) /\ d < m
    BY <1>2, WindowRest
<1>7. q = IF (sk = <<>> \/ ss + Len(sk) = st) /\ m <= SeekWindow
          THEN WithSeek(p, Slice(g, x, Len(g)), ss + x) ELSE WithSeek(p, Slice(data, d, m), st + d)
  <2>1. g = Cat(p.seek, data) /\ q = Seek(p, m) /\ data = Taken(p, m)
    BY <1>1, <1>2, <1>3, <1>4
  <2>2. q = IF (p.seek = <<>> \/ p.seekStart + Len(p.seek) = p.start) /\ m <= SeekWindow
            THEN WithSeek(p, Slice(g, x, Len(g)), p.seekStart + x)
            ELSE WithSeek(p, Slice(data, m - Min({m, SeekWindow}), m), p.start + (m - Min({m, SeekWindow})))
    BY <1>5, <2>1, SeekIs
  <2> QED
    BY <1>1, <1>6, <2>2, Zenon
<1>8. Slice(data, d, m) \in Seq(Nat) /\ Slice(data, d, m) = Positions(st + d, st + m) /\ st + d < st + m
  <2>1. m <= Len(data)
    BY <1>3
  <2>2. Slice(data, d, m) \in Seq(Nat)
    BY <2>1, SliceNat
  <2>3. PICK e \in Nat : e = st + m /\ st <= e /\ m <= e - st /\ d <= m
    BY <1>6
  <2>4. Slice(Positions(st, e), d, m) = Positions(st + d, st + m)
    BY <2>3, PositionsSlice
  <2> QED
    BY <1>3, <1>6, <2>2, <2>3, <2>4
<1>9. ASSUME ss + Len(sk) = st, sk = Positions(ss, st)
      PROVE  ss + x < st + m /\ Slice(g, x, Len(g)) = Positions(ss + x, st + m)
  <2>0. Len(sk) \in Nat
    OBVIOUS
  <2>k. PICK k \in Nat : k = Len(sk)
    BY <2>0, Zenon
  <2>l. PICK l \in Nat : l = k + m
    OBVIOUS
  <2>g. l = Len(g) /\ ss + k = st /\ x < Len(g)
    BY <1>4, <1>5, <1>9, <2>k, <2>l, Zenon
  <2>1. k = Len(sk) /\ l = Len(g) /\ l = k + m /\ ss + k = st /\ x < l
    BY <2>k, <2>l, <2>g, Zenon
  <2>2. PICK e \in Nat : e = st + m
    OBVIOUS
  <2>3. ss <= st /\ st <= e /\ ss <= e /\ l <= e - ss /\ ss + l = e /\ x <= l
    <3>1. ss + k = st /\ l = k + m /\ x < l /\ e = st + m
      BY <2>1, <2>2, Zenon
    <3> QED
      BY <3>1, SMT
  <2>4. Positions(ss, st) \o Positions(st, e) = Positions(ss, e)
    BY <2>3, PositionsCat
  <2>5. g = Positions(ss, e)
    BY <1>3, <1>4, <1>9, <2>2, <2>4, Zenon DEF Cat
  <2>6. Slice(Positions(ss, e), x, l) = Positions(ss + x, ss + l)
    BY <2>3, PositionsSlice
  <2> QED
    BY <2>1, <2>2, <2>3, <2>5, <2>6
<1>10. PICK s1 \in Seq(Nat), a1 \in Nat :
         /\ q = WithSeek(p, s1, a1)
         /\ SeekOk(p) /\ ~p.forwardOnly => a1 < st + m /\ s1 = Positions(a1, st + m)
  <2>1. CASE (sk = <<>> \/ ss + Len(sk) = st) /\ m <= SeekWindow
    <3>1. PICK s1 \in Seq(Nat), a1 \in Nat : s1 = Slice(g, x, Len(g)) /\ a1 = ss + x
      BY <1>5
    <3>2. q = WithSeek(p, s1, a1)
      BY <1>7, <2>1, <3>1, Zenon
    <3>3. ASSUME SeekOk(p), ~p.forwardOnly PROVE a1 < st + m /\ s1 = Positions(a1, st + m)
      <4>1. sk = Positions(ss, ss + Len(sk)) /\ (sk = <<>> => ss = 0 /\ st = 0)
        BY <1>1, <3>3 DEF SeekOk
      <4>2. Len(<<>>) = 0 /\ 0 + 0 = 0
        OBVIOUS
      <4>3. ss + Len(sk) = st
        BY <2>1, <4>1, <4>2, Zenon
      <4>4. sk = Positions(ss, st)
        BY <4>1, <4>3, Zenon
      <4> QED
        BY <1>9, <3>1, <4>3, <4>4, Zenon
    <3> QED
      BY <3>2, <3>3, Zenon
  <2>2. CASE ~((sk = <<>> \/ ss + Len(sk) = st) /\ m <= SeekWindow)
    <3>1. PICK s1 \in Seq(Nat), a1 \in Nat : s1 = Slice(data, d, m) /\ a1 = st + d
      BY <1>8
    <3>2. q = WithSeek(p, s1, a1)
      BY <1>7, <2>2, <3>1, Zenon
    <3> QED
      BY <1>8, <3>1, <3>2, Zenon
  <2> QED
    BY <2>1, <2>2
<1>11. /\ q \in Prefetch
       /\ q.chunks = p.chunks /\ q.front = p.front /\ q.len = p.len /\ q.start = p.start
       /\ q.seek = s1 /\ q.seekStart = a1 /\ q.window = p.window
       /\ q.stream = p.stream /\ q.forwardOnly = p.forwardOnly
    BY <1>0, <1>10 DEF Prefetch, WithSeek
<1>12. BufferOk(q)
    BY <1>11 DEF BufferOk, BufEnd
<1> QED
    BY <1>1, <1>2, <1>10, <1>11, <1>12


\* A window of bytes that are there is a good one once the buffer has moved.
LEMMA SeekOkMade ==
    ASSUME NEW q, NEW a \in Nat, NEW e \in Nat, a < e, e <= FileSize,
           q.seek = Positions(a, e), q.seekStart = a, ~q.forwardOnly, q.start \in Nat, q.start # 0
    PROVE  SeekOk(q) /\ q.seek # <<>>
<1>0. a <= e
    OBVIOUS
<1>1. PICK s \in Seq(Nat) : s = Positions(a, e) /\ Len(s) = e - a
    BY <1>0, PositionsSeq, Zenon
<1>2. a + Len(s) = e /\ Len(s) # 0
    BY <1>1
<1>3. s # <<>>
    BY <1>2
<1>4. q.seek = s
    BY <1>1, Zenon
<1>5. q.seek = Positions(q.seekStart, q.seekStart + Len(q.seek)) /\ q.seekStart + Len(q.seek) <= FileSize
    BY <1>1, <1>2, <1>4, Zenon
<1> QED
    BY <1>3, <1>4, <1>5, Zenon DEF SeekOk, IsFirst

\* Draining c bytes makes q of p: it moves the buffer on and keeps its end; the
\* window for backward seeks stays good, and is empty then only if nothing was
\* drained.
Drained(p, c, q) ==
    /\ BufferOk(q) /\ BufEnd(q) = BufEnd(p) /\ q.window = p.window
    /\ q.stream = p.stream /\ q.forwardOnly = p.forwardOnly
    /\ IsFirst(q) => q = p
    /\ c = p.len => q.len = 0
    /\ SeekOk(p) => SeekOk(q) /\ (~q.forwardOnly /\ q.seek = <<>> => q = p)

\* DrainToSeek drains.
LEMMA DrainOk ==
    ASSUME NEW p, BufferOk(p), NEW c \in Nat
    PROVE  Drained(p, c, DrainToSeek(p, c))
<1>q. PICK q : q = DrainToSeek(p, c)
    OBVIOUS
<1>s. SUFFICES Drained(p, c, q)
    BY <1>q, Zenon
<1>0. p \in Prefetch
    BY DEF BufferOk
<1>1. PICK len \in Nat, st \in Nat : len = p.len /\ st = p.start /\ BufEnd(p) = st + len /\ st + len <= FileSize
    BY <1>0 DEF Prefetch, BufferOk, BufEnd
<1>2. PICK n \in Nat : n = Min({c, p.len}) /\ n <= len /\ (c = len => n = len)
    BY <1>1, MinMax
<1>3. q = IF n = 0 THEN p ELSE Popped(IF p.forwardOnly THEN p ELSE Seek(p, n), n)
    BY <1>q, <1>2, Zenon DEF DrainToSeek
<1>4. CASE n = 0
  <2>1. q = p
    BY <1>3, <1>4
  <2>2. c = p.len => p.len = 0
    BY <1>1, <1>2, <1>4
  <2> QED
    BY <2>1, <2>2 DEF Drained
<1>5. CASE n # 0
  <2>0. n \in 1..p.len /\ n >= 1
    BY <1>1, <1>2, <1>5
  <2>1. PICK m : m = IF p.forwardOnly THEN p ELSE Seek(p, n)
    OBVIOUS
  <2>2. /\ BufferOk(m) /\ m.start = p.start /\ m.len = p.len /\ m.window = p.window
        /\ m.stream = p.stream /\ m.forwardOnly = p.forwardOnly
        /\ p.forwardOnly => m = p
        /\ SeekOk(p) /\ ~p.forwardOnly =>
              /\ m.seekStart < p.start + n
              /\ m.seek = Positions(m.seekStart, p.start + n)
    <3>1. CASE p.forwardOnly
      BY <2>1, <3>1
    <3>2. CASE ~p.forwardOnly
      <4>1. m = Seek(p, n)
        BY <2>1, <3>2
      <4> QED
        BY <2>0, <3>2, <4>1, SeekStep
    <3> QED
      BY <3>1, <3>2
  <2>3. q = Popped(m, n) /\ n \in 1..m.len
    BY <1>3, <1>5, <2>0, <2>1, <2>2, Zenon
  <2>4. /\ BufferOk(q) /\ q.start = m.start + n /\ q.len = m.len - n
        /\ q.seek = m.seek /\ q.seekStart = m.seekStart /\ q.window = m.window
        /\ q.stream = m.stream /\ q.forwardOnly = m.forwardOnly
    BY <2>2, <2>3, PoppedOk
  <2>5. q.start = st + n /\ q.len = len - n
    BY <1>1, <2>2, <2>4, Zenon
  <2>6. BufEnd(q) = BufEnd(p) /\ q.start # 0 /\ q.start \in Nat /\ (c = p.len => q.len = 0)
    BY <1>1, <1>2, <2>0, <2>5 DEF BufEnd
  <2>7. ASSUME SeekOk(p) PROVE SeekOk(q) /\ (~q.forwardOnly => q.seek # <<>>)
    <3>1. CASE p.forwardOnly
      <4>1. q.seek = p.seek /\ q.seekStart = p.seekStart /\ q.forwardOnly
        BY <2>2, <2>4, <3>1, Zenon
      <4>2. p.seek = Positions(p.seekStart, p.seekStart + Len(p.seek)) /\ p.seekStart + Len(p.seek) <= FileSize
            /\ p.seek = <<>>
        BY <2>7, <3>1 DEF SeekOk
      <4>3. q.seek = Positions(q.seekStart, q.seekStart + Len(q.seek)) /\ q.seekStart + Len(q.seek) <= FileSize
            /\ q.seek = <<>>
        BY <4>1, <4>2
      <4> QED
        BY <2>6, <4>1, <4>3, Zenon DEF SeekOk, IsFirst
    <3>2. CASE ~p.forwardOnly
      <4>0. q.seekStart \in Nat
        BY <2>4 DEF BufferOk, Prefetch
      <4>1. PICK a \in Nat : a = q.seekStart
        BY <4>0, Zenon
      <4>2. PICK e \in Nat : e = st + n /\ e <= FileSize
        BY <1>1, <1>2, ReadAssumption
      <4>3. a < e /\ q.seek = Positions(a, e) /\ ~q.forwardOnly
        BY <1>1, <2>2, <2>4, <2>7, <3>2, <4>1, <4>2, Zenon
      <4> QED
        BY <2>6, <4>1, <4>2, <4>3, SeekOkMade
    <3> QED
      BY <3>1, <3>2
  <2> QED
    BY <2>2, <2>4, <2>6, <2>7, Zenon DEF IsFirst, Drained
<1> QED
    BY <1>4, <1>5

\* data are bytes of the file at off, at most size of them and none behind e.
Bytes(data, off, size, e) ==
    \E k \in Nat : /\ data = Positions(off, off + k) /\ data \in Seq(Nat) /\ Len(data) = k
                   /\ k <= size /\ off + k <= e

\* What is cut from the bytes a .. e - 1 for a read at off.
LEMMA CutBytes ==
    ASSUME NEW a \in Nat, NEW e \in Nat, NEW off \in Nat, a <= off, off < e, NEW size \in Nat,
           NEW j, j = Min({off - a + size, e - a})
    PROVE  Bytes(Slice(Positions(a, e), off - a, j), off, size, e)
<1>1. PICK i \in Nat : i = off - a
    OBVIOUS
<1>2. PICK l \in Nat : l = e - a /\ i < l
    BY <1>1
<1>3. j = IF i + size <= l THEN i + size ELSE l
    BY <1>1, <1>2, MinMax
<1>4. j \in Nat /\ i <= j /\ j <= l /\ j - i <= size
    BY <1>2, <1>3
<1>5. PICK k \in Nat : k = j - i /\ k <= size /\ a + i = off /\ a + j = off + k /\ off + k <= e /\ a <= e /\ j <= e - a
    BY <1>1, <1>2, <1>4
<1>6. Slice(Positions(a, e), i, j) = Positions(a + i, a + j)
    BY <1>4, <1>5, PositionsSlice
<1>7. Slice(Positions(a, e), off - a, j) = Positions(off, off + k)
    BY <1>1, <1>5, <1>6, Zenon
<1>8. PICK f \in Nat : f = off + k /\ off <= f /\ f - off = k
    OBVIOUS
<1>9. Positions(off, f) \in Seq(Nat) /\ Len(Positions(off, f)) = f - off
    BY <1>8, PositionsSeq
<1>10. Positions(off, off + k) \in Seq(Nat) /\ Len(Positions(off, off + k)) = k
    BY <1>8, <1>9, Zenon
<1> QED
    BY <1>5, <1>7, <1>10, Zenon DEF Bytes

\* try_serve_forward serves what the file has there.
LEMMA ForwardOk ==
    ASSUME NEW p, BufferOk(p), NEW off \in Nat, NEW size \in Nat,
           NEW data, data = Forward(p, off, size)
    PROVE  data = None \/ Bytes(data, off, size, BufEnd(p))
<1>1. PICK a \in Nat, e \in Nat, len \in Nat :
        /\ a = p.start /\ e = BufEnd(p) /\ len = p.len /\ len = e - a
        /\ Buffered(p) = Positions(a, e)
    BY BufferedPositions
<1>2. data = IF len = 0 \/ off < a \/ off >= e THEN None
             ELSE Slice(Positions(a, e), off - a, Min({off - a + size, e - a}))
    BY <1>1, Zenon DEF Forward, Slice
<1>3. CASE len = 0 \/ off < a \/ off >= e
    BY <1>2, <1>3, Zenon
<1>4. CASE ~(len = 0 \/ off < a \/ off >= e)
  <2>1. a <= off /\ off < e
    BY <1>4
  <2>2. PICK j : j = Min({off - a + size, e - a})
    OBVIOUS
  <2>3. Bytes(Slice(Positions(a, e), off - a, j), off, size, e)
    BY <2>1, <2>2, CutBytes
  <2> QED
    BY <1>1, <1>2, <1>4, <2>2, <2>3, Zenon
<1> QED
    BY <1>3, <1>4

\* What serving makes of p: with --direct-io it drains; the buffer and the window
\* stay good.
Served(p, q) ==
    /\ BufferOk(q) /\ BufEnd(q) = BufEnd(p)
    /\ q.stream = p.stream /\ q.forwardOnly = p.forwardOnly
    /\ ~p.forwardOnly => q = p
    /\ SeekOk(p) => SeekOk(q)

\* try_serve_forward leaves such a state behind.
LEMMA AfterForwardOk ==
    ASSUME NEW p, BufferOk(p), NEW off \in Nat, NEW size \in Nat
    PROVE  Served(p, AfterForward(p, off, Forward(p, off, size)))
<1>d. PICK data : data = Forward(p, off, size)
    OBVIOUS
<1>q. PICK q : q = AfterForward(p, off, data)
    OBVIOUS
<1>s. SUFFICES Served(p, q)
    BY <1>d, <1>q, Zenon
<1>1. CASE ~(p.forwardOnly /\ data \notin {None, <<>>})
    BY <1>q, <1>1 DEF AfterForward, Served
<1>2. CASE p.forwardOnly /\ data \notin {None, <<>>}
  <2>1. PICK c : c = off - p.start + Len(data)
    OBVIOUS
  <2>2. q = DrainToSeek(p, c)
    BY <1>q, <1>2, <2>1, Zenon DEF AfterForward
  <2>3. PICK k \in Nat : Len(data) = k
    BY <1>d, <1>2, ForwardOk DEF Bytes
  <2>4. p.start \in Nat
    BY BufferedPositions
  <2>5. off >= p.start
    <3>1. off < p.start => data = None
      BY <1>d DEF Forward
    <3> QED
      BY <1>2, <2>4, <3>1
  <2>6. c \in Nat
    BY <2>1, <2>3, <2>4, <2>5
  <2>7. Drained(p, c, q)
    BY <2>2, <2>6, DrainOk
  <2> QED
    BY <1>2, <2>7, Zenon DEF Drained, Served
<1> QED
    BY <1>1, <1>2

\* try_serve_seek serves what the window has, which is what the file has there.
LEMMA BackwardOk ==
    ASSUME NEW p \in Prefetch, NEW off \in Nat, NEW size \in Nat,
           NEW data, data = Backward(p, off, size)
    PROVE  /\ data = None \/ data \in Seq(Nat)
           /\ SeekOk(p) => data = None \/ Bytes(data, off, size, FileSize)
           /\ p.seek = <<>> => data = None
<1>1. PICK s \in Seq(Nat), a \in Nat : s = p.seek /\ a = p.seekStart
    BY DEF Prefetch
<1>2. Len(s) \in Nat
    OBVIOUS
<1>3. PICK l \in Nat : l = Len(s)
    BY <1>2, Zenon
<1>4. PICK e \in Nat : e = a + l /\ l = e - a
    OBVIOUS
<1>5. PICK j : j = Min({off - a + size, l})
    OBVIOUS
<1>6. data = IF p.forwardOnly \/ off < a \/ off >= e THEN None ELSE Slice(s, off - a, j)
    BY <1>1, <1>3, <1>4, <1>5, Zenon DEF Backward, Slice
<1>7. p.seek = <<>> => data = None
  <2>1. s = <<>> => Len(s) = 0
    OBVIOUS
  <2>2. s = <<>> => off < a \/ off >= e
    BY <1>3, <1>4, <2>1
  <2> QED
    BY <1>1, <1>6, <2>2, Zenon
<1>8. CASE p.forwardOnly \/ off < a \/ off >= e
    BY <1>6, <1>7, <1>8, Zenon
<1>9. CASE ~(p.forwardOnly \/ off < a \/ off >= e)
  <2>0. data = Slice(s, off - a, j)
    BY <1>6, <1>9, Zenon
  <2>1. PICK i \in Nat : i = off - a /\ a <= off /\ off < e
    BY <1>9
  <2>2. j = IF i + size <= l THEN i + size ELSE l
    BY <1>5, <2>1, MinMax
  <2>3. j \in Nat /\ j <= l
    BY <2>2
  <2>4. data \in Seq(Nat)
    <3>1. j <= Len(s)
      BY <1>3, <2>3, Zenon
    <3>2. Slice(s, i, j) \in Seq(Nat)
      BY <2>3, <3>1, SliceNat
    <3> QED
      BY <2>0, <2>1, <3>2, Zenon
  <2>5. ASSUME SeekOk(p) PROVE Bytes(data, off, size, FileSize)
    <3>1. s = Positions(a, e) /\ e <= FileSize
      BY <1>1, <1>3, <1>4, <2>5, Zenon DEF SeekOk
    <3>2. j = Min({off - a + size, e - a})
      BY <1>4, <1>5, Zenon
    <3>3. Bytes(Slice(Positions(a, e), off - a, j), off, size, e)
      BY <2>1, <3>2, CutBytes
    <3>4. Bytes(data, off, size, e)
      BY <2>0, <3>1, <3>3, Zenon
    <3> QED
      BY <3>1, <3>4, ReadAssumption DEF Bytes
  <2> QED
    BY <1>7, <2>4, <2>5, Zenon
<1> QED
    BY <1>8, <1>9

----------------------------------------------------------------------------
(* The steps.                                                              *)

\* No bytes are bytes of every place.
LEMMA NoBytes ==
    ASSUME NEW off \in Nat, NEW size \in Nat, off <= FileSize
    PROVE  Bytes(<<>>, off, size, FileSize)
<1>1. off <= off /\ off - off = 0 /\ off + 0 = off
    OBVIOUS
<1>2. Positions(off, off) \in Seq(Nat) /\ Len(Positions(off, off)) = 0
    BY <1>1, PositionsSeq
<1>3. PICK s \in Seq(Nat) : s = Positions(off, off) /\ Len(s) = 0
    BY <1>2, Zenon
<1>4. s = <<>>
    BY <1>3
<1>5. <<>> = Positions(off, off + 0) /\ <<>> \in Seq(Nat) /\ Len(<<>>) = 0
    BY <1>1, <1>3, <1>4, Zenon
<1>6. 0 \in Nat /\ 0 <= size /\ off + 0 <= FileSize
    OBVIOUS
<1> QED
    BY <1>5, <1>6, Zenon DEF Bytes

\* In numbers: where a read is and what it has left.
LEMMA CursorIs ==
    ASSUME NEW r \in ReadState
    PROVE  /\ r.off \in Nat /\ r.off <= FileSize /\ r.size \in Nat /\ Len(r.resp) \in Nat
           /\ r.resp \in Seq(Nat) /\ r.got \in Seq(Seq(0..FileSize)) /\ r.fetch \in Nat
           /\ Min({r.size, FileSize - r.off}) \in Nat
           /\ Min({r.size, FileSize - r.off}) <= r.size
           /\ Min({r.size, FileSize - r.off}) <= FileSize - r.off
           /\ \A k \in Nat : k <= r.size /\ r.off + k <= FileSize => k <= Min({r.size, FileSize - r.off})
<1>1. /\ r.off \in 0..FileSize /\ r.size \in Nat /\ r.resp \in Seq(Nat)
      /\ r.got \in Seq(Seq(0..FileSize)) /\ r.fetch \in Nat
    BY DEF ReadState
<1>2. PICK o \in Nat, z \in Nat, y \in Nat : o = r.off /\ z = r.size /\ o <= FileSize /\ y = FileSize - o
    BY <1>1, ReadAssumption
<1>3. Min({z, y}) = IF z <= y THEN z ELSE y
    BY MinMax
<1>4. PICK t \in Nat : t = Min({z, y}) /\ t <= z /\ t <= y /\ \A k \in Nat : k <= z /\ k <= y => k <= t
    BY <1>3
<1>5. \A k \in Nat : o + k <= FileSize => k <= y
    BY <1>2, ReadAssumption
<1>6. t = Min({r.size, FileSize - r.off})
    BY <1>2, <1>4, Zenon
<1>7. Len(r.resp) \in Nat
    BY <1>1
<1> QED
    BY <1>1, <1>2, <1>4, <1>5, <1>6, <1>7, Zenon

\* What a read starts with: bytes of the buffer, of the window, or none.
LEMMA FirstData ==
    ASSUME BufferOk(pf), NEW off \in Nat, off <= FileSize, NEW size \in Nat,
           NEW fwd, fwd = Forward(pf, off, size),
           NEW data, data = IF fwd # None THEN fwd ELSE Backward(pf, off, size),
           NEW resp, resp = IF data = None THEN <<>> ELSE data
    PROVE  /\ resp \in Seq(Nat)
           /\ SeekOk(pf) => Bytes(resp, off, size, FileSize)
           /\ IsFirst(pf) /\ pf.seek = <<>> => resp = <<>>
<1>1. fwd = None \/ Bytes(fwd, off, size, BufEnd(pf))
    BY ForwardOk
<1>2. PICK e \in Nat : e = BufEnd(pf) /\ e <= FileSize
    BY BufferedPositions DEF BufferOk
<1>3. fwd = None \/ Bytes(fwd, off, size, FileSize)
    BY <1>1, <1>2, ReadAssumption DEF Bytes
<1>4. PICK bwd : bwd = Backward(pf, off, size)
    OBVIOUS
<1>5. /\ bwd = None \/ bwd \in Seq(Nat)
      /\ SeekOk(pf) => bwd = None \/ Bytes(bwd, off, size, FileSize)
      /\ pf.seek = <<>> => bwd = None
  <2>1. pf \in Prefetch
    BY DEF BufferOk
  <2> QED
    BY <1>4, <2>1, BackwardOk
<1>6. Bytes(<<>>, off, size, FileSize)
    BY NoBytes
<1>7. fwd = None \/ fwd \in Seq(Nat)
    BY <1>3, Zenon DEF Bytes
<1>8. <<>> \in Seq(Nat)
    OBVIOUS
<1>9. IsFirst(pf) => fwd = None
    BY DEF IsFirst, Forward
<1>10. data = IF fwd # None THEN fwd ELSE bwd
    BY <1>4, Zenon
<1> QED
    BY <1>3, <1>5, <1>6, <1>7, <1>8, <1>9, <1>10, Zenon

\* A new handle.
LEMMA InitStep == Init => IInv /\ ExactInv
<1>1. SUFFICES ASSUME Init PROVE IInv /\ ExactInv
    OBVIOUS
<1>2. PICK b \in BOOLEAN : pf = NewPrefetch(b)
    BY <1>1 DEF Init
<1>3. <<>> \in Seq(Seq(0..FileSize)) /\ <<>> \in Seq(Nat) /\ Len(<<>>) = 0
    OBVIOUS
<1>4. Flat(<<>>) = <<>>
    BY <1>3, FlatSeq
<1>5. /\ pf.chunks = <<>> /\ pf.len = 0 /\ pf.front = 0 /\ pf.start = 0 /\ pf.seek = <<>>
      /\ pf.seekStart = 0 /\ pf.stream = None /\ pf.window = InitialWindow
    BY <1>2 DEF NewPrefetch
<1>6. pf \in Prefetch
    BY <1>2, <1>3, WindowAssumption DEF NewPrefetch, Prefetch
<1>7. BufferOk(pf) /\ StreamIsAligned
  <2>1. \A i \in 1..pf.len : FALSE
    BY <1>5
  <2>2. pf.len = Len(Flat(pf.chunks)) - pf.front
    BY <1>3, <1>4, <1>5
  <2>3. BufEnd(pf) <= FileSize
    BY <1>5, ReadAssumption DEF BufEnd
  <2> QED
    BY <1>5, <1>6, <2>1, <2>2, <2>3, Zenon DEF BufferOk, StreamIsAligned
<1>8. rd = NoRead /\ rd.pc = "idle"
    BY <1>1 DEF Init, NoRead
<1>9. rd \in ReadState
    BY <1>3, <1>8, ReadAssumption DEF NoRead, ReadState, Strategy
<1>10. EncryptedOk
    BY <1>1, <1>8 DEF Init, EncryptedOk, ReadIsExact, Header
<1>11. SeekOk(pf)
  <2>1. Bytes(<<>>, 0, 0, FileSize)
    BY NoBytes, ReadAssumption
  <2>2. <<>> = Positions(0, 0 + Len(<<>>)) /\ 0 + Len(<<>>) <= FileSize
    BY <2>1 DEF Bytes
  <2> QED
    BY <1>5, <2>2, Zenon DEF SeekOk
<1> QED
    BY <1>7, <1>8, <1>9, <1>10, <1>11 DEF IInv, ExactInv, FetchOk, DecryptSucceeds

\* What a step has to keep; the second part for handles that are read from
\* their start first.
Preserved == IInv' /\ (FirstAt \subseteq {0} /\ ExactInv => ExactInv')

\* VirtualFs::read: what the buffer or the seek window has is taken first.
LEMMA ReadStep ==
    ASSUME IInv, NEW off \in 0..FileSize, NEW size \in Sizes, Read(off, size)
    PROVE  Preserved
<1>1. BufferOk(pf) /\ rd \in ReadState /\ StreamIsAligned /\ EncryptedOk
    BY DEF IInv
<1>2. off \in Nat /\ off <= FileSize /\ size \in Nat
    BY ReadAssumption
<1>3. PICK fwd : fwd = Forward(pf, off, size)
    OBVIOUS
<1>4. PICK data : data = IF fwd # None THEN fwd ELSE Backward(pf, off, size)
    OBVIOUS
<1>5. PICK resp : resp = IF data = None THEN <<>> ELSE data
    OBVIOUS
<1>6. /\ resp \in Seq(Nat)
      /\ SeekOk(pf) => Bytes(resp, off, size, FileSize)
      /\ IsFirst(pf) /\ pf.seek = <<>> => resp = <<>>
    BY <1>1, <1>2, <1>3, <1>4, <1>5, FirstData
<1>7. /\ enc.object = None /\ rd.pc = "idle" /\ (IsFirst(pf) /\ ~pf.forwardOnly => off \in FirstAt)
      /\ pf' = AfterForward(pf, off, fwd) /\ enc' = enc
      /\ rd' = [NoRead EXCEPT !.pc = "loop", !.off = off, !.size = size, !.resp = resp]
    BY <1>3, <1>4, <1>5, Zenon DEF Read
<1>8. /\ BufferOk(pf') /\ BufEnd(pf') = BufEnd(pf)
      /\ pf'.stream = pf.stream /\ pf'.forwardOnly = pf.forwardOnly
      /\ ~pf.forwardOnly => pf' = pf
      /\ SeekOk(pf) => SeekOk(pf')
  <2>1. PICK p : p = pf
    OBVIOUS
  <2>2. PICK q : q = pf'
    OBVIOUS
  <2>3. Served(p, q)
    <3>1. BufferOk(p) /\ fwd = Forward(p, off, size) /\ q = AfterForward(p, off, fwd)
      BY <1>1, <1>3, <1>7, <2>1, <2>2, Zenon
    <3> QED
      BY <1>2, <3>1, AfterForwardOk, Zenon
  <2> QED
    BY <2>1, <2>2, <2>3, Zenon DEF Served
<1>9. rd' \in ReadState /\ rd'.pc = "loop" /\ rd'.off = off /\ rd'.size = size /\ rd'.resp = resp
  <2>1. rd' = [pc |-> "loop", off |-> off, size |-> size, resp |-> resp,
               plan |-> None, fetch |-> 0, stream |-> None, got |-> <<>>, attempt |-> 0]
    BY <1>7 DEF NoRead
  <2>2. <<>> \in Seq(Seq(0..FileSize))
    OBVIOUS
  <2> QED
    BY <1>2, <1>6, <2>1, <2>2 DEF ReadState, Strategy
<1>10. IInv'
  <2>1. StreamIsAligned'
    BY <1>1, <1>8 DEF StreamIsAligned
  <2>2. EncryptedOk'
    BY <1>1, <1>7 DEF EncryptedOk
  <2> QED
    BY <1>8, <1>9, <2>1, <2>2 DEF IInv, FetchOk, DecryptSucceeds
<1>11. ASSUME FirstAt \subseteq {0}, ExactInv PROVE ExactInv'
  <2>1. SeekOk(pf) /\ SeekOk(pf')
    BY <1>8, <1>11 DEF ExactInv
  <2>2. PICK k \in Nat : /\ resp = Positions(off, off + k) /\ Len(resp) = k
                         /\ k <= size /\ off + k <= FileSize
    BY <1>6, <2>1 DEF Bytes
  <2>3. Cursor' = off + k /\ ToRead' = Min({size, FileSize - off})
    BY <1>9, <2>2, Zenon DEF Cursor, ToRead
  <2>4. k <= ToRead'
    <3>1. PICK r \in ReadState : r = rd'
      BY <1>9, Zenon
    <3>2. \A j \in Nat : j <= r.size /\ r.off + j <= FileSize => j <= Min({r.size, FileSize - r.off})
      BY CursorIs
    <3> QED
      BY <1>9, <2>2, <2>3, <3>1, <3>2, Zenon
  <2>5. ASSUME ~pf'.forwardOnly, IsFirst(pf') PROVE Cursor' = 0
    <3>1. IsFirst(pf) /\ ~pf.forwardOnly
      BY <1>8, <2>5
    <3>2. off = 0
      BY <1>7, <1>11, <3>1
    <3>3. resp = <<>>
      BY <1>6, <2>1, <3>1 DEF SeekOk
    <3>4. Len(<<>>) = 0
      OBVIOUS
    <3> QED
      BY <2>2, <2>3, <3>2, <3>3, <3>4
  <2>6. rd'.resp = Positions(rd'.off, Cursor') /\ Len(rd'.resp) <= ToRead'
    BY <1>9, <2>2, <2>3, <2>4, Zenon
  <2> QED
    BY <1>9, <2>1, <2>5, <2>6 DEF ExactInv
<1> QED
    BY <1>10, <1>11 DEF Preserved

\* The read has all it asked for.
LEMMA AssembledStep ==
    ASSUME IInv, Assembled
    PROVE  Preserved
<1>1. BufferOk(pf) /\ rd \in ReadState /\ StreamIsAligned /\ EncryptedOk
    BY DEF IInv
<1>2. /\ rd.pc = "loop" /\ Len(rd.resp) >= ToRead /\ rd' = [rd EXCEPT !.pc = "answer"]
      /\ pf' = pf /\ enc' = enc
    BY DEF Assembled
<1>3. rd' \in ReadState /\ rd'.pc = "answer" /\ rd'.off = rd.off /\ rd'.size = rd.size /\ rd'.resp = rd.resp
    BY <1>1, <1>2 DEF ReadState
<1>4. enc.object = None
    BY <1>1, <1>2 DEF EncryptedOk
<1>5. IInv'
  <2>1. BufferOk(pf') /\ StreamIsAligned'
    BY <1>1, <1>2 DEF StreamIsAligned
  <2>2. EncryptedOk'
    BY <1>1, <1>2, <1>4 DEF EncryptedOk
  <2> QED
    BY <1>3, <2>1, <2>2 DEF IInv, FetchOk, DecryptSucceeds
<1>6. ASSUME ExactInv PROVE ExactInv'
  <2>1. Cursor' = Cursor /\ ToRead' = ToRead
    BY <1>3, Zenon DEF Cursor, ToRead
  <2>2. rd.resp = Positions(rd.off, Cursor) /\ Len(rd.resp) <= ToRead
    BY <1>2, <1>4, <1>6 DEF ExactInv
  <2>3. Len(rd.resp) \in Nat /\ ToRead \in Nat
    BY <1>1, CursorIs DEF ToRead
  <2>4. Len(rd.resp) = ToRead
    BY <1>2, <2>2, <2>3
  <2>5. SeekOk(pf')
    BY <1>2, <1>6 DEF ExactInv
  <2> QED
    BY <1>3, <2>1, <2>2, <2>4, <2>5, Zenon DEF ExactInv
<1> QED
    BY <1>5, <1>6 DEF Preserved

\* The answer goes out.
LEMMA ReturnStep ==
    ASSUME IInv, Return
    PROVE  Preserved
<1>1. BufferOk(pf) /\ StreamIsAligned /\ EncryptedOk
    BY DEF IInv
<1>2. rd' = NoRead /\ rd'.pc = "idle" /\ pf' = pf /\ enc' = enc
    BY DEF Return, NoRead
<1>3. rd' \in ReadState
    BY <1>2, ReadAssumption DEF NoRead, ReadState, Strategy
<1>4. IInv'
  <2>1. BufferOk(pf') /\ StreamIsAligned'
    BY <1>1, <1>2 DEF StreamIsAligned
  <2>2. EncryptedOk'
    BY <1>1, <1>2 DEF EncryptedOk, ReadIsExact
  <2> QED
    BY <1>2, <1>3, <2>1, <2>2 DEF IInv, FetchOk, DecryptSucceeds
<1>5. ExactInv => SeekOk(pf')
    BY <1>2 DEF ExactInv
<1>6. ExactInv => ExactInv'
    BY <1>2, <1>5 DEF ExactInv
<1> QED
    BY <1>4, <1>6 DEF Preserved

\* A prefetch state with another window and stream.
WithPlan(p, w, s) == [p EXCEPT !.window = w, !.stream = s]

\* Neither is part of the buffer.
LEMMA WithPlanOk ==
    ASSUME NEW p, BufferOk(p), NEW w \in InitialWindow..MaxWindow, NEW s \in 0..FileSize \cup {None},
           NEW q, q = WithPlan(p, w, s)
    PROVE  /\ BufferOk(q) /\ q.stream = s /\ q.window = w /\ BufEnd(q) = BufEnd(p)
           /\ q.start = p.start /\ q.len = p.len
           /\ q.forwardOnly = p.forwardOnly /\ q.seek = p.seek
           /\ SeekOk(p) => SeekOk(q)
<1>1. p \in Prefetch
    BY DEF BufferOk
<1>2. /\ q \in Prefetch /\ q.stream = s /\ q.window = w
      /\ q.chunks = p.chunks /\ q.len = p.len /\ q.front = p.front /\ q.start = p.start
      /\ q.seek = p.seek /\ q.seekStart = p.seekStart /\ q.forwardOnly = p.forwardOnly
    BY <1>1 DEF Prefetch, WithPlan
<1>3. BufferOk(q) /\ BufEnd(q) = BufEnd(p)
    BY <1>2 DEF BufferOk, BufEnd
<1>4. SeekOk(p) => SeekOk(q)
    BY <1>2, Zenon DEF SeekOk, IsFirst
<1> QED
    BY <1>2, <1>3, <1>4, Zenon

\* A stream that is kept stands at the cursor or has nothing left.
LEMMA KeptStream ==
    ASSUME NEW p, BufferOk(p), p.stream \in {None, BufEnd(p), FileSize}, NEW off \in Nat,
           NEW s, s = IF StrategyFor(p, off) = "continue" THEN p.stream ELSE None
    PROVE  s \in {None, off, FileSize} /\ s \in 0..FileSize \cup {None} /\ StrategyFor(p, off) \in Strategy
<1>1. PICK a \in Nat, e \in Nat, len \in Nat :
        a = p.start /\ len = p.len /\ e = BufEnd(p) /\ e = a + len /\ e <= FileSize
    BY BufferedPositions DEF BufferOk
<1>2. StrategyFor(p, off) \in Strategy
    BY DEF StrategyFor, Strategy
<1>3. ASSUME StrategyFor(p, off) = "continue" PROVE off = e
  <2>1. Sequential(p, off) /\ off = IF off >= p.start THEN p.start + p.len ELSE p.start
    BY <1>3 DEF StrategyFor
  <2> QED
    BY <1>1, <2>1
<1>4. p.stream \in 0..FileSize \cup {None}
    BY DEF BufferOk, Prefetch
<1>5. CASE StrategyFor(p, off) = "continue"
    BY <1>1, <1>2, <1>3, <1>4, <1>5
<1>6. CASE StrategyFor(p, off) # "continue"
    BY <1>2, <1>6
<1> QED
    BY <1>5, <1>6

\* What prepare_fetch leaves behind.
ReadyFor(p, off, q) ==
    /\ BufferOk(q) /\ q.stream \in {None, off, FileSize} /\ q.forwardOnly = p.forwardOnly
    /\ IsFirst(q) => IsFirst(p)
    /\ SeekOk(p) => SeekOk(q) /\ (~q.forwardOnly /\ q.seek = <<>> => IsFirst(q))

\* prepare_fetch drains what the cursor has passed and drops a stream that is
\* not at the cursor.
LEMMA PreparedOk ==
    ASSUME NEW p, BufferOk(p), p.stream \in {None, BufEnd(p), FileSize}, NEW off \in Nat
    PROVE  ReadyFor(p, off, Prepared(p, off))
<1>1. PICK q : q = Prepared(p, off)
    OBVIOUS
<1>2. PICK d : d = IF off >= p.start THEN DrainToSeek(p, p.len) ELSE p
    OBVIOUS
<1>3. p.start \in Nat /\ p.len \in Nat
    BY BufferedPositions
<1>4. /\ BufferOk(d) /\ d.window = p.window /\ d.stream = p.stream /\ d.forwardOnly = p.forwardOnly
      /\ IsFirst(d) => IsFirst(p)
      /\ SeekOk(p) => SeekOk(d) /\ (~d.forwardOnly /\ d.seek = <<>> => IsFirst(d))
  <2>1. CASE off >= p.start
    <3>1. d = DrainToSeek(p, p.len)
      BY <1>2, <2>1, Zenon
    <3>2. Drained(p, p.len, d)
      BY <1>3, <3>1, DrainOk
    <3>3. ASSUME SeekOk(p), ~d.forwardOnly, d.seek = <<>> PROVE IsFirst(d)
      BY <3>2, <3>3, Zenon DEF Drained, SeekOk, IsFirst
    <3> QED
      BY <3>2, <3>3, Zenon DEF Drained
  <2>2. CASE ~(off >= p.start)
    <3>1. d = p
      BY <1>2, <2>2, Zenon
    <3>2. p.start # 0
      BY <1>3, <2>2
    <3> QED
      BY <3>1, <3>2, Zenon DEF SeekOk
  <2> QED
    BY <2>1, <2>2
<1>5. PICK w : w = CASE IsFirst(p) -> d.window
                     [] ~IsFirst(p) /\ Sequential(p, off) -> Min({d.window * 2, MaxWindow})
                     [] OTHER -> InitialWindow
    OBVIOUS
<1>6. PICK s : s = IF StrategyFor(p, off) = "continue" THEN p.stream ELSE None
    OBVIOUS
<1>7. q = WithPlan(d, w, s)
    BY <1>1, <1>2, <1>4, <1>5, <1>6 DEF Prepared, WithPlan
<1>8. w \in InitialWindow..MaxWindow
  <2>1. d.window \in InitialWindow..MaxWindow
    BY <1>4 DEF BufferOk, Prefetch
  <2>2. PICK v \in Nat : v = d.window /\ InitialWindow <= v /\ v <= MaxWindow
    BY <2>1, WindowAssumption
  <2>3. Min({v * 2, MaxWindow}) = IF v * 2 <= MaxWindow THEN v * 2 ELSE MaxWindow
    <3>1. v * 2 \in Int /\ MaxWindow \in Int
      BY WindowAssumption
    <3> QED
      BY <3>1, MinMax
  <2>4. Min({v * 2, MaxWindow}) \in InitialWindow..MaxWindow
    BY <2>2, <2>3, WindowAssumption
  <2>5. InitialWindow \in InitialWindow..MaxWindow
    BY WindowAssumption
  <2> QED
    BY <1>5, <2>1, <2>2, <2>4, <2>5
<1>9. s \in {None, off, FileSize} /\ s \in 0..FileSize \cup {None}
    BY <1>6, KeptStream
<1>10. /\ BufferOk(q) /\ q.stream = s
       /\ q.start = d.start /\ q.len = d.len
       /\ q.forwardOnly = d.forwardOnly /\ q.seek = d.seek
       /\ SeekOk(d) => SeekOk(q)
    BY <1>4, <1>7, <1>8, <1>9, WithPlanOk
<1>11. IsFirst(q) <=> IsFirst(d)
    BY <1>10 DEF IsFirst
<1> QED
    BY <1>1, <1>4, <1>9, <1>10, <1>11, Zenon DEF ReadyFor

\* A fetch asks for at least a byte, and for none behind the end.
LEMMA FetchSizeOk ==
    ASSUME NEW p, NEW strategy, NEW off \in Nat, NEW size \in Nat, off < FileSize, size >= 1,
           p.window \in Nat, NEW n, n = FetchSize(p, strategy, off, size)
    PROVE  n \in Nat /\ n >= 1 /\ off + n <= FileSize
<1>0. PICK w \in Nat : w = p.window
    OBVIOUS
<1>1. PICK rest \in Nat : rest = FileSize - off /\ rest >= 1
    BY ReadAssumption
<1>2. PICK needed \in Nat : needed = Min({size, rest}) /\ needed >= 1 /\ needed <= rest
    BY <1>1, MinMax
<1>3. PICK top \in Nat : top = Max({needed, w}) /\ top >= 1
  <2>0. needed \in Int /\ w \in Int
    OBVIOUS
  <2>1. Max({needed, w}) = IF needed >= w THEN needed ELSE w
    BY <2>0, MinMax, Zenon
  <2> QED
    BY <1>2, <2>1
<1>4. PICK both \in Nat : both = Min({top, rest}) /\ both >= 1 /\ both <= rest
    BY <1>1, <1>3, MinMax
<1>5. n = IF strategy = "range" THEN needed ELSE both
    BY <1>0, <1>1, <1>2, <1>3, <1>4, Zenon DEF FetchSize
<1> QED
    BY <1>1, <1>2, <1>4, <1>5, ReadAssumption

\* A read that lacks something is before the end of the file.
LEMMA CursorBounds ==
    ASSUME rd \in ReadState, Len(rd.resp) < ToRead
    PROVE  /\ rd.off \in Nat /\ Len(rd.resp) \in Nat /\ ToRead \in Nat /\ rd.resp \in Seq(Nat)
           /\ Cursor \in Nat /\ Cursor < FileSize /\ Cursor = rd.off + Len(rd.resp)
           /\ ToRead - Len(rd.resp) \in Nat /\ ToRead - Len(rd.resp) >= 1
           /\ rd.off + ToRead <= FileSize
<1>1. PICK o \in Nat, l \in Nat, t \in Nat :
        o = rd.off /\ l = Len(rd.resp) /\ t = ToRead /\ t <= FileSize - o /\ l < t
  <2>1. PICK r \in ReadState : r = rd
    OBVIOUS
  <2>2. /\ r.off \in Nat /\ Len(r.resp) \in Nat /\ Min({r.size, FileSize - r.off}) \in Nat
        /\ Min({r.size, FileSize - r.off}) <= FileSize - r.off
    BY CursorIs
  <2> QED
    BY <2>1, <2>2 DEF ToRead
<1>2. o + l \in Nat /\ o + l < FileSize /\ t - l \in Nat /\ t - l >= 1 /\ o + t <= FileSize
    BY <1>1, ReadAssumption
<1>3. rd.resp \in Seq(Nat)
    BY CursorIs
<1> QED
    BY <1>1, <1>2, <1>3, Zenon DEF Cursor

\* The part of ExactInv that no fetch changes before it serves.
ReadSoFar ==
    rd.resp = Positions(rd.off, Cursor) /\ Len(rd.resp) <= ToRead

\* The assembly loop plans a fetch.
LEMMA PlanStep ==
    ASSUME IInv, Plan
    PROVE  Preserved
<1>1. BufferOk(pf) /\ rd \in ReadState /\ StreamIsAligned /\ EncryptedOk
    BY DEF IInv
<1>2. PICK strategy, p :
        /\ strategy = StrategyFor(pf, Cursor) /\ p = Prepared(pf, Cursor)
        /\ rd.pc = "loop" /\ Len(rd.resp) < ToRead
        /\ pf' = [p EXCEPT !.stream = None]
        /\ rd' = [rd EXCEPT !.pc = "fetch", !.plan = strategy,
                    !.fetch = FetchSize(p, strategy, Cursor, ToRead - Len(rd.resp)),
                    !.stream = p.stream, !.got = <<>>, !.attempt = 1]
        /\ enc' = enc
    BY DEF Plan
<1>3. PICK c \in Nat, k \in Nat : c = Cursor /\ c < FileSize /\ k = ToRead - Len(rd.resp) /\ k >= 1
    BY <1>1, <1>2, CursorBounds
<1>4. ReadyFor(pf, c, p) /\ strategy \in Strategy
  <2>1. PICK f : f = pf
    OBVIOUS
  <2>2. BufferOk(f) /\ f.stream \in {None, BufEnd(f), FileSize}
    BY <1>1, <2>1 DEF StreamIsAligned
  <2>3. ReadyFor(f, c, Prepared(f, c))
    BY <2>2, PreparedOk
  <2>4. StrategyFor(f, c) \in Strategy
    BY <2>2, KeptStream
  <2> QED
    BY <1>2, <1>3, <2>1, <2>3, <2>4, Zenon
<1>5. PICK n : n = FetchSize(p, strategy, c, k)
    OBVIOUS
<1>6. p.window \in InitialWindow..MaxWindow /\ p.stream \in 0..FileSize \cup {None} /\ BufferOk(p)
    BY <1>4 DEF ReadyFor, BufferOk, Prefetch
<1>7. n \in Nat /\ n >= 1 /\ c + n <= FileSize
  <2>1. p.window \in Nat
    BY <1>6, WindowAssumption
  <2> QED
    BY <1>3, <1>5, <2>1, FetchSizeOk
<1>8. /\ BufferOk(pf') /\ pf'.stream = None
      /\ pf'.start = p.start /\ pf'.len = p.len
      /\ pf'.forwardOnly = p.forwardOnly /\ pf'.seek = p.seek
      /\ SeekOk(p) => SeekOk(pf')
  <2>1. pf' = WithPlan(p, p.window, None)
    <3>1. p \in Prefetch
      BY <1>6 DEF BufferOk
    <3> QED
      BY <1>2, <3>1 DEF WithPlan, Prefetch
  <2>2. PICK q : q = pf'
    OBVIOUS
  <2>3. PICK w \in InitialWindow..MaxWindow : w = p.window
    BY <1>6, Zenon
  <2>n. PICK s \in 0..FileSize \cup {None} : s = None
    OBVIOUS
  <2>4. q = WithPlan(p, w, s) /\ BufferOk(p)
    BY <1>6, <2>1, <2>2, <2>3, <2>n, Zenon
  <2>5. /\ BufferOk(q) /\ q.stream = s
        /\ q.start = p.start /\ q.len = p.len
        /\ q.forwardOnly = p.forwardOnly /\ q.seek = p.seek
        /\ SeekOk(p) => SeekOk(q)
    BY <2>4, WithPlanOk
  <2> QED
    BY <2>2, <2>n, <2>5, Zenon
<1>9. rd' = [rd EXCEPT !.pc = "fetch", !.plan = strategy, !.fetch = n,
                       !.stream = p.stream, !.got = <<>>, !.attempt = 1]
    BY <1>2, <1>3, <1>5, Zenon
<1>10. /\ rd' \in ReadState /\ rd'.pc = "fetch" /\ rd'.off = rd.off /\ rd'.size = rd.size
       /\ rd'.resp = rd.resp /\ rd'.fetch = n /\ rd'.stream = p.stream /\ rd'.got = <<>>
  <2>1. <<>> \in Seq(Seq(0..FileSize)) /\ 1 \in Nat
    OBVIOUS
  <2> QED
    BY <1>1, <1>4, <1>6, <1>7, <1>9, <2>1 DEF ReadState
<1>11. Cursor' = c /\ ToRead' = ToRead
    BY <1>3, <1>10, Zenon DEF Cursor, ToRead
<1>12. enc.object = None /\ EncryptedOk'
    BY <1>1, <1>2 DEF EncryptedOk
<1>13. FetchOk'
  <2>1. <<>> \in Seq(Seq(0..FileSize)) /\ Len(<<>>) = 0 /\ c + 0 = c /\ c <= FileSize
    BY <1>3, ReadAssumption
  <2>2. Flat(<<>>) = <<>>
    BY <2>1, FlatSeq
  <2>3. TotalLen' = 0 /\ Flat(rd'.got) = <<>>
    BY <1>10, <2>1, <2>2, Zenon DEF TotalLen
  <2>4. Bytes(<<>>, c, k, FileSize)
    BY <2>1, NoBytes
  <2>5. <<>> = Positions(c, c + 0)
    BY <2>1, <2>4 DEF Bytes
  <2>6. Len(rd'.resp) < ToRead' /\ rd'.fetch >= 1 /\ Cursor' + rd'.fetch <= FileSize
    BY <1>2, <1>7, <1>10, <1>11, Zenon
  <2>7. /\ Cursor' + TotalLen' <= FileSize
        /\ Flat(rd'.got) = Positions(Cursor', Cursor' + TotalLen')
        /\ rd'.got = <<>>
        /\ rd'.stream = None => TotalLen' = 0
    BY <1>10, <1>11, <2>1, <2>3, <2>5, Zenon
  <2>8. rd'.stream \in {None, Cursor' + TotalLen', FileSize}
    <3>1. p.stream \in {None, c, FileSize}
      BY <1>4, Zenon DEF ReadyFor
    <3>2. Cursor' + TotalLen' = c
      BY <1>11, <2>1, <2>3, Zenon
    <3> QED
      BY <1>10, <3>1, <3>2, Zenon
  <2> QED
    BY <1>8, <2>6, <2>7, <2>8, Zenon DEF FetchOk
<1>14. IInv'
  <2>1. StreamIsAligned'
    BY <1>8 DEF StreamIsAligned
  <2>2. DecryptSucceeds'
    BY <1>10 DEF DecryptSucceeds
  <2> QED
    BY <1>8, <1>10, <1>12, <1>13, <2>1, <2>2, Zenon DEF IInv
<1>15. ASSUME ExactInv PROVE ExactInv'
  <2>1. SeekOk(pf) /\ ReadSoFar /\ (~pf.forwardOnly /\ IsFirst(pf) => Cursor = 0)
    BY <1>2, <1>12, <1>15 DEF ExactInv, ReadSoFar
  <2>2. SeekOk(pf') /\ (~pf'.forwardOnly /\ pf'.seek = <<>> => IsFirst(pf'))
    BY <1>4, <1>8, <2>1, Zenon DEF ReadyFor, IsFirst
  <2>3. ~pf'.forwardOnly /\ IsFirst(pf') => Cursor' = 0
    BY <1>3, <1>4, <1>8, <1>11, <2>1, Zenon DEF ReadyFor, IsFirst
  <2>4. rd'.resp = Positions(rd'.off, Cursor') /\ Len(rd'.resp) <= ToRead'
    BY <1>3, <1>10, <1>11, <2>1, Zenon DEF ReadSoFar
  <2> QED
    BY <1>10, <2>2, <2>3, <2>4 DEF ExactInv
<1> QED
    BY <1>14, <1>15 DEF Preserved

\* A fetch that goes on leaves what ExactInv is about alone.
LEMMA StillFetching ==
    ASSUME rd.pc = "fetch", rd'.pc = "fetch", rd'.off = rd.off, rd'.size = rd.size, rd'.resp = rd.resp,
           pf'.start = pf.start, pf'.len = pf.len, pf'.seek = pf.seek,
           pf'.forwardOnly = pf.forwardOnly, SeekOk(pf) => SeekOk(pf'),
           enc.object = None, ExactInv
    PROVE  ExactInv'
<1>1. Cursor' = Cursor /\ ToRead' = ToRead
    BY Zenon DEF Cursor, ToRead
<1>2. IsFirst(pf') <=> IsFirst(pf)
    BY DEF IsFirst
<1>3. SeekOk(pf') /\ (~pf'.forwardOnly /\ pf'.seek = <<>> => IsFirst(pf'))
      /\ (~pf'.forwardOnly /\ IsFirst(pf') => Cursor' = 0)
    BY <1>1, <1>2 DEF ExactInv
<1>4. rd'.resp = Positions(rd'.off, Cursor') /\ Len(rd'.resp) <= ToRead'
    BY <1>1 DEF ExactInv
<1> QED
    BY <1>3, <1>4 DEF ExactInv

\* A stream is opened at the cursor.
LEMMA OpenStreamStep ==
    ASSUME IInv, OpenStream
    PROVE  Preserved
<1>1. BufferOk(pf) /\ rd \in ReadState /\ StreamIsAligned /\ EncryptedOk /\ FetchOk
    BY DEF IInv
<1>2. rd.pc = "fetch" /\ rd.stream = None /\ rd' = [rd EXCEPT !.stream = Cursor] /\ pf' = pf /\ enc' = enc
    BY DEF OpenStream
<1>3. PICK c \in Nat : c = Cursor /\ c < FileSize
  <2>1. Len(rd.resp) < ToRead
    BY <1>1, <1>2 DEF FetchOk
  <2> QED
    BY <1>1, <2>1, CursorBounds
<1>4. /\ rd' \in ReadState /\ rd'.pc = "fetch" /\ rd'.off = rd.off /\ rd'.size = rd.size
      /\ rd'.resp = rd.resp /\ rd'.fetch = rd.fetch /\ rd'.stream = c /\ rd'.got = rd.got
  <2>1. c \in 0..FileSize
    BY <1>3, ReadAssumption
  <2> QED
    BY <1>1, <1>2, <1>3, <2>1 DEF ReadState
<1>5. Cursor' = Cursor /\ ToRead' = ToRead /\ TotalLen' = TotalLen
    BY <1>4, Zenon DEF Cursor, ToRead, TotalLen
<1>6. enc.object = None /\ EncryptedOk'
    BY <1>1, <1>2 DEF EncryptedOk
<1>7. FetchOk'
  <2>1. TotalLen = 0 /\ c + 0 = c
    BY <1>1, <1>2 DEF FetchOk
  <2>2. rd'.stream \in {None, Cursor' + TotalLen', FileSize}
    BY <1>3, <1>4, <1>5, <2>1, Zenon
  <2>3. /\ Len(rd.resp) < ToRead /\ rd.fetch >= 1 /\ Cursor + rd.fetch <= FileSize
        /\ Cursor + TotalLen <= FileSize
        /\ Flat(rd.got) = Positions(Cursor, Cursor + TotalLen)
        /\ rd.got # <<>> => Len(rd.got[1]) > 0
        /\ pf.stream \in {None, FileSize}
    BY <1>1, <1>2 DEF FetchOk
  <2> QED
    BY <1>2, <1>4, <1>5, <2>1, <2>2, <2>3, Zenon DEF FetchOk
<1>8. IInv'
  <2>1. BufferOk(pf') /\ StreamIsAligned'
    BY <1>1, <1>2 DEF StreamIsAligned
  <2>2. DecryptSucceeds'
    BY <1>4 DEF DecryptSucceeds
  <2> QED
    BY <1>4, <1>6, <1>7, <2>1, <2>2, Zenon DEF IInv
<1>9. ExactInv => ExactInv'
    BY <1>2, <1>4, <1>6, StillFetching
<1> QED
    BY <1>8, <1>9 DEF Preserved

\* The bytes of a chain that a chunk of the next bytes is appended to.
LEMMA NextChunk ==
    ASSUME NEW got \in Seq(Seq(0..FileSize)), NEW c \in Nat, NEW s \in Nat, NEW e \in Nat,
           c <= s, s < e, e <= FileSize, Flat(got) = Positions(c, s),
           got # <<>> => Len(got[1]) > 0
    PROVE  /\ Append(got, Positions(s, e)) \in Seq(Seq(0..FileSize))
           /\ Flat(Append(got, Positions(s, e))) = Positions(c, e)
           /\ Len(Append(got, Positions(s, e))[1]) > 0
<1>1. PICK x \in Seq(0..FileSize) : x = Positions(s, e) /\ Len(x) > 0
  <2>1. s <= e
    OBVIOUS
  <2>2. Positions(s, e) \in Seq(0..FileSize) /\ Len(Positions(s, e)) = e - s
    BY <2>1, PositionsSeq
  <2>3. e - s > 0
    OBVIOUS
  <2> QED
    BY <2>2, <2>3, Zenon
<1>2. Append(got, x) \in Seq(Seq(0..FileSize))
    OBVIOUS
<1>3. Flat(Append(got, x)) = Flat(got) \o x
    BY FlatSeq
<1>4. Positions(c, s) \o Positions(s, e) = Positions(c, e)
  <2>1. s <= e
    OBVIOUS
  <2> QED
    BY <2>1, PositionsCat, Zenon
<1>5. Flat(Append(got, x)) = Positions(c, e)
    BY <1>1, <1>3, <1>4, Zenon
<1>6. Len(Append(got, x)[1]) > 0
  <2>1. CASE got = <<>>
    <3>1. Append(got, x)[1] = x
      BY <2>1
    <3> QED
      BY <1>1, <3>1, Zenon
  <2>2. CASE got # <<>>
    <3>1. Append(got, x)[1] = got[1]
      BY <2>2
    <3> QED
      BY <2>2, <3>1, Zenon
  <2> QED
    BY <2>1, <2>2
<1> QED
    BY <1>1, <1>2, <1>5, <1>6, Zenon

\* The next chunk of the stream: only one that stands at the end of what came
\* has a chunk to give.
LEMMA ChunkStep ==
    ASSUME IInv, NEW n \in ChunkLens, Chunk(n)
    PROVE  Preserved
<1>1. BufferOk(pf) /\ rd \in ReadState /\ StreamIsAligned /\ EncryptedOk /\ FetchOk
    BY DEF IInv
<1>2. /\ rd.pc = "fetch" /\ rd.stream # None /\ pf' = pf /\ enc' = enc
      /\ rd.stream + n <= IF rd.plan = "range" THEN Cursor + rd.fetch ELSE FileSize
      /\ rd' = [rd EXCEPT !.got = Append(@, Positions(rd.stream, rd.stream + n)), !.stream = @ + n]
    BY DEF Chunk
<1>3. /\ Len(rd.resp) < ToRead /\ rd.fetch >= 1 /\ Cursor + rd.fetch <= FileSize
      /\ Cursor + TotalLen <= FileSize
      /\ Flat(rd.got) = Positions(Cursor, Cursor + TotalLen)
      /\ rd.got # <<>> => Len(rd.got[1]) > 0
      /\ rd.stream \in {None, Cursor + TotalLen, FileSize}
      /\ pf.stream \in {None, FileSize}
    BY <1>1, <1>2 DEF FetchOk
<1>4. PICK c \in Nat : c = Cursor
    BY <1>1, <1>3, CursorBounds
<1>5. PICK got \in Seq(Seq(0..FileSize)) : got = rd.got
    BY <1>1, CursorIs
<1>6. PICK t \in Nat : t = TotalLen
  <2>1. Flat(got) \in Seq(0..FileSize)
    BY FlatSeq
  <2>2. Len(Flat(got)) \in Nat
    BY <2>1
  <2> QED
    BY <1>5, <2>2, Zenon DEF TotalLen
<1>7. n \in Nat /\ n >= 1
    BY ReadAssumption
<1>8. PICK f \in Nat : f = rd.fetch /\ c + f <= FileSize
    BY <1>1, <1>3, <1>4, CursorIs
<1>9. PICK s \in Nat : s = rd.stream /\ s = c + t
  <2>1. rd.stream = c + t \/ rd.stream = FileSize
    BY <1>2, <1>3, <1>4, <1>6
  <2>2. rd.stream + n <= FileSize
    BY <1>2, <1>4, <1>7, <1>8, <2>1, ReadAssumption
  <2> QED
    BY <1>7, <2>1, <2>2, ReadAssumption
<1>10. PICK e \in Nat : e = s + n /\ c <= s /\ s < e /\ e <= FileSize
  <2>1. s + n <= FileSize
    BY <1>2, <1>4, <1>7, <1>8, <1>9, ReadAssumption
  <2> QED
    BY <1>7, <1>9, <2>1
<1>11. PICK more : more = Append(got, Positions(s, e))
    OBVIOUS
<1>12. more \in Seq(Seq(0..FileSize)) /\ Flat(more) = Positions(c, e) /\ Len(more[1]) > 0
  <2>1. Flat(got) = Positions(c, s) /\ (got # <<>> => Len(got[1]) > 0)
    BY <1>3, <1>4, <1>5, <1>6, <1>9, Zenon
  <2>2. /\ Append(got, Positions(s, e)) \in Seq(Seq(0..FileSize))
        /\ Flat(Append(got, Positions(s, e))) = Positions(c, e)
        /\ Len(Append(got, Positions(s, e))[1]) > 0
    BY <1>10, <2>1, NextChunk
  <2> QED
    BY <1>11, <2>2, Zenon
<1>13. rd' = [rd EXCEPT !.got = more, !.stream = e]
  <2>1. rd' = [rd EXCEPT !.got = Append(rd.got, Positions(rd.stream, rd.stream + n)), !.stream = rd.stream + n]
    BY <1>1, <1>2 DEF ReadState
  <2> QED
    BY <1>5, <1>9, <1>10, <1>11, <2>1, Zenon
<1>14. /\ rd' \in ReadState /\ rd'.pc = "fetch" /\ rd'.off = rd.off /\ rd'.size = rd.size
       /\ rd'.resp = rd.resp /\ rd'.fetch = rd.fetch /\ rd'.stream = e /\ rd'.got = more
  <2>1. e \in 0..FileSize
    BY <1>10, ReadAssumption
  <2> QED
    BY <1>1, <1>2, <1>12, <1>13, <2>1 DEF ReadState
<1>15. Cursor' = c /\ ToRead' = ToRead
    BY <1>4, <1>14, Zenon DEF Cursor, ToRead
<1>16. Cursor' + TotalLen' = e
  <2>1. c <= e
    BY <1>10
  <2>2. Len(Positions(c, e)) = e - c
    BY <2>1, PositionsSeq
  <2>3. TotalLen' = e - c
    BY <1>12, <1>14, <2>2, Zenon DEF TotalLen
  <2>4. c + (e - c) = e
    OBVIOUS
  <2> QED
    BY <1>15, <2>3, <2>4, Zenon
<1>17. enc.object = None /\ EncryptedOk'
    BY <1>1, <1>2 DEF EncryptedOk
<1>18. FetchOk'
  <2>1. rd'.stream # None
    BY <1>14, NoneAssumption
  <2>2. Len(rd'.resp) < ToRead' /\ rd'.fetch >= 1 /\ Cursor' + rd'.fetch <= FileSize
    BY <1>3, <1>4, <1>14, <1>15, Zenon
  <2>3. /\ Cursor' + TotalLen' <= FileSize
        /\ Flat(rd'.got) = Positions(Cursor', Cursor' + TotalLen')
        /\ Len(rd'.got[1]) > 0
        /\ rd'.stream = Cursor' + TotalLen'
    BY <1>10, <1>12, <1>14, <1>15, <1>16, Zenon
  <2>4. pf'.stream \in {None, FileSize}
    BY <1>2, <1>3
  <2> QED
    BY <2>1, <2>2, <2>3, <2>4, Zenon DEF FetchOk
<1>19. IInv'
  <2>1. BufferOk(pf') /\ StreamIsAligned'
    BY <1>1, <1>2 DEF StreamIsAligned
  <2>2. DecryptSucceeds'
    BY <1>14 DEF DecryptSucceeds
  <2> QED
    BY <1>14, <1>17, <1>18, <2>1, <2>2, Zenon DEF IInv
<1>20. ExactInv => ExactInv'
    BY <1>2, <1>14, <1>17, StillFetching
<1> QED
    BY <1>19, <1>20 DEF Preserved

\* store_fetched, and the state it makes of p for t bytes at c.
WithFetched(p, s, got, t, c) == [p EXCEPT !.stream = s, !.chunks = got, !.len = t, !.front = 0, !.start = c]

HasFetched(q, p, s, got, t, c) ==
    /\ q \in Prefetch /\ q.chunks = got /\ q.len = t /\ q.front = 0 /\ q.start = c /\ q.stream = s
    /\ q.seek = p.seek /\ q.seekStart = p.seekStart /\ q.forwardOnly = p.forwardOnly

\* The fields of that state.
LEMMA FetchedFields ==
    ASSUME NEW p \in Prefetch, NEW s \in 0..FileSize \cup {None}, NEW c \in Nat,
           NEW got \in Seq(Seq(0..FileSize)), NEW t \in Nat
    PROVE  HasFetched(WithFetched(p, s, got, t, c), p, s, got, t, c)
    BY DEF Prefetch, WithFetched, HasFetched

\* q is a good buffer of t bytes at c, with the window of p and the stream s.
Holds(q, p, s, c, t) ==
    /\ BufferOk(q) /\ q.start = c /\ q.len = t /\ q.stream = s
    /\ q.seek = p.seek /\ q.seekStart = p.seekStart /\ q.forwardOnly = p.forwardOnly

\* What is stored is what the fetch brought.
LEMMA StoredOk ==
    ASSUME NEW p \in Prefetch, NEW s \in 0..FileSize \cup {None}, NEW c \in Nat,
           NEW got \in Seq(Seq(0..FileSize)), NEW t \in Nat, c + t <= FileSize,
           Flat(got) = Positions(c, c + t), got # <<>> => Len(got[1]) > 0
    PROVE  Holds(Stored([p EXCEPT !.stream = s], c, got), p, s, c, t)
<1>0. PICK q : q = Stored([p EXCEPT !.stream = s], c, got)
    OBVIOUS
<1>1. PICK e \in Nat : e = c + t /\ c <= e /\ e - c = t
    OBVIOUS
<1>2. PICK b \in Seq(Nat) : /\ b = Positions(c, e) /\ Len(b) = t
                            /\ \A i \in 1..t : b[i] = c + i - 1
  <2>1. /\ Positions(c, e) \in Seq(Nat) /\ Len(Positions(c, e)) = e - c
        /\ \A i \in 1..(e - c) : Positions(c, e)[i] = c + i - 1
    BY <1>1, PositionsSeq, Zenon
  <2> QED
    BY <1>1, <2>1, Zenon
<1>3. Flat(got) = b
    BY <1>1, <1>2, Zenon
<1>4. q = WithFetched(p, s, got, t, c)
    BY <1>0, <1>2, <1>3 DEF Stored, WithFetched
<1>5. /\ q \in Prefetch /\ q.chunks = got /\ q.len = t /\ q.front = 0 /\ q.start = c /\ q.stream = s
      /\ q.seek = p.seek /\ q.seekStart = p.seekStart /\ q.forwardOnly = p.forwardOnly
  <2>1. HasFetched(WithFetched(p, s, got, t, c), p, s, got, t, c)
    BY FetchedFields, Zenon
  <2> QED
    BY <1>4, <2>1, Zenon DEF HasFetched
<1>6. \A i \in 1..q.len : Flat(q.chunks)[q.front + i] = q.start + i - 1
  <2>1. \A i \in 1..t : 0 + i = i
    OBVIOUS
  <2>2. \A i \in 1..t : b[0 + i] = c + i - 1
    BY <1>2, <2>1
  <2> QED
    BY <1>3, <1>5, <2>2, Zenon
<1>7. t = Len(b) - 0
    BY <1>2
<1>8. BufferOk(q)
  <2>1. q.len = Len(Flat(q.chunks)) - q.front
    BY <1>3, <1>5, <1>7, Zenon
  <2>2. q.chunks # <<>> => q.front < Len(q.chunks[1])
    <3>1. Len(got[1]) > 0 => 0 < Len(got[1])
      OBVIOUS
    <3> QED
      BY <1>5, <3>1, Zenon
  <2>3. q.start + q.len <= FileSize
    BY <1>5, Zenon
  <2> QED
    BY <1>5, <1>6, <2>1, <2>2, <2>3, Zenon DEF BufferOk, BufEnd
<1> QED
    BY <1>0, <1>5, <1>8, Zenon DEF Holds

\* A read goes on behind what it has.
LEMMA MoreBytes ==
    ASSUME NEW resp \in Seq(Nat), NEW o \in Nat, NEW d, NEW k \in Nat, Bytes(d, o + Len(resp), k, FileSize)
    PROVE  /\ Cat(resp, d) \in Seq(Nat) /\ Len(Cat(resp, d)) \in Nat /\ Len(Cat(resp, d)) <= Len(resp) + k
           /\ resp = Positions(o, o + Len(resp)) => Cat(resp, d) = Positions(o, o + Len(Cat(resp, d)))
<1>0. Len(resp) \in Nat
    OBVIOUS
<1>l. PICK l \in Nat, c \in Nat : l = Len(resp) /\ c = o + l
    BY <1>0
<1>1. PICK m \in Nat : d = Positions(c, c + m) /\ d \in Seq(Nat) /\ Len(d) = m /\ m <= k
    BY <1>l, Zenon DEF Bytes
<1>d. PICK e \in Seq(Nat) : e = d
    BY <1>1, Zenon
<1>2. Cat(resp, e) \in Seq(Nat) /\ Len(Cat(resp, e)) = Len(resp) + Len(e)
    BY ConcatProperties DEF Cat
<1>3. PICK f \in Nat : f = c + m /\ o <= c /\ c <= f /\ f = o + (l + m)
    BY <1>l
<1>4. Positions(o, c) \o Positions(c, f) = Positions(o, f)
    BY <1>3, PositionsCat, Zenon
<1>5. l + m \in Nat /\ l + m <= l + k
    BY <1>1
<1>6. Len(Cat(resp, d)) = l + m /\ Cat(resp, d) \in Seq(Nat)
    BY <1>l, <1>d, <1>1, <1>2, Zenon
<1>7. resp = Positions(o, c) => Cat(resp, d) = Positions(o, f)
    BY <1>1, <1>3, <1>4, Zenon DEF Cat
<1> QED
    BY <1>l, <1>3, <1>5, <1>6, <1>7, Zenon

\* A fetch that brought something serves the read.
LEMMA ServeStep ==
    ASSUME IInv, rd.pc = "fetch", TotalLen > 0, NEW s, s \in {None, Cursor + TotalLen, FileSize}, Serve(s)
    PROVE  Preserved
<1>1. BufferOk(pf) /\ rd \in ReadState /\ EncryptedOk /\ FetchOk /\ pf \in Prefetch
    BY DEF IInv, BufferOk
<1>2. /\ Len(rd.resp) < ToRead /\ Cursor + TotalLen <= FileSize
      /\ Flat(rd.got) = Positions(Cursor, Cursor + TotalLen)
      /\ rd.got # <<>> => Len(rd.got[1]) > 0
    BY <1>1 DEF FetchOk
<1>3. PICK c \in Nat, o \in Nat, l \in Nat, to \in Nat :
        /\ c = Cursor /\ o = rd.off /\ l = Len(rd.resp) /\ to = ToRead
        /\ c < FileSize /\ c = o + l /\ l < to
    BY <1>1, <1>2, CursorBounds
<1>4. PICK got \in Seq(Seq(0..FileSize)), resp \in Seq(Nat) : got = rd.got /\ resp = rd.resp
    BY <1>1, CursorIs
<1>5. PICK t \in Nat : t = TotalLen /\ t >= 1
  <2>1. Flat(got) \in Seq(0..FileSize)
    BY FlatSeq
  <2>2. Len(Flat(got)) \in Nat
    BY <2>1
  <2>3. PICK t \in Nat : t = TotalLen
    BY <1>4, <2>2, Zenon DEF TotalLen
  <2> QED
    BY <2>3
<1>6. PICK k \in Nat : k = to - l /\ k >= 1 /\ l + k = to
  <2>1. l < to
    BY <1>3, Zenon
  <2> QED
    BY <2>1
<1>7. PICK q, data : /\ q = Stored([pf EXCEPT !.stream = s], c, got)
                     /\ data = Forward(q, c, k)
                     /\ pf' = AfterForward(q, c, data)
                     /\ rd' = [rd EXCEPT !.pc = "loop", !.resp = @ \o (IF data = None THEN <<>> ELSE data),
                                !.plan = None, !.fetch = 0, !.stream = None, !.got = <<>>, !.attempt = 0]
                     /\ enc' = enc
    BY <1>3, <1>4, <1>6 DEF Serve
<1>8. s \in 0..FileSize \cup {None} /\ c + t <= FileSize
    BY <1>2, <1>3, <1>5, ReadAssumption
<1>9. /\ BufferOk(q) /\ q.start = c /\ q.len = t /\ q.stream = s
      /\ q.seek = pf.seek /\ q.seekStart = pf.seekStart /\ q.forwardOnly = pf.forwardOnly
  <2>1. PICK p \in Prefetch : p = pf
    BY <1>1, Zenon
  <2>2. /\ Flat(got) = Positions(c, c + t) /\ (got # <<>> => Len(got[1]) > 0)
        /\ q = Stored([p EXCEPT !.stream = s], c, got)
    BY <1>2, <1>3, <1>4, <1>5, <1>7, <2>1, Zenon
  <2>3. Holds(q, p, s, c, t)
    BY <1>8, <2>2, StoredOk, Zenon
  <2> QED
    BY <2>1, <2>3, Zenon DEF Holds
<1>10. BufEnd(q) = c + t
    BY <1>9 DEF BufEnd
<1>11. /\ BufferOk(pf') /\ BufEnd(pf') = c + t /\ pf'.stream = s /\ pf'.forwardOnly = pf.forwardOnly
       /\ ~pf.forwardOnly => pf' = q
       /\ SeekOk(q) => SeekOk(pf')
  <2>1. PICK a : a = pf'
    OBVIOUS
  <2>2. a = AfterForward(q, c, data)
    BY <1>7, <2>1, Zenon
  <2>3. Served(q, a)
    BY <1>7, <1>9, <2>2, AfterForwardOk, Zenon
  <2> QED
    BY <1>9, <1>10, <2>1, <2>3, Zenon DEF Served
<1>12. PICK d : d = (IF data = None THEN <<>> ELSE data) /\ Bytes(d, c, k, FileSize)
  <2>1. data = None \/ Bytes(data, c, k, BufEnd(q))
    BY <1>7, <1>9, ForwardOk
  <2>2. data = None \/ Bytes(data, c, k, FileSize)
    BY <1>8, <1>10, <2>1, ReadAssumption DEF Bytes
  <2>3. c <= FileSize
    BY <1>3, ReadAssumption
  <2>4. Bytes(<<>>, c, k, FileSize)
    BY <2>3, NoBytes
  <2> QED
    BY <2>2, <2>4, Zenon
<1>13. /\ Cat(resp, d) \in Seq(Nat) /\ Len(Cat(resp, d)) \in Nat /\ Len(Cat(resp, d)) <= l + k
       /\ resp = Positions(o, c) => Cat(resp, d) = Positions(o, o + Len(Cat(resp, d)))
  <2>1. Bytes(d, o + Len(resp), k, FileSize) /\ l = Len(resp) /\ c = o + Len(resp)
    BY <1>3, <1>4, <1>12, Zenon
  <2>2. /\ Cat(resp, d) \in Seq(Nat) /\ Len(Cat(resp, d)) \in Nat /\ Len(Cat(resp, d)) <= Len(resp) + k
        /\ resp = Positions(o, o + Len(resp)) => Cat(resp, d) = Positions(o, o + Len(Cat(resp, d)))
    BY <2>1, MoreBytes, Zenon
  <2> QED
    BY <2>1, <2>2, Zenon
<1>14. PICK new \in Seq(Nat) : new = Cat(resp, d)
    BY <1>13, Zenon
<1>15. rd' = [rd EXCEPT !.pc = "loop", !.resp = new, !.plan = None, !.fetch = 0, !.stream = None,
                        !.got = <<>>, !.attempt = 0]
  <2>1. rd' = [rd EXCEPT !.pc = "loop", !.resp = rd.resp \o (IF data = None THEN <<>> ELSE data),
                !.plan = None, !.fetch = 0, !.stream = None, !.got = <<>>, !.attempt = 0]
    BY <1>1, <1>7 DEF ReadState
  <2> QED
    BY <1>4, <1>12, <1>14, <2>1, Zenon DEF Cat
<1>16. rd' \in ReadState /\ rd'.pc = "loop" /\ rd'.off = rd.off /\ rd'.size = rd.size /\ rd'.resp = new
  <2>1. <<>> \in Seq(Seq(0..FileSize)) /\ 0 \in Nat
    OBVIOUS
  <2> QED
    BY <1>1, <1>15, <2>1 DEF ReadState
<1>17. enc.object = None /\ EncryptedOk'
    BY <1>1, <1>7 DEF EncryptedOk
<1>18. IInv'
  <2>1. StreamIsAligned'
    BY <1>3, <1>5, <1>11 DEF StreamIsAligned
  <2> QED
    BY <1>11, <1>16, <1>17, <2>1 DEF IInv, FetchOk, DecryptSucceeds
<1>19. ASSUME ExactInv PROVE ExactInv'
  <2>1. /\ SeekOk(pf) /\ rd.resp = Positions(rd.off, Cursor)
        /\ ~pf.forwardOnly /\ pf.seek = <<>> => Cursor = 0
    BY <1>17, <1>19 DEF ExactInv
  <2>2. ~IsFirst(q)
    BY <1>5, <1>9 DEF IsFirst
  <2>3. SeekOk(q)
    BY <1>3, <1>9, <2>1, <2>2, Zenon DEF SeekOk
  <2>4. SeekOk(pf') /\ (~pf'.forwardOnly => ~IsFirst(pf'))
    BY <1>11, <2>2, <2>3, Zenon
  <2>5. Len(new) \in Nat /\ Len(new) <= l + k /\ new = Positions(o, o + Len(new))
    BY <1>3, <1>4, <1>13, <1>14, <2>1, Zenon
  <2>6. ToRead' = to /\ Cursor' = o + Len(new)
    BY <1>3, <1>16, Zenon DEF ToRead, Cursor
  <2>7. Len(rd'.resp) <= ToRead' /\ rd'.resp = Positions(rd'.off, Cursor')
    BY <1>3, <1>6, <1>16, <2>5, <2>6, Zenon
  <2> QED
    BY <1>16, <2>4, <2>7 DEF ExactInv
<1> QED
    BY <1>18, <1>19 DEF Preserved

\* A fetch that is complete.
LEMMA FetchedStep ==
    ASSUME IInv, Fetched
    PROVE  Preserved
<1>1. rd.pc = "fetch" /\ rd.stream # None /\ TotalLen >= rd.fetch
    BY DEF Fetched
<1>2. rd \in ReadState /\ rd.fetch >= 1 /\ rd.stream \in {None, Cursor + TotalLen, FileSize}
    BY <1>1 DEF IInv, FetchOk
<1>3. TotalLen > 0
  <2>1. rd.got \in Seq(Seq(0..FileSize)) /\ rd.fetch \in Nat
    BY <1>2, CursorIs
  <2>2. Flat(rd.got) \in Seq(0..FileSize)
    BY <2>1, FlatSeq
  <2>3. Len(Flat(rd.got)) \in Nat
    BY <2>2
  <2> QED
    BY <1>1, <1>2, <2>1, <2>3 DEF TotalLen
<1>4. PICK s : s = (IF rd.plan = "range" THEN None ELSE rd.stream)
    OBVIOUS
<1>5. s \in {None, Cursor + TotalLen, FileSize} /\ Serve(s)
    BY <1>2, <1>4, Zenon DEF Fetched
<1> QED
    BY <1>1, <1>3, <1>5, ServeStep

\* Another attempt, or the end of them.
LEMMA RetryStep ==
    ASSUME IInv, rd.pc = "fetch", TotalLen = 0, NEW s \in {None, FileSize},
           pf' = [pf EXCEPT !.stream = s], enc' = enc,
           rd' = IF rd.attempt < MaxAttempts
                 THEN [rd EXCEPT !.attempt = @ + 1, !.stream = None] ELSE NoRead
    PROVE  Preserved
<1>1. BufferOk(pf) /\ rd \in ReadState /\ EncryptedOk /\ FetchOk /\ pf \in Prefetch
    BY DEF IInv, BufferOk
<1>2. /\ BufferOk(pf') /\ pf'.stream = s /\ pf'.start = pf.start /\ pf'.len = pf.len
      /\ pf'.forwardOnly = pf.forwardOnly /\ pf'.seek = pf.seek
      /\ SeekOk(pf) => SeekOk(pf')
  <2>1. PICK p : p = pf
    OBVIOUS
  <2>2. PICK w \in InitialWindow..MaxWindow : w = p.window
    BY <1>1, <2>1 DEF Prefetch
  <2>3. pf' = WithPlan(p, w, s)
    BY <1>1, <2>1, <2>2 DEF WithPlan, Prefetch
  <2>4. s \in 0..FileSize \cup {None}
    BY ReadAssumption
  <2>5. PICK q : q = pf'
    OBVIOUS
  <2>6. /\ BufferOk(q) /\ q.stream = s /\ q.start = p.start /\ q.len = p.len
        /\ q.forwardOnly = p.forwardOnly /\ q.seek = p.seek
        /\ SeekOk(p) => SeekOk(q)
    <3>1. BufferOk(p) /\ q = WithPlan(p, w, s)
      BY <1>1, <2>1, <2>3, <2>5, Zenon
    <3> QED
      BY <2>4, <3>1, WithPlanOk
  <2> QED
    BY <2>1, <2>5, <2>6, Zenon
<1>3. enc.object = None /\ EncryptedOk'
    BY <1>1 DEF EncryptedOk
<1>4. StreamIsAligned'
    BY <1>2 DEF StreamIsAligned
<1>5. CASE rd.attempt < MaxAttempts
  <2>0. PICK a \in Nat : a = rd.attempt + 1
    BY <1>1 DEF ReadState
  <2>1. rd' = [rd EXCEPT !.attempt = a, !.stream = None]
    BY <1>1, <1>5, <2>0 DEF ReadState
  <2>2. /\ rd' \in ReadState /\ rd'.pc = "fetch" /\ rd'.off = rd.off /\ rd'.size = rd.size
        /\ rd'.resp = rd.resp /\ rd'.fetch = rd.fetch /\ rd'.stream = None /\ rd'.got = rd.got
    BY <1>1, <2>1 DEF ReadState
  <2>3. Cursor' = Cursor /\ ToRead' = ToRead /\ TotalLen' = TotalLen
    BY <2>2, Zenon DEF Cursor, ToRead, TotalLen
  <2>4. /\ Len(rd.resp) < ToRead /\ rd.fetch >= 1 /\ Cursor + rd.fetch <= FileSize
        /\ Cursor + TotalLen <= FileSize
        /\ Flat(rd.got) = Positions(Cursor, Cursor + TotalLen)
        /\ rd.got # <<>> => Len(rd.got[1]) > 0
    BY <1>1 DEF FetchOk
  <2>5. FetchOk'
    BY <1>2, <2>2, <2>3, <2>4, Zenon DEF FetchOk
  <2>6. IInv'
    BY <1>2, <1>3, <1>4, <2>2, <2>5 DEF IInv, DecryptSucceeds
  <2>7. ExactInv => ExactInv'
    BY <1>2, <1>3, <2>2, StillFetching
  <2> QED
    BY <2>6, <2>7 DEF Preserved
<1>6. CASE ~(rd.attempt < MaxAttempts)
  <2>1. rd' = NoRead /\ rd'.pc = "idle"
    BY <1>6 DEF NoRead
  <2>2. rd' \in ReadState
    BY <2>1, ReadAssumption DEF NoRead, ReadState, Strategy
  <2>3. IInv'
    BY <1>2, <1>3, <1>4, <2>1, <2>2 DEF IInv, FetchOk, DecryptSucceeds
  <2>4. ASSUME ExactInv PROVE ExactInv'
    <3>1. SeekOk(pf')
      BY <1>2, <2>4 DEF ExactInv
    <3> QED
      BY <2>1, <3>1 DEF ExactInv
  <2> QED
    BY <2>3, <2>4 DEF Preserved
<1> QED
    BY <1>5, <1>6

\* A fetch that fails: what has come is used, or there is another attempt.
LEMMA FetchFailStep ==
    ASSUME IInv, FetchFail
    PROVE  Preserved
<1>1. rd.pc = "fetch" /\ pf.stream \in {None, FileSize}
    BY DEF FetchFail, IInv, FetchOk
<1>2. CASE TotalLen > 0 /\ Serve(pf.stream)
  <2>1. PICK s : s = pf.stream
    OBVIOUS
  <2>2. s \in {None, Cursor + TotalLen, FileSize} /\ Serve(s)
    BY <1>1, <1>2, <2>1, Zenon
  <2> QED
    BY <1>1, <1>2, <2>2, ServeStep
<1>3. CASE /\ TotalLen = 0
           /\ \E s \in {pf.stream} \cup (IF rd.stream = None THEN {} ELSE {Exhausted}) :
                pf' = [pf EXCEPT !.stream = s]
           /\ rd' = IF rd.attempt < MaxAttempts
                   THEN [rd EXCEPT !.attempt = @ + 1, !.stream = None] ELSE NoRead
           /\ UNCHANGED enc
  <2>1. PICK s \in {pf.stream} \cup (IF rd.stream = None THEN {} ELSE {Exhausted}) :
          pf' = [pf EXCEPT !.stream = s]
    BY <1>3
  <2>2. s \in {None, FileSize}
    BY <1>1, <2>1 DEF Exhausted
  <2> QED
    BY <1>1, <1>3, <2>1, <2>2, RetryStep
<1> QED
    BY <1>2, <1>3 DEF FetchFail

----------------------------------------------------------------------------
(* Containers.                                                             *)

\* Products keep the order.
LEMMA MulMono ==
    ASSUME NEW a \in Nat, NEW b \in Nat, NEW r \in Nat, a <= b
    PROVE  a * r <= b * r /\ a * r \in Nat /\ b * r \in Nat
    OBVIOUS

\* A product divides evenly.
LEMMA MulDiv ==
    ASSUME NEW q \in Nat, NEW r \in Nat \ {0}
    PROVE  q * r \in Nat /\ (q * r) \div r = q /\ (q * r) % r = 0
    OBVIOUS

\* One divisor more, one more in the quotient.
LEMMA DivPlus ==
    ASSUME NEW a \in Nat, NEW r \in Nat \ {0}
    PROVE  a \div r \in Nat /\ (a + r) \div r = (a \div r) + 1
    OBVIOUS

\* Division keeps the order.
LEMMA DivMono ==
    ASSUME NEW a \in Nat, NEW b \in Nat, NEW r \in Nat \ {0}, a <= b
    PROVE  a \div r <= b \div r /\ a \div r \in Nat /\ b \div r \in Nat
    OBVIOUS

\* The object of a file that probes has as many chunks as the file.
LEMMA CountIsChunks ==
    ASSUME NEW o \in Object, Probe(o) # NoPlan
    PROVE  /\ o.fileSize \in Nat /\ ChunksOf(o.fileSize) \in Nat
           /\ ContainerChunkCount(o.size) = ChunksOf(o.fileSize)
           /\ o.fileSize > 0 => ChunksOf(o.fileSize) = ((o.fileSize - 1) \div ChunkSize) + 1
<1>1. PICK f \in Nat, z \in Nat : f = o.fileSize /\ z = o.size
    BY DEF Object
<1>2. PICK n : n = ChunksOf(f)
    OBVIOUS
<1>3. n \in Nat
  <2>1. f + ChunkSize - 1 \in Nat
    BY ContainerAssumption
  <2>2. (f + ChunkSize - 1) \div ChunkSize \in Nat
    BY <2>1, DivPlus, ContainerAssumption
  <2> QED
    BY <1>2, <2>2 DEF ChunksOf
<1>4. PICK h \in Nat, r \in Nat \ {0} : h = HeaderLen /\ r = Record
    BY ContainerAssumption DEF HeaderLen, Record
<1>5. z = h + n * r
    BY <1>1, <1>2, <1>4 DEF Probe, CiphertextSize
<1>6. PICK m \in Nat : m = n * r /\ m \div r = n /\ m % r = 0
    BY <1>3, MulDiv
<1>7. z - h = m /\ z >= h
    BY <1>5, <1>6
<1>8. ContainerChunkCount(z) = n
    BY <1>4, <1>6, <1>7, Zenon DEF ContainerChunkCount
<1>9. ASSUME f > 0 PROVE n = ((f - 1) \div ChunkSize) + 1
  <2>1. PICK g \in Nat : g = f - 1
    BY <1>9
  <2>2. g + ChunkSize = f + ChunkSize - 1
    BY <2>1, ContainerAssumption
  <2>3. (g + ChunkSize) \div ChunkSize = (g \div ChunkSize) + 1
    BY DivPlus, ContainerAssumption
  <2> QED
    BY <1>2, <2>1, <2>2, <2>3, Zenon DEF ChunksOf
<1> QED
    BY <1>1, <1>2, <1>3, <1>8, <1>9, Zenon

\* The plan of a read has every slot the read decrypts.
LEMMA PlanHasSlots ==
    ASSUME NEW o \in Object, Probe(o) # NoPlan, NEW off \in Nat, NEW len \in Nat,
           NEW c \in Touches(o.fileSize, off, len)
    PROVE  Available(PlanRead(o.size, off, len), RafLen + c * Record, RafLen + (c + 1) * Record)
<1>1. PICK f \in Nat, n \in Nat :
        /\ f = o.fileSize /\ n = ChunksOf(f) /\ ContainerChunkCount(o.size) = n
        /\ f > 0 => n = ((f - 1) \div ChunkSize) + 1
    BY CountIsChunks
<1>2. /\ c \in 0..n /\ len > 0 /\ off < f /\ c >= off \div ChunkSize
      /\ c <= (Smaller(off + len, f) - 1) \div ChunkSize
    BY <1>1 DEF Touches
<1>3. PICK a \in Nat, m \in Nat, y \in Nat :
        /\ a = Smaller(off + len, f) - 1 /\ m = off + len - 1 /\ y = f - 1 /\ a <= m /\ a <= y /\ off <= y
    BY <1>2 DEF Smaller
<1>4. PICK first \in Nat, x \in Nat, l \in Nat, u \in Nat :
        /\ first = off \div ChunkSize /\ x = a \div ChunkSize
        /\ l = m \div ChunkSize /\ u = y \div ChunkSize
        /\ x <= l /\ x <= u /\ first <= u
  <2>0. ChunkSize \in Nat \ {0}
    BY ContainerAssumption
  <2>1. a \div ChunkSize <= m \div ChunkSize /\ a \div ChunkSize \in Nat /\ m \div ChunkSize \in Nat
    BY <1>3, <2>0, DivMono, Zenon
  <2>2. a \div ChunkSize <= y \div ChunkSize /\ y \div ChunkSize \in Nat
    BY <1>3, <2>0, DivMono, Zenon
  <2>3. off \div ChunkSize <= y \div ChunkSize /\ off \div ChunkSize \in Nat
    BY <1>3, <2>0, DivMono, Zenon
  <2> QED
    BY <2>1, <2>2, <2>3, Zenon
<1>5. n = u + 1
    BY <1>1, <1>2, <1>3, <1>4
<1>6. c \in Nat /\ first <= c /\ c <= x
    BY <1>2, <1>3, <1>4
<1>7. PICK last \in Nat : last = Smaller(l, n - 1) /\ c <= last
    BY <1>4, <1>5, <1>6 DEF Smaller
<1>8. PlanRead(o.size, off, len) =
        [base |-> RafLen + first * Record, end |-> RafLen + (last + 1) * Record]
  <2>1. n # NoPlan
    BY ContainerAssumption
  <2>2. ~(len = 0 \/ n = 0 \/ first >= n)
    BY <1>2, <1>4, <1>5
  <2>3. last = Smaller((off + len - 1) \div ChunkSize, n - 1)
    BY <1>3, <1>4, <1>7, Zenon
  <2> QED
    BY <1>1, <1>4, <2>1, <2>2, <2>3 DEF PlanRead
<1>9. Record \in Nat
    BY ContainerAssumption DEF Record
<1>10. first * Record <= c * Record /\ first * Record \in Nat /\ c * Record \in Nat
    BY <1>6, <1>9, MulMono
<1>11. (c + 1) * Record <= (last + 1) * Record /\ (c + 1) * Record \in Nat /\ (last + 1) * Record \in Nat
  <2>1. PICK i \in Nat, j \in Nat : i = c + 1 /\ j = last + 1 /\ i <= j
    BY <1>6, <1>7
  <2>2. i * Record <= j * Record /\ i * Record \in Nat /\ j * Record \in Nat
    BY <1>9, <2>1, MulMono
  <2> QED
    BY <2>1, <2>2, Zenon
<1>12. RafLen + c * Record >= RafLen + first * Record
    BY <1>10, ContainerAssumption
<1>13. RafLen + (c + 1) * Record <= RafLen + (last + 1) * Record
    BY <1>11, ContainerAssumption
<1>14. PICK plan : plan = PlanRead(o.size, off, len) /\ plan.base = RafLen + first * Record
                   /\ plan.end = RafLen + (last + 1) * Record
    BY <1>8
<1> QED
    BY <1>12, <1>13, <1>14, Zenon DEF Available

\* So decryption succeeds, with the bytes there are.
LEMMA Decrypts ==
    ASSUME NEW o \in Object, Probe(o) # NoPlan, NEW off \in Nat, NEW len \in Nat
    PROVE  DecryptRead(o, PlanRead(o.size, off, len), off, len) =
             IF off < o.fileSize THEN Smaller(len, o.fileSize - off) ELSE 0
    BY PlanHasSlots, Zenon DEF DecryptRead

\* A plan of which all came is the plan.
LEMMA WholePlan ==
    ASSUME NEW size, NEW off, NEW len, PlanRead(size, off, len) # NoPlan
    PROVE  [PlanRead(size, off, len) EXCEPT !.end = PlanRead(size, off, len).end]
             = PlanRead(size, off, len)
<1>1. \E a, b : PlanRead(size, off, len) = [base |-> a, end |-> b]
    BY DEF PlanRead
<1>2. PICK a, b : PlanRead(size, off, len) = [base |-> a, end |-> b]
    BY <1>1
<1>3. [[base |-> a, end |-> b] EXCEPT !.end = b] = [base |-> a, end |-> b]
    OBVIOUS
<1>4. PlanRead(size, off, len).end = b
    BY <1>2
<1> QED
    BY <1>2, <1>3, <1>4

\* encrypted_read answers what the file has there, unless a stream ended early.
LEMMA EncryptedReadStep ==
    ASSUME IInv, NEW off \in 0..FileSize, NEW size \in Sizes, NEW end \in Nat,
           EncryptedRead(off, size, end)
    PROVE  Preserved
<1>1. BufferOk(pf) /\ StreamIsAligned /\ EncryptedOk /\ rd \in ReadState
    BY DEF IInv
<1>2. off \in Nat /\ size \in Nat
    BY ReadAssumption
<1>3. PICK o \in Object : o = enc.object /\ Probe(o) # NoPlan /\ o \in Objects
    BY <1>1, ReadAssumption DEF EncryptedRead, EncryptedOk
<1>4. PICK plan, got :
        /\ plan = PlanRead(o.size, off, size) /\ got = DecryptRead(o, [plan EXCEPT !.end = end], off, size)
        /\ plan # NoPlan /\ end \in plan.base..plan.end
        /\ enc' = [enc EXCEPT !.header = "whole"] /\ pf' = pf
        /\ rd' = CASE got # NoPlan ->
                        [NoRead EXCEPT !.pc = "answer", !.off = off, !.size = size,
                                       !.resp = Positions(off, off + got)]
                   [] got = NoPlan /\ end # plan.end -> NoRead
                   [] OTHER -> [NoRead EXCEPT !.pc = "decrypt_failed"]
    BY <1>3, Zenon DEF EncryptedRead
<1>5. PICK n : n = IF off < o.fileSize THEN Smaller(size, o.fileSize - off) ELSE 0
    OBVIOUS
<1>6. got = n \/ got = NoPlan
    BY <1>4, <1>5 DEF DecryptRead
<1>7. got = NoPlan => end # plan.end
  <2>1. SUFFICES ASSUME end = plan.end PROVE got # NoPlan
    OBVIOUS
  <2>2. [plan EXCEPT !.end = end] = plan
    BY <1>4, <2>1, WholePlan, Zenon
  <2>3. DecryptRead(o, PlanRead(o.size, off, size), off, size) = n
    BY <1>2, <1>3, <1>5, Decrypts
  <2>4. got = n
    BY <1>4, <2>2, <2>3
  <2>5. n \in Nat
    BY <1>2, <1>5 DEF Smaller, Object
  <2> QED
    BY <2>4, <2>5, ContainerAssumption
<1>8. PICK f \in Nat : f = o.fileSize
    BY DEF Object
<1>9. n \in Nat /\ off + n = (IF off >= (IF off + size <= f THEN off + size ELSE f)
                              THEN off ELSE (IF off + size <= f THEN off + size ELSE f))
    BY <1>2, <1>5, <1>8 DEF Smaller
<1>10. off + n = Max({off, Min({off + size, f})})
  <2>1. PICK b \in Nat : b = off + size
    BY <1>2
  <2>2. Min({b, f}) = IF b <= f THEN b ELSE f
    BY MinMax
  <2>3. PICK m \in Nat : m = Min({b, f})
    BY <2>2
  <2>4. Max({off, m}) = IF off >= m THEN off ELSE m
    BY <1>2, MinMax
  <2>5. off + n = IF off >= m THEN off ELSE m
    BY <1>9, <2>1, <2>2, <2>3, Zenon
  <2> QED
    BY <2>1, <2>3, <2>4, <2>5, Zenon
<1>11. PICK resp \in Seq(Nat) : resp = Positions(off, off + n)
  <2>1. PICK e \in Nat : e = off + n /\ off <= e
    BY <1>2, <1>9
  <2> QED
    BY <1>2, <2>1, PositionsSeq
<1>12. /\ enc' \in [object : Objects \cup {None}, header : Header] /\ enc'.object = o /\ o # None
       /\ pf' = pf
  <2>1. "whole" \in Header
    BY DEF Header
  <2> QED
    BY <1>1, <1>3, <1>4, <2>1, NoneAssumption DEF EncryptedOk
<1>13. EndOf' = f
    BY <1>8, <1>12 DEF EndOf
<1>14. BufferOk(pf') /\ StreamIsAligned' /\ (ExactInv => SeekOk(pf'))
    BY <1>1, <1>12 DEF StreamIsAligned, ExactInv
<1>15. CASE got = NoPlan
  <2>1. rd' = NoRead
    BY <1>4, <1>15, <1>7, Zenon
  <2>2. rd'.pc = "idle" /\ rd' \in ReadState
    BY <2>1, ReadAssumption DEF NoRead, ReadState, Strategy
  <2>3. EncryptedOk'
    BY <1>3, <1>12, <2>2 DEF EncryptedOk, ReadIsExact
  <2>4. IInv'
    BY <1>14, <2>2, <2>3 DEF IInv, FetchOk, DecryptSucceeds
  <2> QED
    BY <1>14, <2>2, <2>4 DEF Preserved, ExactInv
<1>16. CASE got # NoPlan
  <2>1. rd' = [NoRead EXCEPT !.pc = "answer", !.off = off, !.size = size, !.resp = resp]
    BY <1>4, <1>6, <1>11, <1>16, Zenon
  <2>2. rd' \in ReadState /\ rd'.pc = "answer" /\ rd'.off = off /\ rd'.size = size /\ rd'.resp = resp
    <3>1. rd' = [pc |-> "answer", off |-> off, size |-> size, resp |-> resp,
                 plan |-> None, fetch |-> 0, stream |-> None, got |-> <<>>, attempt |-> 0]
      BY <2>1 DEF NoRead
    <3>2. <<>> \in Seq(Seq(0..FileSize))
      OBVIOUS
    <3> QED
      BY <1>2, <3>1, <3>2 DEF ReadState, Strategy
  <2>3. rd'.resp = Positions(rd'.off, Max({rd'.off, Min({rd'.off + rd'.size, EndOf'})}))
    BY <1>10, <1>11, <1>13, <2>2, Zenon
  <2>4. ReadIsExact'
    BY <2>3 DEF ReadIsExact
  <2>5. EncryptedOk'
    BY <1>3, <1>12, <2>2, <2>4, Zenon DEF EncryptedOk
  <2>6. IInv'
    BY <1>14, <2>2, <2>5 DEF IInv, FetchOk, DecryptSucceeds
  <2> QED
    BY <1>12, <1>14, <2>2, <2>6 DEF Preserved, ExactInv
<1> QED
    BY <1>15, <1>16

\* encrypted_read fails.
LEMMA EncryptedFailStep ==
    ASSUME IInv, NEW header \in Header, EncryptedFail(header)
    PROVE  Preserved
<1>1. BufferOk(pf) /\ rd \in ReadState /\ StreamIsAligned /\ EncryptedOk
    BY DEF IInv
<1>2. enc.object # None /\ rd.pc = "idle" /\ enc' = [enc EXCEPT !.header = header] /\ pf' = pf /\ rd' = rd
    BY DEF EncryptedFail
<1>3. IInv'
  <2>1. BufferOk(pf') /\ StreamIsAligned' /\ rd' \in ReadState
    BY <1>1, <1>2 DEF StreamIsAligned
  <2>2. enc'.object = enc.object /\ enc' \in [object : Objects \cup {None}, header : Header]
    BY <1>1, <1>2 DEF EncryptedOk
  <2>3. EncryptedOk'
    BY <1>1, <1>2, <2>2 DEF EncryptedOk, ReadIsExact
  <2> QED
    BY <1>2, <2>1, <2>3 DEF IInv, FetchOk, DecryptSucceeds
<1>4. ASSUME ExactInv PROVE ExactInv'
  <2>1. SeekOk(pf')
    BY <1>2, <1>4 DEF ExactInv
  <2> QED
    BY <1>2, <2>1 DEF ExactInv
<1> QED
    BY <1>3, <1>4 DEF Preserved

----------------------------------------------------------------------------
(* The theorems.                                                           *)

\* Every step keeps the invariants.
LEMMA NextStep == IInv /\ [Next]_vars => Preserved
<1>1. SUFFICES ASSUME IInv, [Next]_vars PROVE Preserved
    OBVIOUS
<1>2. CASE Plan
    BY <1>1, <1>2, PlanStep
<1>3. CASE OpenStream
    BY <1>1, <1>3, OpenStreamStep
<1>4. CASE Fetched
    BY <1>1, <1>4, FetchedStep
<1>5. CASE FetchFail
    BY <1>1, <1>5, FetchFailStep
<1>6. CASE Assembled
    BY <1>1, <1>6, AssembledStep
<1>7. CASE Return
    BY <1>1, <1>7, ReturnStep
<1>8. CASE \E n \in ChunkLens : Chunk(n)
    BY <1>1, <1>8, ChunkStep
<1>9. CASE \E off \in 0..FileSize, size \in Sizes :
            \/ Read(off, size)
            \/ enc.object # None /\ \E end \in 0..enc.object.size : EncryptedRead(off, size, end)
  <2>1. PICK off \in 0..FileSize, size \in Sizes :
            \/ Read(off, size)
            \/ \E end \in 0..enc.object.size : EncryptedRead(off, size, end)
    BY <1>9
  <2>2. CASE Read(off, size)
    BY <1>1, <2>2, ReadStep
  <2>3. ASSUME NEW end \in 0..enc.object.size, EncryptedRead(off, size, end) PROVE Preserved
    <3>1. end \in Nat
      OBVIOUS
    <3> QED
      BY <1>1, <2>3, <3>1, EncryptedReadStep
  <2> QED
    BY <2>1, <2>2, <2>3
<1>10. CASE \E header \in Header : EncryptedFail(header)
    BY <1>1, <1>10, EncryptedFailStep
<1>11. CASE UNCHANGED vars
  <2>1. pf' = pf /\ enc' = enc /\ rd' = rd
    BY <1>11 DEF vars
  <2>2. IInv'
    BY <1>1, <2>1 DEF IInv, StreamIsAligned, DecryptSucceeds, FetchOk, EncryptedOk, ReadIsExact,
                      Cursor, ToRead, TotalLen, EndOf
  <2>3. ExactInv => ExactInv'
    BY <2>1 DEF ExactInv, Cursor, ToRead
  <2> QED
    BY <2>2, <2>3 DEF Preserved
<1> QED
    BY <1>1, <1>2, <1>3, <1>4, <1>5, <1>6, <1>7, <1>8, <1>9, <1>10, <1>11 DEF Next, Proceed

\* The counters of the prefetch buffer agree with its chunks and stay inside the
\* file, its window between its bounds, whatever is read and whatever fails.
THEOREM TypeCorrect == Spec => []TypeOK
<1>1. Init => IInv
    BY InitStep
<1>2. IInv /\ [Next]_vars => IInv'
    BY NextStep DEF Preserved
<1>3. IInv => TypeOK
  <2>1. SUFFICES ASSUME IInv PROVE TypeOK
    OBVIOUS
  <2>2. BufferOk(pf) /\ pf \in Prefetch /\ rd \in ReadState /\ EncryptedOk
    BY <2>1 DEF IInv, BufferOk
  <2>3. /\ pf.chunks \in Seq(Seq(0..FileSize)) /\ pf.window \in InitialWindow..MaxWindow
        /\ pf.stream \in 0..FileSize \cup {None}
    BY <2>2 DEF Prefetch
  <2>4. /\ pf.len = Len(Flat(pf.chunks)) - pf.front
        /\ pf.chunks # <<>> => pf.front < Len(pf.chunks[1])
        /\ pf.start + pf.len <= FileSize
    BY <2>2, Zenon DEF BufferOk, BufEnd
  <2>5. /\ rd.pc \in {"idle", "loop", "fetch", "answer", "decrypt_failed"} /\ rd.plan \in Strategy \cup {None}
    BY <2>2 DEF ReadState
  <2>6. enc.object \in Objects \cup {None} /\ enc.header \in Header
    BY <2>2 DEF EncryptedOk
  <2> QED
    BY <2>3, <2>4, <2>5, <2>6, Zenon DEF TypeOK
<1> QED
    BY <1>1, <1>2, <1>3, PTL DEF Spec

\* A stream that is kept for the next sequential read stands at the end of the
\* buffer, or at its own end: no gap, seek, retry or failed fetch leaves one
\* elsewhere.
THEOREM StreamsAreAligned == Spec => []StreamIsAligned
<1>1. Init => IInv
    BY InitStep
<1>2. IInv /\ [Next]_vars => IInv'
    BY NextStep DEF Preserved
<1>3. IInv => StreamIsAligned
    BY DEF IInv
<1> QED
    BY <1>1, <1>2, <1>3, PTL DEF Spec

\* For containers of every chunk size and overhead, the slots plan_read fetches
\* are those the decryption of the read asks for.
THEOREM PlansSuffice == Spec => []DecryptSucceeds
<1>1. Init => IInv
    BY InitStep
<1>2. IInv /\ [Next]_vars => IInv'
    BY NextStep DEF Preserved
<1>3. IInv => DecryptSucceeds
    BY DEF IInv
<1> QED
    BY <1>1, <1>2, <1>3, PTL DEF Spec

\* Of a handle whose first read is at its start (or that never seeks backward,
\* with --direct-io), every read returns exactly the bytes of the file at its
\* offset, and a short one only at the end of the file.
THEOREM ReadsAreExact == FirstAt \subseteq {0} => (Spec => []ReadIsExact)
<1>1. Init => IInv /\ ExactInv
    BY InitStep
<1>2. ASSUME FirstAt \subseteq {0} PROVE IInv /\ ExactInv /\ [Next]_vars => (IInv /\ ExactInv)'
    BY <1>2, NextStep DEF Preserved
<1>3. IInv /\ ExactInv => ReadIsExact
  <2>1. SUFFICES ASSUME IInv, ExactInv, rd.pc = "answer", enc.object = None PROVE ReadIsExact
    BY DEF IInv, EncryptedOk, ReadIsExact
  <2>2. /\ rd \in ReadState /\ rd.resp = Positions(rd.off, Cursor)
        /\ Len(rd.resp) = ToRead
    BY <2>1 DEF IInv, ExactInv
  <2>3. PICK o \in Nat, z \in Nat : o = rd.off /\ z = rd.size /\ o <= FileSize
    BY <2>2, CursorIs
  <2>4. PICK y \in Nat, b \in Nat : y = FileSize - o /\ b = o + z
    BY <2>3, ReadAssumption
  <2>5. PICK t \in Nat : t = Min({z, y}) /\ t = (IF z <= y THEN z ELSE y)
    BY MinMax
  <2>6. PICK m \in Nat : m = Min({b, FileSize}) /\ m = (IF b <= FileSize THEN b ELSE FileSize)
    BY MinMax, ReadAssumption
  <2>7. Max({o, m}) = IF o >= m THEN o ELSE m
    BY MinMax
  <2>8. o + t = Max({o, m})
    <3>1. PICK x : x = Max({o, m}) /\ x = IF o >= m THEN o ELSE m
      BY <2>7, Zenon
    <3>2. /\ x = (IF o >= m THEN o ELSE m) /\ y = FileSize - o /\ b = o + z /\ o <= FileSize
          /\ t = (IF z <= y THEN z ELSE y) /\ m = (IF b <= FileSize THEN b ELSE FileSize)
      BY <2>3, <2>4, <2>5, <2>6, <3>1, Zenon
    <3>3. o + t = x
      BY <3>2, ReadAssumption
    <3> QED
      BY <3>1, <3>3, Zenon
  <2>9. Cursor = o + t /\ EndOf = FileSize
    BY <2>1, <2>2, <2>3, <2>4, <2>5, Zenon DEF Cursor, ToRead, EndOf
  <2> QED
    BY <2>2, <2>3, <2>4, <2>6, <2>8, <2>9, Zenon DEF ReadIsExact
<1>4. SUFFICES ASSUME FirstAt \subseteq {0} PROVE Spec => []ReadIsExact
    OBVIOUS
<1>5. IInv /\ ExactInv /\ [Next]_vars => (IInv /\ ExactInv)'
    BY <1>2, <1>4
<1> QED
    BY <1>1, <1>3, <1>5, PTL DEF Spec
=============================================================================
