--------------------------- MODULE FileCacheProofs ---------------------------
(***************************************************************************)
(* Proofs about FileCache, for any number of mounts, tasks and objects and *)
(* any budget: the index and its byte counter agree, the directory holds   *)
(* whole objects that somebody answers for, and the table of downloads in  *)
(* flight implements SingleFlight.                                         *)
(***************************************************************************)
EXTENDS FileCache, SeqOpsProofs

----------------------------------------------------------------------------
(* The index.                                                              *)

Sizes(s) == [i \in DOMAIN s |-> s[i].size]

\* The sizes of the entries are a sequence of numbers.
LEMMA SizesSeq ==
    ASSUME NEW s \in Seq(Item)
    PROVE  /\ Sizes(s) \in Seq(Nat) /\ Len(Sizes(s)) = Len(s) /\ Bytes(s) = Total(Sizes(s))
           /\ Bytes(s) \in Nat
<1>0. Len(s) \in Nat /\ DOMAIN s = 1..Len(s) /\ \A i \in 1..Len(s) : s[i].size \in Nat
  <2>1. Len(s) \in Nat /\ DOMAIN s = 1..Len(s) /\ \A i \in 1..Len(s) : s[i] \in Item
    OBVIOUS
  <2> QED
    BY <2>1 DEF Item
<1>1. Sizes(s) \in Seq(Nat) /\ Len(Sizes(s)) = Len(s)
    BY <1>0 DEF Sizes
<1>2. Bytes(s) = Total(Sizes(s))
    BY DEF Sizes, Bytes
<1> QED
    BY <1>1, <1>2, TotalSeq

\* The bytes of an index with an entry more, and of two indexes.
LEMMA BytesSeq ==
    ASSUME NEW s \in Seq(Item)
    PROVE  /\ Bytes(<<>>) = 0
           /\ \A e \in Item : Bytes(Append(s, e)) = Bytes(s) + e.size
           /\ \A r \in Seq(Item) : Bytes(s \o r) = Bytes(s) + Bytes(r)
           /\ \A n \in 0..Len(s) :
                /\ SubSeq(s, 1, n) \in Seq(Item) /\ SubSeq(s, n + 1, Len(s)) \in Seq(Item)
                /\ Bytes(s) = Bytes(SubSeq(s, 1, n)) + Bytes(SubSeq(s, n + 1, Len(s)))
<1>0. Sizes(s) \in Seq(Nat) /\ Len(Sizes(s)) = Len(s) /\ Bytes(s) = Total(Sizes(s)) /\ Bytes(s) \in Nat
    BY SizesSeq
<1>1. Bytes(<<>>) = 0
  <2>1. <<>> \in Seq(Item) /\ Sizes(<<>>) = <<>> /\ Bytes(<<>>) = Total(Sizes(<<>>))
    BY DEF Sizes, Bytes
  <2> QED
    BY <1>0, <2>1, TotalSeq
<1>2. ASSUME NEW e \in Item PROVE Bytes(Append(s, e)) = Bytes(s) + e.size
  <2>1. /\ Append(s, e) \in Seq(Item) /\ e.size \in Nat
        /\ Sizes(Append(s, e)) = Append(Sizes(s), e.size)
    BY DEF Sizes, Item
  <2>2. Bytes(Append(s, e)) = Total(Sizes(Append(s, e)))
    BY <2>1, SizesSeq
  <2> QED
    BY <1>0, <2>1, <2>2, TotalSeq
<1>3. ASSUME NEW r \in Seq(Item) PROVE Bytes(s \o r) = Bytes(s) + Bytes(r)
  <2>1. Sizes(r) \in Seq(Nat) /\ Bytes(r) = Total(Sizes(r)) /\ Len(Sizes(r)) = Len(r)
    BY SizesSeq
  <2>2. s \o r \in Seq(Item)
    OBVIOUS
  <2>3. /\ Sizes(s \o r) \in Seq(Nat) /\ Len(Sizes(s \o r)) = Len(s \o r)
        /\ Bytes(s \o r) = Total(Sizes(s \o r))
    BY <2>2, SizesSeq
  <2>4. Sizes(s \o r) = Sizes(s) \o Sizes(r)
    <3>1. Sizes(s) \o Sizes(r) \in Seq(Nat) /\ Len(Sizes(s) \o Sizes(r)) = Len(s \o r)
      <4>1. Len(s \o r) = Len(s) + Len(r)
        OBVIOUS
      <4>2. Sizes(s) \in Seq(Nat) /\ Sizes(r) \in Seq(Nat)
        BY <1>0, <2>1
      <4>3. /\ Sizes(s) \o Sizes(r) \in Seq(Nat)
            /\ Len(Sizes(s) \o Sizes(r)) = Len(Sizes(s)) + Len(Sizes(r))
        BY <4>2, ConcatProperties
      <4> QED
        BY <1>0, <2>1, <4>1, <4>3
    <3>2. ASSUME NEW i \in 1..Len(s \o r) PROVE Sizes(s \o r)[i] = (Sizes(s) \o Sizes(r))[i]
      <4>1. Len(s) \in Nat /\ Len(r) \in Nat /\ Len(s \o r) = Len(s) + Len(r)
        OBVIOUS
      <4>2. CASE i <= Len(s)
        <5>1. Sizes(s \o r)[i] = s[i].size /\ Sizes(s)[i] = s[i].size
          BY <4>1, <4>2 DEF Sizes
        <5> QED
          BY <1>0, <2>1, <4>1, <4>2, <5>1
      <4>3. CASE i > Len(s)
        <5>1. /\ Sizes(s \o r)[i] = r[i - Len(s)].size
              /\ Sizes(r)[i - Len(s)] = r[i - Len(s)].size
          BY <4>1, <4>3 DEF Sizes
        <5> QED
          BY <1>0, <2>1, <4>1, <4>3, <5>1
      <4>4. i <= Len(s) \/ i > Len(s)
        BY <4>1
      <4> QED
        BY <4>2, <4>3, <4>4
    <3> QED
      BY <2>3, <3>1, <3>2, SeqEqual
  <2> QED
    BY <1>0, <2>1, <2>3, <2>4, TotalConcat
<1>4. ASSUME NEW n \in 0..Len(s)
      PROVE  /\ SubSeq(s, 1, n) \in Seq(Item) /\ SubSeq(s, n + 1, Len(s)) \in Seq(Item)
             /\ Bytes(s) = Bytes(SubSeq(s, 1, n)) + Bytes(SubSeq(s, n + 1, Len(s)))
  <2> DEFINE a == SubSeq(s, 1, n)
             b == SubSeq(s, n + 1, Len(s))
  <2>1. a \in Seq(Item) /\ Sizes(a) = SubSeq(Sizes(s), 1, n)
    BY <1>0 DEF Sizes
  <2>2. b \in Seq(Item) /\ Sizes(b) = SubSeq(Sizes(s), n + 1, Len(s))
    BY <1>0 DEF Sizes
  <2> HIDE DEF a, b
  <2>3. Bytes(a) = Total(Sizes(a)) /\ Bytes(b) = Total(Sizes(b))
    BY <2>1, <2>2, SizesSeq
  <2>4. Total(Sizes(s)) = Total(SubSeq(Sizes(s), 1, n)) + Total(SubSeq(Sizes(s), n + 1, Len(s)))
    BY <1>0, TotalSeq
  <2> QED
    BY <1>0, <2>1, <2>2, <2>3, <2>4 DEF a, b
<1> QED
    BY <1>1, <1>2, <1>3, <1>4

\* What is taken out of a sequence and what stays add up to the whole.
LEMMA BytesApart ==
    ASSUME NEW s \in Seq(Item), NEW S, NEW T, \A e \in ToSet(s) : e \in S <=> e \notin T
    PROVE  Bytes(s) = Bytes(Without(s, S)) + Bytes(Without(s, T))
<1>0. Len(s) \in Nat /\ \A n \in 1..Len(s) : s[n] \in Item /\ s[n] \in ToSet(s)
    BY DEF ToSet
<1>1. PICK f \in [0..Len(s) -> Seq(Item)] : Keeps(f, s, S) /\ Without(s, S) = f[Len(s)]
    BY WithoutFcn
<1>2. PICK g \in [0..Len(s) -> Seq(Item)] : Keeps(g, s, T) /\ Without(s, T) = g[Len(s)]
    BY WithoutFcn
<1> DEFINE A == {n \in 0..Len(s) : Bytes(SubSeq(s, 1, n)) = Bytes(f[n]) + Bytes(g[n])}
<1>3. 0 \in A
  <2>1. SubSeq(s, 1, 0) = <<>> /\ f[0] = <<>> /\ g[0] = <<>> /\ 0 \in 0..Len(s)
    BY <1>0, <1>1, <1>2 DEF Keeps
  <2>2. Bytes(<<>>) = 0
    BY BytesSeq
  <2> QED
    BY <2>1, <2>2
<1>4. ASSUME NEW n \in 1..Len(s), n - 1 \in A PROVE n \in A
  <2> DEFINE p == SubSeq(s, 1, n - 1)
             e == s[n]
             F == f[n - 1]
             G == g[n - 1]
  <2>1. /\ n - 1 \in 0..Len(s) /\ e \in Item /\ p \in Seq(Item) /\ F \in Seq(Item) /\ G \in Seq(Item)
        /\ e \in ToSet(s)
    <3>1. n - 1 \in 0..Len(s) /\ e \in Item /\ e \in ToSet(s)
      BY <1>0
    <3>2. p \in Seq(Item)
      BY <1>0
    <3> QED
      BY <3>1, <3>2
  <2>2. SubSeq(s, 1, n) = Append(p, e)
    BY <1>0
  <2>3. /\ f[n] = IF e \in S THEN F ELSE Append(F, e)
        /\ g[n] = IF e \in T THEN G ELSE Append(G, e)
    BY <1>1, <1>2 DEF Keeps
  <2>4. Bytes(p) = Bytes(F) + Bytes(G)
    BY <1>4
  <2> HIDE DEF p, e, F, G
  <2>5. /\ Bytes(Append(p, e)) = Bytes(p) + e.size
        /\ Bytes(Append(F, e)) = Bytes(F) + e.size
        /\ Bytes(Append(G, e)) = Bytes(G) + e.size
        /\ Bytes(p) \in Nat /\ Bytes(F) \in Nat /\ Bytes(G) \in Nat /\ e.size \in Nat
    BY <2>1, BytesSeq, SizesSeq DEF Item
  <2>7. Bytes(SubSeq(s, 1, n)) = Bytes(p) + e.size
    BY <2>2, <2>5
  <2>6. Bytes(SubSeq(s, 1, n)) = Bytes(f[n]) + Bytes(g[n])
    <3>1. CASE e \in S
      <4>1. f[n] = F /\ g[n] = Append(G, e)
        BY <2>1, <2>3, <3>1
      <4>2. Bytes(f[n]) = Bytes(F) /\ Bytes(g[n]) = Bytes(G) + e.size
        BY <2>5, <4>1
      <4> QED
        BY <2>4, <2>5, <2>7, <4>2
    <3>2. CASE e \notin S
      <4>1. f[n] = Append(F, e) /\ g[n] = G
        BY <2>1, <2>3, <3>2
      <4>2. Bytes(f[n]) = Bytes(F) + e.size /\ Bytes(g[n]) = Bytes(G)
        BY <2>5, <4>1
      <4> QED
        BY <2>4, <2>5, <2>7, <4>2
    <3> QED
      BY <3>1, <3>2
  <2> QED
    BY <2>6
<1>5. \A n \in 0..Len(s) : n \in A
  <2> HIDE DEF A
  <2> QED
    BY <1>0, <1>3, <1>4, InductTo
<1>6. Len(s) \in A /\ SubSeq(s, 1, Len(s)) = s
    BY <1>0, <1>5
<1> QED
    BY <1>1, <1>2, <1>6

\* The hashes of an index are those of its entries.
LEMMA HashesOf ==
    ASSUME NEW s \in Seq(Item)
    PROVE  Hashes(s) = {e.hash : e \in ToSet(s)} /\ Hashes(s) \subseteq Hash
<1>1. \A i \in DOMAIN s : s[i] \in Item /\ s[i].hash \in Hash
  <2>1. \A i \in DOMAIN s : s[i] \in Item
    OBVIOUS
  <2> QED
    BY <2>1 DEF Item
<1>2. ToSet(s) = {s[i] : i \in DOMAIN s}
    BY DEF ToSet
<1> QED
    BY <1>1, <1>2 DEF Hashes

\* forget() and try_open() on the index: the entry goes with its bytes, or
\* moves to the end.
LEMMA IndexOps ==
    ASSUME NEW s \in Seq(Item), NEW h
    PROVE  /\ Rest(s, h) \in Seq(Item) /\ Touched(s, h) \in Seq(Item)
           /\ Hashes(Rest(s, h)) = Hashes(s) \ {h} /\ Hashes(Touched(s, h)) = Hashes(s)
           /\ Bytes(Rest(s, h)) \in Nat /\ SizeIn(s, h) \in Nat
           /\ Bytes(s) = Bytes(Rest(s, h)) + SizeIn(s, h)
           /\ Bytes(Touched(s, h)) = Bytes(s)
<1> DEFINE E == Entries(s, h)
           C == ToSet(s) \ E
           a == Rest(s, h)
           b == Only(s, h)
<1>1. a = Without(s, E) /\ b = Without(s, C) /\ Touched(s, h) = a \o b /\ SizeIn(s, h) = Bytes(b)
    BY DEF Rest, Only, Touched, SizeIn
<1>2. /\ \A e \in ToSet(s) : e \in E <=> e.hash = h
      /\ \A e \in ToSet(s) : e \in E <=> e \notin C
      /\ E \subseteq ToSet(s)
    BY DEF Entries
<1> HIDE DEF E, C
<1>3. a \in Seq(Item) /\ b \in Seq(Item) /\ ToSet(a) = ToSet(s) \ E /\ ToSet(b) = ToSet(s) \ C
    BY <1>1, WithoutSeq
<1>4. Bytes(s) = Bytes(a) + Bytes(b)
    BY <1>1, <1>2, BytesApart
<1> HIDE DEF a, b
<1>5. Bytes(a) \in Nat /\ Bytes(b) \in Nat /\ Bytes(a \o b) = Bytes(a) + Bytes(b)
    BY <1>3, BytesSeq, SizesSeq
<1>6. a \o b \in Seq(Item) /\ Hashes(a \o b) = Hashes(a) \cup Hashes(b)
  <2>1. a \o b \in Seq(Item)
    BY <1>3
  <2>2. ToSet(a \o b) = ToSet(a) \cup ToSet(b)
    <3>1. /\ Len(a \o b) = Len(a) + Len(b) /\ Len(a) \in Nat /\ Len(b) \in Nat
          /\ \A i \in 1..Len(a) : (a \o b)[i] = a[i]
          /\ \A i \in 1..Len(b) : (a \o b)[Len(a) + i] = b[i]
      BY <1>3
    <3>2. ToSet(a \o b) = {(a \o b)[i] : i \in 1..(Len(a) + Len(b))}
      BY <2>1, <3>1 DEF ToSet
    <3>3. ToSet(a) = {a[i] : i \in 1..Len(a)} /\ ToSet(b) = {b[i] : i \in 1..Len(b)}
      BY <1>3 DEF ToSet
    <3>4. ASSUME NEW i \in 1..(Len(a) + Len(b)) PROVE (a \o b)[i] \in ToSet(a) \cup ToSet(b)
      <4>1. CASE i <= Len(a)
        BY <3>1, <3>3, <4>1
      <4>2. CASE i > Len(a)
        <5>1. i - Len(a) \in 1..Len(b) /\ Len(a) + (i - Len(a)) = i
          BY <3>1, <4>2
        <5> QED
          BY <3>1, <3>3, <5>1
      <4>3. i <= Len(a) \/ i > Len(a)
        BY <3>1
      <4> QED
        BY <4>1, <4>2, <4>3
    <3>5. \A i \in 1..Len(a) : i \in 1..(Len(a) + Len(b))
      BY <3>1
    <3>6. \A i \in 1..Len(b) : Len(a) + i \in 1..(Len(a) + Len(b))
      BY <3>1
    <3> HIDE DEF a
    <3>7. ToSet(a) \subseteq ToSet(a \o b)
      BY <3>1, <3>2, <3>3, <3>5
    <3>8. ToSet(b) \subseteq ToSet(a \o b)
      BY <3>1, <3>2, <3>3, <3>6
    <3> QED
      BY <3>2, <3>4, <3>7, <3>8
  <2> QED
    BY <1>3, <2>1, <2>2, HashesOf
<1>7. Hashes(a) = Hashes(s) \ {h} /\ Hashes(a) \cup Hashes(b) = Hashes(s)
    BY <1>2, <1>3, HashesOf
<1> QED
    BY <1>1, <1>3, <1>4, <1>5, <1>6, <1>7 DEF a, b

\* The eviction takes a number of entries that there are.
LEMMA VictimsIn ==
    ASSUME NEW s \in Seq(Item), NEW b
    PROVE  Victims(s, b) \in 0..Len(s)
<1> DEFINE T == {n \in 0..Len(s) : b - Bytes(SubSeq(s, 1, n)) <= Capacity \/ n = Len(s)}
<1>0. Len(s) \in Nat
    OBVIOUS
<1>1. T \subseteq Nat /\ T \subseteq 0..Len(s) /\ Len(s) \in T
    BY <1>0
<1>2. Victims(s, b) = Min(T)
    BY DEF Victims
<1> HIDE DEF T
<1>3. \E m \in T : \A n \in T : m <= n
    BY <1>1, MinNat
<1>4. Min(T) \in T
    BY <1>3 DEF Min
<1> QED
    BY <1>1, <1>2, <1>4

\* An index in two parts: every hash is in one of them.
LEMMA HashesSplit ==
    ASSUME NEW s \in Seq(Item), NEW n \in 0..Len(s)
    PROVE  /\ Hashes(SubSeq(s, 1, n)) \cup Hashes(SubSeq(s, n + 1, Len(s))) = Hashes(s)
<1> DEFINE a == SubSeq(s, 1, n)
           b == SubSeq(s, n + 1, Len(s))
           N == Len(s)
<1>0. N \in Nat /\ n \in Nat /\ n <= N /\ DOMAIN s = 1..N
    OBVIOUS
<1>1. DOMAIN a = 1..n /\ \A i \in 1..n : a[i] = s[i]
    BY <1>0
<1>2. DOMAIN b = 1..(N - n) /\ \A i \in 1..(N - n) : b[i] = s[n + i]
    BY <1>0
<1> HIDE DEF a, b, N
<1>3. Hashes(a) = {s[i].hash : i \in 1..n}
    BY <1>1 DEF Hashes
<1>4. Hashes(b) = {s[n + i].hash : i \in 1..(N - n)}
    BY <1>2 DEF Hashes
<1>5. Hashes(s) = {s[i].hash : i \in 1..N}
    BY <1>0 DEF Hashes
<1>6. ASSUME NEW x \in Hashes(s) PROVE x \in Hashes(a) \cup Hashes(b)
  <2>1. PICK i \in 1..N : x = s[i].hash
    BY <1>5
  <2>2. CASE i <= n
    BY <1>0, <1>3, <2>1, <2>2
  <2>3. CASE i > n
    <3>1. i - n \in 1..(N - n) /\ n + (i - n) = i
      BY <1>0, <2>3
    <3> QED
      BY <1>4, <2>1, <3>1
  <2>4. i <= n \/ i > n
    BY <1>0
  <2> QED
    BY <2>2, <2>3, <2>4
<1>7. ASSUME NEW x \in Hashes(a) \cup Hashes(b) PROVE x \in Hashes(s)
  <2>1. \A i \in 1..n : i \in 1..N
    BY <1>0
  <2>2. \A i \in 1..(N - n) : n + i \in 1..N
    BY <1>0
  <2> QED
    BY <1>3, <1>4, <1>5, <2>1, <2>2
<1> QED
    BY <1>6, <1>7 DEF a, b, N

\* What Publish makes of an index r whose bytes are counted right: with the
\* entry, the bytes it then takes, and how many entries have to go.
Grown(r, h) == Append(Rest(r, h), [hash |-> h, size |-> Size[h]])
GrownBytes(r, h) == Saturating(Bytes(r) - SizeIn(r, h)) + Size[h]
Excess(r, h) ==
    IF GrownBytes(r, h) <= Capacity THEN 0 ELSE Victims(Grown(r, h), GrownBytes(r, h))
Evicted(r, h) == SubSeq(Grown(r, h), 1, Excess(r, h))
Kept(r, h) == SubSeq(Grown(r, h), Excess(r, h) + 1, Len(Grown(r, h)))

\* The counter is right again, and no hash is lost between what is kept and
\* what is evicted.
LEMMA PublishOps ==
    ASSUME NEW r \in Seq(Item), NEW h \in Hash
    PROVE  /\ Kept(r, h) \in Seq(Item) /\ Bytes(Kept(r, h)) \in Nat
           /\ Saturating(GrownBytes(r, h) - Bytes(Evicted(r, h))) = Bytes(Kept(r, h))
           /\ Hashes(Evicted(r, h)) \cup Hashes(Kept(r, h)) = Hashes(r) \cup {h}
           /\ Hashes(Evicted(r, h)) \subseteq Hash
<1> DEFINE s == Grown(r, h)
           b == GrownBytes(r, h)
           n == Excess(r, h)
<1>0. /\ s = Append(Rest(r, h), [hash |-> h, size |-> Size[h]])
      /\ b = Saturating(Bytes(r) - SizeIn(r, h)) + Size[h]
      /\ n = IF b <= Capacity THEN 0 ELSE Victims(s, b)
      /\ Evicted(r, h) = SubSeq(s, 1, n) /\ Kept(r, h) = SubSeq(s, n + 1, Len(s))
    BY DEF Grown, GrownBytes, Excess, Evicted, Kept
<1> HIDE DEF s, b, n
<1> DEFINE e == [hash |-> h, size |-> Size[h]]
           q == Rest(r, h)
<1>1. e \in Item /\ e.hash = h /\ e.size = Size[h] /\ Size[h] \in Nat
    BY SizeAssumption DEF Item
<1>2. /\ q \in Seq(Item) /\ Hashes(q) = Hashes(r) \ {h} /\ Bytes(q) \in Nat /\ SizeIn(r, h) \in Nat
      /\ Bytes(r) = Bytes(q) + SizeIn(r, h)
    BY IndexOps
<1>3. s = Append(q, e)
    BY <1>0
<1> HIDE DEF e, q
<1>4. s \in Seq(Item) /\ Bytes(s) = Bytes(q) + Size[h] /\ Bytes(s) \in Nat
  <2>1. s \in Seq(Item)
    <3>1. Append(q, e) \in Seq(Item)
      BY <1>1, <1>2, AppendProperties
    <3> QED
      BY <1>3, <3>1
  <2>2. Bytes(s) = Bytes(q) + e.size
    BY <1>1, <1>2, <1>3, BytesSeq
  <2> QED
    BY <1>1, <1>2, <2>1, <2>2
<1>5. b = Bytes(s)
    BY <1>0, <1>1, <1>2, <1>4 DEF Saturating
<1>6. n \in 0..Len(s)
  <2>1. Victims(s, b) \in 0..Len(s)
    BY <1>4, VictimsIn
  <2>2. 0 \in 0..Len(s)
    BY <1>4, LenProperties
  <2> QED
    BY <1>0, <2>1, <2>2
<1>7. Hashes(s) = Hashes(r) \cup {h} /\ Hashes(s) \subseteq Hash
  <2>1. ToSet(s) = ToSet(q) \cup {e}
    <3>1. ToSet(Append(q, e)) = ToSet(q) \cup {e}
      BY <1>1, <1>2, ToSetAppend
    <3> QED
      BY <1>3, <3>1
  <2>2. Hashes(s) = {x.hash : x \in ToSet(s)} /\ Hashes(q) = {x.hash : x \in ToSet(q)}
    BY <1>2, <1>4, HashesOf
  <2>3. Hashes(s) = Hashes(q) \cup {h}
    BY <1>1, <2>1, <2>2
  <2>4. Hashes(r) \subseteq Hash
    BY HashesOf
  <2> QED
    BY <1>2, <2>3, <2>4
<1>8. /\ SubSeq(s, 1, n) \in Seq(Item) /\ SubSeq(s, n + 1, Len(s)) \in Seq(Item)
      /\ Bytes(s) = Bytes(SubSeq(s, 1, n)) + Bytes(SubSeq(s, n + 1, Len(s)))
    BY <1>4, <1>6, BytesSeq
<1>9. Bytes(SubSeq(s, 1, n)) \in Nat /\ Bytes(SubSeq(s, n + 1, Len(s))) \in Nat
    BY <1>8, SizesSeq
<1>10. Hashes(SubSeq(s, 1, n)) \cup Hashes(SubSeq(s, n + 1, Len(s))) = Hashes(s)
    BY <1>4, <1>6, HashesSplit
<1>11. Saturating(b - Bytes(SubSeq(s, 1, n))) = Bytes(SubSeq(s, n + 1, Len(s)))
    BY <1>5, <1>8, <1>9 DEF Saturating
<1> QED
    BY <1>0, <1>7, <1>8, <1>9, <1>10, <1>11 DEF b

\* The files a mount finds when it starts: each is in the new index.
LEMMA RestartOps ==
    ASSUME disk \in [Hash -> Nat \cup {None}], NEW found,
           found = {[hash |-> h, size |-> disk[h]] : h \in {x \in Hash : disk[x] # None}},
           NEW s \in SetToSeqs(found)
    PROVE  s \in Seq(Item) /\ \A h \in Hash : disk[h] # None => h \in Hashes(s)
<1> DEFINE X == {x \in Hash : disk[x] # None}
           f == [h \in X |-> [hash |-> h, size |-> disk[h]]]
           N == Cardinality(found)
<1>1. IsFiniteSet(X)
  <2>1. X \subseteq Hash
    OBVIOUS
  <2> HIDE DEF X
  <2> QED
    BY <2>1, HashAssumption, FS_Subset
<1>2. f \in Surjection(X, found)
    BY DEF Surjection
<1>3. IsFiniteSet(found) /\ N \in Nat
  <2> HIDE DEF f, X
  <2> QED
    BY <1>1, <1>2, FS_Surjection, FS_CardinalityType
<1>4. s \in [1..N -> found] /\ \A i, j \in 1..N : i # j => s[i] # s[j]
    BY DEF SetToSeqs
<1>5. s \in Surjection(1..N, found)
  <2>1. s \in Injection(1..N, found)
    BY <1>4 DEF Injection, IsInjective
  <2>2. Cardinality(1..N) = N
    BY <1>3, FS_Interval
  <2> HIDE DEF N
  <2> QED
    BY <1>3, <2>1, <2>2, FS_Injection DEF N
<1>6. found \subseteq Item
    BY NoneAssumption DEF Item
<1>7. s \in Seq(Item) /\ DOMAIN s = 1..N
  <2> HIDE DEF N
  <2> QED
    BY <1>3, <1>4, <1>6
<1>8. ASSUME NEW h \in Hash, disk[h] # None PROVE h \in Hashes(s)
  <2>1. [hash |-> h, size |-> disk[h]] \in found
    BY <1>8
  <2>2. PICK i \in 1..N : s[i] = [hash |-> h, size |-> disk[h]]
    BY <1>5, <2>1 DEF Surjection
  <2>3. s[i].hash = h
    BY <2>2
  <2> QED
    BY <1>7, <2>3 DEF Hashes
<1> QED
    BY <1>7, <1>8

----------------------------------------------------------------------------
(* The table of downloads in flight.                                       *)

Leading == {"lead", "fetch", "publish", "reap"}
Leads(t, m, h) == task[t].pc \in Leading /\ Home[t] = m /\ task[t].hash = h

\* A task that downloads or waits is on an object in the table, and the object
\* has one that downloads it.
FlightInv ==
    /\ \A t \in Task : task[t].pc \in Leading \cup {"wait"} => task[t].hash \in inflight[Home[t]]
    /\ \A m \in Mount : \A h \in inflight[m] : \E t \in Task : Leads(t, m, h)
    /\ \A m \in Mount, h \in Hash, t, u \in Task : Leads(t, m, h) /\ Leads(u, m, h) => t = u

\* The choice of a member of a set that has at most one.
LEMMA OnlyOne ==
    ASSUME NEW L \in SUBSET Task, \A t, u \in L : t = u,
           NEW x, x = IF L = {} THEN None ELSE CHOOSE t \in L : TRUE
    PROVE  /\ x = None <=> L = {}
           /\ x # None => x \in Task
           /\ \A t \in Task : x = t <=> t \in L
<1>1. None \notin Task
    BY NoneAssumption
<1>2. CASE L = {}
    BY <1>1, <1>2
<1>3. CASE L # {}
  <2>1. PICK y \in L : x = y
    BY <1>3
  <2> QED
    BY <1>1, <1>3, <2>1
<1> QED
    BY <1>2, <1>3

\* The task that leads, as the refinement mapping names it.
LEMMA LeaderFacts ==
    ASSUME TypeOK, FlightInv, NEW m \in Mount, NEW h \in Hash
    PROVE  /\ LeaderOf(<<m, h>>) = None <=> h \notin inflight[m]
           /\ LeaderOf(<<m, h>>) # None => LeaderOf(<<m, h>>) \in Task
           /\ \A t \in Task : LeaderOf(<<m, h>>) = t <=> Leads(t, m, h)
<1> DEFINE L == Leaders(m, h)
<1>1. L \in SUBSET Task /\ \A t \in Task : t \in L <=> Leads(t, m, h)
    BY DEF Leaders, Leads, Leading
<1>2. LeaderOf(<<m, h>>) = IF L = {} THEN None ELSE CHOOSE t \in L : TRUE
    BY DEF LeaderOf
<1> HIDE DEF L
<1>3. L = {} <=> h \notin inflight[m]
    BY <1>1 DEF FlightInv, Leads
<1>4. \A t, u \in L : t = u
    BY <1>1 DEF FlightInv
<1> QED
    BY <1>1, <1>2, <1>3, <1>4, OnlyOne

\* ... and after a step.
LEMMA LeaderFactsNext ==
    ASSUME TypeOK', FlightInv', NEW m \in Mount, NEW h \in Hash
    PROVE  /\ LeaderOf(<<m, h>>)' = None <=> h \notin inflight'[m]
           /\ LeaderOf(<<m, h>>)' # None => LeaderOf(<<m, h>>)' \in Task
           /\ \A t \in Task : LeaderOf(<<m, h>>)' = t <=> Leads(t, m, h)'
<1> DEFINE L == Leaders(m, h)'
<1>1. L \in SUBSET Task /\ \A t \in Task : t \in L <=> Leads(t, m, h)'
    BY DEF Leaders, Leads, Leading
<1>2. LeaderOf(<<m, h>>)' = IF L = {} THEN None ELSE CHOOSE t \in L : TRUE
    BY DEF LeaderOf
<1> HIDE DEF L
<1>3. L = {} <=> h \notin inflight'[m]
    BY <1>1 DEF FlightInv, Leads
<1>4. \A t, u \in L : t = u
    BY <1>1 DEF FlightInv
<1> QED
    BY <1>1, <1>2, <1>3, <1>4, OnlyOne

TheLeader == [k \in Mount \X Hash |-> LeaderOf(k)]
TheWaiting == [t \in Task |-> WaitsFor(t)]

\* The table does not change for a step that leaves the downloads as they are.
LEMMA KeepFlight ==
    ASSUME TypeOK, TypeOK', FlightInv, inflight' = inflight,
           \A u \in Task : /\ task'[u].pc \in Leading <=> task[u].pc \in Leading
                           /\ task[u].pc \in Leading => task'[u].hash = task[u].hash
                           /\ task'[u].pc = "wait" <=> task[u].pc = "wait"
                           /\ task[u].pc = "wait" => task'[u].hash = task[u].hash
    PROVE  FlightInv' /\ UNCHANGED Flight!vars
<1>1. \A u \in Task, m \in Mount, h \in Hash : Leads(u, m, h)' <=> Leads(u, m, h)
    BY DEF Leads
<1>2. \A m \in Mount : inflight[m] \subseteq Hash
    BY DEF TypeOK
<1>3. FlightInv'
  <2>1. \A t \in Task : task'[t].pc \in Leading \cup {"wait"} => task'[t].hash \in inflight'[Home[t]]
    BY DEF FlightInv
  <2>2. \A m \in Mount : \A h \in inflight'[m] : \E t \in Task : Leads(t, m, h)'
    BY <1>1, <1>2 DEF FlightInv
  <2>3. \A m \in Mount, h \in Hash, t, u \in Task : Leads(t, m, h)' /\ Leads(u, m, h)' => t = u
    BY <1>1 DEF FlightInv
  <2> QED
    BY <2>1, <2>2, <2>3 DEF FlightInv
<1>4. \A k \in Mount \X Hash : LeaderOf(k)' = LeaderOf(k)
  <2> SUFFICES ASSUME NEW m \in Mount, NEW h \in Hash PROVE LeaderOf(<<m, h>>)' = LeaderOf(<<m, h>>)
    OBVIOUS
  <2>1. /\ LeaderOf(<<m, h>>) = None <=> h \notin inflight[m]
        /\ LeaderOf(<<m, h>>) # None => LeaderOf(<<m, h>>) \in Task
        /\ \A t \in Task : LeaderOf(<<m, h>>) = t <=> Leads(t, m, h)
    BY LeaderFacts
  <2>2. /\ LeaderOf(<<m, h>>)' = None <=> h \notin inflight'[m]
        /\ LeaderOf(<<m, h>>)' # None => LeaderOf(<<m, h>>)' \in Task
        /\ \A t \in Task : LeaderOf(<<m, h>>)' = t <=> Leads(t, m, h)'
    BY <1>3, LeaderFactsNext
  <2> QED
    BY <1>1, <2>1, <2>2
<1>5. \A t \in Task : WaitsFor(t)' = WaitsFor(t)
    BY DEF WaitsFor
<1>6. TheLeader' = TheLeader /\ TheWaiting' = TheWaiting
    BY <1>4, <1>5 DEF TheLeader, TheWaiting
<1> QED
    BY <1>3, <1>6 DEF Flight!vars, TheLeader, TheWaiting

\* A download ends, and all who wait for it go on.
LEMMA DropFlight ==
    ASSUME TypeOK, TypeOK', FlightInv, NEW t \in Task, task[t].pc \in Leading, task[t].hash \in Hash,
           DropGuard(t)
    PROVE  FlightInv' /\ Flight!Next
<1> DEFINE m == Home[t]
           h == task[t].hash
           k == <<m, h>>
<1>0. m \in Mount /\ h \in Hash /\ k \in Mount \X Hash
    BY HomeAssumption
<1>1. /\ inflight' = [inflight EXCEPT ![m] = @ \ {h}]
      /\ \A u \in Task : task'[u] = IF \/ u = t
                                       \/ Home[u] = m /\ task[u].pc = "wait" /\ task[u].hash = h
                                    THEN Idle ELSE task[u]
    BY DEF DropGuard, Broadcast
<1>2. /\ inflight'[m] = inflight[m] \ {h} /\ \A n \in Mount \ {m} : inflight'[n] = inflight[n]
      /\ \A n \in Mount : inflight[n] \subseteq Hash
    BY <1>0, <1>1 DEF TypeOK
<1>3. Leads(t, m, h) /\ Idle.pc = "idle" /\ "idle" \notin Leading \cup {"wait"} /\ "wait" \notin Leading
    BY DEF Leads, Idle, Leading
<1>4. \A u \in Task, n \in Mount, g \in Hash :
            Leads(u, n, g)' <=> Leads(u, n, g) /\ <<n, g>> # k
  <2> SUFFICES ASSUME NEW u \in Task, NEW n \in Mount, NEW g \in Hash
               PROVE  Leads(u, n, g)' <=> Leads(u, n, g) /\ ~(n = m /\ g = h)
    OBVIOUS
  <2>1. CASE u = t
    <3>1. task'[u] = Idle
      BY <1>1, <2>1
    <3> QED
      BY <1>3, <2>1, <3>1 DEF Leads
  <2>2. CASE u # t
    <3>1. ~Leads(u, m, h)
      BY <1>0, <1>3, <2>2 DEF FlightInv
    <3>2. CASE task'[u] = task[u]
      BY <3>1, <3>2 DEF Leads
    <3>3. CASE task'[u] = Idle /\ task[u].pc = "wait"
      BY <1>3, <3>3 DEF Leads
    <3> QED
      BY <1>1, <2>2, <3>2, <3>3
  <2> QED
    BY <2>1, <2>2
<1>5. FlightInv'
  <2>1. ASSUME NEW u \in Task, task'[u].pc \in Leading \cup {"wait"}
        PROVE  task'[u].hash \in inflight'[Home[u]]
    <3>0. Home[u] \in Mount
      BY HomeAssumption
    <3>1. /\ task'[u] = task[u] /\ u # t
          /\ ~(Home[u] = m /\ task[u].pc = "wait" /\ task[u].hash = h)
      BY <1>1, <1>3, <2>1
    <3>2. task[u].hash \in inflight[Home[u]]
      BY <2>1, <3>1 DEF FlightInv
    <3>3. ~(Home[u] = m /\ task[u].hash = h)
      <4>1. ~Leads(u, m, h)
        BY <1>0, <1>3, <3>1 DEF FlightInv
      <4> QED
        BY <2>1, <3>1, <4>1 DEF Leads
    <3> QED
      BY <1>2, <3>0, <3>1, <3>2, <3>3
  <2>2. ASSUME NEW n \in Mount, NEW g \in inflight'[n] PROVE \E u \in Task : Leads(u, n, g)'
    <3>1. g \in inflight[n] /\ g \in Hash /\ <<n, g>> # k
      BY <1>2
    <3>2. PICK u \in Task : Leads(u, n, g)
      BY <3>1 DEF FlightInv
    <3> QED
      BY <1>4, <3>1, <3>2
  <2>3. \A n \in Mount, g \in Hash, u, v \in Task : Leads(u, n, g)' /\ Leads(v, n, g)' => u = v
    BY <1>4 DEF FlightInv
  <2> QED
    BY <2>1, <2>2, <2>3 DEF FlightInv
<1>6. ASSUME NEW n \in Mount, NEW g \in Hash
      PROVE  LeaderOf(<<n, g>>)' = IF <<n, g>> = k THEN None ELSE LeaderOf(<<n, g>>)
  <2>1. /\ LeaderOf(<<n, g>>) = None <=> g \notin inflight[n]
        /\ LeaderOf(<<n, g>>) # None => LeaderOf(<<n, g>>) \in Task
        /\ \A u \in Task : LeaderOf(<<n, g>>) = u <=> Leads(u, n, g)
    BY LeaderFacts
  <2>2. /\ LeaderOf(<<n, g>>)' = None <=> g \notin inflight'[n]
        /\ LeaderOf(<<n, g>>)' # None => LeaderOf(<<n, g>>)' \in Task
        /\ \A u \in Task : LeaderOf(<<n, g>>)' = u <=> Leads(u, n, g)'
    BY <1>5, LeaderFactsNext
  <2> QED
    BY <1>2, <1>4, <2>1, <2>2
<1>7. ASSUME NEW u \in Task
      PROVE  WaitsFor(u)' = IF WaitsFor(u) = k THEN None ELSE WaitsFor(u)
  <2>0. None # k
    BY <1>0, NoneAssumption
  <2>1. CASE task[u].pc = "wait"
    <3>1. WaitsFor(u) = <<Home[u], task[u].hash>> /\ u # t
      BY <1>3, <2>1 DEF WaitsFor
    <3>2. CASE Home[u] = m /\ task[u].hash = h
      <4>1. task'[u] = Idle
        BY <1>1, <2>1, <3>2
      <4> QED
        BY <1>3, <3>1, <3>2, <4>1 DEF WaitsFor
    <3>3. CASE ~(Home[u] = m /\ task[u].hash = h)
      <4>1. task'[u] = task[u]
        BY <1>1, <3>1, <3>3
      <4> QED
        BY <3>1, <3>3, <4>1 DEF WaitsFor
    <3> QED
      BY <3>2, <3>3
  <2>2. CASE task[u].pc # "wait"
    <3>1. WaitsFor(u) = None
      BY <2>2 DEF WaitsFor
    <3>2. task'[u].pc # "wait"
      BY <1>1, <1>3, <2>2
    <3> QED
      BY <2>0, <3>1, <3>2 DEF WaitsFor
  <2> QED
    BY <2>1, <2>2
<1>8. Flight!Finish({k})
  <2>1. TheLeader' = [j \in Mount \X Hash |-> IF j \in {k} THEN None ELSE TheLeader[j]]
    BY <1>6 DEF TheLeader
  <2>2. TheWaiting' = [u \in Task |-> IF TheWaiting[u] \in {k} THEN None ELSE TheWaiting[u]]
    BY <1>7 DEF TheWaiting
  <2> QED
    BY <2>1, <2>2 DEF Flight!Finish, TheLeader, TheWaiting
<1>9. {k} \in SUBSET Flight!Fetching
  <2>1. LeaderOf(k) = t
    BY <1>0, <1>3, LeaderFacts
  <2>2. TheLeader[k] # None
    BY <1>0, <2>1, NoneAssumption DEF TheLeader
  <2> QED
    BY <1>0, <2>2 DEF Flight!Fetching, TheLeader
<1> HIDE DEF k
<1> QED
    BY <1>5, <1>8, <1>9 DEF Flight!Next

----------------------------------------------------------------------------
(* The inductive invariant, and what a step of one task does to it.        *)

\* A task is on an object until it returns, and only a task that reaps has
\* files to unlink.
TaskInv ==
    \A t \in Task : /\ task[t].pc # "idle" => task[t].hash \in Hash
                    /\ task[t].pc # "reap" => task[t].victims = {}

IInv == TypeOK /\ Accounting /\ HitsAreWhole /\ NoLeak /\ TaskInv /\ FlightInv

\* Task t is about to insert the entry of object h or to unlink its file.
Answers(t, h) ==
    \/ task[t].pc \in {"publish", "unlink"} /\ task[t].hash = h
    \/ h \in task[t].victims

\* A task goes on with its object.
LEMMA GotoForm ==
    ASSUME TypeOK, NEW t \in Task, NEW p \in Step, task' = Goto(t, p)
    PROVE  /\ task' \in [Task -> TaskState]
           /\ task'[t].pc = p /\ task'[t].hash = task[t].hash /\ task'[t].victims = task[t].victims
           /\ \A u \in Task \ {t} : task'[u] = task[u]
<1>1. task[t] \in TaskState /\ task \in [Task -> TaskState]
    BY DEF TypeOK
<1>2. [task[t] EXCEPT !.pc = p] \in TaskState
    BY <1>1 DEF TaskState
<1>3. task' = [task EXCEPT ![t] = [task[t] EXCEPT !.pc = p]]
    BY <1>1 DEF Goto
<1> QED
    BY <1>1, <1>2, <1>3 DEF TaskState

\* A task starts on an object or returns.
LEMMA PutForm ==
    ASSUME TypeOK, NEW t \in Task, NEW r \in TaskState, task' = [task EXCEPT ![t] = r]
    PROVE  /\ task' \in [Task -> TaskState] /\ task'[t] = r
           /\ \A u \in Task \ {t} : task'[u] = task[u]
    BY DEF TypeOK

\* The states a task is put into.
LEMMA Records ==
    /\ Idle \in TaskState /\ Idle.pc = "idle" /\ Idle.victims = {}
    /\ \A p \in Step, h \in Hash :
            LET r == [pc |-> p, hash |-> h, victims |-> {}] IN
            r \in TaskState /\ r.pc = p /\ r.hash = h /\ r.victims = {}
    BY DEF Idle, TaskState, Step

\* The index, the directory and the tasks that answer for its files.
LEMMA FilesKept ==
    ASSUME TypeOK, NoLeak,
           \A h \in Hash : disk'[h] # None => disk[h] # None,
           \A m \in Mount : Hashes(items[m]) \subseteq Hashes(items'[m]),
           \A u \in Task, h \in Hash : Answers(u, h) => Answers(u, h)' \/ disk'[h] = None
    PROVE  NoLeak'
<1> SUFFICES ASSUME NEW h \in Hash, disk'[h] # None
             PROVE  \/ \E m \in Mount : Cached(m, h)'
                    \/ \E t \in Task : Answers(t, h)'
    BY DEF NoLeak, Answers
<1>1. \/ \E m \in Mount : Cached(m, h)
      \/ \E t \in Task : Answers(t, h)
    BY DEF NoLeak, Answers
<1> QED
    BY <1>1 DEF Cached

\* A step that only moves a task that answers for nothing and leads nothing.
LEMMA TaskMove ==
    ASSUME IInv, NEW t \in Task, task' \in [Task -> TaskState],
           \A u \in Task \ {t} : task'[u] = task[u],
           UNCHANGED <<items, total, inflight, disk>>,
           task[t].pc \notin {"publish", "unlink"}, task[t].victims = {},
           task'[t].pc # "idle" => task'[t].hash \in Hash,
           task'[t].victims = {},
           task'[t].pc \in Leading <=> task[t].pc \in Leading,
           task[t].pc \in Leading => task'[t].hash = task[t].hash,
           task'[t].pc # "wait", task[t].pc # "wait"
    PROVE  IInv' /\ UNCHANGED Flight!vars
<1>1. TypeOK'
    BY DEF IInv, TypeOK
<1>2. Accounting' /\ HitsAreWhole'
    BY DEF IInv, Accounting, HitsAreWhole
<1>3. TaskInv'
    BY DEF IInv, TaskInv
<1>4. NoLeak'
  <2>1. \A u \in Task, h \in Hash : Answers(u, h) => Answers(u, h)'
    BY DEF Answers
  <2>2. \A m \in Mount : Hashes(items[m]) \subseteq Hashes(items'[m])
    OBVIOUS
  <2> QED
    BY <2>1, <2>2, FilesKept DEF IInv
<1>5. \A u \in Task : /\ task'[u].pc \in Leading <=> task[u].pc \in Leading
                      /\ task[u].pc \in Leading => task'[u].hash = task[u].hash
                      /\ task'[u].pc = "wait" <=> task[u].pc = "wait"
                      /\ task[u].pc = "wait" => task'[u].hash = task[u].hash
  <2> TAKE u \in Task
  <2>1. CASE u = t
    BY <2>1
  <2>2. CASE u # t
    BY <2>2
  <2> QED
    BY <2>1, <2>2
<1>6. FlightInv' /\ UNCHANGED Flight!vars
    BY <1>1, <1>5, KeepFlight DEF IInv
<1> QED
    BY <1>1, <1>2, <1>3, <1>4, <1>6 DEF IInv

\* try_open() opens the file of an entry, or finds it gone.
LEMMA OpenFileStep ==
    ASSUME IInv, NEW t \in Task, OpenFile(t)
    PROVE  IInv' /\ UNCHANGED Flight!vars
<1>1. task[t].hash \in Hash /\ task[t].victims = {} /\ task[t].pc = "open" /\ TypeOK
    BY DEF OpenFile, IInv, TaskInv
<1>2. "open" \notin Leading /\ "forget" \notin Leading /\ "idle" \notin Leading /\ "forget" \in Step
    BY DEF Leading, Step
<1>3. UNCHANGED <<items, total, inflight, disk>>
    BY DEF OpenFile
<1>4. CASE task' = Return(t)
  <2>1. /\ task' \in [Task -> TaskState] /\ task'[t] = Idle
        /\ \A u \in Task \ {t} : task'[u] = task[u]
    BY <1>1, <1>4, Records, PutForm DEF Return
  <2> QED
    BY <1>1, <1>2, <1>3, <2>1, Records, TaskMove
<1>5. CASE task' = Goto(t, "forget")
  <2>1. /\ task' \in [Task -> TaskState]
        /\ task'[t].pc = "forget" /\ task'[t].hash = task[t].hash /\ task'[t].victims = task[t].victims
        /\ \A u \in Task \ {t} : task'[u] = task[u]
    BY <1>1, <1>2, <1>5, GotoForm
  <2> QED
    BY <1>1, <1>2, <1>3, <2>1, TaskMove
<1> QED
    BY <1>4, <1>5 DEF OpenFile

\* populate() begins.
LEMMA PopulateStep ==
    ASSUME IInv, NEW t \in Task, NEW h \in Hash, Populate(t, h)
    PROVE  IInv' /\ UNCHANGED Flight!vars
<1>1. task[t].victims = {} /\ task[t].pc = "idle" /\ TypeOK
    BY DEF Populate, IInv, TaskInv
<1>2. "probe" \notin Leading /\ "idle" \notin Leading /\ "probe" \in Step
    BY DEF Leading, Step
<1>3. UNCHANGED <<items, total, inflight, disk>>
    BY DEF Populate
<1> DEFINE r == [pc |-> "probe", hash |-> h, victims |-> {}]
<1>4. r \in TaskState /\ r.pc = "probe" /\ r.hash = h /\ r.victims = {}
    BY <1>2, Records
<1>5. task' = [task EXCEPT ![t] = r]
    BY DEF Populate
<1> HIDE DEF r
<1>6. /\ task' \in [Task -> TaskState] /\ task'[t] = r
      /\ \A u \in Task \ {t} : task'[u] = task[u]
    BY <1>1, <1>4, <1>5, PutForm
<1> QED
    BY <1>1, <1>2, <1>3, <1>4, <1>6, TaskMove

\* The leader of a download gets its permit.
LEMMA AcquireStep ==
    ASSUME IInv, NEW t \in Task, Acquire(t)
    PROVE  IInv' /\ UNCHANGED Flight!vars
<1>1. task[t].hash \in Hash /\ task[t].victims = {} /\ task[t].pc = "lead" /\ TypeOK
    BY DEF Acquire, IInv, TaskInv
<1>2. "lead" \in Leading /\ "fetch" \in Leading /\ "fetch" \in Step
    BY DEF Leading, Step
<1>3. UNCHANGED <<items, total, inflight, disk>> /\ task' = Goto(t, "fetch")
    BY DEF Acquire
<1>4. /\ task' \in [Task -> TaskState]
      /\ task'[t].pc = "fetch" /\ task'[t].hash = task[t].hash /\ task'[t].victims = task[t].victims
      /\ \A u \in Task \ {t} : task'[u] = task[u]
    BY <1>1, <1>2, <1>3, GotoForm
<1> QED
    BY <1>1, <1>2, <1>3, <1>4, TaskMove

\* try_open() looks the hash up and moves it to the end of the order.
LEMMA TryOpenStep ==
    ASSUME IInv, NEW t \in Task, NEW h \in Hash, TryOpen(t, h)
    PROVE  IInv' /\ UNCHANGED Flight!vars
<1> DEFINE m == Home[t]
           r == [pc |-> "open", hash |-> h, victims |-> {}]
<1>1. task[t].victims = {} /\ task[t].pc = "idle" /\ TypeOK /\ m \in Mount
    BY HomeAssumption DEF TryOpen, IInv, TaskInv
<1>2. "open" \notin Leading /\ "idle" \notin Leading /\ "open" \in Step
    BY DEF Leading, Step
<1>3. /\ UNCHANGED <<total, inflight, disk>> /\ task' = [task EXCEPT ![t] = r]
      /\ items' = [items EXCEPT ![m] = Touched(@, h)]
    BY DEF TryOpen
<1>4. r \in TaskState /\ r.pc = "open" /\ r.hash = h /\ r.victims = {}
    BY <1>2, Records
<1> HIDE DEF r, m
<1>5. /\ task' \in [Task -> TaskState] /\ task'[t] = r
      /\ \A u \in Task \ {t} : task'[u] = task[u]
    BY <1>1, <1>3, <1>4, PutForm
<1>6. items \in [Mount -> Seq(Item)] /\ items[m] \in Seq(Item)
    BY <1>1 DEF TypeOK
<1>7. /\ Touched(items[m], h) \in Seq(Item) /\ Hashes(Touched(items[m], h)) = Hashes(items[m])
      /\ Bytes(Touched(items[m], h)) = Bytes(items[m])
    BY <1>6, IndexOps
<1>8. /\ items' \in [Mount -> Seq(Item)]
      /\ \A n \in Mount : Hashes(items'[n]) = Hashes(items[n]) /\ Bytes(items'[n]) = Bytes(items[n])
    BY <1>3, <1>6, <1>7
<1>9. TypeOK' /\ Accounting' /\ HitsAreWhole'
    BY <1>3, <1>5, <1>8 DEF IInv, TypeOK, Accounting, HitsAreWhole
<1>10. TaskInv'
    BY <1>4, <1>5 DEF IInv, TaskInv
<1>11. NoLeak'
  <2>1. \A u \in Task, g \in Hash : Answers(u, g) => Answers(u, g)'
    BY <1>1, <1>5 DEF Answers
  <2> QED
    BY <1>3, <1>8, <2>1, FilesKept DEF IInv
<1>12. \A u \in Task : /\ task'[u].pc \in Leading <=> task[u].pc \in Leading
                       /\ task[u].pc \in Leading => task'[u].hash = task[u].hash
                       /\ task'[u].pc = "wait" <=> task[u].pc = "wait"
                       /\ task[u].pc = "wait" => task'[u].hash = task[u].hash
  <2> TAKE u \in Task
  <2>1. CASE u = t
    BY <1>1, <1>2, <1>4, <1>5, <2>1
  <2>2. CASE u # t
    BY <1>5, <2>2
  <2> QED
    BY <2>1, <2>2
<1>13. FlightInv' /\ UNCHANGED Flight!vars
    BY <1>3, <1>9, <1>12, KeepFlight DEF IInv
<1> QED
    BY <1>9, <1>10, <1>11, <1>13 DEF IInv

\* An entry whose file is gone leaves the index, with its bytes.
LEMMA ForgetStep ==
    ASSUME IInv, NEW t \in Task, Forget(t)
    PROVE  IInv' /\ UNCHANGED Flight!vars
<1> DEFINE m == Home[t]
           h == task[t].hash
           b == Saturating(total[m] - SizeIn(items[m], h))
<1>1. h \in Hash /\ task[t].victims = {} /\ task[t].pc = "forget" /\ TypeOK /\ m \in Mount
    BY HomeAssumption DEF Forget, IInv, TaskInv
<1>2. "forget" \notin Leading /\ "unlink" \notin Leading /\ "unlink" \in Step
    BY DEF Leading, Step
<1>3. /\ UNCHANGED <<inflight, disk>> /\ task' = Goto(t, "unlink")
      /\ items' = [items EXCEPT ![m] = Rest(@, h)]
      /\ total' = [total EXCEPT ![m] = b]
  <2>1. total' = [total EXCEPT ![m] = Saturating(@ - SizeIn(items[m], h))]
    BY DEF Forget
  <2>2. total \in [Mount -> Nat]
    BY <1>1 DEF TypeOK
  <2> QED
    BY <1>1, <2>1, <2>2 DEF Forget
<1>4. /\ task' \in [Task -> TaskState]
      /\ task'[t].pc = "unlink" /\ task'[t].hash = h /\ task'[t].victims = {}
      /\ \A u \in Task \ {t} : task'[u] = task[u]
    BY <1>1, <1>2, <1>3, GotoForm
<1>5. /\ items \in [Mount -> Seq(Item)] /\ items[m] \in Seq(Item)
      /\ total \in [Mount -> Nat] /\ total[m] = Bytes(items[m])
    BY <1>1 DEF TypeOK, IInv, Accounting
<1> HIDE DEF m, h
<1>6. /\ Rest(items[m], h) \in Seq(Item) /\ Hashes(Rest(items[m], h)) = Hashes(items[m]) \ {h}
      /\ Bytes(Rest(items[m], h)) \in Nat /\ SizeIn(items[m], h) \in Nat
      /\ Bytes(items[m]) = Bytes(Rest(items[m], h)) + SizeIn(items[m], h)
    BY <1>5, IndexOps
<1>7. b = Bytes(Rest(items[m], h)) /\ b \in Nat
    BY <1>5, <1>6 DEF Saturating
<1> HIDE DEF b
<1>8. /\ items' \in [Mount -> Seq(Item)] /\ items'[m] = Rest(items[m], h)
      /\ total' \in [Mount -> Nat] /\ total'[m] = b
      /\ \A n \in Mount \ {m} : items'[n] = items[n] /\ total'[n] = total[n]
    BY <1>1, <1>3, <1>5, <1>6, <1>7
<1>9. TypeOK' /\ HitsAreWhole' /\ TaskInv'
  <2>1. TypeOK'
    BY <1>1, <1>3, <1>4, <1>8, SMTT(30) DEF TypeOK
  <2>2. HitsAreWhole'
    BY <1>3, SMTT(30) DEF IInv, HitsAreWhole
  <2>3. ASSUME NEW u \in Task
        PROVE  /\ task'[u].pc # "idle" => task'[u].hash \in Hash
               /\ task'[u].pc # "reap" => task'[u].victims = {}
    BY <1>1, <1>4, SMTT(30) DEF IInv, TaskInv
  <2> QED
    BY <2>1, <2>2, <2>3, <1>3, <1>4 DEF IInv, TaskInv
<1>10. Accounting'
  <2> SUFFICES ASSUME NEW n \in Mount PROVE total'[n] = Bytes(items'[n])
    BY DEF Accounting
  <2>1. total[n] = Bytes(items[n])
    BY DEF IInv, Accounting
  <2> QED
    BY <1>7, <1>8, <2>1
<1>11. NoLeak'
  <2> SUFFICES ASSUME NEW g \in Hash, disk'[g] # None
               PROVE  \/ \E n \in Mount : Cached(n, g)'
                      \/ \E u \in Task : Answers(u, g)'
    BY DEF NoLeak, Answers
  <2>1. CASE g = h
    BY <1>4, <2>1 DEF Answers
  <2>2. CASE g # h
    <3>1. \/ \E n \in Mount : Cached(n, g)
          \/ \E u \in Task : Answers(u, g)
      BY <1>3 DEF IInv, NoLeak, Answers
    <3>2. \A n \in Mount : Cached(n, g) => Cached(n, g)'
      BY <1>6, <1>8, <2>2 DEF Cached
    <3>3. \A u \in Task : Answers(u, g) => Answers(u, g)'
      BY <1>1, <1>4 DEF Answers
    <3> QED
      BY <3>1, <3>2, <3>3
  <2> QED
    BY <2>1, <2>2
<1>12. \A u \in Task : /\ task'[u].pc \in Leading <=> task[u].pc \in Leading
                       /\ task[u].pc \in Leading => task'[u].hash = task[u].hash
                       /\ task'[u].pc = "wait" <=> task[u].pc = "wait"
                       /\ task[u].pc = "wait" => task'[u].hash = task[u].hash
  <2> TAKE u \in Task
  <2>1. CASE u = t
    BY <1>1, <1>2, <1>4, <2>1
  <2>2. CASE u # t
    BY <1>4, <2>2
  <2> QED
    BY <2>1, <2>2
<1>13. FlightInv' /\ UNCHANGED Flight!vars
    BY <1>3, <1>9, <1>12, KeepFlight DEF IInv
<1> QED
    BY <1>9, <1>10, <1>11, <1>13 DEF IInv

\* A file is unlinked, and its task is done with it.
LEMMA UnlinkFile ==
    ASSUME IInv, NEW t \in Task, NEW h \in Hash,
           disk' = [disk EXCEPT ![h] = None], UNCHANGED <<items, total, inflight>>,
           task' \in [Task -> TaskState], TaskInv',
           \A u \in Task \ {t} : task'[u] = task[u],
           \A g \in Hash \ {h} : Answers(t, g) => Answers(t, g)',
           task'[t].pc \in Leading <=> task[t].pc \in Leading,
           task[t].pc \in Leading => task'[t].hash = task[t].hash,
           task'[t].pc # "wait", task[t].pc # "wait"
    PROVE  IInv' /\ UNCHANGED Flight!vars
<1>1. /\ disk \in [Hash -> Nat \cup {None}] /\ disk' \in [Hash -> Nat \cup {None}] /\ disk'[h] = None
      /\ \A g \in Hash \ {h} : disk'[g] = disk[g]
    BY DEF IInv, TypeOK
<1>2. TypeOK' /\ Accounting' /\ HitsAreWhole'
    BY <1>1 DEF IInv, TypeOK, Accounting, HitsAreWhole
<1>3. NoLeak'
  <2>1. \A u \in Task, g \in Hash : Answers(u, g) => Answers(u, g)' \/ disk'[g] = None
    <3> TAKE u \in Task, g \in Hash
    <3>1. CASE g = h
      BY <1>1, <3>1
    <3>2. CASE g # h /\ u = t
      BY <3>2
    <3>3. CASE u # t
      BY <3>3 DEF Answers
    <3> QED
      BY <3>1, <3>2, <3>3
  <2>2. \A g \in Hash : disk'[g] # None => disk[g] # None
    BY <1>1
  <2>3. \A m \in Mount : Hashes(items[m]) \subseteq Hashes(items'[m])
    OBVIOUS
  <2> QED
    BY <2>1, <2>2, <2>3, FilesKept DEF IInv
<1>4. \A u \in Task : /\ task'[u].pc \in Leading <=> task[u].pc \in Leading
                      /\ task[u].pc \in Leading => task'[u].hash = task[u].hash
                      /\ task'[u].pc = "wait" <=> task[u].pc = "wait"
                      /\ task[u].pc = "wait" => task'[u].hash = task[u].hash
  <2> TAKE u \in Task
  <2>1. CASE u = t
    BY <2>1
  <2>2. CASE u # t
    BY <2>2
  <2> QED
    BY <2>1, <2>2
<1>5. FlightInv' /\ UNCHANGED Flight!vars
    BY <1>2, <1>4, KeepFlight DEF IInv
<1> QED
    BY <1>2, <1>3, <1>5 DEF IInv

\* The file of a forgotten entry is removed.
LEMMA ForgetFileStep ==
    ASSUME IInv, NEW t \in Task, ForgetFile(t)
    PROVE  IInv' /\ UNCHANGED Flight!vars
<1>1. task[t].hash \in Hash /\ task[t].victims = {} /\ task[t].pc = "unlink" /\ TypeOK
    BY DEF ForgetFile, IInv, TaskInv
<1>2. "unlink" \notin Leading /\ "idle" \notin Leading
    BY DEF Leading
<1>3. /\ task' \in [Task -> TaskState] /\ task'[t] = Idle
      /\ \A u \in Task \ {t} : task'[u] = task[u]
    BY <1>1, Records, PutForm DEF ForgetFile, Return
<1>4. TaskInv'
    BY <1>3, Records DEF IInv, TaskInv
<1>5. \A g \in Hash \ {task[t].hash} : ~Answers(t, g)
    BY <1>1 DEF Answers
<1>6. disk' = [disk EXCEPT ![task[t].hash] = None] /\ UNCHANGED <<items, total, inflight>>
    BY DEF ForgetFile
<1>7. task'[t].pc = "idle"
    BY <1>3, Records
<1> QED
    BY <1>1, <1>2, <1>3, <1>4, <1>5, <1>6, <1>7, UnlinkFile

\* The file of an evicted entry is removed.
LEMMA ReapStep ==
    ASSUME IInv, NEW t \in Task, NEW h \in Hash, Reap(t, h)
    PROVE  IInv' /\ UNCHANGED Flight!vars
<1>1. task[t].hash \in Hash /\ task[t].pc = "reap" /\ TypeOK
    BY DEF Reap, IInv, TaskInv
<1>2. "reap" \in Leading
    BY DEF Leading
<1>3. /\ task' \in [Task -> TaskState]
      /\ task'[t].pc = "reap" /\ task'[t].hash = task[t].hash
      /\ task'[t].victims = task[t].victims \ {h}
      /\ \A u \in Task \ {t} : task'[u] = task[u]
  <2> DEFINE r == [task[t] EXCEPT !.victims = @ \ {h}]
  <2>1. task[t] \in TaskState /\ task \in [Task -> TaskState]
    BY <1>1 DEF TypeOK
  <2>2. /\ r \in TaskState /\ r.pc = task[t].pc /\ r.hash = task[t].hash
        /\ r.victims = task[t].victims \ {h}
    BY <2>1 DEF TaskState
  <2>3. task' = [task EXCEPT ![t] = r]
    BY <2>1 DEF Reap
  <2> HIDE DEF r
  <2> QED
    BY <1>1, <2>2, <2>3, PutForm
<1>4. TaskInv'
    BY <1>1, <1>3 DEF IInv, TaskInv
<1>5. \A g \in Hash \ {h} : Answers(t, g) => Answers(t, g)'
    BY <1>1, <1>3 DEF Answers
<1>6. disk' = [disk EXCEPT ![h] = None] /\ UNCHANGED <<items, total, inflight>>
    BY DEF Reap
<1> QED
    BY <1>1, <1>2, <1>3, <1>4, <1>5, <1>6, UnlinkFile

\* A downloaded file goes into the index, and the oldest ones are evicted.
LEMMA PublishStep ==
    ASSUME IInv, NEW t \in Task, Publish(t)
    PROVE  IInv' /\ UNCHANGED Flight!vars
<1> DEFINE m == Home[t]
           h == task[t].hash
           V == Hashes(Evicted(items[m], h))
           k == Kept(items[m], h)
           c == Bytes(k)
<1>1. h \in Hash /\ task[t].victims = {} /\ task[t].pc = "publish" /\ TypeOK /\ m \in Mount
    BY HomeAssumption DEF Publish, IInv, TaskInv
<1>2. "publish" \in Leading /\ "reap" \in Leading /\ "reap" \in Step /\ "wait" \notin Leading
    BY DEF Leading, Step
<1>5. /\ items \in [Mount -> Seq(Item)] /\ items[m] \in Seq(Item)
      /\ total \in [Mount -> Nat] /\ total[m] = Bytes(items[m])
    BY <1>1 DEF TypeOK, IInv, Accounting
<1>6. /\ k \in Seq(Item) /\ c \in Nat /\ V \cup Hashes(k) = Hashes(items[m]) \cup {h}
      /\ V \subseteq Hash
      /\ Saturating(GrownBytes(items[m], h) - Bytes(Evicted(items[m], h))) = c
    BY <1>1, <1>5, PublishOps
<1>7. /\ UNCHANGED <<inflight, disk>>
      /\ task' = [task EXCEPT ![t].pc = "reap", ![t].victims = V]
      /\ items' = [items EXCEPT ![m] = k]
      /\ total' = [total EXCEPT ![m] =
                        Saturating(GrownBytes(items[m], h) - Bytes(Evicted(items[m], h)))]
    BY <1>5 DEF Publish, Grown, GrownBytes, Excess, Evicted, Kept
<1>3. /\ UNCHANGED <<inflight, disk>>
      /\ task' = [task EXCEPT ![t].pc = "reap", ![t].victims = V]
      /\ items' = [items EXCEPT ![m] = k]
      /\ total' = [total EXCEPT ![m] = c]
  <2> HIDE DEF V, k, c
  <2> QED
    BY <1>6, <1>7
<1> HIDE DEF V, k, c, m, h
<1>4. /\ task' \in [Task -> TaskState]
      /\ task'[t].pc = "reap" /\ task'[t].hash = h /\ task'[t].victims = V
      /\ \A u \in Task \ {t} : task'[u] = task[u]
  <2> DEFINE r == [task[t] EXCEPT !.pc = "reap", !.victims = V]
  <2>1. task[t] \in TaskState /\ task \in [Task -> TaskState]
    BY <1>1 DEF TypeOK
  <2>2. r \in TaskState /\ r.pc = "reap" /\ r.hash = task[t].hash /\ r.victims = V
    BY <1>2, <1>6, <2>1 DEF TaskState
  <2>3. task' = [task EXCEPT ![t] = r]
    BY <1>3, <2>1
  <2> HIDE DEF r
  <2> QED
    BY <1>1, <2>2, <2>3, PutForm DEF h
<1>8. /\ items' \in [Mount -> Seq(Item)] /\ items'[m] = k
      /\ total' \in [Mount -> Nat] /\ total'[m] = c
      /\ \A j \in Mount \ {m} : items'[j] = items[j] /\ total'[j] = total[j]
    BY <1>1, <1>3, <1>5, <1>6
<1>9. TypeOK' /\ HitsAreWhole' /\ TaskInv'
    BY <1>1, <1>3, <1>4, <1>8 DEF IInv, TypeOK, HitsAreWhole, TaskInv
<1>10. Accounting'
  <2> SUFFICES ASSUME NEW j \in Mount PROVE total'[j] = Bytes(items'[j])
    BY DEF Accounting
  <2>1. total[j] = Bytes(items[j])
    BY DEF IInv, Accounting
  <2> QED
    BY <1>8, <2>1 DEF c
<1>11. NoLeak'
  <2> SUFFICES ASSUME NEW g \in Hash, disk'[g] # None
               PROVE  \/ \E j \in Mount : Cached(j, g)'
                      \/ \E u \in Task : Answers(u, g)'
    BY DEF NoLeak, Answers
  <2>1. CASE g \in Hashes(items[m]) \cup {h}
    <3>1. g \in V \/ g \in Hashes(k)
      BY <1>6, <2>1
    <3> QED
      BY <1>1, <1>4, <1>8, <3>1 DEF Answers, Cached
  <2>2. CASE g \notin Hashes(items[m]) \cup {h}
    <3>1. \/ \E j \in Mount : Cached(j, g)
          \/ \E u \in Task : Answers(u, g)
      BY <1>3 DEF IInv, NoLeak, Answers
    <3>2. \A j \in Mount : Cached(j, g) => Cached(j, g)'
      BY <1>8, <2>2 DEF Cached
    <3>3. \A u \in Task : Answers(u, g) => Answers(u, g)'
      BY <1>1, <1>4, <2>2 DEF Answers, h
    <3> QED
      BY <3>1, <3>2, <3>3
  <2> QED
    BY <2>1, <2>2
<1>12. \A u \in Task : /\ task'[u].pc \in Leading <=> task[u].pc \in Leading
                       /\ task[u].pc \in Leading => task'[u].hash = task[u].hash
                       /\ task'[u].pc = "wait" <=> task[u].pc = "wait"
                       /\ task[u].pc = "wait" => task'[u].hash = task[u].hash
  <2> TAKE u \in Task
  <2>1. CASE u = t
    BY <1>1, <1>2, <1>4, <2>1 DEF h
  <2>2. CASE u # t
    BY <1>4, <2>2
  <2> QED
    BY <2>1, <2>2
<1>13. FlightInv' /\ UNCHANGED Flight!vars
    BY <1>3, <1>9, <1>12, KeepFlight DEF IInv
<1> QED
    BY <1>9, <1>10, <1>11, <1>13 DEF IInv

\* The end of a download that leaves nothing behind.
LEMMA DropStep ==
    ASSUME IInv, NEW t \in Task, task[t].pc \in Leading \ {"publish"}, task[t].victims = {},
           DropGuard(t), UNCHANGED <<items, total, disk>>
    PROVE  IInv' /\ Flight!Next
<1>1. task[t].hash \in Hash /\ TypeOK /\ Home[t] \in Mount /\ task[t].pc # "unlink"
    BY HomeAssumption DEF IInv, TaskInv, Leading
<1>2. task' \in [Task -> TaskState]
    BY <1>1, Records DEF DropGuard, Broadcast, TypeOK
<1>3. \A u \in Task : \/ task'[u] = task[u]
                      \/ task'[u] = Idle /\ (u = t \/ task[u].pc = "wait")
    BY DEF DropGuard, Broadcast
<1>4. TypeOK' /\ Accounting' /\ HitsAreWhole'
  <2>1. inflight' \in [Mount -> SUBSET Hash]
    BY <1>1 DEF DropGuard, TypeOK
  <2> QED
    BY <1>2, <2>1 DEF IInv, TypeOK, Accounting, HitsAreWhole
<1>5. TaskInv'
    BY <1>3, Records DEF IInv, TaskInv
<1>6. NoLeak'
  <2>1. \A u \in Task, g \in Hash : Answers(u, g) => Answers(u, g)'
    <3> TAKE u \in Task, g \in Hash
    <3>1. CASE task'[u] = task[u]
      BY <3>1 DEF Answers
    <3>2. CASE u = t
      BY <1>1, <3>2 DEF Answers
    <3>3. CASE task[u].pc = "wait"
      <4>1. task[u].victims = {}
        BY <3>3 DEF IInv, TaskInv
      <4> QED
        BY <3>3, <4>1 DEF Answers
    <3> QED
      BY <1>3, <3>1, <3>2, <3>3
  <2>2. \A j \in Mount : Hashes(items[j]) \subseteq Hashes(items'[j])
    OBVIOUS
  <2> QED
    BY <2>1, <2>2, FilesKept DEF IInv
<1>7. FlightInv' /\ Flight!Next
    BY <1>1, <1>4, DropFlight DEF IInv
<1> QED
    BY <1>4, <1>5, <1>6, <1>7 DEF IInv

\* A failed download leaves the table of downloads.
LEMMA FetchFailStep ==
    ASSUME IInv, NEW t \in Task, FetchFail(t)
    PROVE  IInv' /\ Flight!Next
<1>1. task[t].pc \in Leading \ {"publish"} /\ task[t].victims = {}
    BY DEF FetchFail, IInv, TaskInv, Leading
<1> QED
    BY <1>1, DropStep DEF FetchFail

\* A finished download leaves the table of downloads.
LEMMA FinishStep ==
    ASSUME IInv, NEW t \in Task, Finish(t)
    PROVE  IInv' /\ Flight!Next
<1>1. task[t].pc \in Leading \ {"publish"} /\ task[t].victims = {}
    BY DEF Finish, Leading
<1> QED
    BY <1>1, DropStep DEF Finish

\* The download of an object has ended, whole or short.
LEMMA FetchedStep ==
    ASSUME IInv, NEW t \in Task, NEW short \in 0..1, Fetched(t, short)
    PROVE  IInv' /\ (Flight!Next \/ UNCHANGED Flight!vars)
<1> DEFINE h == task[t].hash
           n == Size[h] - short
<1>1. h \in Hash /\ task[t].victims = {} /\ task[t].pc = "fetch" /\ TypeOK
    BY DEF Fetched, IInv, TaskInv
<1>2. "fetch" \in Leading \ {"publish"} /\ "publish" \in Leading /\ "publish" \in Step /\ "wait" \notin Leading
    BY DEF Leading, Step
<1>3. CASE /\ n = Size[h] /\ disk' = [disk EXCEPT ![h] = n]
           /\ task' = Goto(t, "publish") /\ UNCHANGED <<items, total, inflight>>
  <2>1. /\ task' \in [Task -> TaskState]
        /\ task'[t].pc = "publish" /\ task'[t].hash = h /\ task'[t].victims = {}
        /\ \A u \in Task \ {t} : task'[u] = task[u]
    BY <1>1, <1>2, <1>3, GotoForm
  <2>2. /\ disk' \in [Hash -> Nat \cup {None}] /\ disk'[h] = Size[h]
        /\ \A g \in Hash \ {h} : disk'[g] = disk[g]
    BY <1>1, <1>3, SizeAssumption DEF TypeOK
  <2> HIDE DEF n
  <2>3. TypeOK' /\ Accounting' /\ HitsAreWhole' /\ TaskInv'
    <3>1. TypeOK' /\ Accounting'
      BY <1>3, <2>1, <2>2 DEF IInv, TypeOK, Accounting
    <3>2. HitsAreWhole'
      BY <2>2 DEF IInv, HitsAreWhole
    <3>3. TaskInv'
      BY <1>1, <2>1 DEF IInv, TaskInv
    <3> QED
      BY <3>1, <3>2, <3>3
  <2> HIDE DEF h
  <2>4. NoLeak'
    <3> SUFFICES ASSUME NEW g \in Hash, disk'[g] # None
                 PROVE  \/ \E j \in Mount : Cached(j, g)'
                        \/ \E u \in Task : Answers(u, g)'
      BY DEF NoLeak, Answers
    <3>1. CASE g = h
      BY <2>1, <3>1 DEF Answers
    <3>2. CASE g # h
      <4>1. \/ \E j \in Mount : Cached(j, g)
            \/ \E u \in Task : Answers(u, g)
        BY <2>2, <3>2 DEF IInv, NoLeak, Answers
      <4>2. \A j \in Mount : Cached(j, g) => Cached(j, g)'
        BY <1>3 DEF Cached
      <4>3. \A u \in Task : Answers(u, g) => Answers(u, g)'
        BY <1>1, <2>1 DEF Answers
      <4> QED
        BY <4>1, <4>2, <4>3
    <3> QED
      BY <3>1, <3>2
  <2>5. \A u \in Task : /\ task'[u].pc \in Leading <=> task[u].pc \in Leading
                        /\ task[u].pc \in Leading => task'[u].hash = task[u].hash
                        /\ task'[u].pc = "wait" <=> task[u].pc = "wait"
                        /\ task[u].pc = "wait" => task'[u].hash = task[u].hash
    <3> TAKE u \in Task
    <3>1. CASE u = t
      BY <1>1, <1>2, <2>1, <3>1 DEF h
    <3>2. CASE u # t
      BY <2>1, <3>2
    <3> QED
      BY <3>1, <3>2
  <2>6. FlightInv' /\ UNCHANGED Flight!vars
    BY <1>3, <2>3, <2>5, KeepFlight DEF IInv
  <2> QED
    BY <2>3, <2>4, <2>6 DEF IInv
<1>4. CASE DropGuard(t) /\ UNCHANGED <<items, total, disk>>
    BY <1>1, <1>2, <1>4, DropStep
<1> QED
    BY <1>3, <1>4 DEF Fetched

\* A task that neither leads nor waits is not busy.
LEMMA NotBusy ==
    ASSUME TypeOK, FlightInv, NEW t \in Task, task[t].pc \notin Leading \cup {"wait"}
    PROVE  ~Flight!Busy(t)
<1>1. TheWaiting[t] = None
    BY DEF TheWaiting, WaitsFor
<1>2. ASSUME NEW m \in Mount, NEW h \in Hash PROVE TheLeader[<<m, h>>] # t
  <2>1. ~Leads(t, m, h)
    BY DEF Leads
  <2>2. LeaderOf(<<m, h>>) # t
    BY <2>1, LeaderFacts
  <2> QED
    BY <2>2 DEF TheLeader
<1>3. \A k \in Mount \X Hash : TheLeader[k] # t
    BY <1>2
<1> QED
    BY <1>1, <1>3 DEF Flight!Busy, TheLeader, TheWaiting

\* The task finds a download under way: it waits for it.
LEMMA JoinFlight ==
    ASSUME TypeOK, TypeOK', FlightInv, NEW t \in Task, task[t].pc = "probe", task[t].hash \in Hash,
           task[t].hash \in inflight[Home[t]], inflight' = inflight,
           task'[t].pc = "wait", task'[t].hash = task[t].hash,
           \A u \in Task \ {t} : task'[u] = task[u]
    PROVE  FlightInv' /\ Flight!Next
<1> DEFINE m == Home[t]
           h == task[t].hash
           k == <<m, h>>
<1>0. m \in Mount /\ k \in Mount \X Hash /\ "probe" \notin Leading \cup {"wait"} /\ "wait" \notin Leading
    BY HomeAssumption DEF Leading
<1>1. \A u \in Task, n \in Mount, g \in Hash : Leads(u, n, g)' <=> Leads(u, n, g)
  <2> TAKE u \in Task, n \in Mount, g \in Hash
  <2>1. CASE u = t
    BY <1>0, <2>1 DEF Leads
  <2>2. CASE u # t
    BY <2>2 DEF Leads
  <2> QED
    BY <2>1, <2>2
<1>2. FlightInv'
  <2>1. ASSUME NEW u \in Task, task'[u].pc \in Leading \cup {"wait"}
        PROVE  task'[u].hash \in inflight'[Home[u]]
    <3>1. CASE u = t
      BY <3>1
    <3>2. CASE u # t
      BY <2>1, <3>2 DEF FlightInv
    <3> QED
      BY <3>1, <3>2
  <2>2. \A n \in Mount : \A g \in inflight'[n] : \E u \in Task : Leads(u, n, g)'
    BY <1>1 DEF FlightInv, TypeOK
  <2>3. \A n \in Mount, g \in Hash, u, v \in Task : Leads(u, n, g)' /\ Leads(v, n, g)' => u = v
    BY <1>1 DEF FlightInv
  <2> QED
    BY <2>1, <2>2, <2>3 DEF FlightInv
<1>3. ASSUME NEW n \in Mount, NEW g \in Hash PROVE LeaderOf(<<n, g>>)' = LeaderOf(<<n, g>>)
  <2>1. /\ LeaderOf(<<n, g>>) = None <=> g \notin inflight[n]
        /\ LeaderOf(<<n, g>>) # None => LeaderOf(<<n, g>>) \in Task
        /\ \A u \in Task : LeaderOf(<<n, g>>) = u <=> Leads(u, n, g)
    BY LeaderFacts
  <2>2. /\ LeaderOf(<<n, g>>)' = None <=> g \notin inflight'[n]
        /\ LeaderOf(<<n, g>>)' # None => LeaderOf(<<n, g>>)' \in Task
        /\ \A u \in Task : LeaderOf(<<n, g>>)' = u <=> Leads(u, n, g)'
    BY <1>2, LeaderFactsNext
  <2> QED
    BY <1>1, <2>1, <2>2
<1>4. TheLeader' = TheLeader /\ TheLeader[k] # None
  <2>1. \A j \in Mount \X Hash : LeaderOf(j)' = LeaderOf(j)
    BY <1>3
  <2>2. LeaderOf(k) # None
    BY <1>0, LeaderFacts
  <2> QED
    BY <1>0, <2>1, <2>2 DEF TheLeader
<1>5. TheWaiting' = [TheWaiting EXCEPT ![t] = k]
  <2>1. WaitsFor(t)' = k /\ \A u \in Task \ {t} : WaitsFor(u)' = WaitsFor(u)
    BY DEF WaitsFor
  <2> HIDE DEF k
  <2> QED
    BY <2>1 DEF TheWaiting
<1>6. ~Flight!Busy(t)
    BY <1>0, NotBusy
<1>7. Flight!Join(t, k)
    BY <1>4, <1>5, <1>6 DEF Flight!Join, TheLeader, TheWaiting
<1> QED
    BY <1>0, <1>2, <1>7 DEF Flight!Next

\* The task finds none: it leads the download.
LEMMA LeadFlight ==
    ASSUME TypeOK, TypeOK', FlightInv, NEW t \in Task, task[t].pc = "probe", task[t].hash \in Hash,
           task[t].hash \notin inflight[Home[t]],
           inflight' = [inflight EXCEPT ![Home[t]] = @ \cup {task[t].hash}],
           task'[t].pc = "lead", task'[t].hash = task[t].hash,
           \A u \in Task \ {t} : task'[u] = task[u]
    PROVE  FlightInv' /\ Flight!Next
<1> DEFINE m == Home[t]
           h == task[t].hash
           k == <<m, h>>
<1>0. /\ m \in Mount /\ k \in Mount \X Hash
      /\ "probe" \notin Leading \cup {"wait"} /\ "wait" \notin Leading /\ "lead" \in Leading
    BY HomeAssumption DEF Leading
<1>8. /\ inflight'[m] = inflight[m] \cup {h} /\ \A n \in Mount \ {m} : inflight'[n] = inflight[n]
      /\ \A n \in Mount : inflight[n] \subseteq Hash
    BY <1>0 DEF TypeOK
<1>9. \A u \in Task : ~Leads(u, m, h)
    BY DEF FlightInv, Leads
<1>1. \A u \in Task, n \in Mount, g \in Hash :
            Leads(u, n, g)' <=> Leads(u, n, g) \/ (u = t /\ n = m /\ g = h)
  <2> TAKE u \in Task, n \in Mount, g \in Hash
  <2>1. CASE u = t
    BY <1>0, <2>1 DEF Leads
  <2>2. CASE u # t
    BY <2>2 DEF Leads
  <2> QED
    BY <2>1, <2>2
<1>2. FlightInv'
  <2>1. ASSUME NEW u \in Task, task'[u].pc \in Leading \cup {"wait"}
        PROVE  task'[u].hash \in inflight'[Home[u]]
    <3>1. CASE u = t
      BY <1>8, <3>1
    <3>2. CASE u # t
      <4>1. task[u].hash \in inflight[Home[u]] /\ Home[u] \in Mount
        BY <2>1, <3>2, HomeAssumption DEF FlightInv
      <4> QED
        BY <1>8, <3>2, <4>1
    <3> QED
      BY <3>1, <3>2
  <2>2. ASSUME NEW n \in Mount, NEW g \in inflight'[n] PROVE \E u \in Task : Leads(u, n, g)'
    <3>0. g \in Hash
      BY <1>8
    <3>1. CASE n = m /\ g = h
      BY <1>1, <3>1
    <3>2. CASE ~(n = m /\ g = h)
      <4>1. g \in inflight[n]
        BY <1>8, <3>2
      <4>2. PICK u \in Task : Leads(u, n, g)
        BY <4>1 DEF FlightInv
      <4> QED
        BY <1>1, <3>0, <4>2
    <3> QED
      BY <3>1, <3>2
  <2>3. \A n \in Mount, g \in Hash, u, v \in Task : Leads(u, n, g)' /\ Leads(v, n, g)' => u = v
    <3> TAKE n \in Mount, g \in Hash, u, v \in Task
    <3> HIDE DEF m, h, k
    <3>1. CASE n = m /\ g = h
      BY <1>1, <1>9, <3>1
    <3>2. CASE ~(n = m /\ g = h)
      BY <1>1, <3>2 DEF FlightInv
    <3> QED
      BY <3>1, <3>2
  <2> QED
    BY <2>1, <2>2, <2>3 DEF FlightInv
<1>3. ASSUME NEW n \in Mount, NEW g \in Hash
      PROVE  LeaderOf(<<n, g>>)' = IF <<n, g>> = k THEN t ELSE LeaderOf(<<n, g>>)
  <2>1. /\ LeaderOf(<<n, g>>) = None <=> g \notin inflight[n]
        /\ LeaderOf(<<n, g>>) # None => LeaderOf(<<n, g>>) \in Task
        /\ \A u \in Task : LeaderOf(<<n, g>>) = u <=> Leads(u, n, g)
    BY LeaderFacts
  <2>2. /\ LeaderOf(<<n, g>>)' = None <=> g \notin inflight'[n]
        /\ LeaderOf(<<n, g>>)' # None => LeaderOf(<<n, g>>)' \in Task
        /\ \A u \in Task : LeaderOf(<<n, g>>)' = u <=> Leads(u, n, g)'
    BY <1>2, LeaderFactsNext
  <2>3. CASE n = m /\ g = h
    BY <1>1, <2>2, <2>3
  <2>4. CASE ~(n = m /\ g = h)
    <3>1. g \in inflight'[n] <=> g \in inflight[n]
      BY <1>8, <2>4
    <3>2. \A u \in Task : Leads(u, n, g)' <=> Leads(u, n, g)
      BY <1>1, <2>4
    <3>3. LeaderOf(<<n, g>>)' = LeaderOf(<<n, g>>)
      BY <2>1, <2>2, <3>1, <3>2
    <3> QED
      BY <2>4, <3>3
  <2> QED
    BY <2>3, <2>4
<1>4. TheLeader' = [TheLeader EXCEPT ![k] = t] /\ TheLeader[k] = None
  <2>1. \A j \in Mount \X Hash : LeaderOf(j)' = IF j = k THEN t ELSE LeaderOf(j)
    BY <1>3
  <2>2. LeaderOf(k) = None
    BY <1>0, LeaderFacts
  <2> HIDE DEF k
  <2> QED
    BY <1>0, <2>1, <2>2 DEF TheLeader
<1>5. TheWaiting' = TheWaiting
  <2>1. \A u \in Task : WaitsFor(u)' = WaitsFor(u)
    BY DEF WaitsFor
  <2> QED
    BY <2>1 DEF TheWaiting
<1>6. ~Flight!Busy(t)
    BY <1>0, NotBusy
<1>7. Flight!Lead(t, k)
    BY <1>4, <1>5, <1>6 DEF Flight!Lead, TheLeader, TheWaiting
<1> QED
    BY <1>0, <1>2, <1>7 DEF Flight!Next

\* populate() takes the lead of a download, or waits for the task that has it.
LEMMA EnterStep ==
    ASSUME IInv, NEW t \in Task, Enter(t)
    PROVE  IInv' /\ (Flight!Next \/ UNCHANGED Flight!vars)
<1> DEFINE h == task[t].hash
<1>1. h \in Hash /\ task[t].victims = {} /\ task[t].pc = "probe" /\ TypeOK /\ Home[t] \in Mount
    BY HomeAssumption DEF Enter, IInv, TaskInv
<1>2. /\ "probe" \notin Leading /\ "idle" \notin Leading /\ "wait" \in Step /\ "lead" \in Step
    BY DEF Leading, Step
<1>3. UNCHANGED <<items, total, disk>>
    BY DEF Enter
<1>4. CASE task' = Return(t) /\ UNCHANGED inflight
  <2>1. /\ task' \in [Task -> TaskState] /\ task'[t] = Idle
        /\ \A u \in Task \ {t} : task'[u] = task[u]
    BY <1>1, <1>4, Records, PutForm DEF Return
  <2> QED
    BY <1>1, <1>2, <1>3, <1>4, <2>1, Records, TaskMove
<1>5. ASSUME NEW p \in {"wait", "lead"}, task' = Goto(t, p), inflight' \in [Mount -> SUBSET Hash]
      PROVE  /\ TypeOK' /\ Accounting' /\ HitsAreWhole' /\ NoLeak' /\ TaskInv'
             /\ task'[t].pc = p /\ task'[t].hash = h
             /\ \A u \in Task \ {t} : task'[u] = task[u]
  <2>1. /\ task' \in [Task -> TaskState]
        /\ task'[t].pc = p /\ task'[t].hash = h /\ task'[t].victims = {}
        /\ \A u \in Task \ {t} : task'[u] = task[u]
    BY <1>1, <1>2, <1>5, GotoForm
  <2>2. TypeOK' /\ Accounting' /\ HitsAreWhole'
    BY <1>3, <1>5, <2>1 DEF IInv, TypeOK, Accounting, HitsAreWhole
  <2>3. TaskInv'
    BY <1>1, <2>1 DEF IInv, TaskInv
  <2>4. \A u \in Task, g \in Hash : Answers(u, g) => Answers(u, g)'
    BY <1>1, <2>1 DEF Answers
  <2>5. \A j \in Mount : Hashes(items[j]) \subseteq Hashes(items'[j])
    BY <1>3
  <2>6. NoLeak'
    BY <1>3, <2>4, <2>5, FilesKept DEF IInv
  <2> QED
    BY <2>1, <2>2, <2>3, <2>6
<1>6. CASE h \in inflight[Home[t]] /\ task' = Goto(t, "wait") /\ UNCHANGED inflight
  <2>1. inflight' \in [Mount -> SUBSET Hash]
    BY <1>1, <1>6 DEF TypeOK
  <2>2. /\ TypeOK' /\ Accounting' /\ HitsAreWhole' /\ NoLeak' /\ TaskInv'
        /\ task'[t].pc = "wait" /\ task'[t].hash = h
        /\ \A u \in Task \ {t} : task'[u] = task[u]
    BY <1>5, <1>6, <2>1
  <2>3. FlightInv' /\ Flight!Next
    BY <1>1, <1>6, <2>2, JoinFlight DEF IInv
  <2> QED
    BY <2>2, <2>3 DEF IInv
<1>7. CASE /\ h \notin inflight[Home[t]] /\ task' = Goto(t, "lead")
           /\ inflight' = [inflight EXCEPT ![Home[t]] = @ \cup {h}]
  <2>1. inflight' \in [Mount -> SUBSET Hash]
    BY <1>1, <1>7 DEF TypeOK
  <2>2. /\ TypeOK' /\ Accounting' /\ HitsAreWhole' /\ NoLeak' /\ TaskInv'
        /\ task'[t].pc = "lead" /\ task'[t].hash = h
        /\ \A u \in Task \ {t} : task'[u] = task[u]
    BY <1>5, <1>7, <2>1
  <2>3. FlightInv' /\ Flight!Next
    BY <1>1, <1>7, <2>2, LeadFlight DEF IInv
  <2> QED
    BY <2>2, <2>3 DEF IInv
<1> QED
    BY <1>4, <1>6, <1>7 DEF Enter

\* A mount starts again on what the directory holds.
LEMMA RestartStep ==
    ASSUME IInv, NEW m \in Mount, Restart(m)
    PROVE  IInv' /\ Flight!Next
<1> DEFINE found == {[hash |-> h, size |-> disk[h]] : h \in {x \in Hash : disk[x] # None}}
<1>1. TypeOK
    BY DEF IInv
<1>2. PICK s \in SetToSeqs(found) : /\ items' = [items EXCEPT ![m] = s]
                                    /\ total' = [total EXCEPT ![m] = Bytes(s)]
    BY DEF Restart
<1>3. s \in Seq(Item) /\ \A h \in Hash : disk[h] # None => h \in Hashes(s)
  <2>1. disk \in [Hash -> Nat \cup {None}]
    BY <1>1 DEF TypeOK
  <2>2. found = {[hash |-> h, size |-> disk[h]] : h \in {x \in Hash : disk[x] # None}}
    OBVIOUS
  <2> HIDE DEF found
  <2> QED
    BY <2>1, <2>2, RestartOps
<1> HIDE DEF found
<1>4. Bytes(s) \in Nat
    BY <1>3, SizesSeq
<1>5. /\ items' \in [Mount -> Seq(Item)] /\ items'[m] = s
      /\ total' \in [Mount -> Nat] /\ total'[m] = Bytes(s)
      /\ \A n \in Mount \ {m} : items'[n] = items[n] /\ total'[n] = total[n]
    BY <1>1, <1>2, <1>3, <1>4 DEF TypeOK
<1>6. /\ inflight' \in [Mount -> SUBSET Hash] /\ inflight'[m] = {}
      /\ \A n \in Mount \ {m} : inflight'[n] = inflight[n]
      /\ \A n \in Mount : inflight[n] \subseteq Hash
      /\ disk' = disk
    BY <1>1 DEF Restart, TypeOK
<1>7. \A t \in Task : task'[t] = IF Home[t] = m THEN Idle ELSE task[t]
    BY DEF Restart
<1>8. TypeOK'
  <2>1. task' \in [Task -> TaskState]
    BY <1>1, Records DEF Restart, TypeOK
  <2> QED
    BY <1>1, <1>5, <1>6, <2>1 DEF TypeOK
<1>9. Accounting'
  <2> SUFFICES ASSUME NEW n \in Mount PROVE total'[n] = Bytes(items'[n])
    BY DEF Accounting
  <2>1. total[n] = Bytes(items[n])
    BY DEF IInv, Accounting
  <2> QED
    BY <1>5, <2>1
<1>10. HitsAreWhole' /\ TaskInv'
  <2>1. HitsAreWhole'
    BY <1>6 DEF IInv, HitsAreWhole
  <2>2. TaskInv'
    BY <1>7, Records DEF IInv, TaskInv
  <2> QED
    BY <2>1, <2>2
<1>11. NoLeak'
    BY <1>3, <1>5, <1>6 DEF NoLeak, Cached
<1>12. Idle.pc = "idle" /\ "idle" \notin Leading \cup {"wait"} /\ "wait" \notin Leading
    BY DEF Idle, Leading
<1>13. \A u \in Task, n \in Mount, g \in Hash : Leads(u, n, g)' <=> Leads(u, n, g) /\ n # m
  <2> TAKE u \in Task, n \in Mount, g \in Hash
  <2>1. CASE Home[u] = m
    BY <1>7, <1>12, <2>1 DEF Leads
  <2>2. CASE Home[u] # m
    BY <1>7, <2>2 DEF Leads
  <2> QED
    BY <2>1, <2>2
<1>14. FlightInv'
  <2>1. ASSUME NEW u \in Task, task'[u].pc \in Leading \cup {"wait"}
        PROVE  task'[u].hash \in inflight'[Home[u]]
    <3>1. Home[u] # m /\ task'[u] = task[u] /\ Home[u] \in Mount
      BY <1>7, <1>12, <2>1, HomeAssumption
    <3> QED
      BY <1>6, <2>1, <3>1 DEF IInv, FlightInv
  <2>2. ASSUME NEW n \in Mount, NEW g \in inflight'[n] PROVE \E u \in Task : Leads(u, n, g)'
    <3>1. n # m /\ g \in inflight[n] /\ g \in Hash
      BY <1>6
    <3>2. PICK u \in Task : Leads(u, n, g)
      BY <3>1 DEF IInv, FlightInv
    <3> QED
      BY <1>13, <3>1, <3>2
  <2>3. \A n \in Mount, g \in Hash, u, v \in Task : Leads(u, n, g)' /\ Leads(v, n, g)' => u = v
    BY <1>13 DEF IInv, FlightInv
  <2> QED
    BY <2>1, <2>2, <2>3 DEF FlightInv
<1> DEFINE K == {k \in Mount \X Hash : k[1] = m /\ k[2] \in inflight[m]}
<1>15. ASSUME NEW n \in Mount, NEW g \in Hash
       PROVE  /\ LeaderOf(<<n, g>>)' = IF <<n, g>> \in K THEN None ELSE LeaderOf(<<n, g>>)
              /\ <<n, g>> \in K => LeaderOf(<<n, g>>) # None
  <2>1. /\ LeaderOf(<<n, g>>) = None <=> g \notin inflight[n]
        /\ LeaderOf(<<n, g>>) # None => LeaderOf(<<n, g>>) \in Task
        /\ \A u \in Task : LeaderOf(<<n, g>>) = u <=> Leads(u, n, g)
    BY LeaderFacts DEF IInv
  <2>2. /\ LeaderOf(<<n, g>>)' = None <=> g \notin inflight'[n]
        /\ LeaderOf(<<n, g>>)' # None => LeaderOf(<<n, g>>)' \in Task
        /\ \A u \in Task : LeaderOf(<<n, g>>)' = u <=> Leads(u, n, g)'
    BY <1>8, <1>14, LeaderFactsNext
  <2>3. <<n, g>> \in K <=> n = m /\ g \in inflight[m]
    OBVIOUS
  <2> HIDE DEF K
  <2>4. CASE n = m
    BY <1>6, <2>1, <2>2, <2>3, <2>4
  <2>5. CASE n # m
    <3>1. LeaderOf(<<n, g>>)' = LeaderOf(<<n, g>>)
      BY <1>6, <1>13, <2>1, <2>2, <2>5
    <3> QED
      BY <2>3, <2>5, <3>1
  <2> QED
    BY <2>4, <2>5
<1>16. ASSUME NEW u \in Task
       PROVE  WaitsFor(u)' = IF WaitsFor(u) \in K THEN None ELSE WaitsFor(u)
  <2>1. CASE task[u].pc = "wait"
    <3>1. WaitsFor(u) = <<Home[u], task[u].hash>> /\ Home[u] \in Mount
      BY <2>1, HomeAssumption DEF WaitsFor
    <3>2. task[u].hash \in inflight[Home[u]] /\ task[u].hash \in Hash
      BY <1>6, <2>1, <3>1 DEF IInv, FlightInv
    <3>3. WaitsFor(u) \in K <=> Home[u] = m
      BY <3>1, <3>2
    <3> HIDE DEF K
    <3>4. CASE Home[u] = m
      <4>1. task'[u].pc # "wait"
        BY <1>7, <1>12, <3>4
      <4> QED
        BY <3>3, <3>4, <4>1 DEF WaitsFor
    <3>5. CASE Home[u] # m
      <4>1. task'[u] = task[u]
        BY <1>7, <3>5
      <4> QED
        BY <3>3, <3>5, <4>1 DEF WaitsFor
    <3> QED
      BY <3>4, <3>5
  <2>2. CASE task[u].pc # "wait"
    <3>1. task'[u].pc # "wait"
      BY <1>7, <1>12, <2>2
    <3> HIDE DEF K
    <3> QED
      BY <2>2, <3>1 DEF WaitsFor
  <2> QED
    BY <2>1, <2>2
<1>17. Flight!Finish(K)
  <2>1. TheLeader' = [j \in Mount \X Hash |-> IF j \in K THEN None ELSE TheLeader[j]]
    <3>1. \A j \in Mount \X Hash : LeaderOf(j)' = IF j \in K THEN None ELSE LeaderOf(j)
      BY <1>15
    <3> HIDE DEF K
    <3> QED
      BY <3>1 DEF TheLeader
  <2>2. TheWaiting' = [u \in Task |-> IF TheWaiting[u] \in K THEN None ELSE TheWaiting[u]]
    <3> HIDE DEF K
    <3> QED
      BY <1>16 DEF TheWaiting
  <2> HIDE DEF K
  <2> QED
    BY <2>1, <2>2 DEF Flight!Finish, TheLeader, TheWaiting
<1>18. K \in SUBSET Flight!Fetching
  <2>1. \A j \in K : j \in Mount \X Hash /\ LeaderOf(j) # None
    BY <1>15
  <2> HIDE DEF K
  <2>2. \A j \in K : TheLeader[j] # None
    BY <2>1 DEF TheLeader
  <2> QED
    BY <2>1, <2>2 DEF Flight!Fetching, TheLeader
<1> HIDE DEF K
<1>19. Flight!Next
    BY <1>17, <1>18 DEF Flight!Next
<1> QED
    BY <1>8, <1>9, <1>10, <1>11, <1>14, <1>19 DEF IInv

----------------------------------------------------------------------------
(* The theorems.                                                           *)

\* The invariant holds at the start, where no download is in flight.
LEMMA InitIInv == Init => IInv /\ Flight!Init
<1> SUFFICES ASSUME Init PROVE IInv /\ Flight!Init
    OBVIOUS
<1>1. \A t \in Task : task[t] = Idle
    BY DEF Init
<1>2. TypeOK
  <2>1. <<>> \in Seq(Item)
    OBVIOUS
  <2> QED
    BY <2>1, Records DEF Init, TypeOK
<1>3. Accounting
  <2>1. <<>> \in Seq(Item)
    OBVIOUS
  <2>2. Bytes(<<>>) = 0
    BY <2>1, BytesSeq
  <2> QED
    BY <2>2 DEF Init, Accounting
<1>4. HitsAreWhole /\ NoLeak
    BY DEF Init, HitsAreWhole, NoLeak
<1>5. TaskInv
    BY <1>1, Records DEF TaskInv
<1>6. "idle" \notin Leading \cup {"wait"}
    BY DEF Leading
<1>7. FlightInv
    BY <1>1, <1>6, Records DEF Init, FlightInv, Leads
<1>8. \A k \in Mount \X Hash : LeaderOf(k) = None
  <2> SUFFICES ASSUME NEW m \in Mount, NEW h \in Hash PROVE LeaderOf(<<m, h>>) = None
    OBVIOUS
  <2>1. h \notin inflight[m]
    BY DEF Init
  <2> QED
    BY <1>2, <1>7, <2>1, LeaderFacts
<1>9. \A t \in Task : WaitsFor(t) = None
    BY <1>1, Records DEF WaitsFor
<1> QED
    BY <1>2, <1>3, <1>4, <1>5, <1>7, <1>8, <1>9 DEF IInv, Flight!Init

\* A step of FileCache keeps the invariant and is a step of SingleFlight or
\* leaves its table alone.
LEMMA NextIInv == IInv /\ [Next]_vars => IInv' /\ [Flight!Next]_Flight!vars
<1> SUFFICES ASSUME IInv, [Next]_vars PROVE IInv' /\ (Flight!Next \/ UNCHANGED Flight!vars)
    OBVIOUS
<1>1. ASSUME NEW t \in Task, OpenFile(t) PROVE IInv' /\ (Flight!Next \/ UNCHANGED Flight!vars)
    BY <1>1, OpenFileStep
<1>2. ASSUME NEW t \in Task, Forget(t) PROVE IInv' /\ (Flight!Next \/ UNCHANGED Flight!vars)
    BY <1>2, ForgetStep
<1>3. ASSUME NEW t \in Task, ForgetFile(t) PROVE IInv' /\ (Flight!Next \/ UNCHANGED Flight!vars)
    BY <1>3, ForgetFileStep
<1>4. ASSUME NEW t \in Task, Enter(t) PROVE IInv' /\ (Flight!Next \/ UNCHANGED Flight!vars)
    BY <1>4, EnterStep
<1>5. ASSUME NEW t \in Task, Acquire(t) PROVE IInv' /\ (Flight!Next \/ UNCHANGED Flight!vars)
    BY <1>5, AcquireStep
<1>6. ASSUME NEW t \in Task, FetchFail(t) PROVE IInv' /\ (Flight!Next \/ UNCHANGED Flight!vars)
    BY <1>6, FetchFailStep
<1>7. ASSUME NEW t \in Task, Publish(t) PROVE IInv' /\ (Flight!Next \/ UNCHANGED Flight!vars)
    BY <1>7, PublishStep
<1>8. ASSUME NEW t \in Task, Finish(t) PROVE IInv' /\ (Flight!Next \/ UNCHANGED Flight!vars)
    BY <1>8, FinishStep
<1>9. ASSUME NEW t \in Task, NEW short \in 0..1, Fetched(t, short)
      PROVE  IInv' /\ (Flight!Next \/ UNCHANGED Flight!vars)
    BY <1>9, FetchedStep
<1>10. ASSUME NEW t \in Task, NEW h \in Hash, TryOpen(t, h)
       PROVE  IInv' /\ (Flight!Next \/ UNCHANGED Flight!vars)
    BY <1>10, TryOpenStep
<1>11. ASSUME NEW t \in Task, NEW h \in Hash, Populate(t, h)
       PROVE  IInv' /\ (Flight!Next \/ UNCHANGED Flight!vars)
    BY <1>11, PopulateStep
<1>12. ASSUME NEW t \in Task, NEW h \in Hash, Reap(t, h)
       PROVE  IInv' /\ (Flight!Next \/ UNCHANGED Flight!vars)
    BY <1>12, ReapStep
<1>13. ASSUME NEW m \in Mount, Restart(m) PROVE IInv' /\ (Flight!Next \/ UNCHANGED Flight!vars)
    BY <1>13, RestartStep
<1>14. CASE UNCHANGED vars
  <2>1. task' = task /\ items' = items /\ total' = total /\ inflight' = inflight /\ disk' = disk
    BY <1>14 DEF vars
  <2>2. TypeOK' /\ Accounting' /\ HitsAreWhole' /\ TaskInv'
    BY <2>1 DEF IInv, TypeOK, Accounting, HitsAreWhole, TaskInv
  <2>3. NoLeak'
    BY <2>1 DEF IInv, NoLeak, Cached
  <2>4. FlightInv' /\ UNCHANGED Flight!vars
    BY <2>1, <2>2, KeepFlight DEF IInv
  <2> QED
    BY <2>2, <2>3, <2>4 DEF IInv
<1> QED
    BY <1>1, <1>2, <1>3, <1>4, <1>5, <1>6, <1>7, <1>8, <1>9, <1>10, <1>11, <1>12, <1>13, <1>14
    DEF Next

\* One task downloads an object that is in the table, none one that is not.
LEMMA FlightCount == TypeOK /\ FlightInv => OneDownload
<1> SUFFICES ASSUME TypeOK, FlightInv, NEW m \in Mount, NEW h \in Hash
             PROVE  Cardinality(Leaders(m, h)) = (IF h \in inflight[m] THEN 1 ELSE 0)
    BY DEF OneDownload
<1>1. \A t : t \in Leaders(m, h) <=> t \in Task /\ Leads(t, m, h)
    BY DEF Leaders, Leads, Leading
<1>2. CASE h \in inflight[m]
  <2>1. PICK t \in Task : Leads(t, m, h)
    BY <1>2 DEF FlightInv
  <2>2. Leaders(m, h) = {t}
    BY <1>1, <2>1 DEF FlightInv
  <2> QED
    BY <1>2, <2>2, FS_Singleton
<1>3. CASE h \notin inflight[m]
  <2>1. Leaders(m, h) = {}
    BY <1>1, <1>3 DEF FlightInv, Leads
  <2> QED
    BY <1>3, <2>1, FS_EmptySet
<1> QED
    BY <1>2, <1>3

\* The invariant holds in every state of every behaviour.
LEMMA Invariant == Spec => []IInv
<1>1. Init => IInv
    BY InitIInv
<1>2. IInv /\ [Next]_vars => IInv'
    BY NextIInv
<1> QED
    BY <1>1, <1>2, PTL DEF Spec

\* The variables of FileCache keep their types, for any number of mounts,
\* tasks and objects.
THEOREM TypeCorrect == Spec => []TypeOK
<1>1. IInv => TypeOK
    BY DEF IInv
<1> QED
    BY <1>1, Invariant, PTL

\* total_bytes is the sum of the sizes of the entries whatever populates,
\* evictions, forgotten entries and restarts do to the index: the saturating
\* subtractions of forget(), publish and evict_locked() never saturate.
THEOREM CounterIsExact == Spec => []Accounting
<1>1. IInv => Accounting
    BY DEF IInv
<1> QED
    BY <1>1, Invariant, PTL

\* Whatever file of the shared directory try_open() opens is the whole object.
THEOREM FilesAreWhole == Spec => []HitsAreWhole
<1>1. IInv => HitsAreWhole
    BY DEF IInv
<1> QED
    BY <1>1, Invariant, PTL

\* Every file of the shared directory is in the index of a mount, or a task is
\* about to put it there or to unlink it.
THEOREM FilesAreAccountedFor == Spec => []NoLeak
<1>1. IInv => NoLeak
    BY DEF IInv
<1> QED
    BY <1>1, Invariant, PTL

\* The tasks that populate the same hash of one mount share one download.
THEOREM DownloadsAreShared == Spec => []OneDownload
<1>1. IInv => OneDownload
    BY FlightCount DEF IInv
<1> QED
    BY <1>1, Invariant, PTL

\* populate() and its InflightGuard implement the abstract single-flight table.
THEOREM SingleFlightImplemented == Spec => ImplementsSingleFlight
<1>1. Init => Flight!Init
    BY InitIInv
<1>2. IInv /\ [Next]_vars => [Flight!Next]_Flight!vars
    BY NextIInv
<1> QED
    BY <1>1, <1>2, Invariant, PTL DEF Spec, ImplementsSingleFlight
=============================================================================
