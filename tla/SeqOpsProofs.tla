---------------------------- MODULE SeqOpsProofs ----------------------------
(***************************************************************************)
(* What the operations of SeqOps compute, for every sequence, and the      *)
(* facts about minimal elements, induction and recursion over numbers that *)
(* the proofs about the components rest on.  Minimal elements come from    *)
(* the well-foundedness of the strict subsets of a finite set.             *)
(***************************************************************************)
EXTENDS SeqOps, SequencesExt, FiniteSetTheorems, SequenceTheorems, TLAPS

\* A set of subsets of a finite set has a minimal element.
LEMMA MinSet ==
    ASSUME NEW S, IsFiniteSet(S), NEW T, T \subseteq SUBSET S, T # {}
    PROVE  \E A \in T : \A B \in T : B \subseteq A => B = A
<1> DEFINE R == StrictSubsetOrdering(S)
           F == FiniteSubsetsOf(S)
<1>1. IsWellFoundedOn(R, F)
    BY FS_StrictSubsetOrderingWellFounded
<1>2. T \subseteq F
    BY FS_FiniteSubsetsOfFinite
<1>3. \E x \in T : \A y \in T : <<y, x>> \notin R
  <2> HIDE DEF R, F
  <2> QED
    BY <1>1, <1>2, WFMin
<1> QED
    BY <1>3 DEF StrictSubsetOrdering

\* A set of natural numbers has a least element.
LEMMA MinNat ==
    ASSUME NEW T, T \subseteq Nat, T # {}
    PROVE  \E m \in T : \A n \in T : m <= n
<1>0. PICK b \in T : TRUE
    OBVIOUS
<1> DEFINE V == 1..b
           U == {1..n : n \in {k \in T : k <= b}}
<1>1. IsFiniteSet(V) /\ U \subseteq SUBSET V /\ U # {}
  <2>1. IsFiniteSet(V)
    BY FS_Interval
  <2>2. V \in U /\ \A k \in T : k <= b => 1..k \subseteq V
    OBVIOUS
  <2> QED
    BY <2>1, <2>2
<1>2. \E A \in U : \A B \in U : B \subseteq A => B = A
  <2> HIDE DEF U, V
  <2> QED
    BY <1>1, MinSet
<1>3. PICK m \in T : m <= b /\ \A B \in U : B \subseteq 1..m => B = 1..m
    BY <1>2
<1>4. ASSUME NEW n \in T, n < m PROVE FALSE
  <2>1. 1..n \in U
    BY <1>3, <1>4
  <2>2. m \in 1..m /\ m \notin 1..n
    BY <1>4
  <2>3. 1..n \subseteq 1..m /\ 1..n # 1..m
    BY <1>4, <2>2
  <2> QED
    BY <2>1, <2>3, <1>3
<1> QED
    BY <1>3, <1>4

\* The largest of some numbers that have a bound.
LEMMA MaxNat ==
    ASSUME NEW S, S \subseteq Nat, S # {}, NEW b \in Nat, \A x \in S : x <= b
    PROVE  Max(S) \in S /\ \A y \in S : y <= Max(S)
<1> DEFINE T == {b - x : x \in S}
<1>0. \A x \in S : b - x \in Nat
    OBVIOUS
<1>1. T \subseteq Nat /\ T # {}
    BY <1>0, Zenon
<1>2. PICK m \in T : \A n \in T : m <= n
    BY <1>1, MinNat
<1>3. PICK x \in S : m = b - x
    BY <1>2
<1>4. \A y \in S : x >= y
  <2> SUFFICES ASSUME NEW y \in S PROVE x >= y
    OBVIOUS
  <2>1. b - x <= b - y
    BY <1>2, <1>3
  <2> QED
    BY <2>1
<1>5. \E z \in S : \A y \in S : z >= y
    BY <1>4
<1>6. Max(S) \in S /\ \A y \in S : Max(S) >= y
    BY <1>5 DEF Max
<1> QED
    BY <1>6

\* Induction over the natural numbers.
LEMMA Induct ==
    ASSUME NEW S, 0 \in S, \A n \in Nat : n \in S => n + 1 \in S
    PROVE  \A n \in Nat : n \in S
<1> DEFINE T == {n \in Nat : n \notin S}
<1>1. SUFFICES ASSUME T # {} PROVE FALSE
    OBVIOUS
<1>2. \E m \in T : \A n \in T : m <= n
  <2>1. T \subseteq Nat
    OBVIOUS
  <2> HIDE DEF T
  <2> QED
    BY <1>1, <2>1, MinNat
<1>3. PICK m \in T : \A n \in T : m <= n
    BY <1>2
<1>4. m # 0 /\ m - 1 \in Nat
    OBVIOUS
<1>5. m - 1 \in S
    BY <1>3, <1>4
<1> QED
    BY <1>3, <1>4, <1>5

\* ... and over an interval that starts at zero.
LEMMA InductTo ==
    ASSUME NEW N \in Nat, NEW S, 0 \in S, \A n \in 1..N : n - 1 \in S => n \in S
    PROVE  \A n \in 0..N : n \in S
<1> DEFINE T == {n \in Nat : n \in S \/ n > N}
<1>1. 0 \in T /\ \A n \in Nat : n \in T => n + 1 \in T
    OBVIOUS
<1>2. \A n \in Nat : n \in T
  <2> HIDE DEF T
  <2> QED
    BY <1>1, Induct
<1> QED
    BY <1>2

\* f starts with v, and every value is computed from the one before.
Computed(f, v, N, st) == f[0] = v /\ \A n \in 1..N : f[n] = st[n][f[n - 1]]

\* Every recursion over 0..N has a function that satisfies it.
LEMMA Recursion ==
    ASSUME NEW V, NEW v \in V, NEW N \in Nat, NEW st \in [1..N -> [V -> V]]
    PROVE  \E f \in [0..N -> V] : Computed(f, v, N, st)
<1> DEFINE Ok(f, k) == f[0] = v /\ \A n \in 1..k : f[n] = st[n][f[n - 1]]
           S == {k \in 0..N : \E f \in [0..N -> V] : Ok(f, k)}
<1>1. 0 \in S
  <2> DEFINE c == [n \in 0..N |-> v]
  <2>1. c \in [0..N -> V] /\ Ok(c, 0)
    OBVIOUS
  <2> HIDE DEF c, Ok
  <2> QED
    BY <2>1
<1>2. ASSUME NEW n \in 1..N, n - 1 \in S PROVE n \in S
  <2>1. PICK f \in [0..N -> V] : Ok(f, n - 1)
    BY <1>2
  <2> DEFINE g == [f EXCEPT ![n] = st[n][f[n - 1]]]
  <2>2. g \in [0..N -> V]
    OBVIOUS
  <2>3. g[0] = v /\ g[n] = st[n][g[n - 1]]
    BY <2>1
  <2>4. \A k \in 1..(n - 1) : g[k] = st[k][g[k - 1]]
    BY <2>1
  <2>5. Ok(g, n)
    BY <2>3, <2>4
  <2> HIDE DEF g, Ok
  <2> QED
    BY <2>2, <2>5
<1>3. \A n \in 0..N : n \in S
  <2> HIDE DEF S
  <2> QED
    BY <1>1, <1>2, InductTo
<1> QED
    BY <1>3 DEF Computed

----------------------------------------------------------------------------
(* Without.                                                                *)

\* An appended element joins the elements of a sequence.
LEMMA ToSetAppend ==
    ASSUME NEW X, NEW s \in Seq(X), NEW x \in X
    PROVE  ToSet(Append(s, x)) = ToSet(s) \cup {x}
<1>1. /\ Len(Append(s, x)) = Len(s) + 1
      /\ Append(s, x)[Len(s) + 1] = x
      /\ \A i \in 1..Len(s) : Append(s, x)[i] = s[i]
      /\ DOMAIN Append(s, x) = 1..(Len(s) + 1) /\ DOMAIN s = 1..Len(s)
    OBVIOUS
<1>2. ASSUME NEW y PROVE y \in ToSet(Append(s, x)) <=> y \in ToSet(s) \cup {x}
    BY <1>1 DEF ToSet
<1> QED
    BY <1>2

\* A new element appended to a sequence without repetitions keeps it so.
LEMMA InjAppend ==
    ASSUME NEW X, NEW s \in Seq(X), NEW x \in X, IsInjective(s), x \notin ToSet(s)
    PROVE  IsInjective(Append(s, x))
<1>1. /\ Append(s, x)[Len(s) + 1] = x
      /\ \A i \in 1..Len(s) : Append(s, x)[i] = s[i]
      /\ DOMAIN Append(s, x) = 1..(Len(s) + 1) /\ DOMAIN s = 1..Len(s)
    OBVIOUS
<1> QED
    BY <1>1 DEF ToSet, IsInjective

\* f[n] is what Without keeps of the first n elements of s.
Keeps(f, s, S) ==
    /\ f[0] = <<>>
    /\ \A n \in 1..Len(s) : f[n] = IF s[n] \in S THEN f[n - 1] ELSE Append(f[n - 1], s[n])

\* The recursion of Without, as a function of its own.
LEMMA WithoutFcn ==
    ASSUME NEW X, NEW s \in Seq(X), NEW S
    PROVE  \E f \in [0..Len(s) -> Seq(X)]  : Keeps(f, s, S) /\ Without(s, S) = f[Len(s)]
<1> DEFINE N == Len(s)
           V == Seq(X)
           v == <<>>
           Up(n, a) == IF s[n] \in S THEN a ELSE Append(a, s[n])
           G(f) == [n \in 0..N |-> IF n = 0 THEN v ELSE Up(n, f[n - 1])]
           Good(f) == f \in [0..N -> V] /\ f[0] = v /\ \A n \in 1..N : f[n] = Up(n, f[n - 1])
           st == [n \in 1..N |-> [a \in V |-> Up(n, a)]]
<1>1. N \in Nat /\ v \in V /\ \A n \in 1..N, a \in V : Up(n, a) \in V
    OBVIOUS
<1>2. Without(s, S) = (CHOOSE g : g = G(g))[N]
    BY DEF Without
<1>3. Good(CHOOSE g : g = G(g))
  <2> HIDE DEF N, V, v, Up
  <2>1. st \in [1..N -> [V -> V]]
    BY <1>1
  <2>2. PICK f \in [0..N -> V] : Computed(f, v, N, st)
    <3> HIDE DEF st
    <3> QED
      BY <1>1, <2>1, Recursion
  <2>3. \A n \in 1..N : f[n] = Up(n, f[n - 1])
    BY <2>2, <1>1 DEF Computed
  <2>4. f = G(f)
    BY <1>1, <2>2, <2>3 DEF Computed
  <2>5. ASSUME NEW g, g = G(g) PROVE Good(g)
    <3> DEFINE T == {k \in 0..N : g[k] \in V}
    <3>1. g[0] = v /\ \A n \in 1..N : g[n] = Up(n, g[n - 1])
      BY <1>1, <2>5
    <3>2. 0 \in T /\ \A n \in 1..N : n - 1 \in T => n \in T
      BY <1>1, <3>1
    <3>3. \A n \in 0..N : n \in T
      <4> HIDE DEF T
      <4> QED
        BY <1>1, <3>2, InductTo
    <3>4. g \in [0..N -> V]
      BY <2>5, <3>3
    <3> QED
      BY <3>1, <3>4
  <2> HIDE DEF G, Good
  <2> QED
    BY <2>4, <2>5
<1>4. PICK f : f = CHOOSE g : g = G(g)
    OBVIOUS
<1> HIDE DEF G
<1> QED
    BY <1>2, <1>3, <1>4 DEF Keeps

\* What Without leaves: the other elements, as often as they were there.
LEMMA WithoutSeq ==
    ASSUME NEW X, NEW s \in Seq(X), NEW S
    PROVE  /\ Without(s, S) \in Seq(X)
           /\ ToSet(Without(s, S)) = ToSet(s) \ S
           /\ IsInjective(s) => IsInjective(Without(s, S))
           /\ ToSet(s) \cap S = {} => Without(s, S) = s
<1>0. PICK f \in [0..Len(s) -> Seq(X)] : Keeps(f, s, S) /\ Without(s, S) = f[Len(s)]
    BY WithoutFcn
<1>1. /\ f[0] = <<>>
      /\ \A n \in 1..Len(s) : f[n] = IF s[n] \in S THEN f[n - 1] ELSE Append(f[n - 1], s[n])
      /\ Without(s, S) = f[Len(s)]
    BY <1>0 DEF Keeps
<1> DEFINE N == Len(s)
           Upto(n) == {s[k] : k \in 1..n}
           Good(n) == ToSet(f[n]) = Upto(n) \ S
           Inj(n) == IsInjective(s) => IsInjective(f[n])
           T == {n \in 0..N : Good(n) /\ Inj(n)}
<1>2. 0 \in T
    BY <1>1 DEF ToSet, IsInjective
<1>3. ASSUME NEW n \in 1..N, n - 1 \in T PROVE n \in T
  <2>0. f[n - 1] \in Seq(X) /\ f[n] \in Seq(X) /\ n \in Nat /\ s[n] \in X
    BY <1>1
  <2>1. Upto(n) = Upto(n - 1) \cup {s[n]}
    OBVIOUS
  <2>2. CASE s[n] \in S
    BY <1>1, <1>3, <2>1, <2>2
  <2>3. CASE s[n] \notin S
    <3>1. f[n] = Append(f[n - 1], s[n])
      BY <1>1, <2>3
    <3>2. ToSet(f[n]) = ToSet(f[n - 1]) \cup {s[n]}
      BY <2>0, <3>1, ToSetAppend
    <3>3. Good(n)
      BY <1>3, <2>1, <2>3, <3>2
    <3>4. ASSUME IsInjective(s) PROVE IsInjective(f[n])
      <4>1. s[n] \notin Upto(n - 1)
        BY <3>4 DEF IsInjective
      <4>2. s[n] \notin ToSet(f[n - 1])
        BY <4>1, <1>3
      <4> QED
        BY <2>0, <3>1, <3>4, <1>3, <4>2, InjAppend
    <3> QED
      BY <3>3, <3>4
  <2> QED
    BY <2>2, <2>3
<1>4. \A n \in 0..N : n \in T
  <2> HIDE DEF T
  <2>1. N \in Nat
    OBVIOUS
  <2> HIDE DEF N
  <2> QED
    BY <1>2, <1>3, <2>1, InductTo
<1>5. Good(N) /\ Inj(N)
    BY <1>4
<1>6. Upto(N) = ToSet(s)
    BY DEF ToSet
<1>7. ASSUME ToSet(s) \cap S = {} PROVE Without(s, S) = s
  <2> DEFINE E == {n \in 0..N : f[n] = SubSeq(s, 1, n)}
  <2>1. 0 \in E
    BY <1>1
  <2>2. ASSUME NEW n \in 1..N, n - 1 \in E PROVE n \in E
    <3>1. s[n] \notin S
      BY <1>7 DEF ToSet
    <3>2. f[n] = Append(SubSeq(s, 1, n - 1), s[n])
      BY <1>1, <2>2, <3>1
    <3>3. SubSeq(s, 1, n) = Append(SubSeq(s, 1, n - 1), s[n])
      OBVIOUS
    <3> QED
      BY <3>2, <3>3
  <2>3. \A n \in 0..N : n \in E
    <3> HIDE DEF E
    <3>1. N \in Nat
      OBVIOUS
    <3> HIDE DEF N
    <3> QED
      BY <2>1, <2>2, <3>1, InductTo
  <2>4. f[N] = SubSeq(s, 1, N)
    BY <2>3
  <2>5. SubSeq(s, 1, N) = s
    OBVIOUS
  <2> QED
    BY <1>1, <2>4, <2>5
<1> QED
    BY <1>1, <1>5, <1>6, <1>7

\* A sequence with each element once is as long as its set of elements.
LEMMA InjectiveLen ==
    ASSUME NEW X, NEW s \in Seq(X), IsInjective(s)
    PROVE  IsFiniteSet(ToSet(s)) /\ Cardinality(ToSet(s)) = Len(s)
<1> DEFINE N == Len(s)
           T == ToSet(s)
<1>1. N \in Nat /\ s \in [1..N -> T] /\ DOMAIN s = 1..N
    BY DEF ToSet
<1>2. s \in Bijection(1..N, T)
    BY <1>1 DEF Bijection, Injection, Surjection, ToSet, IsInjective
<1>3. ExistsBijection(1..N, T)
    BY <1>2 DEF ExistsBijection
<1>4. Cardinality(T) = N
  <2> HIDE DEF N, T
  <2> QED
    BY <1>1, <1>3, FS_CountingElements
<1>5. IsFiniteSet(T)
  <2> HIDE DEF N, T
  <2> QED
    BY <1>1, <1>3, FS_NatBijection
<1> QED
    BY <1>4, <1>5

----------------------------------------------------------------------------
(* Total.                                                                  *)

\* f[n] is the sum of the first n numbers of s.
Sums(f, s) == f[0] = 0 /\ \A n \in 1..Len(s) : f[n] = f[n - 1] + s[n]

\* The recursion of Total, as a function of its own.
LEMMA TotalFcn ==
    ASSUME NEW s \in Seq(Nat)
    PROVE  \E f \in [0..Len(s) -> Nat] : Sums(f, s) /\ Total(s) = f[Len(s)]
<1> DEFINE N == Len(s)
           V == Nat
           v == 0
           Up(n, a) == a + s[n]
           G(f) == [n \in 0..N |-> IF n = 0 THEN v ELSE Up(n, f[n - 1])]
           Good(f) == f \in [0..N -> V] /\ f[0] = v /\ \A n \in 1..N : f[n] = Up(n, f[n - 1])
           st == [n \in 1..N |-> [a \in V |-> Up(n, a)]]
<1>1. N \in Nat /\ v \in V /\ \A n \in 1..N, a \in V : Up(n, a) \in V
    OBVIOUS
<1>2. Total(s) = (CHOOSE g : g = G(g))[N]
    BY DEF Total
<1>3. Good(CHOOSE g : g = G(g))
  <2> HIDE DEF N, V, v, Up
  <2>1. st \in [1..N -> [V -> V]]
    BY <1>1
  <2>2. PICK f \in [0..N -> V] : Computed(f, v, N, st)
    <3> HIDE DEF st
    <3> QED
      BY <1>1, <2>1, Recursion
  <2>3. \A n \in 1..N : f[n] = Up(n, f[n - 1])
    BY <2>2, <1>1 DEF Computed
  <2>4. f = G(f)
    BY <1>1, <2>2, <2>3 DEF Computed
  <2>5. ASSUME NEW g, g = G(g) PROVE Good(g)
    <3> DEFINE T == {k \in 0..N : g[k] \in V}
    <3>1. g[0] = v /\ \A n \in 1..N : g[n] = Up(n, g[n - 1])
      BY <1>1, <2>5
    <3>2. 0 \in T /\ \A n \in 1..N : n - 1 \in T => n \in T
      BY <1>1, <3>1
    <3>3. \A n \in 0..N : n \in T
      <4> HIDE DEF T
      <4> QED
        BY <1>1, <3>2, InductTo
    <3>4. g \in [0..N -> V]
      BY <2>5, <3>3
    <3> QED
      BY <3>1, <3>4
  <2> HIDE DEF G, Good
  <2> QED
    BY <2>4, <2>5
<1>4. PICK f : f = CHOOSE g : g = G(g)
    OBVIOUS
<1> HIDE DEF G
<1> QED
    BY <1>2, <1>3, <1>4 DEF Sums

\* The sum of two sequences, one after the other.
LEMMA TotalConcat ==
    ASSUME NEW s \in Seq(Nat), NEW t \in Seq(Nat)
    PROVE  /\ Total(s) \in Nat /\ Total(t) \in Nat
           /\ Total(s \o t) = Total(s) + Total(t)
<1>0. s \o t \in Seq(Nat) /\ Len(s \o t) = Len(s) + Len(t) /\ Len(s) \in Nat /\ Len(t) \in Nat
    OBVIOUS
<1>1. PICK f \in [0..Len(s) -> Nat] : Sums(f, s) /\ Total(s) = f[Len(s)]
    BY TotalFcn
<1>2. PICK g \in [0..Len(t) -> Nat] : Sums(g, t) /\ Total(t) = g[Len(t)]
    BY TotalFcn
<1>3. PICK h \in [0..Len(s \o t) -> Nat] : Sums(h, s \o t) /\ Total(s \o t) = h[Len(s \o t)]
    BY <1>0, TotalFcn
<1> DEFINE A == {n \in 0..Len(s) : h[n] = f[n]}
           B == {n \in 0..Len(t) : h[Len(s) + n] = f[Len(s)] + g[n]}
<1>4. 0 \in A
    BY <1>1, <1>3 DEF Sums
<1>5. ASSUME NEW n \in 1..Len(s), n - 1 \in A PROVE n \in A
  <2>1. (s \o t)[n] = s[n] /\ n \in 1..Len(s \o t)
    BY <1>0
  <2>2. h[n] = h[n - 1] + (s \o t)[n] /\ f[n] = f[n - 1] + s[n]
    BY <1>1, <1>3, <2>1 DEF Sums
  <2> QED
    BY <1>5, <2>1, <2>2
<1>6. \A n \in 0..Len(s) : n \in A
  <2> HIDE DEF A
  <2> QED
    BY <1>0, <1>4, <1>5, InductTo
<1>7. 0 \in B
  <2>1. h[Len(s)] = f[Len(s)] /\ g[0] = 0 /\ f[Len(s)] \in Nat
    BY <1>0, <1>2, <1>6 DEF Sums
  <2> QED
    BY <1>0, <2>1
<1>8. ASSUME NEW n \in 1..Len(t), n - 1 \in B PROVE n \in B
  <2> DEFINE k == Len(s) + n
  <2>1. (s \o t)[k] = t[n] /\ k \in 1..Len(s \o t) /\ k - 1 = Len(s) + (n - 1) /\ t[n] \in Nat
    BY <1>0
  <2>2. h[k] = h[k - 1] + (s \o t)[k]
    <3> HIDE DEF k
    <3> QED
      BY <1>3, <2>1 DEF Sums
  <2>3. g[n] = g[n - 1] + t[n] /\ g[n - 1] \in Nat /\ f[Len(s)] \in Nat
    <3>1. n - 1 \in 0..Len(t) /\ Len(s) \in 0..Len(s)
      BY <1>0
    <3> QED
      BY <1>2, <3>1 DEF Sums
  <2>4. h[k - 1] = f[Len(s)] + g[n - 1]
    BY <1>8, <2>1
  <2>5. h[k] = f[Len(s)] + g[n]
    BY <2>1, <2>2, <2>3, <2>4
  <2> QED
    BY <2>5
<1>9. \A n \in 0..Len(t) : n \in B
  <2> HIDE DEF B
  <2> QED
    BY <1>0, <1>7, <1>8, InductTo
<1>10. /\ Len(s) \in 0..Len(s) /\ Len(t) \in 0..Len(t) /\ Len(t) \in B
    BY <1>0, <1>9
<1> QED
    BY <1>0, <1>1, <1>2, <1>3, <1>10

\* ... and of a sequence with one element more; of none; of two parts.
LEMMA TotalSeq ==
    ASSUME NEW s \in Seq(Nat)
    PROVE  /\ Total(s) \in Nat /\ Total(<<>>) = 0
           /\ \A x \in Nat : Total(Append(s, x)) = Total(s) + x
           /\ \A n \in 0..Len(s) :
                /\ Total(SubSeq(s, 1, n)) \in Nat /\ Total(SubSeq(s, n + 1, Len(s))) \in Nat
                /\ Total(s) = Total(SubSeq(s, 1, n)) + Total(SubSeq(s, n + 1, Len(s)))
<1>1. PICK e \in [0..0 -> Nat] : Sums(e, <<>>) /\ Total(<<>>) = e[0]
  <2>1. <<>> \in Seq(Nat) /\ Len(<<>>) = 0
    OBVIOUS
  <2> QED
    BY <2>1, TotalFcn
<1>2. ASSUME NEW x \in Nat PROVE Total(<<x>>) = x
  <2>1. <<x>> \in Seq(Nat) /\ Len(<<x>>) = 1 /\ <<x>>[1] = x
    OBVIOUS
  <2>2. PICK f \in [0..1 -> Nat] : Sums(f, <<x>>) /\ Total(<<x>>) = f[1]
    BY <2>1, TotalFcn
  <2>3. f[0] = 0 /\ f[1] = f[1 - 1] + <<x>>[1]
    BY <2>1, <2>2 DEF Sums
  <2> QED
    BY <2>1, <2>2, <2>3
<1>3. ASSUME NEW x \in Nat PROVE Total(Append(s, x)) = Total(s) + x
  <2>1. Append(s, x) = s \o <<x>> /\ <<x>> \in Seq(Nat)
    OBVIOUS
  <2> QED
    BY <1>2, <2>1, TotalConcat
<1>4. ASSUME NEW n \in 0..Len(s)
      PROVE  /\ Total(SubSeq(s, 1, n)) \in Nat /\ Total(SubSeq(s, n + 1, Len(s))) \in Nat
             /\ Total(s) = Total(SubSeq(s, 1, n)) + Total(SubSeq(s, n + 1, Len(s)))
  <2> DEFINE a == SubSeq(s, 1, n)
             b == SubSeq(s, n + 1, Len(s))
  <2>1. a \in Seq(Nat) /\ b \in Seq(Nat) /\ s = a \o b
    <3>0. Len(s) \in Nat
      OBVIOUS
    <3>1. a \in Seq(Nat) /\ Len(a) = n /\ \A i \in 1..n : a[i] = s[i]
      OBVIOUS
    <3>2. b \in Seq(Nat) /\ Len(b) = Len(s) - n /\ \A i \in 1..(Len(s) - n) : b[i] = s[n + i]
      OBVIOUS
    <3> HIDE DEF a, b
    <3>3. a \o b \in Seq(Nat) /\ Len(a \o b) = Len(s)
      BY <3>1, <3>2
    <3>4. ASSUME NEW i \in 1..Len(s) PROVE (a \o b)[i] = s[i]
      <4>1. CASE i <= n
        BY <3>1, <3>2, <4>1
      <4>2. CASE i > n
        <5>1. i - n \in 1..(Len(s) - n) /\ n + (i - n) = i
          BY <4>2
        <5>2. (a \o b)[i] = b[i - n]
          BY <3>1, <3>2, <4>2
        <5> QED
          BY <3>2, <5>1, <5>2
      <4>3. i <= n \/ i > n
        BY <3>0
      <4> QED
        BY <4>1, <4>2, <4>3
    <3> QED
      BY <3>1, <3>2, <3>3, <3>4, SeqEqual
  <2> HIDE DEF a, b
  <2>2. Total(a) \in Nat /\ Total(b) \in Nat /\ Total(a \o b) = Total(a) + Total(b)
    BY <2>1, TotalConcat
  <2> QED
    BY <2>1, <2>2 DEF a, b
<1>5. Total(s) \in Nat
    BY TotalFcn
<1> QED
    BY <1>1, <1>3, <1>4, <1>5 DEF Sums
=============================================================================
