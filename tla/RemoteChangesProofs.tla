------------------------ MODULE RemoteChangesProofs ------------------------
(***************************************************************************)
(* Proofs about RemoteChanges, for any tree of files in one level of       *)
(* directories, any number of changes and any options: what the loop takes *)
(* for applied, the mount shows, with the exceptions of NothingMissed.     *)
(***************************************************************************)
EXTENDS RemoteChanges, SeqOpsProofs

\* The revision that what the loop is doing will make its resume point: of a
\* round, the one it was started for.
OrZero(r) == IF r = None THEN 0 ELSE r
Goal ==
    IF loop.pc # "round" THEN Frontier
    ELSE IF loop.follow THEN loop.probe ELSE OrZero(loop.last)

\* What must be shown meanwhile: a round of the feed may turn out incomplete.
Base == IF loop.pc = "round" /\ loop.follow THEN OrZero(loop.last) ELSE Frontier

\* Resume points do not go back behind one another, and none is in the future.
OrderInv ==
    /\ OrZero(loop.last) <= Revision
    /\ loop.resume = "cursor" => loop.cursor <= Revision /\ OrZero(loop.last) <= loop.cursor
    /\ loop.pc \in {"prime", "sleep", "off"} => loop.resume = "since"
    /\ loop.pc = "stream" => /\ loop.at <= Revision /\ OrZero(loop.last) <= loop.at
                             /\ loop.resume = "cursor" => loop.cursor <= loop.at
    /\ loop.pc = "round" =>
        /\ loop.probe <= Revision
        /\ loop.resume = "since"
        /\ loop.follow => OrZero(loop.last) <= loop.probe
        /\ \A d \in Dir : loop.lists[d] \in Rev => loop.lists[d] \in Goal..Revision

\* An inode is in a known directory, before the first probe in a loaded one.
InodeInv ==
    \A f \in File : held[f] > 0 => /\ DirOf[f] \in known
                                   /\ loop.pc = "prime" => DirOf[f] \in loaded

\* A listing in flight that is not marked is not older than what is shown.
ListingInv ==
    \A d \in Dir : loading[d] # None =>
        /\ loading[d] <= Revision
        /\ d \notin late /\ (d \notin behind \/ loop.pc = "round") => loading[d] >= Goal

\* A directory loaded since the round began lacks only what was not there.
NewlyLoaded(d) == d \in loaded /\ d \notin loop.todo /\ loop.lists[d] = None
RoundInv ==
    loop.pc = "round" =>
        \A f \in File : held[f] = 0 /\ NewlyLoaded(Teller(f)) /\ Teller(f) \notin behind
            => \E q \in Goal..Revision : Content(f, q) = 0

ShownInv == \A f \in File : {Teller(f), DirOf[f]} \cap behind = {} => UpTo(f, Base)

IInv == TypeOK /\ OrderInv /\ InodeInv /\ ListingInv /\ RoundInv /\ ShownInv

----------------------------------------------------------------------------
(* The log.                                                                *)

\* The last change of f among the first r of the log l, and its content then.
LastAt(l, f, r) == Max({0} \cup {k \in 1..r : l[k].file = f})
Ver(l, f, r) == IF LastAt(l, f, r) > 0 /\ l[LastAt(l, f, r)].op = "put" THEN LastAt(l, f, r) ELSE 0

\* The last change is one of them, and none is later.
LEMMA LastMax ==
    ASSUME NEW l, NEW f, NEW r \in Nat
    PROVE  /\ LastAt(l, f, r) \in 0..r
           /\ LastAt(l, f, r) > 0 => l[LastAt(l, f, r)].file = f
           /\ \A k \in 1..r : l[k].file = f => k <= LastAt(l, f, r)
<1> DEFINE S == {0} \cup {k \in 1..r : l[k].file = f}
<1>1. S \subseteq Nat /\ S # {} /\ \A x \in S : x <= r
    OBVIOUS
<1>2. Max(S) \in S /\ \A y \in S : y <= Max(S)
  <2> HIDE DEF S
  <2> QED
    BY <1>1, MaxNat
<1>3. LastAt(l, f, r) = Max(S)
    BY DEF LastAt
<1>4. LastAt(l, f, r) \in S /\ \A y \in S : y <= LastAt(l, f, r)
    BY <1>2, <1>3
<1> QED
    BY <1>4

\* A version is a revision up to then.
LEMMA VerNat ==
    ASSUME NEW l, NEW f, NEW r \in Nat
    PROVE  Ver(l, f, r) \in 0..r
    BY LastMax DEF Ver

\* The last change makes the version.
LEMMA VerLast ==
    ASSUME NEW l, NEW f, NEW r \in Nat, NEW n \in 1..r, l[n].file = f,
           \A m \in (n + 1)..r : l[m].file # f
    PROVE  Ver(l, f, r) = IF l[n].op = "put" THEN n ELSE 0
<1>1. LastAt(l, f, r) \in 0..r /\ n <= LastAt(l, f, r) /\ l[LastAt(l, f, r)].file = f
    BY LastMax
<1>2. LastAt(l, f, r) = n
    BY <1>1
<1> QED
    BY <1>2 DEF Ver

\* Nothing about f between q and r.
LEMMA VerSame ==
    ASSUME NEW l, NEW f, NEW q \in Nat, NEW r \in Nat, q <= r,
           \A n \in (q + 1)..r : l[n].file # f
    PROVE  Ver(l, f, r) = Ver(l, f, q)
<1>1. {n \in 1..r : l[n].file = f} = {n \in 1..q : l[n].file = f}
    OBVIOUS
<1>2. LastAt(l, f, r) = LastAt(l, f, q)
    BY <1>1 DEF LastAt
<1> QED
    BY <1>2 DEF Ver

\* Two logs that agree.
LEMMA VerAgree ==
    ASSUME NEW l, NEW k, NEW f, NEW r \in Nat, \A n \in 1..r : k[n] = l[n]
    PROVE  Ver(k, f, r) = Ver(l, f, r)
<1>1. \A n \in 1..r : k[n].file = f <=> l[n].file = f
    OBVIOUS
<1>2. {n \in 1..r : k[n].file = f} = {n \in 1..r : l[n].file = f}
    BY <1>1
<1>3. LastAt(k, f, r) = LastAt(l, f, r)
    BY <1>2 DEF LastAt
<1>4. LastAt(l, f, r) \in 0..r
    BY LastMax
<1> QED
    BY <1>3, <1>4 DEF Ver

\* Content is the version in the log of now.
LEMMA ContentVer ==
    ASSUME NEW f, NEW r
    PROVE  Content(f, r) = Ver(log, f, r) /\ Content(f, r)' = Ver(log', f, r)
<1>1. Content(f, r) = Ver(log, f, r)
    BY Zenon DEF Content, Ver, LastAt
<1>2. Content(f, r)' = Ver(log', f, r)
    BY Zenon DEF Content, Ver, LastAt
<1> QED
    BY <1>1, <1>2

\* A log that has grown says the same of the past.
LEMMA ContentGrows ==
    ASSUME TypeOK, NEW c, log' = Append(log, c)
    PROVE  /\ Revision' = Revision + 1 /\ Revision \in Nat
           /\ \A f, r : r \in 0..Revision => Content(f, r)' = Content(f, r)
<1>1. log \in Seq(Change) /\ Revision \in Nat /\ Revision' = Revision + 1
    BY DEF TypeOK, Revision
<1>2. ASSUME NEW f, NEW r \in 0..Revision PROVE Content(f, r)' = Content(f, r)
  <2>1. \A n \in 1..r : log'[n] = log[n]
    BY <1>1 DEF Revision
  <2>2. r \in Nat
    BY <1>1
  <2>3. Ver(log', f, r) = Ver(log, f, r)
    BY <2>1, <2>2, VerAgree
  <2> QED
    BY <2>3, ContentVer
<1> QED
    BY <1>1, <1>2

\* The log stays.
LEMMA ContentStays ==
    ASSUME log' = log
    PROVE  /\ Revision' = Revision
           /\ \A f, r : Content(f, r)' = Content(f, r)
           /\ \A d, r : There(d, r)' = There(d, r)
    BY DEF Content, Revision, There

\* Versions are revisions of the past, and the log has no change of None.
LEMMA ContentNat ==
    ASSUME TypeOK, NEW f, NEW r \in 0..Revision
    PROVE  Content(f, r) \in 0..r /\ Revision \in Nat
<1>1. Revision \in Nat
    BY DEF TypeOK, Revision
<1> QED
    BY <1>1, VerNat, ContentVer

----------------------------------------------------------------------------
(* Steps of the loop that leave the mount alone.                           *)

\* The loop takes no more for applied than before; the mount stays.
LEMMA LoopOnly ==
    ASSUME IInv, UNCHANGED <<log, floor, held, known, loaded, loading, behind>>,
           late' \subseteq Dir, loop' \in Loop, OrderInv', loop'.pc # "prime",
           Base \in Nat, Base' \in Nat, Base' <= Base, Goal \in Nat, Goal' \in Nat,
           \/ late' = InFlight
           \/ late' = late /\ Goal' <= Goal /\ (loop'.pc = "round" => loop.pc = "round"),
           loop'.pc = "round" => RoundInv'
    PROVE  IInv'
<1>1. /\ Revision' = Revision /\ Revision \in Nat
      /\ \A f, r : Content(f, r)' = Content(f, r)
    BY ContentStays DEF IInv, TypeOK, Revision
<1>2. TypeOK'
    BY <1>1 DEF IInv, TypeOK
<1>3. InodeInv'
    BY DEF IInv, InodeInv
<1>4. ListingInv'
  <2> SUFFICES ASSUME NEW d \in Dir, loading[d] # None
               PROVE  /\ loading[d] <= Revision
                      /\ d \notin late' /\ (d \notin behind \/ loop'.pc = "round") => loading[d] >= Goal'
    BY <1>1 DEF ListingInv
  <2>1. /\ loading[d] <= Revision
        /\ d \notin late /\ (d \notin behind \/ loop.pc = "round") => loading[d] >= Goal
    BY DEF IInv, ListingInv
  <2>2. loading[d] \in Nat
    BY BoundsAssumption DEF IInv, TypeOK, Rev
  <2> QED
    BY <2>1, <2>2 DEF InFlight
<1>5. RoundInv'
    BY DEF RoundInv
<1>6. ShownInv'
  <2> SUFFICES ASSUME NEW f \in File, {Teller(f)', DirOf[f]} \cap behind' = {}
               PROVE  UpTo(f, Base)'
    BY DEF ShownInv
  <2>1. Teller(f)' = Teller(f) /\ \A r : Shows(f, r)' = Shows(f, r)
    BY <1>1 DEF Teller, Shows
  <2>2. UpTo(f, Base)
    BY <2>1 DEF IInv, ShownInv
  <2>3. PICK q \in Base..Revision : Shows(f, q)
    BY <2>2 DEF UpTo
  <2>4. q \in (Base')..(Revision')
    BY <1>1
  <2>5. Shows(f, q)'
    BY <2>1, <2>3
  <2> QED
    BY <2>4, <2>5 DEF UpTo
<1> QED
    BY <1>2, <1>3, <1>4, <1>5, <1>6 DEF IInv

\* Numbers are numbers.
LEMMA Values ==
    ASSUME IInv
    PROVE  /\ loop \in Loop /\ Revision \in Rev /\ Revision \in Nat /\ None \notin Nat /\ Rev \subseteq Nat
           /\ loop.cursor \in Nat /\ loop.at \in Nat /\ loop.probe \in Nat
           /\ loop.last = None \/ loop.last \in Nat
           /\ OrZero(loop.last) \in Nat
<1>1. loop \in Loop /\ Revision \in Nat /\ Revision <= MaxRevision
    BY DEF IInv, TypeOK, Revision
<1>2. Rev \subseteq Nat /\ Revision \in Rev /\ None \notin Nat
    BY <1>1, BoundsAssumption, NoneAssumption DEF Rev
<1>3. loop.cursor \in Rev /\ loop.at \in Rev /\ loop.probe \in Rev /\ loop.last \in Rev \cup {None}
    BY <1>1 DEF Loop
<1> QED
    BY <1>1, <1>2, <1>3 DEF OrZero

\* The revisions in question are numbers.
LEMMA GoalNat ==
    ASSUME loop \in Loop, loop' \in Loop
    PROVE  /\ Frontier \in Nat /\ Base \in Nat /\ Goal \in Nat
           /\ Frontier' \in Nat /\ Base' \in Nat /\ Goal' \in Nat
<1>1. Rev \subseteq Nat /\ None \notin Nat
    BY BoundsAssumption, NoneAssumption DEF Rev
<1>2. loop.cursor \in Rev /\ loop.at \in Rev /\ loop.probe \in Rev /\ loop.last \in Rev \cup {None}
    BY DEF Loop
<1>3. loop'.cursor \in Rev /\ loop'.at \in Rev /\ loop'.probe \in Rev /\ loop'.last \in Rev \cup {None}
    BY DEF Loop
<1>4. Frontier \in Nat /\ OrZero(loop.last) \in Nat
    BY <1>1, <1>2 DEF Frontier, OrZero
<1>5. Frontier' \in Nat /\ OrZero(loop'.last) \in Nat
    BY <1>1, <1>3 DEF Frontier, OrZero
<1>6. Base \in Nat /\ Goal \in Nat
    BY <1>1, <1>2, <1>4 DEF Base, Goal
<1>7. Base' \in Nat /\ Goal' \in Nat
    BY <1>1, <1>3, <1>5 DEF Base, Goal
<1> QED
    BY <1>4, <1>5, <1>6, <1>7

\* Where the feed goes on, fails or gives up, the loop does not claim more.
LEMMA FeedStep ==
    ASSUME IInv, UNCHANGED <<log, floor, mount, behind>>, loop' \in Loop,
           loop.pc \notin {"prime", "round"}, loop'.pc \notin {"prime", "round"},
           OrderInv', Frontier' <= Frontier
    PROVE  IInv'
<1>1. Base = Frontier /\ Goal = Frontier /\ Base' = Frontier' /\ Goal' = Frontier'
    BY DEF Base, Goal
<1>2. UNCHANGED <<log, floor, held, known, loaded, loading, behind>> /\ late' = late
    BY DEF mount
<1>3. loop \in Loop /\ late' \subseteq Dir
    BY <1>2 DEF IInv, TypeOK
<1> QED
    BY <1>1, <1>2, <1>3, GoalNat, LoopOnly

\* Subscribing at once, or after a probe that changed nothing or failed.
LEMMA ResumeStep ==
    ASSUME IInv, UNCHANGED <<log, floor, mount, behind>>, loop.pc = "resume",
           NEW s \in BOOLEAN, loop' = [loop EXCEPT !.pc = "connect", !.skip = s]
    PROVE  IInv'
<1>1. loop' \in Loop
    BY Values DEF Loop, Step
<1>2. /\ loop'.pc = "connect" /\ loop'.last = loop.last /\ loop'.resume = loop.resume
      /\ loop'.cursor = loop.cursor
    BY Values DEF Loop
<1>3. Frontier' = Frontier
    BY <1>2 DEF Frontier
<1>4. OrderInv'
    BY <1>2 DEF IInv, OrderInv, Revision, OrZero
<1> QED
    BY <1>1, <1>2, <1>3, <1>4, Values, GoalNat, FeedStep

\* Without a stream the loop goes on from the last revision or from a cursor it
\* has reached.
LEMMA BackTo ==
    ASSUME IInv, UNCHANGED <<log, floor, mount, behind>>, loop' \in Loop,
           loop.pc \in {"resume", "connect", "stream"},
           loop'.pc \in {"resume", "connect", "sleep", "off"}, loop'.last = loop.last,
           loop'.resume = "cursor" => loop'.cursor <= Frontier /\ OrZero(loop.last) <= loop'.cursor,
           loop'.pc \in {"sleep", "off"} => loop'.resume = "since"
    PROVE  IInv'
<1>1. OrZero(loop.last) <= Frontier /\ Frontier <= Revision
    BY Values DEF IInv, OrderInv, Frontier, OrZero
<1>2. Frontier' <= Frontier
  <2>1. CASE loop'.resume = "cursor"
    BY <2>1, <1>1, Values, GoalNat DEF Frontier
  <2>2. CASE loop'.resume # "cursor"
    BY <2>2, <1>1, Values, GoalNat DEF Frontier, OrZero
  <2> QED
    BY <2>1, <2>2
<1>3. OrderInv'
  <2>1. Revision' = Revision /\ Frontier \in Nat
    BY Values, GoalNat DEF Revision
  <2>2. loop'.resume = "cursor" => loop'.cursor \in Nat
    BY Values DEF Loop
  <2> QED
    BY <1>1, <2>1, <2>2, Values DEF IInv, OrderInv
<1> QED
    BY <1>2, <1>3, FeedStep

\* The interval poll takes over.
LEMMA FallbackRecord ==
    ASSUME NEW l \in Loop
    PROVE  /\ Fallback(l) \in Loop /\ Fallback(l).pc \in {"sleep", "off"}
           /\ Fallback(l).last = l.last /\ Fallback(l).resume = "since"
<1>1. 0 \in Rev /\ 0 \in 0..(MaxSilent - 1)
    BY BoundsAssumption DEF Rev
<1> QED
    BY <1>1 DEF Fallback, Loop, Step

\* A session is over.
LEMMA EndedRecord ==
    ASSUME NEW l \in Loop
    PROVE  /\ Ended(l) \in Loop /\ Ended(l).pc = "resume"
           /\ Ended(l).last = l.last /\ Ended(l).cursor = l.cursor /\ Ended(l).silent = l.silent
           /\ Ended(l).resume = "cursor" <=> l.resume = "cursor"
<1>1. 0 \in Rev
    BY BoundsAssumption DEF Rev
<1> QED
    BY <1>1 DEF Ended, Loop, Step

\* The feed tells where it stands.
LEMMA CursorRecord ==
    ASSUME NEW l \in Loop, NEW c \in Rev
    PROVE  /\ Cursor(l, c) \in Loop /\ Cursor(l, c).pc = l.pc /\ Cursor(l, c).last = l.last
           /\ Cursor(l, c).at = l.at
           /\ \/ Cursor(l, c).resume = "cursor" /\ Cursor(l, c).cursor = c
              \/ Revision = 0 /\ Cursor(l, c) = l
    BY DEF Cursor, Loop

\* A subscription that is refused or fails.
LEMMA ConnectFailStep ==
    ASSUME IInv, ConnectNotServed \/ ConnectRefused \/ ConnectFail
    PROVE  IInv'
<1>1. loop.pc = "connect" /\ loop \in Loop /\ UNCHANGED <<log, floor, mount, behind>>
    BY Values DEF ConnectNotServed, ConnectRefused, ConnectFail
<1>2. ASSUME loop' = Fallback(loop) PROVE IInv'
    BY <1>1, <1>2, FallbackRecord, BackTo
<1>3. CASE ConnectNotServed
    BY <1>2, <1>3 DEF ConnectNotServed
<1>4. CASE ConnectFail
  <2>1. loop' = [loop EXCEPT !.pc = "resume"]
    BY <1>4 DEF ConnectFail
  <2>2. loop' \in Loop /\ loop'.pc = "resume" /\ loop'.last = loop.last
        /\ loop'.resume = loop.resume /\ loop'.cursor = loop.cursor
    BY <1>1, <2>1 DEF Loop, Step
  <2>3. loop.resume = "cursor" => loop.cursor <= Frontier /\ OrZero(loop.last) <= loop.cursor
    BY <1>1, Values DEF Frontier, IInv, OrderInv
  <2> QED
    BY <1>1, <2>2, <2>3, BackTo
<1>5. CASE ConnectRefused
  <2>1. CASE loop.resume = "cursor"
    <3>1. loop' = [loop EXCEPT !.pc = "resume", !.resume = "since", !.cursor = 0]
      BY <1>5, <2>1 DEF ConnectRefused
    <3>2. 0 \in Rev
      BY BoundsAssumption DEF Rev
    <3>3. loop' \in Loop /\ loop'.pc = "resume" /\ loop'.last = loop.last /\ loop'.resume # "cursor"
      BY <1>1, <3>1, <3>2 DEF Loop, Step
    <3> QED
      BY <1>1, <3>3, BackTo
  <2>2. CASE loop.resume = "since"
    <3>1. loop' = [loop EXCEPT !.pc = "resume", !.resume = "live"]
      BY <1>5, <2>2 DEF ConnectRefused
    <3>2. loop' \in Loop /\ loop'.pc = "resume" /\ loop'.last = loop.last /\ loop'.resume # "cursor"
      BY <1>1, <3>1 DEF Loop, Step
    <3> QED
      BY <1>1, <3>2, BackTo
  <2>3. CASE loop.resume \notin {"cursor", "since"}
    <3>1. loop' = Fallback(loop)
      BY <1>5, <2>3 DEF ConnectRefused
    <3> QED
      BY <1>2, <3>1
  <2> QED
    BY <2>1, <2>2, <2>3
<1> QED
    BY <1>3, <1>4, <1>5

\* The end of a session, however it comes.
LEMMA SessionEndStep ==
    ASSUME IInv, Reset \/ Reconnect \/ StreamEnd
    PROVE  IInv'
<1>1. /\ loop.pc = "stream" /\ loop \in Loop /\ UNCHANGED <<log, floor, mount, behind>>
      /\ loop.at \in Rev /\ 0 \in Rev /\ Frontier = loop.at
    BY Values, BoundsAssumption DEF Reset, Reconnect, StreamEnd, Loop, Frontier, Rev
<1>2. /\ OrZero(loop.last) <= loop.at /\ loop.at <= Revision
      /\ loop.resume = "cursor" => loop.cursor <= loop.at /\ OrZero(loop.last) <= loop.cursor
    BY <1>1 DEF IInv, OrderInv
<1>3. CASE Reset
  <2> DEFINE l == [loop EXCEPT !.resume = "since", !.cursor = 0]
  <2>1. l \in Loop /\ l.last = loop.last /\ l.resume = "since"
    BY <1>1 DEF Loop
  <2>2. loop' = Ended(l)
    BY <1>3 DEF Reset
  <2> HIDE DEF l
  <2>3. loop' \in Loop /\ loop'.pc = "resume" /\ loop'.last = loop.last /\ loop'.resume # "cursor"
    BY <2>1, <2>2, EndedRecord
  <2> QED
    BY <1>1, <2>3, BackTo
<1>4. CASE Reconnect
  <2> DEFINE l == Cursor(loop, loop.at)
  <2>1. /\ l \in Loop /\ l.last = loop.last
        /\ l.resume = "cursor" => l.cursor <= loop.at /\ OrZero(loop.last) <= l.cursor
    <3>1. /\ l \in Loop /\ l.last = loop.last
          /\ \/ l.resume = "cursor" /\ l.cursor = loop.at
             \/ l = loop
      BY <1>1, CursorRecord
    <3> QED
      BY <3>1, <1>2, Values
  <2>2. loop' = Ended(l)
    BY <1>4 DEF Reconnect
  <2> HIDE DEF l
  <2>3. /\ loop' \in Loop /\ loop'.pc = "resume" /\ loop'.last = loop.last
        /\ loop'.cursor = l.cursor
        /\ loop'.resume = "cursor" <=> l.resume = "cursor"
    BY <2>1, <2>2, EndedRecord
  <2> QED
    BY <1>1, <2>1, <2>3, BackTo
<1>5. CASE StreamEnd
  <2> DEFINE n == IF loop.ready THEN loop.silent ELSE loop.silent + 1
             l == [Ended(loop) EXCEPT !.silent = n]
  <2>1. loop' = IF n >= MaxSilent THEN Fallback(l) ELSE l
    BY <1>5 DEF StreamEnd
  <2>2. /\ Ended(loop) \in Loop /\ Ended(loop).pc = "resume" /\ Ended(loop).last = loop.last
        /\ Ended(loop).cursor = loop.cursor
        /\ Ended(loop).resume = "cursor" <=> loop.resume = "cursor"
    BY <1>1, EndedRecord
  <2>3. n \in Nat
    BY <1>1, BoundsAssumption DEF Loop
  <2> HIDE DEF n
  <2>4. CASE n >= MaxSilent
    \* The record with n sessions is no member of Loop, but loses them again.
    <3>1. loop' = [Ended(loop) EXCEPT !.pc = IF Interval THEN "sleep" ELSE "off",
                                      !.resume = "since", !.cursor = 0, !.skip = FALSE, !.silent = 0]
      BY <2>1, <2>2, <2>4 DEF Fallback, Loop
    <3>2. loop' = Fallback(Ended(loop))
      BY <3>1 DEF Fallback
    <3> QED
      BY <1>1, <2>2, <3>2, FallbackRecord, BackTo
  <2>5. CASE ~(n >= MaxSilent)
    <3>1. n \in 0..(MaxSilent - 1) /\ loop' = l
      BY <2>1, <2>3, <2>5, BoundsAssumption
    <3>2. /\ loop' \in Loop /\ loop'.pc = "resume" /\ loop'.last = loop.last
          /\ loop'.cursor = loop.cursor
          /\ loop'.resume = "cursor" <=> loop.resume = "cursor"
      BY <2>2, <3>1 DEF Loop
    <3> QED
      BY <1>1, <1>2, <3>2, BackTo
  <2> QED
    BY <2>4, <2>5
<1> QED
    BY <1>3, <1>4, <1>5

\* The replay is through: the cursor is where the stream is.
LEMMA ReadyStep ==
    ASSUME IInv, Ready
    PROVE  IInv'
<1>1. /\ loop.pc = "stream" /\ loop \in Loop /\ UNCHANGED <<log, floor, mount, behind>>
      /\ loop.at \in Rev /\ loop.at = Revision
    BY Values DEF Ready, Loop
<1> DEFINE l == Cursor(loop, loop.at)
<1>2. /\ l \in Loop /\ l.pc = "stream" /\ l.last = loop.last /\ l.at = loop.at
      /\ \/ l.resume = "cursor" /\ l.cursor = loop.at
         \/ l = loop
    BY <1>1, CursorRecord
<1>3. loop' = [l EXCEPT !.ready = TRUE, !.silent = 0]
    BY DEF Ready
<1> HIDE DEF l
<1>4. /\ loop' \in Loop /\ loop'.pc = "stream" /\ loop'.last = loop.last /\ loop'.at = loop.at
      /\ \/ loop'.resume = "cursor" /\ loop'.cursor = loop.at
         \/ loop'.resume = loop.resume /\ loop'.cursor = loop.cursor
  <2>1. 0 \in 0..(MaxSilent - 1)
    BY BoundsAssumption
  <2> QED
    BY <1>2, <1>3, <2>1 DEF Loop
<1>5. OrderInv'
    BY <1>1, <1>4, Values DEF IInv, OrderInv, Revision
<1>6. Frontier' = Frontier
    BY <1>1, <1>4 DEF Frontier
<1> QED
    BY <1>1, <1>4, <1>5, <1>6, GoalNat, FeedStep

\* A subscription: from the resume point, or, without one, from now on and with
\* every directory given up.
LEMMA ConnectStep ==
    ASSUME IInv, Connect
    PROVE  IInv'
<1>1. /\ loop.pc = "connect" /\ loop \in Loop /\ UNCHANGED <<log, floor, mount>>
      /\ Revision \in Rev /\ loop.cursor \in Rev /\ loop.last \in Rev \cup {None}
    BY Values DEF Connect, Loop
<1> DEFINE at == CASE Bare -> Revision [] loop.resume = "cursor" -> loop.cursor [] OTHER -> loop.last
<1>2. at \in Rev
  <2>1. ~Bare /\ loop.resume # "cursor" => loop.last # None
    BY <1>1 DEF Bare, Loop
  <2> QED
    BY <1>1, <2>1
<1>3. loop' = [loop EXCEPT !.pc = "stream", !.ready = FALSE, !.at = at]
    BY DEF Connect
<1>4. at = IF Bare THEN Revision ELSE Frontier
  <2>1. CASE Bare
    BY <2>1 DEF Bare
  <2>2. CASE ~Bare /\ loop.resume = "cursor"
    BY <2>2, <1>1 DEF Frontier
  <2>3. CASE ~Bare /\ loop.resume # "cursor"
    <3>1. loop.last # None
      BY <2>3, <1>1 DEF Bare, Loop
    <3> QED
      BY <2>3, <3>1, <1>1 DEF Frontier
  <2> QED
    BY <2>1, <2>2, <2>3
<1> HIDE DEF at
<1>5. /\ loop' \in Loop /\ loop'.pc = "stream" /\ loop'.last = loop.last /\ loop'.at = at
      /\ loop'.resume = loop.resume /\ loop'.cursor = loop.cursor
    BY <1>1, <1>2, <1>3 DEF Loop, Step
<1>6. Frontier' = at
    BY <1>5 DEF Frontier
<1>7. /\ OrZero(loop.last) <= Revision /\ OrZero(loop.last) <= Frontier /\ Frontier <= Revision
      /\ loop.resume = "cursor" => loop.cursor <= Frontier /\ OrZero(loop.last) <= loop.cursor
    BY <1>1, Values DEF IInv, OrderInv, Frontier, OrZero
<1>8. OrderInv'
  <2>1. Revision' = Revision /\ Frontier \in Nat
    BY <1>1, <1>5, GoalNat DEF Revision
  <2> QED
    BY <1>4, <1>5, <1>7, <2>1, Values DEF IInv, OrderInv
<1>9. CASE ~Bare
  <2>1. behind' = behind
    BY <1>9 DEF Connect
  <2> QED
    BY <1>1, <1>4, <1>5, <1>6, <1>8, <1>9, <2>1, GoalNat, FeedStep
<1>10. CASE Bare
  <2>1. behind' = Dir
    BY <1>10 DEF Connect
  <2>2. UNCHANGED <<log, floor, held, known, loaded, loading, late>> /\ Revision' = Revision
    BY <1>1 DEF mount, Revision
  <2>3. TypeOK'
    BY <1>5, <2>1, <2>2 DEF IInv, TypeOK
  <2>4. InodeInv'
    BY <1>5, <2>2 DEF IInv, InodeInv
  <2>5. ListingInv' /\ RoundInv'
    BY <1>5, <2>1, <2>2 DEF IInv, ListingInv, RoundInv
  <2>6. ShownInv'
    <3>1. \A f \in File : DirOf[f] \in Dir
      BY TreeAssumption
    <3> QED
      BY <2>1, <3>1 DEF ShownInv
  <2> QED
    BY <1>8, <2>3, <2>4, <2>5, <2>6 DEF IInv
<1> QED
    BY <1>9, <1>10

\* A round begins.
LEMMA StartRoundStep ==
    ASSUME IInv, NEW l \in Loop, NEW fol \in BOOLEAN, NEW p \in Rev,
           loop' = [l EXCEPT !.pc = "round", !.follow = fol, !.probe = p,
                             !.todo = loaded, !.lists = [d \in Dir |-> None]],
           late' = InFlight, UNCHANGED <<log, floor, held, known, loaded, loading, behind>>,
           loop.pc \notin {"prime", "round"},
           p <= Revision, OrZero(l.last) <= Revision, l.resume = "since",
           fol => p = Revision /\ l = loop /\ loop.pc = "resume"
    PROVE  IInv'
<1>2. loaded \subseteq Dir /\ late' \subseteq Dir
    BY DEF IInv, TypeOK, InFlight
<1>3. /\ loop' \in Loop /\ loop'.pc = "round" /\ loop'.follow = fol /\ loop'.probe = p
      /\ loop'.todo = loaded /\ loop'.lists = [d \in Dir |-> None]
      /\ loop'.last = l.last /\ loop'.resume = l.resume /\ loop'.cursor = l.cursor
    BY <1>2 DEF Loop, Step
<1>4. OrderInv'
  <2>1. Revision' = Revision /\ None \notin Rev
    BY Values DEF Revision
  <2>2. \A d \in Dir : loop'.lists[d] \notin Rev
    BY <1>3, <2>1
  <2> QED
    BY <1>3, <2>1, <2>2 DEF IInv, OrderInv
<1>5. RoundInv'
  <2>1. \A d : ~NewlyLoaded(d)'
    BY <1>3 DEF NewlyLoaded
  <2> QED
    BY <2>1 DEF RoundInv
<1>6. Base' <= Base
  <2>1. loop \in Loop /\ Base = Frontier /\ Frontier \in Nat
    BY <1>3, Values, GoalNat DEF Base
  <2>2. CASE fol
    <3>1. Base' = OrZero(loop.last)
      BY <1>3, <2>2 DEF Base
    <3>2. OrZero(loop.last) <= Frontier
      BY <2>1, <2>2 DEF Frontier, OrZero
    <3> QED
      BY <2>1, <3>1, <3>2
  <2>3. CASE ~fol
    BY <1>3, <2>1, <2>3 DEF Base, Frontier
  <2> QED
    BY <2>2, <2>3
<1> QED
    BY <1>2, <1>3, <1>4, <1>5, <1>6, Values, GoalNat, LoopOnly

\* A probe.
LEMMA ProbeStep ==
    ASSUME IInv, Resume \/ ResumeProbe \/ ResumeProbeFail \/ PollProbe \/ PollProbeFail
    PROVE  IInv'
<1>1. loop \in Loop /\ Revision \in Rev /\ 0 \in Rev /\ Revision \in Nat
    BY Values, BoundsAssumption DEF Rev
<1>2. CASE Resume
    BY <1>1, <1>2, ResumeStep DEF Resume
<1>3. ASSUME loop.pc = "resume", UNCHANGED <<log, floor, mount, behind>>,
             loop' = [loop EXCEPT !.pc = "connect"]
      PROVE  IInv'
  <2>1. loop.skip \in BOOLEAN /\ loop' = [loop EXCEPT !.pc = "connect", !.skip = loop.skip]
    BY <1>1, <1>3 DEF Loop
  <2> QED
    BY <1>3, <2>1, ResumeStep
<1>4. CASE ResumeProbeFail
    BY <1>3, <1>4 DEF ResumeProbeFail
<1>5. CASE ResumeProbe
  <2>1. loop.pc = "resume" /\ loop.resume = "since"
    BY <1>5 DEF ResumeProbe
  <2>2. CASE loop.last # Revision
    <3>1. StartRound(loop, TRUE, Revision)
      BY <1>5, <2>2 DEF ResumeProbe
    <3>2. OrZero(loop.last) <= Revision
      BY DEF IInv, OrderInv
    <3>3. PICK k \in Loop, p \in Rev : k = loop /\ p = Revision
      BY <1>1
    <3>4. /\ loop' = [k EXCEPT !.pc = "round", !.follow = TRUE, !.probe = p,
                              !.todo = loaded, !.lists = [d \in Dir |-> None]]
          /\ late' = InFlight /\ UNCHANGED <<log, floor, held, known, loaded, loading, behind>>
      BY <3>1, <3>3 DEF StartRound
    <3>5. /\ p <= Revision /\ OrZero(k.last) <= Revision /\ k.resume = "since"
          /\ p = Revision /\ k = loop /\ loop.pc = "resume"
      BY <1>1, <2>1, <3>2, <3>3
    <3> QED
      BY <3>4, <3>5, StartRoundStep
  <2>3. CASE loop.last = Revision
    BY <1>3, <1>5, <2>1, <2>3 DEF ResumeProbe
  <2> QED
    BY <2>2, <2>3
<1>6. CASE PollProbe
  <2> DEFINE l == [loop EXCEPT !.last = Revision]
  <2>1. loop.pc = "sleep" /\ StartRound(l, FALSE, Revision)
    BY <1>6 DEF PollProbe
  <2>2. l \in Loop /\ l.last = Revision /\ l.resume = loop.resume /\ l.cursor = loop.cursor
    BY <1>1 DEF Loop
  <2>3. Revision # None /\ OrZero(l.last) = Revision
    BY <1>1, <2>2, Values DEF OrZero
  <2>4. l.resume = "since"
    BY <2>1, <2>2 DEF IInv, OrderInv
  <2>5. /\ loop' = [l EXCEPT !.pc = "round", !.follow = FALSE, !.probe = Revision,
                            !.todo = loaded, !.lists = [d \in Dir |-> None]]
        /\ late' = InFlight /\ UNCHANGED <<log, floor, held, known, loaded, loading, behind>>
    BY <2>1 DEF StartRound
  <2> HIDE DEF l
  <2>6. PICK k \in Loop, p \in Rev : k = l /\ p = Revision
    BY <1>1, <2>2
  <2>7. /\ loop' = [k EXCEPT !.pc = "round", !.follow = FALSE, !.probe = p,
                            !.todo = loaded, !.lists = [d \in Dir |-> None]]
        /\ late' = InFlight /\ UNCHANGED <<log, floor, held, known, loaded, loading, behind>>
    BY <2>5, <2>6
  <2>8. p <= Revision /\ OrZero(k.last) <= Revision /\ k.resume = "since" /\ loop.pc = "sleep"
    BY <1>1, <2>1, <2>3, <2>4, <2>6
  <2> QED
    BY <2>7, <2>8, StartRoundStep
<1>7. CASE PollProbeFail
  <2>1. loop.pc = "sleep" /\ StartRound(loop, FALSE, 0)
    BY <1>7 DEF PollProbeFail
  <2>2. OrZero(loop.last) <= Revision /\ loop.resume = "since"
    BY <2>1 DEF IInv, OrderInv
  <2>3. PICK k \in Loop : k = loop
    BY <1>1
  <2>4. /\ loop' = [k EXCEPT !.pc = "round", !.follow = FALSE, !.probe = 0,
                            !.todo = loaded, !.lists = [d \in Dir |-> None]]
        /\ late' = InFlight /\ UNCHANGED <<log, floor, held, known, loaded, loading, behind>>
    BY <2>1, <2>3 DEF StartRound
  <2>5. 0 <= Revision /\ OrZero(k.last) <= Revision /\ k.resume = "since"
    BY <1>1, <2>2, <2>3
  <2> QED
    BY <1>1, <2>1, <2>4, <2>5, StartRoundStep
<1> QED
    BY <1>2, <1>4, <1>5, <1>6, <1>7

\* A directory of the round is listed, or fails to be.
LEMMA RoundListStep ==
    ASSUME IInv, NEW d \in Dir, NEW ok \in BOOLEAN, RoundList(d, ok)
    PROVE  IInv'
<1>1. /\ loop.pc = "round" /\ loop \in Loop /\ UNCHANGED <<log, floor, mount, behind>>
      /\ Revision \in Rev /\ Revision \in Nat /\ None \notin Rev
    BY Values DEF RoundList
<1>2. PICK r \in Rev \cup {-1} : r = IF ok THEN Revision ELSE -1
    BY <1>1
<1>3. loop' = [loop EXCEPT !.todo = @ \ {d}, !.lists[d] = r]
    BY <1>2 DEF RoundList
<1>4. loop.lists \in [Dir -> Rev \cup {None, -1}] /\ loop.todo \in SUBSET Dir
    BY <1>1 DEF Loop
<1>5. /\ loop' \in Loop /\ loop'.pc = "round" /\ loop'.last = loop.last /\ loop'.resume = loop.resume
      /\ loop'.cursor = loop.cursor /\ loop'.follow = loop.follow /\ loop'.probe = loop.probe
      /\ loop'.todo = loop.todo \ {d} /\ loop'.lists = [loop.lists EXCEPT ![d] = r]
    BY <1>1, <1>3, <1>4 DEF Loop
<1>6. Frontier' = Frontier /\ Goal' = Goal /\ Base' = Base
    BY <1>1, <1>5 DEF Frontier, Goal, Base
<1>7. Goal \in Nat /\ Goal <= Revision
  <2>1. Goal \in Nat
    BY <1>1, <1>5, GoalNat
  <2> QED
    BY <1>1, <2>1 DEF IInv, OrderInv, Goal
<1>8. OrderInv'
  <2>1. Revision' = Revision
    BY <1>1 DEF Revision
  <2>2. \A e \in Dir : loop'.lists[e] \in Rev => loop'.lists[e] \in (Goal')..(Revision')
    <3> SUFFICES ASSUME NEW e \in Dir, loop'.lists[e] \in Rev
                 PROVE  loop'.lists[e] \in Goal..Revision
      BY <1>6, <2>1
    <3>1. CASE e = d
      <4>1. loop'.lists[e] = r
        BY <1>4, <1>5, <3>1
      <4>2. -1 \notin Rev
        BY BoundsAssumption DEF Rev
      <4> QED
        BY <4>1, <4>2, <1>1, <1>2, <1>7
    <3>2. CASE e # d
      <4>1. loop'.lists[e] = loop.lists[e]
        BY <1>4, <1>5, <3>2
      <4> QED
        BY <1>1, <4>1 DEF IInv, OrderInv
    <3> QED
      BY <3>1, <3>2
  <2> QED
    BY <1>1, <1>5, <2>1, <2>2 DEF IInv, OrderInv
<1>9. RoundInv'
  <2>1. \A e \in Dir : NewlyLoaded(e)' => NewlyLoaded(e)
    <3> SUFFICES ASSUME NEW e \in Dir, NewlyLoaded(e)' PROVE NewlyLoaded(e)
      OBVIOUS
    <3>1. e \in loaded /\ e \notin loop.todo \ {d} /\ loop'.lists[e] = None
      BY <1>1, <1>5 DEF NewlyLoaded, mount
    <3>2. e # d
      BY <3>1, <1>1, <1>2, <1>4, <1>5, NoneAssumption
    <3> QED
      BY <3>1, <3>2, <1>4, <1>5 DEF NewlyLoaded
  <2>2. \A f \in File : Teller(f)' = Teller(f) /\ Teller(f) \in Dir
    BY <1>1, TreeAssumption DEF Teller, mount, Dir
  <2>3. Revision' = Revision /\ \A f, q : Content(f, q)' = Content(f, q)
    BY <1>1, ContentStays
  <2> SUFFICES ASSUME NEW f \in File, held'[f] = 0, NewlyLoaded(Teller(f)'), Teller(f)' \notin behind'
               PROVE  \E q \in (Goal')..(Revision') : Content(f, q)' = 0
    BY <2>1, <2>2 DEF RoundInv
  <2>4. \E q \in Goal..Revision : Content(f, q) = 0
    BY <1>1, <2>2 DEF IInv, RoundInv, mount
  <2> QED
    BY <1>6, <2>3, <2>4
<1>10. /\ UNCHANGED <<log, floor, held, known, loaded, loading, behind>> /\ late' = late
       /\ late' \subseteq Dir
    BY <1>1 DEF mount, IInv, TypeOK
<1> QED
    BY <1>1, <1>5, <1>6, <1>8, <1>9, <1>10, GoalNat, LoopOnly

\* The first probe: what is loaded was listed at an unknown moment before.
LEMMA PrimeStep ==
    ASSUME IInv, NEW ok \in BOOLEAN, Prime(ok)
    PROVE  IInv'
<1>1. /\ loop.pc = "prime" /\ loop \in Loop /\ UNCHANGED <<log, floor, held, known, loaded, loading>>
      /\ late' = InFlight /\ behind' = loaded
      /\ Revision \in Rev /\ Revision \in Nat /\ None \notin Rev /\ 0 \in Rev
    BY Values, BoundsAssumption DEF Prime, Rev
<1>2. PICK last \in Rev \cup {None} : last = IF ok THEN Revision ELSE None
    BY <1>1
<1>3. loop' = IF LiveFollow THEN [loop EXCEPT !.pc = "resume", !.last = last, !.skip = ok]
              ELSE Fallback([loop EXCEPT !.last = last])
    BY <1>2 DEF Prime
<1>4. loop.resume = "since"
    BY <1>1 DEF IInv, OrderInv
<1>5. /\ loop' \in Loop /\ loop'.pc \in {"resume", "sleep", "off"} /\ loop'.last = last
      /\ loop'.resume = "since"
  <2>1. CASE LiveFollow
    BY <1>1, <1>3, <1>4, <2>1 DEF Loop, Step
  <2>2. CASE ~LiveFollow
    <3>1. [loop EXCEPT !.last = last] \in Loop /\ [loop EXCEPT !.last = last].last = last
      BY <1>1 DEF Loop
    <3> QED
      BY <1>3, <2>2, <3>1, FallbackRecord
  <2> QED
    BY <2>1, <2>2
<1>6. Revision' = Revision /\ Frontier' \in 0..Revision /\ Base' = Frontier' /\ OrZero(last) \in 0..Revision
  <2>1. OrZero(last) \in 0..Revision
    BY <1>1, <1>2 DEF OrZero
  <2>2. Frontier' \in 0..Revision
    BY <1>1, <1>2, <1>5 DEF Frontier
  <2> QED
    BY <1>1, <1>5, <2>1, <2>2 DEF Revision, Base
<1>7. TypeOK'
    BY <1>1, <1>5, <1>6 DEF IInv, TypeOK, InFlight
<1>8. OrderInv'
    BY <1>5, <1>6 DEF OrderInv
<1>9. InodeInv' /\ RoundInv'
    BY <1>1, <1>5 DEF IInv, InodeInv, RoundInv
<1>10. ListingInv'
    BY <1>1, <1>5, <1>6 DEF IInv, ListingInv, InFlight
<1>11. ShownInv'
  <2> SUFFICES ASSUME NEW f \in File, {Teller(f)', DirOf[f]} \cap behind' = {}
               PROVE  UpTo(f, Base)'
    BY DEF ShownInv
  <2>1. held[f] \in Nat /\ ~(held[f] > 0)
    BY <1>1 DEF IInv, InodeInv, TypeOK
  <2>2. Revision \in (Base')..(Revision')
    BY <1>1, <1>6
  <2>3. \E q \in (Base')..(Revision') : Shows(f, q)'
    <3>1. PICK q : q = Revision
      OBVIOUS
    <3>2. Shows(f, q)'
      BY <1>1, <2>1 DEF Shows
    <3> QED
      BY <2>2, <3>1, <3>2
  <2> QED
    BY <2>3 DEF UpTo
<1> QED
    BY <1>7, <1>8, <1>9, <1>10, <1>11 DEF IInv

----------------------------------------------------------------------------
(* The bucket changes; a directory is listed and the listing installed.    *)

\* Another client's change is in the future of everything.
LEMMA EditStep ==
    ASSUME IInv, NEW f \in File, RemoteEdit(f) \/ RemoteUpdate(f)
    PROVE  IInv'
<1>1. /\ UNCHANGED <<floor, held, known, loaded, loading, loop, late, behind>>
      /\ Revision < MaxRevision
    BY DEF RemoteEdit, RemoteUpdate
<1>2. PICK c \in Change : log' = Append(log, c)
    BY DEF RemoteEdit, RemoteUpdate, Change
<1>3. /\ Revision' = Revision + 1 /\ Revision \in Nat
      /\ \A g, r : r \in 0..Revision => Content(g, r)' = Content(g, r)
    BY <1>2, ContentGrows DEF IInv
<1>4. Frontier' = Frontier /\ Goal' = Goal /\ Base' = Base /\ Frontier \in Nat /\ Goal \in Nat /\ Base \in Nat
    BY <1>1, Values, GoalNat DEF Frontier, Goal, Base
<1>5. \A m, n : m \in n..Revision => m \in n..(Revision')
    BY <1>3
<1>6. TypeOK'
  <2>1. log' \in Seq(Change) /\ Revision' <= MaxRevision
    BY <1>1, <1>2, <1>3, BoundsAssumption DEF IInv, TypeOK
  <2>2. floor' \in 0..(Revision') /\ held' \in [File -> 0..(Revision')]
    BY <1>1, <1>3 DEF IInv, TypeOK
  <2> QED
    BY <1>1, <2>1, <2>2 DEF IInv, TypeOK
<1>7. OrderInv'
  <2>1. loop.pc = "round" =>
            \A d \in Dir : loop.lists[d] \in Rev => loop.lists[d] \in Goal..(Revision')
    BY <1>5 DEF IInv, OrderInv
  <2>2. OrZero(loop.last) \in Nat /\ loop.cursor \in Nat /\ loop.at \in Nat /\ loop.probe \in Nat
    BY Values
  <2> QED
    BY <1>1, <1>3, <1>4, <2>1, <2>2 DEF IInv, OrderInv
<1>8. InodeInv'
    BY <1>1 DEF IInv, InodeInv
<1>9. ListingInv'
  <2>1. \A d \in Dir : loading[d] # None => loading[d] \in Nat
    BY BoundsAssumption DEF IInv, TypeOK, Rev
  <2> QED
    BY <1>1, <1>3, <1>4, <2>1 DEF IInv, ListingInv
<1>10. \A g : Teller(g)' = Teller(g)
    BY <1>1 DEF Teller
<1>11. RoundInv'
  <2>1. \A d : NewlyLoaded(d)' <=> NewlyLoaded(d)
    BY <1>1 DEF NewlyLoaded
  <2> SUFFICES ASSUME NEW g \in File, loop.pc = "round", held[g] = 0, NewlyLoaded(Teller(g)),
                      Teller(g) \notin behind
               PROVE  \E q \in Goal..(Revision') : Content(g, q)' = 0
    BY <1>1, <1>4, <1>10, <2>1 DEF RoundInv
  <2>2. PICK q \in Goal..Revision : Content(g, q) = 0
    BY DEF IInv, RoundInv
  <2>3. q \in 0..Revision /\ q \in Goal..(Revision')
    BY <1>3, <1>4
  <2> QED
    BY <1>3, <2>2, <2>3
<1>12. ShownInv'
  <2> SUFFICES ASSUME NEW g \in File, {Teller(g), DirOf[g]} \cap behind = {}
               PROVE  UpTo(g, Base)'
    BY <1>1, <1>10 DEF ShownInv
  <2>1. PICK q \in Base..Revision : Shows(g, q)
    BY DEF IInv, ShownInv, UpTo
  <2>2. q \in 0..Revision /\ q \in (Base')..(Revision')
    BY <1>3, <1>4
  <2>3. Content(g, q)' = Content(g, q)
    BY <1>3, <2>2
  <2>4. Shows(g, q)'
    BY <1>1, <1>10, <2>1, <2>3 DEF Shows
  <2> QED
    BY <2>2, <2>4 DEF UpTo
<1> QED
    BY <1>6, <1>7, <1>8, <1>9, <1>11, <1>12 DEF IInv

\* Forgetting a change, or asking for a listing, changes nothing that is shown.
LEMMA ListStep ==
    ASSUME IInv, Trim \/ \E d \in Dir : List(d)
    PROVE  IInv'
<1>1. /\ UNCHANGED <<log, held, known, loaded, loop, behind>>
      /\ floor' \in 0..Revision
      /\ loading' \in [Dir -> Rev \cup {None}]
      /\ late' \subseteq Dir
      /\ \A d \in Dir : /\ loading'[d] = loading[d] /\ (d \in late => d \in late')
                        \/ loading'[d] = Revision
  <2>1. Revision \in Nat /\ Revision \in Rev
    BY Values
  <2>2. CASE Trim
    BY <2>1, <2>2 DEF Trim, IInv, TypeOK
  <2>3. ASSUME NEW d \in Dir, List(d)
        PROVE  /\ UNCHANGED <<log, held, known, loaded, loop, behind>>
               /\ floor' \in 0..Revision
               /\ loading' \in [Dir -> Rev \cup {None}]
               /\ late' \subseteq Dir
               /\ \A e \in Dir : /\ loading'[e] = loading[e] /\ (e \in late => e \in late')
                                 \/ loading'[e] = Revision
    BY <2>1, <2>3 DEF List, IInv, TypeOK
  <2> QED
    BY <2>2, <2>3
<1>2. /\ Revision' = Revision /\ Revision \in Nat
      /\ \A f, r : Content(f, r)' = Content(f, r)
    BY <1>1, Values, ContentStays
<1>3. TypeOK' /\ InodeInv'
    BY <1>1, <1>2 DEF IInv, TypeOK, InodeInv
<1>4. Frontier' = Frontier /\ Goal' = Goal /\ Base' = Base /\ Goal \in Nat
    BY <1>1, Values, GoalNat DEF Frontier, Goal, Base
<1>5. OrderInv'
    BY <1>1, <1>2, <1>4 DEF IInv, OrderInv
<1>6. Goal <= Revision
    BY <1>2, Values DEF Goal, Frontier, IInv, OrderInv, OrZero
<1>7. ListingInv'
  <2>1. \A d \in Dir : loading[d] # None => loading[d] \in Nat
    BY BoundsAssumption DEF IInv, TypeOK, Rev
  <2> QED
    BY <1>1, <1>2, <1>4, <1>6, <2>1 DEF IInv, ListingInv
<1>8. /\ \A f : Teller(f)' = Teller(f)
      /\ \A d : NewlyLoaded(d)' <=> NewlyLoaded(d)
    BY <1>1 DEF Teller, NewlyLoaded
<1>9. RoundInv'
    BY <1>1, <1>2, <1>4, <1>8 DEF IInv, RoundInv
<1>10. \A f, r : Shows(f, r)' <=> Shows(f, r)
    BY <1>1, <1>2, <1>8 DEF Shows
<1>11. ShownInv'
    BY <1>1, <1>2, <1>4, <1>8, <1>10 DEF IInv, ShownInv, UpTo
<1> QED
    BY <1>3, <1>5, <1>7, <1>9, <1>11 DEF IInv

\* What is asked for is not in the future.
LEMMA GoalBound ==
    ASSUME IInv
    PROVE  Goal \in Nat /\ Goal <= Revision /\ Base \in Nat /\ Base <= Goal
<1>1. loop \in Loop
    BY Values
<1>2. Goal \in Nat /\ Base \in Nat /\ Frontier \in Nat
    BY <1>1, Values DEF Goal, Base, Frontier, Loop
<1>3. Frontier <= Revision
    BY Values DEF Frontier, IInv, OrderInv, OrZero
<1>4. CASE loop.pc = "round"
  <2>1. Frontier = 0
    BY <1>4 DEF Frontier
  <2>2. loop.probe <= Revision /\ OrZero(loop.last) <= Revision
        /\ (loop.follow => OrZero(loop.last) <= loop.probe)
    BY <1>4 DEF IInv, OrderInv
  <2> QED
    BY <1>2, <1>4, <2>1, <2>2, Values DEF Goal, Base
<1>5. CASE loop.pc # "round"
  <2>1. Goal = Frontier /\ Base = Frontier
    BY <1>5 DEF Goal, Base
  <2> QED
    BY <1>2, <1>3, <2>1
<1> QED
    BY <1>4, <1>5

\* A listing becomes the children of its directory.
LEMMA InstallStep ==
    ASSUME IInv, NEW d \in Dir, Install(d)
    PROVE  IInv'
<1>0. PICK r \in Rev : r = loading[d]
    BY DEF Install, IInv, TypeOK
<1> DEFINE gone == IF d = Root THEN {s \in Sub : ~There(s, r)} ELSE {}
<1>1. /\ r # None /\ loading' = [loading EXCEPT ![d] = None] /\ late' = late \ {d}
      /\ UNCHANGED <<log, floor, loop>>
    BY <1>0 DEF Install
<1>2. d \in known =>
        /\ held' = [f \in File |->
                        CASE DirOf[f] = d /\ (held[f] = 0 \/ Content(f, r) = 0) -> Content(f, r)
                          [] DirOf[f] \in gone -> 0
                          [] OTHER -> held[f]]
        /\ known' = (IF d = Root THEN Dir \ gone ELSE known)
        /\ loaded' = (loaded \cup {d}) \ gone
        /\ behind' = (IF d \in late THEN behind \cup {d} ELSE behind)
    BY <1>0 DEF Install
<1>3. d \notin known => UNCHANGED <<held, known, loaded, behind>>
    BY DEF Install
<1>4. /\ Revision' = Revision /\ Revision \in Nat /\ r \in Nat /\ r <= Revision
      /\ d \notin late /\ (d \notin behind \/ loop.pc = "round") => r >= Goal
      /\ \A f, q : Content(f, q)' = Content(f, q)
  <2>1. /\ r <= Revision
        /\ d \notin late /\ (d \notin behind \/ loop.pc = "round") => r >= Goal
    BY <1>0, <1>1 DEF IInv, ListingInv
  <2> QED
    BY <1>1, <2>1, Values, ContentStays
<1>5. /\ \A f \in File : held[f] \in 0..Revision /\ Content(f, r) \in 0..Revision
      /\ \A f \in File : DirOf[f] \in gone => Content(f, r) = 0
      /\ gone \subseteq Sub /\ d \notin gone /\ Root \notin gone
  <2>1. \A f \in File : held[f] \in 0..Revision
    BY DEF IInv, TypeOK
  <2>2. \A f \in File : Content(f, r) \in 0..Revision
    BY <1>4, ContentNat DEF IInv
  <2>3. \A f \in File : DirOf[f] \in gone => Content(f, r) = 0
    BY <2>2 DEF There
  <2> QED
    BY <2>1, <2>2, <2>3, TreeAssumption
<1> HIDE DEF gone
<1>6. Goal' = Goal /\ Base' = Base /\ Goal \in Nat /\ Goal <= Revision /\ Base \in Nat /\ Base <= Goal
    BY <1>1, <1>4, GoalBound DEF Goal, Base, Frontier
<1>7. OrderInv'
    BY <1>1, <1>4, <1>6 DEF IInv, OrderInv
<1>8. ListingInv'
  <2>1. behind \subseteq behind'
    BY <1>2, <1>3
  <2>2. loading \in [Dir -> Rev \cup {None}]
    BY DEF IInv, TypeOK
  <2> SUFFICES ASSUME NEW e \in Dir, loading'[e] # None
               PROVE  /\ loading'[e] <= Revision
                      /\ e \notin late' /\ (e \notin behind' \/ loop.pc = "round") => loading'[e] >= Goal
    BY <1>1, <1>4, <1>6 DEF ListingInv
  <2>3. e # d /\ loading'[e] = loading[e]
    BY <1>1, <2>2
  <2> QED
    BY <1>1, <2>1, <2>3 DEF IInv, ListingInv
<1>9. CASE d \notin known
  <2>1. TypeOK' /\ InodeInv'
    BY <1>1, <1>3, <1>4, <1>9 DEF IInv, TypeOK, InodeInv
  <2>2. /\ \A f : Teller(f)' = Teller(f)
        /\ \A e : NewlyLoaded(e)' <=> NewlyLoaded(e)
    BY <1>1, <1>3, <1>9 DEF Teller, NewlyLoaded
  <2>3. \A f, q : Shows(f, q)' <=> Shows(f, q)
    BY <1>3, <1>4, <1>9, <2>2 DEF Shows
  <2>4. RoundInv'
    BY <1>1, <1>3, <1>4, <1>6, <1>9, <2>2 DEF IInv, RoundInv
  <2>5. ShownInv'
    BY <1>3, <1>4, <1>6, <1>9, <2>2, <2>3 DEF IInv, ShownInv, UpTo
  <2> QED
    BY <1>7, <1>8, <2>1, <2>4, <2>5 DEF IInv
<1>10. CASE d \in known
  <2>1. \A f \in File : held'[f] = IF DirOf[f] = d /\ (held[f] = 0 \/ Content(f, r) = 0) THEN Content(f, r)
                                   ELSE IF DirOf[f] \in gone THEN 0 ELSE held[f]
    BY <1>2, <1>5, <1>10
  <2>2. /\ known' = (IF d = Root THEN Dir \ gone ELSE known)
        /\ loaded' = (loaded \cup {d}) \ gone
        /\ behind' = (IF d \in late THEN behind \cup {d} ELSE behind)
        /\ DOMAIN held' = File
    BY <1>2, <1>10
  <2>3. /\ known \subseteq Dir /\ Root \in known /\ loaded \subseteq known /\ late \subseteq Dir
        /\ behind \subseteq Dir /\ (d # Root => gone = {})
    BY DEF IInv, TypeOK, gone
  <2>4. TypeOK'
    <3>1. held' \in [File -> 0..(Revision')]
      <4>1. \A f \in File : held'[f] \in 0..Revision
        BY <1>4, <1>5, <2>1
      <4>2. held' = [f \in File |-> held'[f]]
        BY <1>2, <1>10
      <4> QED
        BY <1>4, <4>1, <4>2
    <3>2. known' \subseteq Dir /\ Root \in known' /\ loaded' \subseteq known'
      BY <1>5, <1>10, <2>2, <2>3 DEF Dir
    <3>3. loading' \in [Dir -> Rev \cup {None}]
      BY <1>1 DEF IInv, TypeOK
    <3>4. late' \subseteq Dir /\ behind' \subseteq Dir
      BY <1>1, <2>2, <2>3
    <3> QED
      BY <1>1, <1>4, <3>1, <3>2, <3>3, <3>4 DEF IInv, TypeOK
  <2>5. InodeInv'
    <3> SUFFICES ASSUME NEW f \in File, held'[f] > 0
                 PROVE  DirOf[f] \in known' /\ (loop.pc = "prime" => DirOf[f] \in loaded')
      BY <1>1 DEF InodeInv
    <3>1. CASE DirOf[f] = d
      BY <1>5, <1>10, <2>2, <3>1 DEF Dir
    <3>2. CASE DirOf[f] # d
      <4>1. DirOf[f] \notin gone /\ held[f] > 0
        BY <2>1, <3>2
      <4>2. DirOf[f] \in known /\ (loop.pc = "prime" => DirOf[f] \in loaded)
        BY <4>1 DEF IInv, InodeInv
      <4> QED
        BY <2>2, <2>3, <4>1, <4>2
    <3> QED
      BY <3>1, <3>2
  \* Where a file without inode is told of by a loaded directory: either it was
  \* before, and nothing changed for it, or the new listing lacks it.
  <2>6. ASSUME NEW f \in File, held'[f] = 0, Teller(f)' \in loaded'
        PROVE  \/ Teller(f)' = d /\ Content(f, r) = 0
               \/ Teller(f)' # d /\ Teller(f) = Teller(f)' /\ held[f] = 0 /\ Teller(f) \in loaded
    <3>1. CASE DirOf[f] = d
      <4>1. Content(f, r) = 0
        BY <1>5, <2>1, <2>6, <3>1
      <4>2. Teller(f)' = d
        BY <1>5, <1>10, <2>2, <3>1 DEF Teller, Dir
      <4> QED
        BY <4>1, <4>2
    <3>2. CASE DirOf[f] # d /\ DirOf[f] \in gone
      <4>1. d = Root /\ DirOf[f] \notin known'
        BY <2>2, <2>3, <3>2
      <4>2. Teller(f)' = d
        BY <4>1 DEF Teller
      <4> QED
        BY <1>5, <3>2, <4>2
    <3>3. CASE DirOf[f] # d /\ DirOf[f] \notin gone
      <4>1. held[f] = 0
        BY <2>1, <2>6, <3>3
      <4>2. CASE d = Root
        <5>1. DirOf[f] \in known' /\ Teller(f)' = DirOf[f]
          BY <2>2, <3>3, <4>2, TreeAssumption DEF Teller
        <5>2. DirOf[f] \in loaded
          BY <2>2, <2>6, <3>3, <5>1
        <5>3. Teller(f) = DirOf[f]
          BY <2>3, <5>2 DEF Teller
        <5> QED
          BY <3>3, <4>1, <5>1, <5>2, <5>3
      <4>3. CASE d # Root
        <5>1. Teller(f)' = Teller(f)
          BY <2>2, <4>3 DEF Teller
        <5>2. Teller(f) # d
          BY <3>3, <4>3 DEF Teller
        <5> QED
          BY <2>2, <2>6, <4>1, <5>1, <5>2
      <4> QED
        BY <4>2, <4>3
    <3> QED
      BY <3>1, <3>2, <3>3
  <2>7. RoundInv'
    <3> SUFFICES ASSUME NEW f \in File, loop.pc = "round", held'[f] = 0, NewlyLoaded(Teller(f))',
                        Teller(f)' \notin behind'
                 PROVE  \E q \in Goal..Revision : Content(f, q) = 0
      BY <1>1, <1>4, <1>6 DEF RoundInv
    <3>1. Teller(f)' \in loaded' /\ Teller(f)' \notin loop.todo /\ loop.lists[Teller(f)'] = None
      BY <1>1 DEF NewlyLoaded
    <3>2. CASE Teller(f)' = d /\ Content(f, r) = 0
      <4>1. d \notin late
        BY <2>2, <3>2
      <4> QED
        BY <1>4, <1>6, <3>2, <4>1
    <3>3. CASE Teller(f)' # d /\ Teller(f) = Teller(f)' /\ held[f] = 0 /\ Teller(f) \in loaded
      <4>1. NewlyLoaded(Teller(f)) /\ Teller(f) \notin behind
        BY <2>2, <3>1, <3>3 DEF NewlyLoaded
      <4> QED
        BY <3>3, <4>1 DEF IInv, RoundInv
    <3> QED
      BY <2>6, <3>1, <3>2, <3>3
  <2>8. ShownInv'
    <3> SUFFICES ASSUME NEW f \in File, {Teller(f)', DirOf[f]} \cap behind' = {}
                 PROVE  \E q \in Base..Revision : Shows(f, q)'
      BY <1>4, <1>6 DEF ShownInv, UpTo
    <3>1. d \in {Teller(f)', DirOf[f]} => r \in Base..Revision
      <4>1. d \in {Teller(f)', DirOf[f]} => d \notin late /\ d \notin behind
        BY <2>2
      <4> QED
        BY <1>4, <1>6, <4>1
    <3>2. Revision \in Base..Revision
      BY <1>4, <1>6
    <3>3. CASE held'[f] = 0 /\ Teller(f)' \notin loaded'
      <4>1. \A q : Shows(f, q)'
        BY <3>3 DEF Shows
      <4> QED
        BY <3>2, <4>1
    <3>4. CASE held'[f] = 0 /\ Teller(f)' = d /\ Content(f, r) = 0
      <4>1. Shows(f, r)'
        BY <1>4, <3>4 DEF Shows
      <4> QED
        BY <3>1, <3>4, <4>1
    <3>5. CASE /\ held'[f] = 0 /\ Teller(f)' # d /\ Teller(f) = Teller(f)'
               /\ held[f] = 0 /\ Teller(f) \in loaded
      <4>1. {Teller(f), DirOf[f]} \cap behind = {}
        BY <2>2, <3>5
      <4>2. PICK q \in Base..Revision : Shows(f, q)
        BY <4>1 DEF IInv, ShownInv, UpTo
      <4>3. Content(f, q) = 0
        BY <3>5, <4>2 DEF Shows
      <4>4. Shows(f, q)'
        BY <1>4, <3>5, <4>3 DEF Shows
      <4> QED
        BY <4>4
    <3>6. CASE held'[f] # 0 /\ DirOf[f] = d /\ held'[f] = Content(f, r)
      <4>1. Shows(f, r)'
        BY <1>4, <3>6 DEF Shows
      <4> QED
        BY <3>1, <3>6, <4>1
    <3>7. CASE held'[f] # 0 /\ held'[f] = held[f]
      <4>1. DirOf[f] \in known
        BY <1>5, <3>7 DEF IInv, InodeInv
      <4>2. {Teller(f), DirOf[f]} \cap behind = {}
        BY <2>2, <4>1 DEF Teller
      <4>3. PICK q \in Base..Revision : Shows(f, q)
        BY <4>2 DEF IInv, ShownInv, UpTo
      <4>4. Shows(f, q)'
        BY <1>4, <3>7, <4>3 DEF Shows
      <4> QED
        BY <4>4
    <3> QED
      BY <2>1, <2>6, <3>3, <3>4, <3>5, <3>6, <3>7
  <2> QED
    BY <1>7, <1>8, <2>4, <2>5, <2>7, <2>8 DEF IInv
<1> QED
    BY <1>9, <1>10

----------------------------------------------------------------------------
(* Changes of the feed are applied.                                        *)

\* The changes i..k of the log bring a file that was shown up to date with k, or
\* the listing that should have it is dropped.
LEMMA ChangesStep ==
    ASSUME IInv, NEW k \in Rev, Changes(k)
    PROVE  IInv'
<1>1. /\ loop.pc = "stream" /\ loop \in Loop /\ UNCHANGED <<log, floor, behind, known, loading>>
      /\ late' = InFlight /\ Revision \in Nat /\ loop.at \in Nat
    BY Values DEF Changes, ApplyFollow
<1>2. PICK a \in Nat : a = loop.at
    BY <1>1
<1>3. k \in (a + 1)..Revision /\ k \in Nat /\ Base = a
    BY <1>1, <1>2, Values DEF Changes, Base, Frontier
<1> DEFINE last(f) == Max({0} \cup {n \in (a + 1)..k : log[n].file = f})
           deleted(f) == \E n \in (a + 1)..k : log[n] = [file |-> f, op |-> "delete"]
<1>4. /\ held' = [f \in File |-> IF held[f] = 0 \/ deleted(f) THEN 0
                                 ELSE IF last(f) > 0 THEN last(f) ELSE held[f]]
      /\ loaded' = loaded \ {Teller(f) : f \in Unknown(a + 1, k)}
    BY <1>2 DEF Changes, ApplyFollow
<1>5. \A n \in 1..Revision : log[n] \in Change
  <2>1. log \in Seq(Change)
    BY DEF IInv, TypeOK
  <2> QED
    BY <2>1 DEF Revision
<1>6. ASSUME NEW f \in File
      PROVE  /\ last(f) \in {0} \cup (a + 1)..k
             /\ last(f) > 0 => log[last(f)].file = f
             /\ \A n \in (a + 1)..k : log[n].file = f => n <= last(f)
  <2> DEFINE S == {0} \cup {n \in (a + 1)..k : log[n].file = f}
  <2>1. S \subseteq Nat /\ S # {} /\ \A x \in S : x <= k
    BY <1>3
  <2>2. Max(S) \in S /\ \A y \in S : y <= Max(S)
    <3> HIDE DEF S
    <3> QED
      BY <1>3, <2>1, MaxNat
  <2> QED
    BY <1>3, <2>2
<1>7. ASSUME NEW f \in File
      PROVE  held'[f] = IF held[f] = 0 \/ deleted(f) THEN 0 ELSE IF last(f) > 0 THEN last(f) ELSE held[f]
  <2> HIDE DEF last, deleted
  <2> QED
    BY <1>4
\* What the log says of f at k.
<1>8. ASSUME NEW f \in File, last(f) > 0
      PROVE  Content(f, k) = IF log[last(f)].op = "put" THEN last(f) ELSE 0
  <2>1. PICK n \in 1..k : n = last(f)
    BY <1>2, <1>3, <1>6, <1>8
  <2>2. n \in (a + 1)..k /\ log[n].file = f /\ \A m \in (n + 1)..k : log[m].file # f
    <3>1. n \in (a + 1)..k /\ log[n].file = f
      BY <1>3, <1>6, <1>8, <2>1
    <3>2. \A m \in (n + 1)..k : m \in (a + 1)..k /\ ~(m <= n)
      BY <1>3, <3>1
    <3> HIDE DEF last
    <3> QED
      BY <1>6, <2>1, <3>1, <3>2
  <2> HIDE DEF last
  <2>3. Ver(log, f, k) = IF log[n].op = "put" THEN n ELSE 0
    BY <1>3, <2>2, VerLast
  <2> QED
    BY <2>1, <2>3, ContentVer
<1>9. ASSUME NEW f \in File, ~(last(f) > 0), NEW q \in a..k
      PROVE  Content(f, k) = Content(f, q)
  <2>1. \A n \in (a + 1)..k : log[n].file # f
    BY <1>3, <1>6, <1>9
  <2>2. q \in Nat /\ k \in Nat /\ q <= k /\ \A n \in (q + 1)..k : log[n].file # f
    BY <1>2, <1>3, <2>1
  <2>3. Ver(log, f, k) = Ver(log, f, q)
    BY <2>2, VerSame
  <2> QED
    BY <2>3, ContentVer
\* The changes of f leave it unknown unless the last one is a deletion, or it
\* had an inode all the time.
<1>10. ASSUME NEW f \in File, last(f) > 0, Teller(f) \in loaded'
       PROVE  /\ held[f] # 0
              /\ deleted(f) => log[last(f)].op = "delete"
  <2>1. f \notin Unknown(a + 1, k)
    BY <1>4, <1>10
  <2>2. PICK n \in (a + 1)..k : n = last(f) /\ log[n].file = f
    BY <1>3, <1>6, <1>10
  <2>3. held[f] # 0
    BY <2>1, <2>2 DEF Unknown
  <2>4. ASSUME deleted(f) PROVE log[n].op = "delete"
    <3>1. PICK m \in (a + 1)..k : log[m] = [file |-> f, op |-> "delete"]
      BY <2>4
    <3>2. m <= n
      BY <1>6, <2>2, <3>1
    <3>3. CASE m = n
      BY <3>1, <3>3
    <3>4. CASE m < n
      <4>1. m \in (a + 1)..(n - 1)
        BY <1>3, <3>4
      <4> QED
        BY <2>1, <2>2, <3>1, <4>1 DEF Unknown
    <3> QED
      BY <1>3, <3>2, <3>3, <3>4
  <2> QED
    BY <2>2, <2>3, <2>4
<1>11. ASSUME NEW f \in File, last(f) > 0, ~deleted(f) PROVE log[last(f)].op = "put"
  <2>1. PICK n \in (a + 1)..k : n = last(f) /\ log[n].file = f
    BY <1>3, <1>6, <1>11
  <2>2. log[n] \in Change
    <3>1. n \in 1..Revision
      BY <1>1, <1>3
    <3> QED
      BY <1>5, <3>1
  <2>3. log[n].op # "delete"
    BY <1>11, <2>1, <2>2 DEF Change
  <2> QED
    BY <2>1, <2>2, <2>3 DEF Change
<1> HIDE DEF last, deleted
<1>12. ASSUME NEW f \in File PROVE held[f] \in 0..Revision /\ held'[f] \in 0..Revision
  <2>1. held[f] \in 0..Revision
    BY DEF IInv, TypeOK
  <2>2. last(f) \in 0..Revision
    BY <1>1, <1>3, <1>6
  <2> QED
    BY <1>1, <1>7, <2>1, <2>2
<1>13. /\ loop' \in Loop /\ loop'.pc = "stream" /\ loop'.last = loop.last /\ loop'.at = k
       /\ loop'.resume = "cursor" /\ loop'.cursor = k
  <2>1. Revision # 0 /\ loop' = [Cursor(loop, k) EXCEPT !.at = k]
    BY <1>1, <1>3 DEF Changes
  <2>2. /\ Cursor(loop, k) \in Loop /\ Cursor(loop, k).pc = "stream" /\ Cursor(loop, k).last = loop.last
        /\ Cursor(loop, k).resume = "cursor" /\ Cursor(loop, k).cursor = k
    BY <1>1, <2>1, CursorRecord
  <2> QED
    BY <2>1, <2>2 DEF Loop
<1>14. Revision' = Revision /\ Base' = k /\ \A f, q : Content(f, q)' = Content(f, q)
    BY <1>1, <1>13, ContentStays DEF Base, Frontier
<1>15. TypeOK'
  <2>1. held' \in [File -> 0..Revision]
    <3>1. held' = [f \in File |-> held'[f]]
      BY <1>4
    <3> QED
      BY <1>12, <3>1
  <2>2. late' \subseteq Dir /\ loaded' \subseteq loaded
    BY <1>1, <1>4 DEF InFlight
  <2> QED
    BY <1>1, <1>13, <1>14, <2>1, <2>2 DEF IInv, TypeOK
<1>16. OrderInv'
  <2>1. OrZero(loop.last) <= a /\ OrZero(loop.last) \in Nat
    BY <1>1, <1>2, Values DEF IInv, OrderInv
  <2> QED
    BY <1>1, <1>3, <1>13, <1>14, <2>1 DEF OrderInv
<1>17. InodeInv'
    BY <1>1, <1>7, <1>12, <1>13 DEF IInv, InodeInv
<1>18. ListingInv' /\ RoundInv'
    BY <1>1, <1>13, <1>14 DEF IInv, ListingInv, InFlight, RoundInv
<1>19. ShownInv'
  <2> SUFFICES ASSUME NEW f \in File, {Teller(f), DirOf[f]} \cap behind = {}
               PROVE  \E q \in k..Revision : Shows(f, q)'
    BY <1>1, <1>14 DEF ShownInv, UpTo, Teller
  <2>1. Teller(f)' = Teller(f)
    BY <1>1 DEF Teller
  <2>2. k \in k..Revision
    BY <1>1, <1>3
  <2>3. PICK q \in a..Revision : Shows(f, q)
    BY <1>3 DEF IInv, ShownInv, UpTo
  <2>4. CASE held'[f] = 0 /\ Teller(f) \notin loaded'
    <3>1. Shows(f, k)'
      BY <2>1, <2>4 DEF Shows
    <3> QED
      BY <2>2, <3>1
  <2>5. CASE held'[f] = 0 /\ Teller(f) \in loaded' /\ last(f) > 0
    <3>1. deleted(f) /\ log[last(f)].op = "delete"
      BY <1>7, <1>10, <2>5
    <3>2. Content(f, k) = 0
      BY <1>8, <2>5, <3>1
    <3>3. Shows(f, k)'
      BY <1>14, <2>1, <2>5, <3>2 DEF Shows
    <3> QED
      BY <2>2, <3>3
  <2>6. CASE held'[f] # 0 /\ last(f) > 0
    <3>1. ~deleted(f) /\ held'[f] = last(f)
      BY <1>7, <2>6
    <3>2. Content(f, k) = held'[f]
      BY <1>8, <1>11, <2>6, <3>1
    <3>3. Shows(f, k)'
      BY <1>14, <2>6, <3>2 DEF Shows
    <3> QED
      BY <2>2, <3>3
  <2>7. CASE ~(last(f) > 0) /\ (held'[f] = 0 => Teller(f) \in loaded')
    <3>1. held'[f] = held[f]
      <4>1. ~deleted(f)
        <5> SUFFICES ASSUME NEW n \in (a + 1)..k, log[n] = [file |-> f, op |-> "delete"]
                     PROVE  FALSE
          BY DEF deleted
        <5>1. log[n].file = f /\ n > 0
          BY <1>3
        <5>2. n <= last(f)
          BY <1>6, <5>1
        <5> QED
          BY <1>3, <1>6, <2>7, <5>1, <5>2
      <4> QED
        BY <1>7, <2>7, <4>1
    <3>2. held[f] = 0 => Teller(f) \in loaded
      BY <1>4, <2>7, <3>1
    <3>3. held[f] = Content(f, q)
      BY <2>3, <3>2 DEF Shows
    <3>4. \A p : held[f] = Content(f, p) => Shows(f, p)'
      BY <1>14, <2>1, <3>1 DEF Shows
    <3>5. CASE q >= k
      <4>1. q \in k..Revision
        BY <1>1, <1>3, <3>5
      <4> QED
        BY <3>3, <3>4, <4>1
    <3>6. CASE ~(q >= k)
      <4>1. q \in a..k
        BY <1>1, <1>3, <3>6
      <4>2. held[f] = Content(f, k)
        BY <1>9, <2>7, <3>3, <4>1
      <4> QED
        BY <2>2, <3>4, <4>2
    <3> QED
      BY <3>5, <3>6
  <2> QED
    BY <2>4, <2>5, <2>6, <2>7
<1> QED
    BY <1>15, <1>16, <1>17, <1>18, <1>19 DEF IInv

----------------------------------------------------------------------------
(* A round is applied.                                                     *)

\* Afterwards every file that is not left behind is shown as some listing of the
\* round, or one installed meanwhile, had it.
LEMMA RoundDoneStep ==
    ASSUME IInv, RoundDone
    PROVE  IInv'
<1>1. /\ loop.pc = "round" /\ loop.todo = {} /\ loop \in Loop
      /\ UNCHANGED <<log, floor, late, known, loading>> /\ Revision \in Nat /\ None \notin Nat
    BY Values DEF RoundDone, ApplyPollDiff
<1>2. PICK lists \in [Dir -> Rev \cup {None, -1}] : lists = loop.lists
    BY <1>1 DEF Loop
<1>3. PICK polled \in SUBSET Dir : polled = Polled(lists)
    BY DEF Polled
<1> DEFINE complete == {d \in Dir : lists[d] # None} \subseteq polled
           seen(f) == IF lists[DirOf[f]] \in Rev THEN Content(f, lists[DirOf[f]]) ELSE 0
           stale == {Teller(f) : f \in {g \in File : held[g] = 0 /\ seen(g) > 0}}
                    \cup {Root : s \in {u \in Sub \ known : lists[Root] \in Rev /\ There(u, lists[Root])}}
<1>4. /\ held' = [f \in File |-> IF held[f] > 0 /\ DirOf[f] \in polled THEN seen(f) ELSE held[f]]
      /\ loaded' = loaded \ (stale \cap loaded)
      /\ loop' = [loop EXCEPT !.pc = IF ~loop.follow THEN "sleep"
                                     ELSE IF complete THEN "connect" ELSE "resume",
                              !.last = IF loop.follow /\ complete THEN loop.probe ELSE @,
                              !.follow = FALSE, !.probe = 0, !.lists = [d \in Dir |-> None]]
      /\ behind' = IF loop.follow /\ ~complete THEN behind
                   ELSE (behind \cup Unpolled(lists)) \ polled
    BY <1>2, <1>3 DEF RoundDone, ApplyPollDiff
<1>5. /\ Goal \in Nat /\ Goal <= Revision /\ Base \in Nat /\ Base <= Goal
      /\ \A d \in Dir : lists[d] \in Rev => lists[d] \in Goal..Revision
    BY <1>1, <1>2, GoalBound DEF IInv, OrderInv
<1>6. \A f \in File : /\ held[f] \in 0..Revision /\ DirOf[f] \in Dir
                      /\ lists[DirOf[f]] \in Rev => Content(f, lists[DirOf[f]]) \in 0..Revision
  <2> SUFFICES ASSUME NEW f \in File
               PROVE  /\ held[f] \in 0..Revision /\ DirOf[f] \in Dir
                      /\ lists[DirOf[f]] \in Rev => Content(f, lists[DirOf[f]]) \in 0..Revision
    OBVIOUS
  <2>1. held[f] \in 0..Revision /\ DirOf[f] \in Dir
    BY TreeAssumption DEF IInv, TypeOK
  <2>2. ASSUME lists[DirOf[f]] \in Rev PROVE Content(f, lists[DirOf[f]]) \in 0..Revision
    <3>1. PICK r \in 0..Revision : r = lists[DirOf[f]]
      <4>1. lists[DirOf[f]] \in Goal..Revision
        BY <1>5, <2>1, <2>2
      <4> QED
        BY <1>1, <1>5, <4>1
    <3>2. Content(f, r) \in 0..r
      BY ContentNat DEF IInv
    <3>3. Content(f, r) \in 0..Revision
      BY <1>1, <3>2
    <3> QED
      BY <3>1, <3>3
  <2> QED
    BY <2>1, <2>2
<1>7. \A f \in File : seen(f) \in 0..Revision
    BY <1>1, <1>6
\* A directory that a listing of the root lacks has no files.
<1>8. ASSUME NEW f \in File, lists[Root] \in Rev, DirOf[f] # Root, ~There(DirOf[f], lists[Root])
      PROVE  Content(f, lists[Root]) = 0
  <2>1. PICK r \in 0..Revision : r = lists[Root]
    BY <1>5, <1>8 DEF Dir
  <2>2. Content(f, r) \in 0..r
    BY ContentNat DEF IInv
  <2>3. ~(Content(f, r) > 0)
    BY <1>8, <2>1 DEF There
  <2> QED
    BY <2>1, <2>2, <2>3
\* What is left after the round, whether its directory was polled or not.
<1>9. ASSUME NEW f \in File, held'[f] > 0, DirOf[f] \in polled
      PROVE  \E q \in Goal..Revision : held'[f] = Content(f, q)
  <2>1. held'[f] = seen(f)
    BY <1>4, <1>9
  <2>2. lists[DirOf[f]] \in Rev /\ held'[f] = Content(f, lists[DirOf[f]])
    BY <1>9, <2>1
  <2> QED
    BY <1>5, <1>6, <2>2
<1>10. ASSUME NEW f \in File, held'[f] > 0, DirOf[f] \notin polled
       PROVE  held'[f] = held[f] /\ DirOf[f] \in Unpolled(lists)
  <2>1. held'[f] = held[f]
    BY <1>4, <1>10
  <2> QED
    BY <1>3, <1>10, <2>1 DEF Unpolled
<1>11. ASSUME NEW f \in File, held'[f] = 0, Teller(f) \in loaded'
       PROVE  \/ \E q \in Goal..Revision : Content(f, q) = 0
              \/ /\ Teller(f) \in Unpolled(lists) /\ lists[Teller(f)] = -1
                 /\ held[f] = 0 /\ Teller(f) \in loaded
              \/ Teller(f) \in behind /\ Teller(f) \notin polled /\ held[f] = 0 /\ Teller(f) \in loaded
  <2>1. Teller(f) \in loaded /\ Teller(f) \notin stale
    BY <1>4, <1>11
  <2>2. Teller(f) \in Dir
    BY <1>6 DEF Teller, Dir
  <2>3. CASE held[f] > 0
    <3>1. DirOf[f] \in polled /\ seen(f) = 0
      BY <1>4, <1>11, <2>3
    <3>2. CASE lists[DirOf[f]] \in Rev
      BY <1>5, <1>6, <3>1, <3>2
    <3>3. CASE lists[DirOf[f]] \notin Rev
      <4>1. DirOf[f] # Root /\ lists[Root] \in Rev /\ ~There(DirOf[f], lists[Root])
        BY <1>3, <3>1, <3>3 DEF Polled
      <4> QED
        BY <1>5, <1>8, <4>1 DEF Dir
    <3> QED
      BY <3>2, <3>3
  <2>4. CASE held[f] = 0 /\ lists[Teller(f)] \in Rev
    <3>1. CASE Teller(f) = DirOf[f]
      <4>1. ~(seen(f) > 0)
        BY <2>1, <2>4
      <4>2. Content(f, lists[DirOf[f]]) = 0
        BY <1>6, <2>4, <3>1, <4>1
      <4> QED
        BY <1>5, <1>6, <2>4, <3>1, <4>2
    <3>2. CASE Teller(f) # DirOf[f]
      <4>1. Teller(f) = Root /\ DirOf[f] \notin known /\ DirOf[f] \in Sub
        BY <1>6, <3>2 DEF Teller, Dir
      <4>2. ~There(DirOf[f], lists[Root])
        BY <2>1, <2>4, <4>1
      <4> QED
        BY <1>5, <1>8, <2>2, <2>4, <3>2, <4>1, <4>2
    <3> QED
      BY <3>1, <3>2
  <2>5. CASE held[f] = 0 /\ lists[Teller(f)] = -1
    <3>1. CASE Teller(f) \in polled
      <4>1. Teller(f) # Root /\ lists[Root] \in Rev /\ ~There(Teller(f), lists[Root])
        <5>1. -1 \notin Rev
          BY BoundsAssumption DEF Rev
        <5> QED
          BY <1>3, <2>5, <3>1, <5>1 DEF Polled
      <4>2. Teller(f) = DirOf[f]
        BY <4>1 DEF Teller
      <4> QED
        BY <1>5, <1>8, <4>1, <4>2 DEF Dir
    <3>2. CASE Teller(f) \notin polled
      BY <1>3, <2>1, <2>2, <2>5, <3>2 DEF Unpolled
    <3> QED
      BY <3>1, <3>2
  <2>6. CASE held[f] = 0 /\ lists[Teller(f)] = None
    <3>1. NewlyLoaded(Teller(f))
      BY <1>1, <1>2, <2>1, <2>6 DEF NewlyLoaded
    <3>2. Teller(f) \notin polled
      <4>1. None \notin Rev /\ None # -1
        BY NoneAssumption DEF Rev
      <4> QED
        BY <1>3, <2>6, <4>1 DEF Polled
    <3> QED
      BY <1>1, <2>1, <2>6, <3>1, <3>2 DEF IInv, RoundInv
  <2> QED
    BY <1>6, <2>2, <2>3, <2>4, <2>5, <2>6
<1>12. \A f \in File : held'[f] \in 0..Revision /\ (held'[f] > 0 => held[f] > 0)
    BY <1>4, <1>6, <1>7
<1>13. loaded' \subseteq loaded /\ DOMAIN held' = File /\ held' = [f \in File |-> held'[f]]
    BY <1>4
<1> HIDE DEF seen, stale
<1>14. /\ loop' \in Loop /\ loop'.resume = "since" /\ loop'.pc \in {"sleep", "connect", "resume"}
       /\ loop'.last = IF loop.follow /\ complete THEN loop.probe ELSE loop.last
       /\ loop.follow /\ ~complete => loop'.pc = "resume"
  <2> HIDE DEF complete
  <2>1. 0 \in Rev
    BY BoundsAssumption DEF Rev
  <2>2. loop.resume = "since"
    BY <1>1 DEF IInv, OrderInv
  <2> QED
    BY <1>1, <1>4, <2>1, <2>2 DEF Loop, Step
<1> HIDE DEF complete
<1>15. /\ Base' = Frontier' /\ Goal' = Frontier' /\ Frontier' = OrZero(loop'.last)
       /\ Frontier' = IF loop.follow /\ ~complete THEN Base ELSE Goal
  <2>1. Base' = Frontier' /\ Goal' = Frontier' /\ Frontier' = OrZero(loop'.last)
    BY <1>14 DEF Base, Goal, Frontier, OrZero
  <2>2. CASE loop.follow /\ ~complete
    BY <1>1, <1>14, <2>1, <2>2 DEF Base
  <2>3. CASE loop.follow /\ complete
    BY <1>1, <1>14, <2>1, <2>3, Values DEF Goal, OrZero
  <2>4. CASE ~loop.follow
    BY <1>1, <1>14, <2>1, <2>4 DEF Goal
  <2> QED
    BY <2>1, <2>2, <2>3, <2>4
<1>16. Revision' = Revision /\ \A f, q : Content(f, q)' = Content(f, q)
    BY <1>1, ContentStays
<1>17. Unpolled(lists) \subseteq Dir /\ Unpolled(lists) \cap polled = {}
    BY <1>3, <1>6 DEF Unpolled
<1>18. TypeOK'
  <2>1. held' \in [File -> 0..(Revision')]
    BY <1>12, <1>13, <1>16
  <2>2. behind' \subseteq Dir
    BY <1>4, <1>17 DEF IInv, TypeOK
  <2> QED
    BY <1>1, <1>13, <1>14, <1>16, <2>1, <2>2 DEF IInv, TypeOK
<1>19. OrderInv'
  <2>1. Frontier' \in Nat /\ Frontier' <= Revision
    BY <1>1, <1>5, <1>15
  <2> QED
    BY <1>14, <1>15, <1>16, <2>1 DEF OrderInv
<1>20. InodeInv' /\ RoundInv'
    BY <1>1, <1>12, <1>14 DEF IInv, InodeInv, RoundInv
<1>21. ListingInv'
  <2>1. \A d \in Dir : loading[d] # None => loading[d] \in Nat
    BY BoundsAssumption DEF IInv, TypeOK, Rev
  <2> QED
    BY <1>1, <1>5, <1>15, <1>16, <2>1 DEF IInv, ListingInv
<1>22. ShownInv'
  <2> SUFFICES ASSUME NEW f \in File, {Teller(f), DirOf[f]} \cap behind' = {}
               PROVE  \E q \in (Frontier')..Revision : Shows(f, q)'
    BY <1>1, <1>15, <1>16 DEF ShownInv, UpTo, Teller
  <2>1. /\ Teller(f)' = Teller(f)
        /\ \A q \in Goal..Revision : q \in (Frontier')..Revision
        /\ Revision \in (Frontier')..Revision
    BY <1>1, <1>5, <1>15 DEF Teller
  \* An incomplete round of the feed asks for no more than before.
  <2>2. ASSUME loop.follow /\ ~complete
        PROVE  \E q \in (Frontier')..Revision : Shows(f, q)
    BY <1>4, <1>15, <2>2 DEF IInv, ShownInv, UpTo
  <2>3. ASSUME NEW q \in (Frontier')..Revision, held'[f] = Content(f, q)
        PROVE  \E p \in (Frontier')..Revision : Shows(f, p)'
    <3>1. Shows(f, q)'
      BY <1>16, <2>3 DEF Shows
    <3> QED
      BY <3>1
  <2>4. CASE held'[f] > 0 /\ DirOf[f] \in polled
    BY <1>9, <2>1, <2>3, <2>4
  <2>5. CASE held'[f] > 0 /\ DirOf[f] \notin polled
    <3>1. held'[f] = held[f] /\ DirOf[f] \in Unpolled(lists)
      BY <1>10, <2>5
    <3>2. loop.follow /\ ~complete
      BY <1>4, <1>17, <3>1
    <3>3. PICK q \in (Frontier')..Revision : Shows(f, q)
      BY <2>2, <3>2
    <3>4. held'[f] = Content(f, q)
      BY <1>12, <2>5, <3>1, <3>3 DEF Shows
    <3> QED
      BY <2>3, <3>4
  <2>6. CASE held'[f] = 0 /\ Teller(f) \notin loaded'
    <3>1. \A q : Shows(f, q)'
      BY <2>1, <2>6 DEF Shows
    <3> QED
      BY <2>1, <3>1
  <2>7. CASE held'[f] = 0 /\ Teller(f) \in loaded'
    <3>1. CASE \E q \in Goal..Revision : Content(f, q) = 0
      BY <2>1, <2>3, <2>7, <3>1
    <3>2. CASE Teller(f) \in Unpolled(lists) /\ held[f] = 0 /\ Teller(f) \in loaded
      <4>1. loop.follow /\ ~complete
        BY <1>4, <1>17, <3>2
      <4>2. PICK q \in (Frontier')..Revision : Shows(f, q)
        BY <2>2, <4>1
      <4>3. held'[f] = Content(f, q)
        BY <2>7, <3>2, <4>2 DEF Shows
      <4> QED
        BY <2>3, <4>3
    <3>3. CASE Teller(f) \in behind /\ Teller(f) \notin polled
      BY <1>4, <3>3
    <3> QED
      BY <1>11, <2>7, <3>1, <3>2, <3>3
  <2> QED
    BY <1>12, <2>4, <2>5, <2>6, <2>7
<1> QED
    BY <1>18, <1>19, <1>20, <1>21, <1>22 DEF IInv

----------------------------------------------------------------------------
(* The theorems.                                                           *)

\* The invariant holds at the start.
LEMMA InitIInv == Init => IInv
<1> SUFFICES ASSUME Init PROVE IInv
    OBVIOUS
<1>1. log = <<>> /\ Revision = 0 /\ 0 \in Rev /\ 0 \in 0..(MaxSilent - 1)
    BY BoundsAssumption DEF Init, Revision, Rev
<1>2. /\ loop \in Loop /\ loop.pc = "prime" /\ loop.resume = "since" /\ loop.last = None
    BY <1>1 DEF Init, Loop, Step
<1>3. TypeOK
  <2>1. log \in Seq(Change) /\ Revision <= MaxRevision
    BY <1>1, BoundsAssumption
  <2> QED
    BY <1>1, <1>2, <2>1 DEF Init, TypeOK, Dir
<1>4. OrderInv
    BY <1>1, <1>2 DEF OrderInv, OrZero
<1>5. InodeInv /\ ListingInv /\ RoundInv
    BY <1>2 DEF Init, InodeInv, ListingInv, RoundInv
<1>6. ShownInv
  <2>1. Base = 0
    BY <1>2 DEF Base, Frontier
  <2>2. \A f \in File : Shows(f, 0)
    BY DEF Init, Shows
  <2> QED
    BY <1>1, <2>1, <2>2 DEF ShownInv, UpTo
<1> QED
    BY <1>3, <1>4, <1>5, <1>6 DEF IInv

\* Every step keeps the invariant.
LEMMA NextIInv == IInv /\ [Next]_vars => IInv'
<1> SUFFICES ASSUME IInv, [Next]_vars PROVE IInv'
    OBVIOUS
<1>1. CASE LoopStep
  <2>1. ASSUME NEW ok \in BOOLEAN, Prime(ok) PROVE IInv'
    BY <2>1, PrimeStep
  <2>2. ASSUME NEW d \in Dir, NEW ok \in BOOLEAN, RoundList(d, ok) PROVE IInv'
    BY <2>2, RoundListStep
  <2>3. ASSUME NEW k \in Rev, Changes(k) PROVE IInv'
    BY <2>3, ChangesStep
  <2> QED
    BY <1>1, <2>1, <2>2, <2>3, RoundDoneStep, ProbeStep, ConnectStep, ConnectFailStep, ReadyStep,
       SessionEndStep DEF LoopStep
<1>2. ASSUME NEW f \in File, RemoteEdit(f) \/ RemoteUpdate(f) PROVE IInv'
    BY <1>2, EditStep
<1>3. ASSUME NEW d \in Dir, List(d) \/ Install(d) PROVE IInv'
    BY <1>3, ListStep, InstallStep
<1>4. CASE Trim
    BY <1>4, ListStep
<1>5. CASE UNCHANGED vars
  <2>1. /\ UNCHANGED <<log, floor, held, known, loaded, loading, loop, late, behind>>
    BY <1>5 DEF vars
  <2>2. loop \in Loop /\ Goal' = Goal /\ Base' = Base /\ OrderInv' /\ RoundInv' /\ InodeInv'
    <3>1. /\ loop \in Loop /\ Goal' = Goal /\ Base' = Base /\ Revision' = Revision
          /\ \A f, q : Content(f, q)' = Content(f, q)
          /\ \A f : Teller(f)' = Teller(f)
          /\ \A d : NewlyLoaded(d)' <=> NewlyLoaded(d)
      BY <2>1, Values, ContentStays DEF Goal, Base, Frontier, Teller, NewlyLoaded
    <3> QED
      BY <2>1, <3>1 DEF IInv, OrderInv, RoundInv, InodeInv
  <2>3. TypeOK' /\ ListingInv'
    BY <2>1, <2>2 DEF IInv, TypeOK, ListingInv, Revision
  <2>4. ShownInv'
    BY <2>1, <2>2, ContentStays DEF IInv, ShownInv, UpTo, Shows, Teller
  <2> QED
    BY <2>2, <2>3, <2>4 DEF IInv
<1> QED
    BY <1>1, <1>2, <1>3, <1>4, <1>5 DEF Next

\* Every reachable state is well typed: no resume point is a revision beyond
\* the bound, and the count of silent sessions stays below its limit.
THEOREM TypeCorrect == Spec => []TypeOK
<1>1. IInv => TypeOK
    BY DEF IInv
<1> QED
    BY <1>1, InitIInv, NextIInv, PTL DEF Spec

\* However the feed drops, resets and refuses resume points, whichever listings
\* fail and however changes, rounds and listings on demand interleave: what
\* poll_remote_changes() counts as applied, the mount shows, outside the
\* directories that NothingMissed excepts.
THEOREM ChangesAreShown == Spec => []NothingMissed
<1>1. IInv => NothingMissed
  <2> SUFFICES ASSUME IInv PROVE NothingMissed
    OBVIOUS
  <2>1. Frontier \in Nat /\ Frontier <= Base /\ Base \in Nat
    <3>1. Base \in Nat
      BY GoalBound
    <3>2. CASE loop.pc = "round"
      BY <3>1, <3>2 DEF Frontier
    <3>3. CASE loop.pc # "round"
      BY <3>1, <3>3 DEF Base
    <3> QED
      BY <3>2, <3>3
  <2>2. \A q : q \in Base..Revision => q \in Frontier..Revision
    BY <2>1, Values
  <2> QED
    BY <2>2 DEF IInv, ShownInv, NothingMissed, UpTo
<1> QED
    BY <1>1, InitIInv, NextIInv, PTL DEF Spec
=============================================================================
