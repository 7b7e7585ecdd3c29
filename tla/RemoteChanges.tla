---------------------------- MODULE RemoteChanges ----------------------------
(***************************************************************************)
(* How a mount learns what others change in its bucket                     *)
(* (src/src/virtual_fs/poll.rs, with the stream of src/src/follow.rs): the *)
(* live-follow feed with its resume points, reconnects and fallbacks, the  *)
(* poll round that lists every loaded directory, and the interval poll     *)
(* guarded by the bucket's revision.                                       *)
(*                                                                         *)
(* The bucket is a log of changes; its revision is the length of the log,  *)
(* and so are the cursors of the feed.  The mount holds, for the files it  *)
(* has inodes for, the version it knows.  Directories are listed when      *)
(* someone reads them, concurrently with the loop: a listing is taken at   *)
(* one moment and installed at a later one.  There are no local writes and *)
(* no negative cache here: what protects the ones is in StagedWrites and   *)
(* Directories, what clears the other in Directories.                      *)
(***************************************************************************)
EXTENDS Integers, Sequences, FiniteSets, FiniteSetsExt

CONSTANTS
    Root, Sub,      \* the root directory, and the directories in it
    File,
    DirOf,          \* the directory of a file
    LiveFollow,     \* --live-follow
    Interval,       \* whether there is a poll interval to fall back on
    MaxSilent,      \* MAX_SESSIONS_WITHOUT_READY
    MaxRevision,    \* bound: changes
    None

Dir == {Root} \cup Sub

ASSUME TreeAssumption == Root \notin Sub /\ DirOf \in [File -> Dir]
ASSUME OptionsAssumption == LiveFollow \in BOOLEAN /\ Interval \in BOOLEAN
ASSUME BoundsAssumption == MaxSilent \in Nat \ {0} /\ MaxRevision \in Nat
ASSUME NoneAssumption == None \notin Int

VARIABLES
    log,        \* the changes of the bucket, oldest first
    floor,      \* the feed has forgotten the changes up to here
    held,       \* version of the file's inode, 0 without an inode
    known,      \* directories with an inode
    loaded,     \* those whose children are loaded
    loading,    \* per directory, revision of a listing in flight, or None
    loop,       \* the state of poll_remote_changes
    late,       \* history: listings in flight that the loop has overtaken
    behind      \* history: directories the loop has lost track of

vars == <<log, floor, held, known, loaded, loading, loop, late, behind>>
mount == <<held, known, loaded, loading, late>>

Revision == Len(log)
Rev == 0..MaxRevision

Change == [file : File, op : {"put", "delete"}]

\* Where the loop stands, and its variables.
Step == {"prime", "resume", "connect", "stream", "round", "sleep", "off"}
Loop == [pc : Step,
         last : Rev \cup {None},            \* last_revision
         resume : {"cursor", "since", "live"}, cursor : Rev,
         skip : BOOLEAN,                    \* skip_probe
         silent : 0..(MaxSilent - 1),       \* sessions_without_ready
         at : Rev, ready : BOOLEAN,         \* the stream: what it delivered, got_ready
         follow : BOOLEAN,                  \* the round is the feed's
         probe : Rev,                       \* the revision the round is for
         todo : SUBSET Dir, lists : [Dir -> Rev \cup {None, -1}]]

TypeOK ==
    /\ log \in Seq(Change) /\ Revision <= MaxRevision
    /\ floor \in 0..Revision
    /\ held \in [File -> 0..Revision]
    /\ known \subseteq Dir /\ Root \in known
    /\ loaded \subseteq known
    /\ loading \in [Dir -> Rev \cup {None}]
    /\ loop \in Loop
    /\ late \subseteq Dir /\ behind \subseteq Dir

-----------------------------------------------------------------------------
\* The bucket

\* The version of f at revision r, 0 if it is not there.
Content(f, r) ==
    LET i == Max({0} \cup {k \in 1..r : log[k].file = f})
    IN  IF i > 0 /\ log[i].op = "put" THEN i ELSE 0

There(d, r) == d = Root \/ \E f \in File : DirOf[f] = d /\ Content(f, r) > 0

\* Another client changes a file.
RemoteEdit(f) ==
    /\ Revision < MaxRevision
    /\ log' = Append(log, [file |-> f, op |-> IF Content(f, Revision) = 0 THEN "put" ELSE "delete"])
    /\ UNCHANGED <<floor, held, known, loaded, loading, loop, late, behind>>

RemoteUpdate(f) ==
    /\ Revision < MaxRevision /\ Content(f, Revision) > 0
    /\ log' = Append(log, [file |-> f, op |-> "put"])
    /\ UNCHANGED <<floor, held, known, loaded, loading, loop, late, behind>>

\* The feed forgets its oldest change.
Trim ==
    /\ floor < Revision
    /\ floor' = floor + 1
    /\ UNCHANGED <<log, held, known, loaded, loading, loop, late, behind>>

-----------------------------------------------------------------------------
\* The mount

\* Whose listing tells whether f is there.
Teller(f) == IF DirOf[f] \in known THEN DirOf[f] ELSE Root

\* The mount shows f as it was at revision r; a directory that is not loaded
\* says nothing about a file without inode.
Shows(f, r) ==
    IF held[f] = 0 THEN Teller(f) \notin loaded \/ Content(f, r) = 0
    ELSE held[f] = Content(f, r)

\* ensure_children_loaded(): the Hub answers with the listing of this moment.
List(d) ==
    /\ d \in known \ loaded /\ loading[d] = None
    /\ loading' = [loading EXCEPT ![d] = Revision]
    /\ late' = late \ {d}
    /\ UNCHANGED <<log, floor, held, known, loaded, loop, behind>>

\* The answer becomes the children of d.  A file that has an inode keeps it as
\* it is; what the listing lacks goes.
Install(d) ==
    LET r == loading[d]
        gone == IF d = Root THEN {s \in Sub : ~There(s, r)} ELSE {}
    IN
    /\ r # None
    /\ loading' = [loading EXCEPT ![d] = None]
    /\ late' = late \ {d}
    /\ IF d \in known
       THEN /\ held' = [f \in File |->
                            CASE DirOf[f] = d /\ (held[f] = 0 \/ Content(f, r) = 0) -> Content(f, r)
                              [] DirOf[f] \in gone -> 0
                              [] OTHER -> held[f]]
            /\ known' = IF d = Root THEN Dir \ gone ELSE known
            /\ loaded' = (loaded \cup {d}) \ gone
            /\ behind' = IF d \in late THEN behind \cup {d} ELSE behind
       ELSE UNCHANGED <<held, known, loaded, behind>>
    /\ UNCHANGED <<log, floor, loop>>

-----------------------------------------------------------------------------
\* Applying what was learned

\* Files of the changes i..k that have no inode when their turn comes: they had
\* none, or an earlier change of the batch has removed it.
Unknown(i, k) ==
    {f \in File : \E n \in i..k : /\ log[n].file = f
                                  /\ \/ held[f] = 0
                                     \/ \E m \in i..(n - 1) : log[m] = [file |-> f, op |-> "delete"]}

\* apply_follow_changes(): the changes i..k of the log.  A file with an inode
\* is updated in place or removed; for any other the listing that should have
\* it is dropped, if it is loaded.
ApplyFollow(i, k) ==
    LET last(f) == Max({0} \cup {n \in i..k : log[n].file = f})
        deleted(f) == \E n \in i..k : log[n] = [file |-> f, op |-> "delete"]
    IN
    /\ held' = [f \in File |-> IF held[f] = 0 \/ deleted(f) THEN 0
                               ELSE IF last(f) > 0 THEN last(f) ELSE held[f]]
    /\ loaded' = loaded \ {Teller(f) : f \in Unknown(i, k)}
    /\ UNCHANGED <<known, loading>>

\* The prefixes that were listed, or failed while their parent's listing no
\* longer has them.
Polled(lists) ==
    {d \in Dir : \/ lists[d] \in Rev
                 \/ lists[d] = -1 /\ d # Root /\ lists[Root] \in Rev /\ ~There(d, lists[Root])}

\* apply_poll_diff(): inodes are updated from the listings and removed where a
\* polled directory lacks them; an entry without inode drops the listing that
\* should have it.
ApplyPollDiff(lists) ==
    LET seen(f) == IF lists[DirOf[f]] \in Rev THEN Content(f, lists[DirOf[f]]) ELSE 0
        stale == {Teller(f) : f \in {g \in File : held[g] = 0 /\ seen(g) > 0}}
                 \cup {Root : s \in {u \in Sub \ known : lists[Root] \in Rev /\ There(u, lists[Root])}}
        dropped == stale \cap loaded
    IN
    /\ held' = [f \in File |-> IF held[f] > 0 /\ DirOf[f] \in Polled(lists) THEN seen(f)
                               ELSE held[f]]
    /\ loaded' = loaded \ dropped
    /\ UNCHANGED <<known, loading>>

-----------------------------------------------------------------------------
\* The loop

Init ==
    /\ log = <<>> /\ floor = 0
    /\ held = [f \in File |-> 0]
    /\ known = {Root} /\ loaded = {}
    /\ loading = [d \in Dir |-> None]
    /\ loop = [pc |-> "prime", last |-> None, resume |-> "since", cursor |-> 0, skip |-> FALSE,
               silent |-> 0, at |-> 0, ready |-> FALSE, follow |-> FALSE, probe |-> 0,
               todo |-> {}, lists |-> [d \in Dir |-> None]]
    /\ late = {} /\ behind = {}

\* follow_remote_changes() returns, its variables are gone: the interval poll
\* takes over, if there is one.
Fallback(l) == [l EXCEPT !.pc = IF Interval THEN "sleep" ELSE "off",
                         !.resume = "since", !.cursor = 0, !.skip = FALSE, !.silent = 0]
InFlight == {d \in Dir : loading[d] # None}

\* The first probe, and whether it succeeds.
Prime(ok) ==
    /\ loop.pc = "prime"
    /\ LET last == IF ok THEN Revision ELSE None IN
       loop' = IF LiveFollow THEN [loop EXCEPT !.pc = "resume", !.last = last, !.skip = ok]
               ELSE Fallback([loop EXCEPT !.last = last])
    /\ late' = InFlight
    /\ behind' = loaded     \* they were listed before
    /\ UNCHANGED <<log, floor, held, known, loaded, loading>>

\* poll_round() begins: the prefixes that are loaded now.
StartRound(l, follow, probe) ==
    /\ loop' = [l EXCEPT !.pc = "round", !.follow = follow, !.probe = probe,
                         !.todo = loaded, !.lists = [d \in Dir |-> None]]
    /\ late' = InFlight
    /\ UNCHANGED <<log, floor, held, known, loaded, loading, behind>>

\* One prefix is listed, or its listing fails.
RoundList(d, ok) ==
    /\ loop.pc = "round" /\ d \in loop.todo
    /\ loop' = [loop EXCEPT !.todo = @ \ {d}, !.lists[d] = IF ok THEN Revision ELSE -1]
    /\ UNCHANGED <<log, floor, mount, behind>>

\* What a round leaves behind: failed prefixes, and files with an inode in a
\* directory that is not loaded.
Unpolled(lists) ==
    ({d \in Dir : lists[d] = -1} \cup {DirOf[f] : f \in {g \in File : held[g] > 0}})
        \ Polled(lists)

\* Mutant: the feed goes on after an incomplete round.
RoundDoneEager ==
    LET polled == Polled(loop.lists) IN
    /\ loop.pc = "round" /\ loop.todo = {}
    /\ ApplyPollDiff(loop.lists)
    /\ loop' = [loop EXCEPT !.pc = IF loop.follow THEN "connect" ELSE "sleep",
                            !.last = IF loop.follow THEN loop.probe ELSE @,
                            !.follow = FALSE, !.probe = 0, !.lists = [d \in Dir |-> None]]
    /\ behind' = (IF loop.follow THEN behind ELSE behind \cup Unpolled(loop.lists)) \ polled
    /\ UNCHANGED <<log, floor, late>>

\* The round is applied: apply_poll_diff()'s snapshot and its changes in one step,
\* since a directory installed between them was not loaded when the round began
\* and has no listing in it.  The feed repeats a round that is incomplete; the
\* interval poll has already taken the new revision for its own.
RoundDone ==
    LET polled == Polled(loop.lists)
        complete == {d \in Dir : loop.lists[d] # None} \subseteq polled
    IN
    /\ loop.pc = "round" /\ loop.todo = {}
    /\ ApplyPollDiff(loop.lists)
    /\ loop' = [loop EXCEPT !.pc = IF ~loop.follow THEN "sleep"
                                   ELSE IF complete THEN "connect" ELSE "resume",
                            !.last = IF loop.follow /\ complete THEN loop.probe ELSE @,
                            !.follow = FALSE, !.probe = 0, !.lists = [d \in Dir |-> None]]
    /\ behind' = IF loop.follow /\ ~complete THEN behind
                 ELSE (behind \cup Unpolled(loop.lists)) \ polled
    /\ UNCHANGED <<log, floor, late>>

-----------------------------------------------------------------------------
\* follow_remote_changes()

\* With a cursor, or right after the first probe: subscribe at once.
Resume ==
    /\ loop.pc = "resume"
    /\ loop.resume # "since" \/ loop.skip
    /\ loop' = [loop EXCEPT !.pc = "connect", !.skip = FALSE]
    /\ UNCHANGED <<log, floor, mount, behind>>

\* Without one: probe, and reconcile first if the bucket has moved.
ResumeProbe ==
    /\ loop.pc = "resume" /\ loop.resume = "since" /\ ~loop.skip
    /\ IF loop.last # Revision
       THEN StartRound(loop, TRUE, Revision)
       ELSE loop' = [loop EXCEPT !.pc = "connect"] /\ UNCHANGED <<log, floor, mount, behind>>

ResumeProbeFail ==
    /\ loop.pc = "resume" /\ loop.resume = "since" /\ ~loop.skip
    /\ loop' = [loop EXCEPT !.pc = "connect"]
    /\ UNCHANGED <<log, floor, mount, behind>>

\* No resume point is sent: the stream starts at this moment.
Bare == loop.resume = "live" \/ (loop.resume = "since" /\ loop.last = None)

Connect ==
    /\ loop.pc = "connect"
    /\ loop' = [loop EXCEPT !.pc = "stream", !.ready = FALSE,
                            !.at = CASE Bare -> Revision
                                     [] loop.resume = "cursor" -> loop.cursor
                                     [] OTHER -> loop.last]
    /\ behind' = IF Bare THEN Dir ELSE behind
    /\ UNCHANGED <<log, floor, mount>>

\* 404, or no event stream: for good.
ConnectNotServed ==
    /\ loop.pc = "connect"
    /\ loop' = Fallback(loop)
    /\ UNCHANGED <<log, floor, mount, behind>>

\* 400: one step further back.
ConnectRefused ==
    /\ loop.pc = "connect"
    /\ loop' = CASE loop.resume = "cursor" -> [loop EXCEPT !.pc = "resume", !.resume = "since", !.cursor = 0]
                 [] loop.resume = "since" -> [loop EXCEPT !.pc = "resume", !.resume = "live"]
                 [] OTHER -> Fallback(loop)
    /\ UNCHANGED <<log, floor, mount, behind>>

\* Any other failure: again, after a pause.
ConnectFail ==
    /\ loop.pc = "connect"
    /\ loop' = [loop EXCEPT !.pc = "resume"]
    /\ UNCHANGED <<log, floor, mount, behind>>

\* A feed that has seen a change tells where it stands.
Cursor(l, c) == IF Revision = 0 THEN l ELSE [l EXCEPT !.resume = "cursor", !.cursor = c]

\* The replay is through.
Ready ==
    /\ loop.pc = "stream" /\ ~loop.ready
    /\ loop.at >= floor /\ loop.at = Revision
    /\ loop' = [Cursor(loop, loop.at) EXCEPT !.ready = TRUE, !.silent = 0]
    /\ UNCHANGED <<log, floor, mount, behind>>

Changes(k) ==
    /\ loop.pc = "stream"
    /\ loop.at >= floor /\ k \in (loop.at + 1)..Revision
    /\ ApplyFollow(loop.at + 1, k)
    /\ late' = InFlight
    /\ loop' = [Cursor(loop, k) EXCEPT !.at = k]
    /\ UNCHANGED <<log, floor, behind>>

\* The session is over; a subscription without resume point is not repeated.
Ended(l) == [l EXCEPT !.pc = "resume", !.ready = FALSE, !.at = 0,
                      !.resume = IF @ = "live" THEN "since" ELSE @]

\* Mutant: the cursor the server refused is used again.
ResetSame ==
    /\ loop.pc = "stream" /\ loop.at < floor
    /\ loop' = Ended(loop)
    /\ UNCHANGED <<log, floor, mount, behind>>

\* The resume point is older than what the feed remembers.
Reset ==
    /\ loop.pc = "stream" /\ loop.at < floor
    /\ loop' = Ended([loop EXCEPT !.resume = "since", !.cursor = 0])
    /\ UNCHANGED <<log, floor, mount, behind>>

Reconnect ==
    /\ loop.pc = "stream" /\ loop.at >= floor
    /\ loop' = Ended(Cursor(loop, loop.at))
    /\ UNCHANGED <<log, floor, mount, behind>>

\* Mutant: one session more.
StreamEndLate ==
    LET n == IF loop.ready THEN loop.silent ELSE loop.silent + 1 IN
    /\ loop.pc = "stream"
    /\ LET l == [Ended(loop) EXCEPT !.silent = n] IN
       loop' = IF n > MaxSilent THEN Fallback(l) ELSE l
    /\ UNCHANGED <<log, floor, mount, behind>>

\* A close, a timeout or a transport error; a few in a row before `ready`, and
\* the feed is given up.
StreamEnd ==
    LET n == IF loop.ready THEN loop.silent ELSE loop.silent + 1 IN
    /\ loop.pc = "stream"
    /\ LET l == [Ended(loop) EXCEPT !.silent = n] IN
       loop' = IF n >= MaxSilent THEN Fallback(l) ELSE l
    /\ UNCHANGED <<log, floor, mount, behind>>

-----------------------------------------------------------------------------
\* The interval poll

\* A new revision starts a round; the old one does not.
PollProbe ==
    /\ loop.pc = "sleep" /\ loop.last # Revision
    /\ StartRound([loop EXCEPT !.last = Revision], FALSE, Revision)

\* A permanent failure of the probe: a round all the same.
PollProbeFail ==
    /\ loop.pc = "sleep"
    /\ StartRound(loop, FALSE, 0)

-----------------------------------------------------------------------------
LoopStep ==
    \/ \E ok \in BOOLEAN : Prime(ok)
    \/ \E d \in Dir, ok \in BOOLEAN : RoundList(d, ok)
    \/ RoundDone
    \/ Resume \/ ResumeProbe \/ ResumeProbeFail
    \/ Connect \/ ConnectNotServed \/ ConnectRefused \/ ConnectFail
    \/ Ready \/ (\E k \in Rev : Changes(k)) \/ Reset \/ Reconnect \/ StreamEnd
    \/ PollProbe \/ PollProbeFail

Next ==
    \/ LoopStep
    \/ \E f \in File : RemoteEdit(f) \/ RemoteUpdate(f)
    \/ Trim
    \/ \E d \in Dir : List(d) \/ Install(d)

Spec == Init /\ [][Next]_vars

\* The loop is a task that keeps running, and the Hub does not fail for ever:
\* a request that is made again and again succeeds at some point.
Fairness ==
    /\ WF_vars(LoopStep)
    /\ SF_vars(ResumeProbe) /\ SF_vars(Connect) /\ SF_vars(\E k \in Rev : Changes(k))
    /\ SF_vars(PollProbe)
    /\ \A d \in Dir : SF_vars(RoundList(d, TRUE)) /\ WF_vars(Install(d))

LiveSpec == Spec /\ Fairness

-----------------------------------------------------------------------------
\* Properties

\* The revision up to which the loop takes the mount to be up to date.
Frontier ==
    CASE loop.pc = "stream" -> loop.at
      [] loop.pc \in {"resume", "connect"} /\ loop.resume = "cursor" -> loop.cursor
      [] loop.pc \in {"resume", "connect", "sleep"} /\ loop.resume # "cursor" /\ loop.last # None
            -> loop.last
      [] OTHER -> 0

UpTo(f, r) == \E q \in r..Revision : Shows(f, q)

\* A change the loop counts as applied is one the mount shows: every file is
\* shown as it was at the loop's resume point or later.  Excepted are the
\* directories listed before the first probe, those whose listing was in
\* flight while changes were applied, all of them after a subscription
\* without resume point, those whose listing failed in an interval poll, and
\* those with inodes whose listing was dropped when a round began, each until
\* a round has listed it again.
NothingMissed ==
    \A f \in File : {Teller(f), DirOf[f]} \cap behind = {} => UpTo(f, Frontier)

\* "... so nothing between the round and the subscription is missed" (poll.rs).
EveryChangeSeen == \A f \in File : UpTo(f, Frontier)

\* Once the bucket is at rest the mount shows it again and again (a replay
\* from an older resume point may take it back for a while), unless nothing is
\* left to learn from.
CatchesUp ==
    []<>(loop.pc = "off" \/ \A f \in File :
            {Teller(f), DirOf[f]} \cap behind # {} \/ Shows(f, Revision))
=============================================================================
