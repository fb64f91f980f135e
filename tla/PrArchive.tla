------------------------------ MODULE PrArchive ------------------------------
(***************************************************************************)
(* The top-level comments of one pull request, as repeated hydrations of   *)
(* it write them to the archive (src/sync.rs): the full walk, the refresh  *)
(* that fetches only the newest comments and licenses the rest by counting,*)
(* and the bundle upsert with its truncation, its witness and its sweep.   *)
(*                                                                         *)
(* Every page is one call to GitHub, so comments appear and disappear      *)
(* between two pages.  Comments are numbered in the order GitHub creates   *)
(* them, which is the order of the connection; their text is left out.     *)
(* The other connections of the pull request enter as `others`: whether    *)
(* every one of them earned its witness.                                   *)
(***************************************************************************)
EXTENDS Naturals, FiniteSets, Sequences

CONSTANTS
  MaxId,      \* bound: comments GitHub ever creates
  PageSize,   \* comments on a page of the full walk
  MaxPages,   \* MAX_CONNECTION_PAGES
  TailK,      \* TAIL_K, comments on a page of the tail
  WalkBack,   \* TAIL_WALKBACK_PAGES
  Depth,      \* bundles the writer may lag behind when a hydration starts
  MaxFaults   \* bound: failed pages, lost witnesses, drains and kills

ASSUME PrArchiveAssumption ==
  /\ {PageSize, TailK} \subseteq Nat \ {0}
  /\ {MaxId, MaxPages, WalkBack, Depth, MaxFaults} \subseteq Nat

Ids == 1 .. MaxId

VARIABLES
  born,       \* comments created so far: 1 .. born
  alive,      \* those that still exist upstream
  row,        \* the prs row: "none", "live", or "deleted" (deleted_at is set)
  truncated,  \* prs.truncated
  verified,   \* verified_at is not NULL
  live,       \* archived comments with deleted_at NULL
  dead,       \* archived comments with deleted_at set
  queue,      \* bundles on their way to the writer, oldest first
  mode,       \* what the worker is doing: "idle", "tail" or "walk"
  base,       \* RefreshBaseline.live_comments
  seen,       \* ids fetched so far
  total,      \* the totalCount of the tail's first page
  more,       \* hasPreviousPage of the tail, hasNextPage of the walk
  pages,      \* follow-up pages fetched
  begun,      \* history: what existed when the hydration's first page was read
  since,      \* history: ... and how many comments had been created by then
  calm,       \* history: nothing was created or deleted since then
  applied,    \* history: begun and calm of the bundle applied last
  faults      \* bound: the number of faults so far

remote  == <<born, alive>>
archive == <<row, truncated, verified, live, dead>>
worker  == <<mode, base, seen, total, more, pages, begun, since>>
vars == <<remote, archive, queue, worker, calm, applied, faults>>

-----------------------------------------------------------------------------
(* Pages.                                                                  *)

\* `last: k` and `first: k` of a connection that holds S.
Newest(S, k) == {x \in S : Cardinality({y \in S : y > x}) < k}
Oldest(S, k) == {x \in S : Cardinality({y \in S : y < x}) < k}

\* What `before:` the oldest, and `after:` the newest, fetched comment holds.
Before(S, fetched) == {x \in S : \A y \in fetched : x < y}
After(S, fetched)  == {x \in S : \A y \in fetched : x > y}

\* Some fetched comment is archived: what lies before it was seen once.
Anchored(archived, tail) == tail \cap archived # {}

\* Mutant: an anchor is enough.
TailHitUncounted(archived, count, tail, fullyObserved) ==
  fullyObserved \/ Anchored(archived, tail)

\* tail_conservation: the archived ids and the tail's new ones make up the
\* count, and the tail reaches something archived or the connection's start.
TailHit(archived, count, tail, fullyObserved) ==
  /\ Cardinality(archived) + Cardinality(tail \ archived) = count
  /\ fullyObserved \/ Anchored(archived, tail)

-----------------------------------------------------------------------------
Init ==
  /\ born \in 0 .. MaxId /\ alive = 1 .. born
  /\ row = "none" /\ truncated = FALSE /\ verified = FALSE
  /\ live = {} /\ dead = {}
  /\ queue = <<>>
  /\ mode = "idle" /\ base = {} /\ seen = {} /\ total = 0 /\ more = FALSE
  /\ pages = 0 /\ begun = {} /\ since = 0 /\ calm = TRUE
  /\ applied = [begun |-> {}, since |-> 0, calm |-> FALSE]
  /\ faults = 0

-----------------------------------------------------------------------------
(* GitHub.                                                                 *)

Create ==
  /\ born < MaxId
  /\ born' = born + 1
  /\ alive' = alive \cup {born + 1}
  /\ calm' = FALSE
  /\ UNCHANGED <<archive, queue, worker, applied, faults>>

Delete(i) ==
  /\ i \in alive
  /\ alive' = alive \ {i}
  /\ calm' = FALSE
  /\ UNCHANGED <<born, archive, queue, worker, applied, faults>>

-----------------------------------------------------------------------------
(* The worker.                                                             *)

\* refresh_baseline: only a row that exists, was witnessed once and is not
\* truncated has a tail path.
HasBaseline == row = "live" /\ verified /\ ~truncated

Fault == faults < MaxFaults /\ faults' = faults + 1

\* The first document of the full walk.
BeginWalk ==
  /\ mode' = "walk"
  /\ base' = {}
  /\ seen' = Oldest(alive, PageSize)
  /\ more' = (Oldest(alive, PageSize) # alive)
  /\ total' = 0 /\ pages' = 0
  /\ begun' = alive /\ since' = born /\ calm' = TRUE

\* The bundle goes to the writer and the worker is free.
Hand(comments, others) ==
  /\ queue' = Append(queue, [comments |-> comments, others |-> others,
                             seen |-> seen, begun |-> begun,
                             since |-> since, calm |-> calm])
  /\ mode' = "idle" /\ base' = {} /\ seen' = {} /\ total' = 0
  /\ more' = FALSE /\ pages' = 0 /\ begun' = {} /\ since' = 0 /\ calm' = TRUE

\* Whether threads, review requests, reviews and closing issues all earned
\* their witness.
Others(complete) == IF complete THEN UNCHANGED faults ELSE Fault

\* A hydration starts with the full walk: no baseline, or an origin that never
\* takes the tail (retry, re-verify, sync --pr).
StartWalk ==
  /\ mode = "idle"
  /\ Len(queue) <= Depth
  /\ BeginWalk
  /\ UNCHANGED <<remote, archive, queue, applied, faults>>

\* Discovery with a baseline: the newest comments and the count, in one
\* document, against the archive as it is now.
StartTail ==
  /\ mode = "idle"
  /\ Len(queue) <= Depth
  /\ HasBaseline
  /\ mode' = "tail"
  /\ base' = live
  /\ seen' = Newest(alive, TailK)
  /\ more' = (Newest(alive, TailK) # alive)
  /\ total' = Cardinality(alive) /\ pages' = 0
  /\ begun' = alive /\ since' = born /\ calm' = TRUE
  /\ UNCHANGED <<remote, archive, queue, applied, faults>>

Hunting == mode = "tail" /\ more /\ ~Anchored(base, seen)

\* One page further back; a count that moved escalates.
TailPage ==
  /\ Hunting
  /\ pages < WalkBack
  /\ LET older == Before(alive, seen)
     IN IF Cardinality(alive) = total
        THEN /\ seen' = seen \cup Newest(older, TailK)
             /\ more' = (Newest(older, TailK) # older)
             /\ pages' = pages + 1
             /\ UNCHANGED <<mode, base, total, begun, since, calm>>
        ELSE BeginWalk
  /\ UNCHANGED <<remote, archive, queue, applied, faults>>

TailGivesUp ==
  /\ Hunting
  /\ pages >= WalkBack
  /\ BeginWalk
  /\ UNCHANGED <<remote, archive, queue, applied, faults>>

\* The floor or a failed page before the verdict: what was fetched is kept.
TailAborted(others) ==
  /\ Hunting
  /\ pages < WalkBack
  /\ Fault
  /\ Hand("Incomplete", others)
  /\ UNCHANGED <<remote, archive, applied>>

\* A page further back that drifted or answered node:null.
TailDrifted ==
  /\ Hunting
  /\ pages < WalkBack
  /\ Fault
  /\ BeginWalk
  /\ UNCHANGED <<remote, archive, queue, applied>>

TailVerdict(others) ==
  /\ mode = "tail"
  /\ ~Hunting
  /\ IF TailHit(base, total, seen, ~more)
     THEN Hand("TailHit", others) /\ Others(others)
     ELSE BeginWalk /\ others /\ UNCHANGED <<queue, faults>>
  /\ UNCHANGED <<remote, archive, applied>>

\* A follow-up page: what comes after the newest comment fetched.
WalkPage ==
  /\ mode = "walk"
  /\ more /\ pages < MaxPages
  /\ LET newer == After(alive, seen)
     IN /\ seen' = seen \cup Oldest(newer, PageSize)
        /\ more' = (Oldest(newer, PageSize) # newer)
  /\ pages' = pages + 1
  /\ UNCHANGED <<remote, archive, queue, mode, base, total, begun, since, calm,
                 applied, faults>>

\* The backstop, the floor or a failed page: no witness.
WalkStops(others) ==
  /\ mode = "walk"
  /\ more
  /\ IF pages < MaxPages THEN Fault ELSE Others(others)
  /\ Hand("Incomplete", others)
  /\ UNCHANGED <<remote, archive, applied>>

WalkEnds(others) ==
  /\ mode = "walk"
  /\ ~more
  /\ Others(others)
  /\ Hand("Complete", others)
  /\ UNCHANGED <<remote, archive, applied>>

-----------------------------------------------------------------------------
(* The writer.                                                             *)

\* Every connection paginated to its end.
Verified(b) == b.comments = "Complete" /\ b.others

\* Mutant: two states only, a tail hit is not complete.
LandedTruncatedTwoState(b) == ~Verified(b)

\* Mutant: the comments connection is not asked.
LandedTruncatedUnasked(b) ==
  IF b.comments = "TailHit" /\ b.others /\ row # "none" THEN truncated
  ELSE ~b.others

\* The truncated value a bundle lands: a tail hit carries the stored one when
\* everything else was witnessed.
LandedTruncated(b) ==
  IF b.comments = "TailHit" /\ b.others /\ row # "none" THEN truncated
  ELSE ~Verified(b)

\* Mutant: every bundle sweeps.
SweptAlways(b) == live \ b.seen

\* Mutant: nothing is swept.
SweptNever(b) == {}

\* upsert_children sweeps only under the witness of the connection.
Swept(b) == IF b.comments = "Complete" THEN live \ b.seen ELSE {}

\* One transaction: the row, its comments (a resurrected one is live again),
\* and the sweep.
Apply ==
  /\ queue # <<>>
  /\ LET b == Head(queue)
     IN /\ row' = "live"
        /\ truncated' = LandedTruncated(b)
        /\ verified' = (verified \/ Verified(b))
        /\ live' = (live \ Swept(b)) \cup b.seen
        /\ dead' = (dead \cup Swept(b)) \ b.seen
        /\ applied' = [begun |-> b.begun, since |-> b.since, calm |-> b.calm]
  /\ queue' = Tail(queue)
  /\ UNCHANGED <<remote, worker, calm, faults>>

\* The quarantine drains the pull request: deleted_at, nothing else.
Drain ==
  /\ queue = <<>> /\ mode = "idle"
  /\ row = "live"
  /\ Fault
  /\ row' = "deleted"
  /\ UNCHANGED <<remote, truncated, verified, live, dead, queue, worker, calm,
                 applied>>

\* A killed process loses the hydration it runs and the bundles on the way.
Killed ==
  /\ mode # "idle" \/ queue # <<>>
  /\ Fault
  /\ queue' = <<>>
  /\ mode' = "idle" /\ base' = {} /\ seen' = {} /\ total' = 0
  /\ more' = FALSE /\ pages' = 0 /\ begun' = {} /\ since' = 0 /\ calm' = TRUE
  /\ UNCHANGED <<remote, archive, applied>>

-----------------------------------------------------------------------------
Environment == Create \/ \E i \in Ids : Delete(i)

Working ==
  \/ TailPage \/ TailGivesUp \/ WalkPage
  \/ \E others \in BOOLEAN : TailVerdict(others) \/ WalkStops(others) \/ WalkEnds(others)

Trouble ==
  \/ TailDrifted \/ Drain \/ Killed
  \/ \E others \in BOOLEAN : TailAborted(others)

Next ==
  Environment \/ StartWalk \/ StartTail \/ Working \/ Trouble \/ Apply

Spec == Init /\ [][Next]_vars

-----------------------------------------------------------------------------
Bundles == [comments : {"Complete", "TailHit", "Incomplete"},
            others : BOOLEAN, seen : SUBSET Ids, begun : SUBSET Ids,
            since : Nat, calm : BOOLEAN]

\* The shape of every variable.
TypeOK ==
  /\ born \in 0 .. MaxId /\ alive \in SUBSET (1 .. born)
  /\ row \in {"none", "live", "deleted"}
  /\ truncated \in BOOLEAN /\ verified \in BOOLEAN
  /\ live \in SUBSET Ids /\ dead \in SUBSET (Ids \ live)
  /\ queue \in Seq(Bundles) /\ Len(queue) <= Depth + 1
  /\ mode \in {"idle", "tail", "walk"}
  /\ base \in SUBSET Ids /\ seen \in SUBSET Ids
  /\ total \in Nat /\ more \in BOOLEAN
  /\ pages \in 0 .. (IF mode = "walk" THEN MaxPages ELSE WalkBack)
  /\ begun \in SUBSET Ids /\ since \in Nat /\ calm \in BOOLEAN
  /\ applied \in [begun : SUBSET Ids, since : Nat, calm : BOOLEAN]
  /\ faults \in Nat

\* The archive claims to be complete.
Whole == row = "live" /\ ~truncated

\* Truncation never reads as deletion: a comment is swept only if it is gone
\* upstream, whatever was lost, reordered or killed before the sweep.
SweptIsGone == dead \cap alive = {}

\* An untruncated row holds every comment that existed when its last hydration
\* began and still exists, whether that hydration walked or counted.
NothingMissed == Whole => applied.begun \cap alive \subseteq live

\* A hydration that nothing interfered with leaves exactly what it found: no
\* deletion it should have noticed stays live behind an untruncated row.
QuietIsExact == Whole /\ applied.calm => live = applied.begun

\* Replaying an unchanged remote writes nothing, by either path.
ReplayWritesNothing ==
  [][ LET b == Head(queue)
      IN Apply /\ Whole /\ verified /\ live = b.begun
           /\ b.calm /\ b.others /\ b.comments # "Incomplete"
         => UNCHANGED archive ]_vars

\* The archive of comments that all of this implements: truncation, the tail's
\* arithmetic, the writer's lag and kills never show in it.
Mirror == INSTANCE CommentArchive
  WITH Comments <- Ids, ever <- 1 .. born, exists <- alive,
       whole <- Whole, began <- applied.begun

KeepsTheArchive == Mirror!MirrorSpec

\* The re-verify tier keeps giving the pull request full walks, hydrations go
\* on to their end and the writer drains its queue.
FairSpec ==
  Spec /\ WF_vars(Apply) /\ WF_vars(Working) /\ SF_vars(StartWalk)

\* Once GitHub is quiet the archive becomes exact and claims it, of every pull
\* request that the pages of a full walk can hold.
Heals ==
  <>[](Cardinality(alive) <= PageSize * (MaxPages + 1) => Whole /\ live = alive)
=============================================================================
