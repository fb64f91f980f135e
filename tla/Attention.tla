------------------------------ MODULE Attention ------------------------------
(***************************************************************************)
(* One pull request from GitHub to the `attention` document: what a sync   *)
(* run writes of its head, its reviews, its review requests and one review *)
(* thread (sync.rs), and the bucket that attention.rs derives from those   *)
(* rows.  Two clocks meet here: GitHub stamps reviews and commits, the     *)
(* machine that syncs stamps the observation of a new head.                *)
(*                                                                         *)
(* Left out: top-level comments (PrArchive), texts, links, and the closed  *)
(* and deleted rows attention does not read.                               *)
(***************************************************************************)
EXTENDS Integers, Sequences, FiniteSets

CONSTANTS
  Viewer,       \* the operator whose demands are listed
  Others,       \* everyone else who opens, reviews and talks
  Ghosts,       \* those of them whose account GitHub no longer names
  Bots,         \* those of them GitHub types as Bot
  ReplyBots,    \* config.reply_bots
  People,       \* config.people
  TriageScope,  \* the repository is at project scope with `triage`
  Margin,       \* CLOCK_SKEW_MARGIN_SECS, in ticks
  Skews,        \* how far the local clock may stand from GitHub's in a run
  ReviewPage,   \* reviews(first: 100) of the hydration document
  MaxAge,       \* bound: ticks a run is under way when it comes to the pull request
  MaxClock, MaxPushes, MaxReviews, MaxSpeech, MaxEvents   \* bounds

ASSUME MarginAssumption ==
  /\ Margin \in Nat \ {0}
  /\ Skews # {} /\ Skews \subseteq Int

ASSUME PartiesAssumption ==
  /\ Viewer \notin Others
  /\ Ghosts \subseteq Others /\ Bots \subseteq Others \ Ghosts
  /\ ReplyBots \subseteq Bots /\ People \subseteq Others

ASSUME BoundsAssumption ==
  /\ {ReviewPage, MaxAge, MaxClock, MaxReviews, MaxSpeech, MaxEvents} \subseteq Nat
  /\ MaxPushes \in Nat \ {0}

VARIABLES
  clock,    \* GitHub's time
  author,   \* who opened the pull request
  pr,       \* the pull request on GitHub
  now,      \* the run's only reading of the local clock, at its start
  row,      \* the archive's rows of it
  shown,    \* history: the pull request as the last hydration met it
  met,      \* history: when a hydration first met the head the row has
  events    \* what has happened on GitHub, for the bound MaxEvents

vars == <<clock, author, pr, now, row, shown, met, events>>

Parties == {Viewer} \cup Others

None == [none |-> TRUE]

Verdicts == {"APPROVED", "CHANGES_REQUESTED"}

-----------------------------------------------------------------------------
(* GitHub, as the hydration documents see it.                              *)

Init ==
  /\ clock = 0
  /\ author \in {Viewer} \cup (Others \ (Ghosts \cup Bots))
  /\ pr = [commits |-> <<[date |-> 0, born |-> 0]>>,
           head |-> [oid |-> 1, pushed |-> 0],
           reviews |-> {}, asked |-> FALSE, thread |-> {},
           resolved |-> FALSE, draft |-> FALSE, blocked |-> FALSE]
  /\ now \in Skews /\ row = None /\ shown = None /\ met = 0
  /\ events = 0

(* Something changes on GitHub.  `events` only bounds how often.           *)
Upstream(change) ==
  /\ events < MaxEvents
  /\ events' = events + 1
  /\ pr' = change
  /\ UNCHANGED <<clock, author, now, row, shown, met>>

(* A new head.  The commit may be as old as the pull request, made now, or *)
(* dated in the future: its date is the author's clock.                    *)
Push ==
  /\ Len(pr.commits) < MaxPushes
  /\ \E date \in {0, clock, MaxClock} :
       Upstream([pr EXCEPT
         !.commits = Append(@, [date |-> date, born |-> clock]),
         !.head    = [oid |-> Len(pr.commits) + 1, pushed |-> clock]])

(* An earlier head is pushed again, with the date it has.                  *)
PushBack ==
  \E oid \in DOMAIN pr.commits \ {pr.head.oid} :
    Upstream([pr EXCEPT !.head = [oid |-> oid, pushed |-> clock]])

(* A review of the current head.  Nobody may give a verdict on their own   *)
(* pull request, and two verdicts of one person differ in their second.    *)
Submit ==
  /\ Cardinality(pr.reviews) < MaxReviews
  /\ \E p \in Parties, v \in Verdicts \cup {"COMMENTED"} :
       /\ p = author => v = "COMMENTED"
       /\ \A r \in pr.reviews : r.by = p => r.at < clock
       /\ Upstream([pr EXCEPT !.reviews = @ \cup
            {[id |-> Cardinality(pr.reviews) + 1, by |-> p, verdict |-> v,
              at |-> clock, saw |-> pr.head.oid]}])

Dismiss ==
  \E r \in pr.reviews :
    /\ r.verdict \in Verdicts
    /\ Upstream([pr EXCEPT !.reviews =
         (@ \ {r}) \cup {[r EXCEPT !.verdict = "DISMISSED"]}])

(* A review is asked of the viewer, or no longer asked.                    *)
Ask == Upstream([pr EXCEPT !.asked = ~@])

(* The thread, whose comments have opaque ids of no order in time.         *)
Say ==
  \E p \in Parties, id \in (1..MaxSpeech) \ {c.id : c \in pr.thread} :
    Upstream([pr EXCEPT !.thread = @ \cup
      {[id |-> id, by |-> p, at |-> clock, minimized |-> FALSE]}])

Minimize ==
  \E c \in pr.thread :
    /\ ~c.minimized
    /\ Upstream([pr EXCEPT !.thread =
         (@ \ {c}) \cup {[c EXCEPT !.minimized = TRUE]}])

(* A comment is deleted.  With its last comment a thread is gone.          *)
Retract ==
  \E c \in pr.thread :
    /\ pr.thread # {c}
    /\ Upstream([pr EXCEPT !.thread = @ \ {c}])

Resolve ==
  /\ pr.thread # {}
  /\ Upstream([pr EXCEPT !.resolved = ~@])

(* Draft, and the reviewDecision other than APPROVED that branch           *)
(* protection holds a pull request back with.                              *)
Mark ==
  \/ Upstream([pr EXCEPT !.draft = ~@])
  \/ Upstream([pr EXCEPT !.blocked = ~@])

Tick ==
  /\ clock < MaxClock
  /\ clock' = clock + 1
  /\ UNCHANGED <<author, pr, now, row, shown, met, events>>

-----------------------------------------------------------------------------
(* A sync run meets the pull request.                                      *)

(* A run begins, and the one before it is over.  Nothing in the code bounds*)
(* how long it takes to come to this pull request.                         *)
Start ==
  /\ \E s \in Skews : now' = clock + s
  /\ UNCHANGED <<clock, author, pr, row, shown, met, events>>

(* What a run brings to the writer: the pull request as the hydration      *)
(* document showed it, complete or with one connection that lost its       *)
(* witness (an error-masked connection, a page that failed, a thread whose *)
(* comments could not be fetched).                                         *)
Losses == {"nothing", "reviews", "requests", "threads", "bodies"}

Bundles == {[pr |-> pr, lost |-> lost] : lost \in Losses}

ReviewsComplete(b) ==
  b.lost # "reviews" /\ Cardinality(b.pr.reviews) <= ReviewPage

ThreadsComplete(b) == b.lost \notin {"threads", "bodies"}

Verified(b) == b.lost = "nothing" /\ ReviewsComplete(b)

(* The reviews the answer carries: the oldest page, or none when masked.   *)
Carried(b) ==
  IF b.lost = "reviews" THEN {} ELSE {r \in b.pr.reviews : r.id <= ReviewPage}

(* Mutant of Ingestable: comment-only reviews are not kept as activity.     *)
IngestableVerdictsOnly(rs) ==
  LET Opinion(r) == r.verdict \in Verdicts
      Supersedes(o, r) == Opinion(o) /\ o.by = r.by /\ o.at > r.at
  IN  {r \in rs : Opinion(r) /\ (r.by \in Ghosts \/ ~\E o \in rs : Supersedes(o, r))}

(* The reviews that become rows: every comment-only review, and of each    *)
(* reviewer GitHub names the latest verdict that has not been dismissed.   *)
Ingestable(rs) ==
  LET Opinion(r) == r.verdict \in Verdicts
      Supersedes(o, r) == Opinion(o) /\ o.by = r.by /\ o.at > r.at
  IN  {r \in rs : \/ r.verdict = "COMMENTED"
                  \/ Opinion(r) /\ r.by \in Ghosts
                  \/ Opinion(r) /\ ~\E o \in rs : Supersedes(o, r)}

(* Mutant of ReviewRows: superseded reviews are not swept.                  *)
ReviewRowsUnswept(old, b) ==
  LET seen == Ingestable(Carried(b))
  IN  seen \cup {r \in old : \A s \in seen : s.id # r.id}

(* The live review rows after the writer: what was seen is written over    *)
(* what was stored, what was not seen is swept only under the witness.     *)
ReviewRows(old, b) ==
  LET seen == Ingestable(Carried(b))
      kept == {r \in old : \A s \in seen : s.id # r.id}
  IN  seen \cup (IF ReviewsComplete(b) THEN {} ELSE kept)

(* Mutant of RequestRow: replaced by whatever the answer carried.           *)
RequestRowUnwitnessed(old, b) == b.lost # "requests" /\ b.pr.asked

(* The review requests are replaced, under their own witness.              *)
RequestRow(old, b) == IF b.lost = "requests" THEN old ELSE b.pr.asked

(* The thread and its comments: a thread whose comments could not be       *)
(* fetched lands without them, and nothing is swept without the witness.   *)
ThreadRow(old, b) ==
  CASE ThreadsComplete(b)  -> [thread |-> b.pr.thread, resolved |-> b.pr.resolved]
    [] b.lost = "bodies"   -> [thread |-> old.thread, resolved |-> b.pr.resolved]
    [] b.lost = "threads"  -> old

(* The flip of the head is an observation stamped with the run's clock; a  *)
(* row met for the first time has none.                                    *)
Flips(old, b) ==
  IF old = None THEN {}
  ELSE old.flips \cup (IF old.head = b.pr.head.oid THEN {} ELSE {now})

NoThread == [thread |-> {}, resolved |-> FALSE]

Bundled(old, b) ==
  [head      |-> b.pr.head.oid,
   committed |-> b.pr.commits[b.pr.head.oid].date,
   draft     |-> b.pr.draft,
   blocked   |-> b.pr.blocked,
   truncated |-> ~Verified(b),
   flips     |-> Flips(old, b),
   reviews   |-> ReviewRows(IF old = None THEN {} ELSE old.reviews, b),
   asked     |-> RequestRow(old # None /\ old.asked, b),
   threads   |-> ThreadRow(IF old = None THEN NoThread ELSE old.threads, b)]

(* The hydration and the writer's transaction.  Runs exclude each other    *)
(* and nothing on GitHub changes a bundle once it is fetched, so the two   *)
(* are one step; a run that is killed before it is no step at all.         *)
Sync ==
  /\ clock - now <= MaxAge
  /\ \E b \in Bundles : row' = Bundled(row, b)
  /\ shown' = pr
  /\ met' = IF row # None /\ row.head = pr.head.oid THEN met ELSE clock
  /\ UNCHANGED <<clock, author, pr, now, events>>

Next ==
  \/ Push \/ PushBack \/ Submit \/ Dismiss \/ Ask \/ Say \/ Minimize \/ Retract
  \/ Resolve \/ Mark \/ Tick
  \/ Start \/ Sync

Spec == Init /\ [][Next]_vars

-----------------------------------------------------------------------------
(* The judgment: what attention.rs reads out of the rows.                  *)

(* Mutant of Freshness: the margin between the clocks is not asked for.     *)
FreshnessWithoutMargin(at, r) ==
  IF at < r.committed THEN "stale"
  ELSE IF r.flips # {} /\ \A f \in r.flips : at >= f THEN "fresh"
  ELSE "unknown"

(* Mutant of Freshness: a review in the very second of the commit is stale. *)
FreshnessStaleAtCommit(at, r) ==
  IF at <= r.committed THEN "stale"
  ELSE IF r.flips # {} /\ \A f \in r.flips : at - f >= Margin THEN "fresh"
  ELSE "unknown"

(* Did a review see the head?  Before the commit's date it provably did    *)
(* not; a margin past the latest flip it provably did.                     *)
Freshness(at, r) ==
  IF at < r.committed THEN "stale"
  ELSE IF r.flips # {} /\ \A f \in r.flips : at - f >= Margin THEN "fresh"
  ELSE "unknown"

Effective(r) ==
  LET standing  == {v \in r.reviews : /\ v.verdict = "CHANGES_REQUESTED"
                                      /\ Freshness(v.at, r) # "stale"}
      approvals == {v \in r.reviews : v.verdict = "APPROVED"}
  IN  CASE standing # {}   -> "changes_requested"
        [] standing = {} /\ approvals = {} -> "unreviewed"
        [] OTHER -> IF \A v \in approvals : Freshness(v.at, r) = "fresh"
                    THEN "approved" ELSE "stale_approval"

Substantive(comments) == {c \in comments : ~c.minimized}

(* Mutant of Latest: the report asks for the comments in the order of ids.  *)
LatestById(said) == CHOOSE c \in said : \A d \in said : d.id <= c.id

(* The report orders the comments of a thread by time, and those of one     *)
(* second by id.                                                           *)
Latest(said) ==
  CHOOSE c \in said : \A d \in said : d.at < c.at \/ (d.at = c.at /\ d.id <= c.id)

(* Who an unresolved thread waits on, from the viewer's seat.              *)
WaitingOnMe(th) ==
  LET said == Substantive(th.thread)
  IN  /\ said # {} /\ ~th.resolved
      /\ Latest(said).by # Viewer
      /\ author = Viewer \/ \E c \in said : c.by = Viewer

Unresolved(th) == th.thread # {} /\ ~th.resolved

Speech(r) == Substantive(r.threads.thread)

(* When the viewer last acted; opening the pull request, at 0, is acting.  *)
ViewerActs(r) ==
  {c.at : c \in {x \in Speech(r) \cup r.reviews : x.by = Viewer}}
    \cup (IF author = Viewer THEN {0} ELSE {})

(* What others did that may call for an answer: an approval does not, nor  *)
(* does a bot the operator has not named.                                  *)
OtherActs(r) ==
  LET answered(x) == x.by # Viewer /\ x.by \notin Bots \ ReplyBots
  IN  {c.at : c \in {x \in Speech(r) : answered(x)}}
        \cup {v.at : v \in {x \in r.reviews :
                              answered(x) /\ x.verdict # "APPROVED"}}

RepliedSince(r) ==
  /\ ViewerActs(r) # {}
  /\ \E o \in OtherActs(r) : \A v \in ViewerActs(r) : o > v

Qualifies(r, b) ==
  CASE b = "waiting_on_me" ->
         IF author = Viewer THEN WaitingOnMe(r.threads) ELSE r.asked
    [] b = "they_replied" -> RepliedSince(r)
    [] b = "ready_to_merge" ->
         /\ author = Viewer /\ ~r.draft /\ ~r.truncated
         /\ Effective(r) = "approved"
         /\ ~Unresolved(r.threads) /\ ~r.blocked
    [] b = "people_prs" ->
         /\ author \in People /\ ~r.draft
         /\ \A v \in r.reviews : v.by # Viewer
    [] b = "needs_reviewer" ->
         TriageScope /\ ~r.draft /\ ~r.asked /\ r.reviews = {}

Buckets == <<"waiting_on_me", "they_replied", "ready_to_merge", "people_prs",
             "needs_reviewer">>

(* The first bucket a pull request qualifies for, and no other.            *)
Bucket(r) ==
  LET hits == {i \in DOMAIN Buckets : Qualifies(r, Buckets[i])}
  IN  IF hits = {} THEN "none" ELSE Buckets[CHOOSE i \in hits : \A j \in hits : i <= j]

-----------------------------------------------------------------------------
(* Properties.                                                             *)

Marked(p) == /\ Len(p.commits) \in 1..MaxPushes
             /\ p.head.oid \in DOMAIN p.commits
             /\ p.asked \in BOOLEAN /\ p.resolved \in BOOLEAN
             /\ p.draft \in BOOLEAN /\ p.blocked \in BOOLEAN
             /\ \A c \in p.thread : c.id \in 1..MaxSpeech /\ c.at \in 0..MaxClock
             /\ Cardinality(p.reviews) <= MaxReviews

(* Every variable keeps its type, and no more flips are logged than heads  *)
(* were pushed: the bookkeeping of sync.rs upsert_pr stays inside its      *)
(* tables.                                                                 *)
TypeOK ==
  /\ clock \in 0..MaxClock /\ events \in 0..MaxEvents /\ author \in Parties
  /\ Marked(pr)
  /\ (row = None) = (shown = None)
  /\ row # None =>
       /\ Marked(shown) /\ row.head = shown.head.oid /\ met \in 0..clock
       /\ row.truncated \in BOOLEAN /\ row.asked \in BOOLEAN
       /\ \A r \in row.reviews : r.verdict # "DISMISSED"
       /\ Cardinality(row.flips) <= events

(* The head's author did not date it ahead of its first push.              *)
Honest(p) == LET c == p.commits[p.head.oid] IN c.date <= c.born

(* The run that first met the row's head had read its clock less than the  *)
(* margin before: it was not that long on its way, nor did its clock run   *)
(* behind by as much.                                                      *)
Prompt == \E f \in row.flips : met < f + Margin

(* The head has stood since it was met: it was not pushed away and back    *)
(* between two hydrations, which leaves no flip.                           *)
Steady == shown.head.pushed <= met

(* What GitHub's own page would call each reviewer's standing verdict.     *)
Standing(p) ==
  {r \in p.reviews :
     /\ r.verdict \in Verdicts
     /\ \/ r.by \in Ghosts
        \/ \A o \in p.reviews :
             o.by = r.by /\ o.verdict \in Verdicts => o.at <= r.at}

(* A pull request listed as ready_to_merge was, when it was last hydrated, *)
(* no draft, not held back, without an open thread, and approved.  Nobody  *)
(* stood by a request for changes of its head, if the head is honestly     *)
(* dated; and every standing approval was given to that head, if the run   *)
(* that met the head was prompt and the head has stood since.  This is     *)
(* attention.rs' promise that the bucket under-fills and never lies (24-26,*)
(* 151-158) with the conditions the code needs for it, across two clocks,  *)
(* lost connections, superseded and dismissed verdicts.                    *)
ReadyNeverLies ==
  row # None /\ Bucket(row) = "ready_to_merge" =>
    /\ ~shown.draft /\ ~shown.blocked
    /\ shown.thread = {} \/ shown.resolved
    /\ \E v \in Standing(shown) : v.verdict = "APPROVED"
    /\ Honest(shown) =>
         \A v \in Standing(shown) :
           v.verdict = "CHANGES_REQUESTED" => v.saw # shown.head.oid
    /\ Prompt /\ Steady =>
         \A v \in Standing(shown) :
           v.verdict = "APPROVED" => v.saw = shown.head.oid

(* The promise without those conditions: what makes a pull request ready   *)
(* was approved after the push of the head that was hydrated.  attention.rs*)
(* 20-26 says that a review a margin past the flip "provably POSTDATES the *)
(* push" and that the bucket "never lies"; it does when the run is slow to *)
(* reach the head, or the head was away and back in between.               *)
ApprovalsPostdateThePush ==
  row # None /\ Bucket(row) = "ready_to_merge" /\ Honest(shown) =>
    \A v \in row.reviews : v.verdict = "APPROVED" => v.at >= shown.head.pushed

(* A standing request for changes of the head that was hydrated is never   *)
(* read as anything else: only a proof that it predates the push may set   *)
(* it aside (attention.rs 327-349).                                        *)
ChangeRequestsStand ==
  row # None /\ ~row.truncated /\ Honest(shown) =>
    \A v \in Standing(shown) :
      v.verdict = "CHANGES_REQUESTED" /\ v.saw = shown.head.oid =>
        Effective(row) = "changes_requested"

(* The precondition of effective_review_state: on an untruncated row the   *)
(* live verdicts are the latest of each reviewer, however the stored ones  *)
(* came and went by supersession, dismissal and incomplete hydrations      *)
(* (sync.rs ingestable_reviews and the sweep under its witness).           *)
VerdictsAreCurrent ==
  row # None /\ ~row.truncated =>
    {v \in row.reviews : v.verdict \in Verdicts} = Standing(shown)

(* A demand that a complete hydration met is listed as one: a review asked *)
(* of the viewer; an open thread on the viewer's pull request in which     *)
(* another spoke after whatever the viewer said there, be it a comment     *)
(* minimized or deleted since; an act of another person since the viewer's *)
(* last one.  Of two comments of one second the report takes the greater   *)
(* id for the later, so nothing is asked where the viewer spoke in the     *)
(* second of the other's last comment (report.rs 218-219).                 *)
DemandsSurface ==
  row # None /\ ~row.truncated =>
    LET spoken == {c \in shown.thread : ~c.minimized}
        acts   == spoken \cup {v \in shown.reviews : v.verdict = "COMMENTED"}
                         \cup Standing(shown)
        mine   == {x \in acts : x.by = Viewer}
        calls(x) == /\ x.by \notin {Viewer} \cup (Bots \ ReplyBots)
                    /\ "verdict" \in DOMAIN x => x.verdict # "APPROVED"
        asked  == author # Viewer /\ shown.asked
        waited == /\ author = Viewer /\ ~shown.resolved
                  /\ \E c \in spoken :
                       /\ c.by # Viewer
                       /\ \A d \in spoken : d.by = Viewer => d.at < c.at
        replied == \E x \in acts : /\ calls(x)
                                   /\ author = Viewer => x.at > 0
                                   /\ author # Viewer => mine # {}
                                   /\ \A m \in mine : x.at > m.at
    IN  /\ asked \/ waited => Bucket(row) = "waiting_on_me"
        /\ replied => Bucket(row) \in {"waiting_on_me", "they_replied"}

(* The archive forgets that the viewer was asked only when GitHub, as the  *)
(* hydration met it, no longer asks: a connection that lost its witness    *)
(* can only under-fill a demand it never showed (sync.rs 3868-3871).       *)
RequestsNeedAWitness ==
  [][row # None /\ row'.asked # row.asked => row'.asked = shown'.asked]_vars

(* An effective approval is never given over a live request for changes of *)
(* the archived head.  attention.rs 31-35 says that a future-dated commit  *)
(* "widens staleness" and errs "toward demanding a re-review"; it also     *)
(* sets a standing request for changes aside.                              *)
NoApprovalOverAChangeRequest ==
  row # None /\ Effective(row) = "approved" =>
    ~\E v \in row.reviews : /\ v.verdict = "CHANGES_REQUESTED"
                            /\ v.saw = row.head
=============================================================================
