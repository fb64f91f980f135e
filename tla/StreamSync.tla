----------------------------- MODULE StreamSync -----------------------------
(***************************************************************************)
(* One repository's pull-request stream as `ghgraph sync` walks it         *)
(* (src/sync.rs): the plan, the discovery windows and their splits, the    *)
(* hydration of every hit, the quarantine, the re-verify tier, and the     *)
(* transactions of the writer, against a GitHub that changes underneath.   *)
(*                                                                         *)
(* The writer is the only consumer of a FIFO channel and the worker reads  *)
(* the archive only in `plan`, so sending a message and committing it is   *)
(* one step here; a kill may fall between any two of them.  Content is     *)
(* abstracted to whether the archived row equals the remote one: `fresh`.  *)
(***************************************************************************)
EXTENDS Naturals, FiniteSets

CONSTANTS
  Items,          \* pull requests (node ids)
  Login,          \* accounts
  Involves,       \* Involves[i]: the logins an `involves:` term matches i for
  Author,         \* Author[i]: who opened i
  Configs,        \* the configurations the operator may switch between
  Forced,         \* the values of --full that runs are started with
  Cap,            \* results a search term can return (GitHub's search cap)
  Lag,            \* how long the search index may not show an update
  Overlap,        \* OVERLAP_SECS
  Lookback,       \* lookback_days
  MinWindow,      \* MIN_WINDOW_SECS
  PageBatch,      \* PAGE_BATCH
  DrainAttempts,  \* QUARANTINE_DRAIN_ATTEMPTS
  BackoffBase,    \* QUARANTINE_BACKOFF_BASE_SECS
  BackoffCap,     \* QUARANTINE_BACKOFF_CAP_SECS
  ReverifyCap,    \* REVERIFY_CAP
  MaxClock,       \* bound: the remote clock stops here
  MaxGone,        \* bound: deletions upstream
  MaxTrouble,     \* bound: kills, deferrals, failures and transient errors
  MaxSpurious,    \* bound: node:null answers for an item that still exists
  StarvedBound      \* bound: runs_since_advance saturates here

Config == [viewer : Login, people : SUBSET Login, exclude : SUBSET Login]

ASSUME StreamSyncAssumption ==
  /\ IsFiniteSet(Items)
  /\ Involves \in [Items -> SUBSET Login]
  /\ Author \in [Items -> Login]
  /\ Configs \in SUBSET Config
  /\ Forced \in SUBSET BOOLEAN
  /\ {Cap, PageBatch, MinWindow, DrainAttempts, BackoffBase, BackoffCap}
       \subseteq Nat \ {0}
  /\ {Lag, Overlap, Lookback, ReverifyCap, MaxClock, MaxGone, MaxTrouble,
      MaxSpurious, StarvedBound} \subseteq Nat

\* Halving a window must leave two non-empty halves, and the overlap is there
\* to absorb what the index has not shown yet.
ASSUME WindowAssumption == MinWindow >= 2 /\ Lag <= Overlap + 1

VARIABLES
  clock,      \* GitHub's clock, in the unit of `updatedAt`
  upd,        \* upd[i]: updatedAt; 0 while i does not exist
  gone,       \* items deleted upstream
  cfg,        \* the configuration file
  archived,   \* items with a row in prs
  fresh,      \* ... whose row equals the remote item
  deleted,    \* ... whose row carries deleted_at
  hasState,     \* whether the stream has a sync_state row
  wm,         \* last_item_updated_at; 0 is the epoch sentinel
  fp,         \* fingerprint: the configuration the row was written under
  checked,    \* last_checked_at; 0 is NULL
  runsSince,    \* runs_since_advance
  quar,       \* ids with a quarantine row
  tries,      \* tries[i]: attempts
  due,        \* due[i]: next_retry_at
  pc,         \* what the worker is doing; "idle" is no sync running
  plan,       \* the RepoPlan of the run
  source,     \* the TermSource of the walk
  from,       \* left edge of the current window
  edges,      \* right edges of the current and the pending closed windows
  hits,       \* discovered ids of the window not yet resolved
  hitUpd,     \* hitUpd[i]: the updatedAt discovery saw
  halt,       \* the window is truncated and cannot be split
  fold,       \* the window's watermark so far; 0 is None
  rows,       \* bundles not yet handed to the writer
  rowsFresh,  \* ... whose content still equals the remote item
  fails,      \* quarantine records not yet handed to the writer
  drains,     \* ids to drain with the Retries message
  walked,     \* full_walked
  trouble,    \* bound: the number of faults so far
  spurious,   \* bound: the number of spurious node:null answers so far
  forgotten   \* history: drained ids whose remote item has not moved since

upstream  == <<clock, upd, gone, cfg>>
content == <<archived, fresh, deleted>>
state   == <<hasState, wm, fp, checked, runsSince>>
ledger  == <<quar, tries, due>>
batch   == <<rows, rowsFresh, fails, drains>>
walk    == <<source, from, edges, hits, hitUpd, halt, fold>>
bounds  == <<trouble, spurious>>
streamVars == <<upstream, content, state, ledger, pc, plan, walk, batch, walked,
          bounds, forgotten>>

Greater(a, b)  == IF a >= b THEN a ELSE b
Lesser(a, b) == IF a <= b THEN a ELSE b
Minus(a, b)   == IF a >= b THEN a - b ELSE 0

-----------------------------------------------------------------------------
(* The scheduler: what a run will do.                                      *)

\* `new` asks for history `old` never discovered, so the stream restarts from
\* the lookback floor.
Relaxes(old, new) ==
  \/ old.viewer # new.viewer
  \/ ~(old.exclude \subseteq new.exclude)

Added(old, new) == new.people \ old.people

\* Mutant: a new person is left to the incremental walk.
TransitionNoBackfill(new) ==
  IF ~hasState \/ Relaxes(fp, new) THEN "ColdStart" ELSE "Incremental"

Transition(new) ==
  IF ~hasState \/ Relaxes(fp, new) THEN "ColdStart"
  ELSE IF Added(fp, new) # {} THEN "Backfill" ELSE "Incremental"

LookbackStart == Minus(clock, Lookback)

\* Mutant: no overlap with what the previous run saw.
IncrementalSinceNoOverlap == Greater(wm, LookbackStart)

IncrementalSince == Greater(Minus(wm, Overlap), LookbackStart)

\* Mutant: the comparison is turned around.
RetryableEarly == {i \in quar : due[i] > clock}

Retryable == {i \in quar : due[i] <= clock}

NoPlan == [now |-> 0, since |-> 0, cold |-> FALSE,
           intermediate |-> CHOOSE c \in Configs : TRUE,
           backfill |-> {}, due |-> {}, quarantined |-> {}, reverify |-> {}]

\* The logins whose `involves:` terms the walk searches for.
Terms == IF source = "Backfill" THEN plan.backfill ELSE {cfg.viewer} \cup cfg.people

Excluded(c, i) == Author[i] \in c.exclude

\* The items configuration c asks the archive to mirror.
Wants(c, i) ==
  /\ Involves[i] \cap ({c.viewer} \cup c.people) # {}
  /\ ~Excluded(c, i)

\* Exponential, up to the cap.
BackoffFor(attempts) ==
  LET wait == BackoffBase * 2 ^ Lesser(attempts - 1, 20)
  IN  IF wait \in 0 .. BackoffCap THEN wait ELSE BackoffCap

-----------------------------------------------------------------------------
StreamInit ==
  /\ clock = 1
  /\ upd = [i \in Items |-> 0]
  /\ gone = {}
  /\ cfg \in Configs
  /\ archived = {} /\ fresh = {} /\ deleted = {}
  /\ hasState = FALSE /\ wm = 0 /\ fp = cfg /\ checked = 0 /\ runsSince = 0
  /\ quar = {} /\ tries = [i \in Items |-> 0] /\ due = [i \in Items |-> 0]
  /\ pc = "idle" /\ plan = NoPlan
  /\ source = "Full" /\ from = 0 /\ edges = {} /\ hits = {}
  /\ hitUpd = [i \in Items |-> 0] /\ halt = FALSE /\ fold = 0
  /\ rows = {} /\ rowsFresh = {} /\ fails = {} /\ drains = {} /\ walked = {}
  /\ trouble = 0 /\ spurious = 0
  /\ forgotten = {}

-----------------------------------------------------------------------------
(* GitHub and the operator.                                                *)

Exists(i) == upd[i] > 0 /\ i \notin gone

Tick ==
  /\ clock < MaxClock
  /\ clock' = clock + 1
  /\ UNCHANGED <<upd, gone, cfg, content, state, ledger, pc, plan, walk,
                 batch, walked, bounds, forgotten>>

\* i is opened, or anything about it changes.
Touch(i) ==
  /\ i \notin gone
  /\ clock < MaxClock
  /\ upd' = [upd EXCEPT ![i] = clock]
  /\ fresh' = fresh \ {i}
  /\ rowsFresh' = rowsFresh \ {i}
  /\ forgotten' = forgotten \ {i}
  /\ UNCHANGED <<clock, gone, cfg, archived, deleted, state, ledger, pc, plan,
                 walk, rows, fails, drains, walked, bounds>>

\* i is deleted upstream, or the account loses access to it.
Vanish(i) ==
  /\ Exists(i)
  /\ clock < MaxClock /\ Cardinality(gone) < MaxGone
  /\ gone' = gone \cup {i}
  /\ UNCHANGED <<clock, upd, cfg, content, state, ledger, pc, plan, walk,
                 batch, walked, bounds, forgotten>>

\* The operator edits the configuration between two runs.
EditConfig(c) ==
  /\ pc = "idle"
  /\ clock < MaxClock
  /\ cfg' = c
  /\ UNCHANGED <<clock, upd, gone, content, state, ledger, pc, plan, walk,
                 batch, walked, bounds, forgotten>>

-----------------------------------------------------------------------------
(* Starting and leaving a run.                                             *)

\* What a process keeps in memory dies with it.
Leave ==
  /\ pc' = "idle" /\ plan' = NoPlan
  /\ source' = "Full" /\ from' = 0 /\ edges' = {} /\ hits' = {}
  /\ hitUpd' = [i \in Items |-> 0] /\ halt' = FALSE /\ fold' = 0
  /\ rows' = {} /\ rowsFresh' = {} /\ fails' = {} /\ drains' = {}
  /\ walked' = {}

\* `plan`, and the first window sync_repo opens.  R is the re-verify list,
\* whose choice among the eligible rows (reverify_due) is left open.
Plan(full, R) ==
  /\ pc = "idle"
  /\ R \subseteq archived \ (deleted \cup quar)
  /\ Cardinality(R) <= ReverifyCap
  /\ LET t == IF full THEN "ColdStart" ELSE Transition(cfg)
         since == IF t = "ColdStart" THEN LookbackStart ELSE IncrementalSince
         added == IF t = "Backfill" THEN Added(fp, cfg) ELSE {}
     IN /\ plan' = [now |-> clock, since |-> since, cold |-> t = "ColdStart",
                    intermediate |-> IF hasState THEN fp ELSE cfg,
                    backfill |-> added, due |-> Retryable,
                    quarantined |-> quar, reverify |-> R]
        /\ source' = IF added # {} THEN "Backfill" ELSE "Full"
        /\ from' = IF added # {} THEN LookbackStart ELSE since
  /\ pc' = "discover"
  /\ UNCHANGED <<upstream, content, state, ledger, edges, hits, hitUpd, halt,
                 fold, batch, walked, bounds, forgotten>>

\* SIGINT, SIGKILL or a power cut: SQLite rolls the open transaction back.
RunKilled ==
  /\ pc # "idle"
  /\ trouble < MaxTrouble
  /\ trouble' = trouble + 1
  /\ Leave
  /\ UNCHANGED <<upstream, content, state, ledger, spurious, forgotten>>

\* The rate-limit floor (Stop::Floor, the Deferred message) or a repo-scoped
\* failure (Stop::Repo, the Failed message): the watermark holds and the
\* stream counts one more run without an advance.
Stopped ==
  /\ pc # "idle"
  /\ trouble < MaxTrouble
  /\ trouble' = trouble + 1
  /\ runsSince' = IF hasState THEN Lesser(runsSince + 1, StarvedBound) ELSE runsSince
  /\ Leave
  /\ UNCHANGED <<upstream, content, hasState, wm, fp, checked, ledger, spurious,
                 forgotten>>

-----------------------------------------------------------------------------
(* One hydration: the remote answers for i as it is now.                   *)

Answers(i) == IF Exists(i) THEN {"bundle"} ELSE {"node_null"}

\* A transient error or schema drift quarantines whatever the item's fate; a
\* replica may answer node:null for an item that exists.
Faults(i) ==
  (IF trouble < MaxTrouble THEN {"error"} ELSE {})
    \cup (IF Exists(i) /\ spurious < MaxSpurious THEN {"node_null"} ELSE {})

Charge(i, answer) ==
  /\ trouble' = IF answer = "error" THEN trouble + 1 ELSE trouble
  /\ spurious' = IF answer = "node_null" /\ Exists(i) THEN spurious + 1
                 ELSE spurious

\* apply_rows: the upsert writes the bundle's content and clears deleted_at.
ApplyRows(R, F) ==
  /\ archived' = archived \cup R
  /\ fresh' = (fresh \ R) \cup F
  /\ deleted' = deleted \ R

\* A bundle joins the batch; a full batch is a Page message, one transaction.
Batch(i) ==
  IF Cardinality(rows \cup {i}) >= PageBatch
  THEN /\ ApplyRows(rows \cup {i}, rowsFresh \cup {i})
       /\ rows' = {} /\ rowsFresh' = {}
       /\ forgotten' = forgotten \ (rows \cup {i})
  ELSE /\ rows' = rows \cup {i}
       /\ rowsFresh' = rowsFresh \cup {i}
       /\ UNCHANGED <<content, forgotten>>

\* upsert_quarantine for every id in F, with N[i] attempts.
Quarantine(F, N, released) ==
  /\ quar' = (quar \ released) \cup F
  /\ tries' = [i \in Items |-> IF i \in F THEN N[i]
                               ELSE IF i \in released THEN 0 ELSE tries[i]]
  /\ due' = [i \in Items |-> IF i \in F THEN clock + BackoffFor(N[i])
                             ELSE IF i \in released THEN 0 ELSE due[i]]

-----------------------------------------------------------------------------
(* walk_window: discovery, splits, hydration, and the window's Done.       *)

InWindow(t) == t >= from /\ \A e \in edges : t <= e

IsWindowEnd(e) ==
  IF edges = {} THEN e = clock
  ELSE e \in edges /\ \A f \in edges : e <= f

Splittable(e) == e >= from + MinWindow

\* What the index may show of the current window for one term.  The index
\* shows every update older than Lag; of the younger ones, those in `shown`.
Indexed(shown) == {i \in Items : Exists(i) /\ (upd[i] + Lag <= clock \/ i \in shown)}

\* The younger updates, which the index may or may not show.
Unsettled == {i \in Items : upd[i] + Lag > clock}

TermHits(login, shown) ==
  {i \in Indexed(shown) : login \in Involves[i] /\ InWindow(upd[i])}

Capped(shown) == \E login \in Terms : Cardinality(TermHits(login, shown)) > Cap

\* What a term returned: all of its hits, or Cap of them.
Returns(H, login, shown) ==
  LET T == TermHits(login, shown)
  IN  IF Cardinality(T) <= Cap THEN T \subseteq H ELSE Cardinality(H \cap T) >= Cap

\* A truncated window that is wide enough: the oldest half goes first.
SplitWindow(shown) ==
  /\ pc = "discover"
  /\ Capped(shown)
  /\ \E e \in 0 .. clock :
       /\ IsWindowEnd(e)
       /\ Splittable(e)
       /\ edges' = edges \cup {from + (e - from) \div 2}
  /\ UNCHANGED <<upstream, content, state, ledger, pc, plan, source, from, hits,
                 hitUpd, halt, fold, batch, walked, bounds, forgotten>>

\* The window's hits; ids quarantined at plan time are skipped.
Discover(shown, H) ==
  /\ pc = "discover"
  /\ \A e \in 0 .. clock : Capped(shown) /\ IsWindowEnd(e) => ~Splittable(e)
  /\ H \subseteq UNION {TermHits(login, shown) : login \in Terms}
  /\ \A login \in Terms : Returns(H, login, shown)
  /\ hits' = H \ plan.quarantined
  /\ hitUpd' = [i \in Items |-> IF i \in H \ plan.quarantined THEN upd[i] ELSE 0]
  /\ halt' = Capped(shown)
  /\ pc' = "hydrate"
  /\ UNCHANGED <<upstream, content, state, ledger, plan, source, from, edges,
                 fold, batch, walked, bounds, forgotten>>

\* Hydration ascends by updatedAt.
IsNextHit(i) == i \in hits /\ \A j \in hits : hitUpd[i] <= hitUpd[j]

\* A filtered item is declined, not unfetched: it advances the fold.
Decline(i) ==
  /\ pc = "hydrate"
  /\ IsNextHit(i)
  /\ Excluded(cfg, i)
  /\ hits' = hits \ {i}
  /\ fold' = Greater(fold, hitUpd[i])
  /\ UNCHANGED <<upstream, content, state, ledger, pc, plan, source, from, edges,
                 hitUpd, halt, batch, walked, bounds, forgotten>>

\* Mutant: the fold takes the updatedAt that hydration sees.
HydrateHitDrifts(i, answer, tail) ==
  /\ pc = "hydrate"
  /\ IsNextHit(i)
  /\ ~Excluded(cfg, i)
  /\ tail => i \in archived \ deleted
  /\ hits' = hits \ {i}
  /\ Charge(i, answer)
  /\ \/ /\ answer = "bundle"
        /\ Batch(i)
        /\ fold' = Greater(fold, upd[i])
        /\ walked' = IF tail THEN walked ELSE walked \cup {i}
        /\ UNCHANGED fails
     \/ /\ answer # "bundle"
        /\ fails' = fails \cup {i}
        /\ UNCHANGED <<content, forgotten, rows, rowsFresh, fold, walked>>
  /\ UNCHANGED <<upstream, state, ledger, pc, plan, source, from, edges, hitUpd,
                 halt, drains>>

\* The fold takes the updatedAt discovery saw.  An item with a baseline may be
\* hydrated by the refresh path, which does not count as a full walk.
HydrateHit(i, answer, tail) ==
  /\ pc = "hydrate"
  /\ IsNextHit(i)
  /\ ~Excluded(cfg, i)
  /\ tail => i \in archived \ deleted
  /\ hits' = hits \ {i}
  /\ Charge(i, answer)
  /\ \/ /\ answer = "bundle"
        /\ Batch(i)
        /\ fold' = Greater(fold, hitUpd[i])
        /\ walked' = IF tail THEN walked ELSE walked \cup {i}
        /\ UNCHANGED fails
     \/ /\ answer # "bundle"
        /\ fails' = fails \cup {i}
        /\ UNCHANGED <<content, forgotten, rows, rowsFresh, fold, walked>>
  /\ UNCHANGED <<upstream, state, ledger, pc, plan, source, from, edges, hitUpd,
                 halt, drains>>

\* Mutant: every window that is not truncated completes the stream.
CompletesEveryWindow == source = "Full" /\ ~halt

\* The window that brings the stream up to the start of the run.
Completes == edges = {} /\ source = "Full" /\ ~halt

\* Mutant: a cold start commits the stored inputs to the end.
DoneFingerprintStuck ==
  IF source = "Backfill" \/ plan.cold THEN plan.intermediate ELSE cfg

\* The fingerprint the window's Done carries.
DoneFingerprint ==
  IF source = "Backfill" \/ (plan.cold /\ ~Completes)
  THEN plan.intermediate ELSE cfg

\* Mutant: the watermark is what the last window offered.
AdvanceStateUnclamped(offered) ==
  /\ hasState' = TRUE
  /\ wm' = IF offered > 0 THEN offered ELSE wm
  /\ fp' = DoneFingerprint
  /\ checked' = IF Completes THEN plan.now ELSE checked
  /\ runsSince' = IF Completes THEN 0 ELSE runsSince

\* Mutant: a window that does not complete the stream clears last_checked_at.
AdvanceStateForgets(offered) ==
  /\ hasState' = TRUE
  /\ wm' = Greater(wm, offered)
  /\ fp' = DoneFingerprint
  /\ checked' = IF Completes THEN plan.now ELSE 0
  /\ runsSince' = IF Completes THEN 0 ELSE runsSince

\* advance_state: the watermark never moves back, freshness and the starvation
\* counter move only when the stream completed.
AdvanceState(offered) ==
  /\ hasState' = TRUE
  /\ wm' = Greater(wm, offered)
  /\ fp' = DoneFingerprint
  /\ checked' = IF Completes THEN plan.now ELSE checked
  /\ runsSince' = IF Completes THEN 0 ELSE runsSince

\* The next window of the stack, the main walk after a backfill, the retries
\* after the main walk.
NextWindow ==
  IF edges # {}
  THEN \E e \in edges :
         /\ IsWindowEnd(e)
         /\ from' = e + 1
         /\ edges' = edges \ {e}
         /\ pc' = "discover"
         /\ UNCHANGED source
  ELSE /\ edges' = {}
       /\ source' = "Full"
       /\ from' = plan.since
       /\ pc' = IF source = "Backfill" THEN "discover" ELSE "retry"

\* One transaction: the window's rows, its quarantine records, its watermark.
\* A halted walk ends the run.
WindowDone ==
  /\ pc = "hydrate"
  /\ hits = {}
  /\ ApplyRows(rows, rowsFresh)
  /\ forgotten' = forgotten \ rows
  /\ Quarantine(fails, [i \in Items |-> 1], {})
  /\ AdvanceState(IF halt THEN 0 ELSE fold)
  /\ IF halt
     THEN Leave
     ELSE /\ NextWindow
          /\ hitUpd' = [i \in Items |-> 0] /\ halt' = FALSE /\ fold' = 0
          /\ rows' = {} /\ rowsFresh' = {} /\ fails' = {} /\ drains' = {}
          /\ UNCHANGED <<plan, hits, walked>>
  /\ UNCHANGED <<upstream, bounds>>

-----------------------------------------------------------------------------
(* Quarantine retries and the re-verify tier.                              *)

\* Mutant: the last attempt drains whatever it answers.
RetryItemDrainsAny(i, answer) ==
  /\ pc = "retry"
  /\ i \in plan.due
  /\ plan' = [plan EXCEPT !.due = @ \ {i}]
  /\ Charge(i, answer)
  /\ LET ok == answer = "bundle"
         drained == ~ok /\ tries[i] + 1 >= DrainAttempts
     IN /\ rows' = IF ok THEN rows \cup {i} ELSE rows
        /\ rowsFresh' = IF ok THEN rowsFresh \cup {i} ELSE rowsFresh
        /\ walked' = IF ok THEN walked \cup {i} ELSE walked
        /\ drains' = IF drained THEN drains \cup {i} ELSE drains
        /\ fails' = IF ok \/ drained THEN fails ELSE fails \cup {i}
  /\ UNCHANGED <<upstream, content, state, ledger, pc, walk, forgotten>>

RetryItem(i, answer) ==
  /\ pc = "retry"
  /\ i \in plan.due
  /\ plan' = [plan EXCEPT !.due = @ \ {i}]
  /\ Charge(i, answer)
  /\ LET drained == answer = "node_null" /\ tries[i] + 1 >= DrainAttempts
         ok == answer = "bundle"
     IN /\ rows' = IF ok THEN rows \cup {i} ELSE rows
        /\ rowsFresh' = IF ok THEN rowsFresh \cup {i} ELSE rowsFresh
        /\ walked' = IF ok THEN walked \cup {i} ELSE walked
        /\ drains' = IF drained THEN drains \cup {i} ELSE drains
        /\ fails' = IF ok \/ drained THEN fails ELSE fails \cup {i}
  /\ UNCHANGED <<upstream, content, state, ledger, pc, walk, forgotten>>

\* The floor ends the retries early; what was not tried stays due.
ShedRetries ==
  /\ pc = "retry"
  /\ plan.due # {}
  /\ trouble < MaxTrouble
  /\ trouble' = trouble + 1
  /\ plan' = [plan EXCEPT !.due = {}]
  /\ UNCHANGED <<upstream, content, state, ledger, pc, walk, batch, walked,
                 spurious, forgotten>>

\* Mutant: a failed retry is requeued as a first attempt.
RetriesDoneRestarts ==
  /\ pc = "retry"
  /\ plan.due = {}
  /\ archived' = archived \cup rows
  /\ fresh' = (fresh \ (rows \cup drains)) \cup rowsFresh
  /\ deleted' = (deleted \ rows) \cup (drains \cap archived)
  /\ forgotten' = (forgotten \ rows) \cup drains
  /\ Quarantine(fails, [i \in Items |-> 1], rows \cup drains)
  /\ rows' = {} /\ rowsFresh' = {} /\ fails' = {} /\ drains' = {}
  /\ pc' = "reverify"
  /\ UNCHANGED <<upstream, state, plan, walk, walked, bounds>>

\* One transaction: resolved ids leave the quarantine with their content,
\* failed ones are requeued, drained ones are soft-deleted and leave it too.
RetriesDone ==
  /\ pc = "retry"
  /\ plan.due = {}
  /\ archived' = archived \cup rows
  /\ fresh' = (fresh \ (rows \cup drains)) \cup rowsFresh
  /\ deleted' = (deleted \ rows) \cup (drains \cap archived)
  /\ forgotten' = (forgotten \ rows) \cup drains
  /\ Quarantine(fails, [i \in Items |-> tries[i] + 1], rows \cup drains)
  /\ rows' = {} /\ rowsFresh' = {} /\ fails' = {} /\ drains' = {}
  /\ pc' = "reverify"
  /\ UNCHANGED <<upstream, state, plan, walk, walked, bounds>>

ReverifyItem(i, answer) ==
  /\ pc = "reverify"
  /\ i \in plan.reverify \ walked
  /\ plan' = [plan EXCEPT !.reverify = @ \ {i}]
  /\ Charge(i, answer)
  /\ \/ /\ answer = "bundle"
        /\ Batch(i)
        /\ walked' = walked \cup {i}
        /\ UNCHANGED fails
     \/ /\ answer # "bundle"
        /\ fails' = fails \cup {i}
        /\ UNCHANGED <<content, forgotten, rows, rowsFresh, walked>>
  /\ UNCHANGED <<upstream, state, ledger, pc, walk, drains>>

\* Re-verify sheds first at the floor.
ShedReverify ==
  /\ pc = "reverify"
  /\ plan.reverify \ walked # {}
  /\ trouble < MaxTrouble
  /\ trouble' = trouble + 1
  /\ plan' = [plan EXCEPT !.reverify = {}]
  /\ UNCHANGED <<upstream, content, state, ledger, pc, walk, batch, walked,
                 spurious, forgotten>>

\* The last rows are a Page message of their own, before the requeued ids.
ReverifyPage ==
  /\ pc = "reverify"
  /\ plan.reverify \ walked = {}
  /\ rows # {}
  /\ ApplyRows(rows, rowsFresh)
  /\ forgotten' = forgotten \ rows
  /\ rows' = {} /\ rowsFresh' = {}
  /\ UNCHANGED <<upstream, state, ledger, pc, plan, walk, fails, drains, walked,
                 bounds>>

ReverifyDone ==
  /\ pc = "reverify"
  /\ plan.reverify \ walked = {}
  /\ rows = {}
  /\ Quarantine(fails, [i \in Items |-> 1], {})
  /\ Leave
  /\ UNCHANGED <<upstream, content, state, bounds, forgotten>>

-----------------------------------------------------------------------------
(* sync --pr: one item on demand, under the same run lock.  The floor does *)
(* not apply, and the demand consumes a retry attempt through backoff.     *)

Targeted(i, answer) ==
  /\ pc = "idle"
  /\ upd[i] > 0
  /\ i \in archived \ deleted \/ Exists(i)
  /\ Charge(i, answer)
  /\ LET attempts == IF i \in quar THEN tries[i] + 1 ELSE 1
     IN \/ /\ answer = "bundle"
           /\ ~Excluded(cfg, i)
           /\ ApplyRows({i}, {i})
           /\ forgotten' = forgotten \ {i}
           /\ Quarantine({}, [j \in Items |-> 0], {i})
        \/ /\ answer = "node_null" /\ attempts >= DrainAttempts
           /\ deleted' = deleted \cup ({i} \cap archived)
           /\ forgotten' = forgotten \cup {i}
           /\ fresh' = fresh \ {i}
           /\ Quarantine({}, [j \in Items |-> 0], {i})
           /\ UNCHANGED archived
        \/ /\ answer = "error" \/ (answer = "node_null" /\ attempts < DrainAttempts)
           /\ Quarantine({i}, [j \in Items |-> attempts], {})
           /\ UNCHANGED <<content, forgotten>>
  /\ UNCHANGED <<upstream, state, pc, plan, walk, batch, walked>>

-----------------------------------------------------------------------------
Outside ==
  \/ Tick
  \/ \E i \in Items : Touch(i) \/ Vanish(i)
  \/ \E c \in Configs : EditConfig(c)

Disturbance == RunKilled \/ Stopped \/ ShedRetries \/ ShedReverify

Walk ==
  \/ \E shown \in SUBSET Unsettled :
       SplitWindow(shown) \/ \E H \in SUBSET Items : Discover(shown, H)
  \/ \E i \in Items : Decline(i)
  \/ \E i \in Items, tail \in BOOLEAN :
       \E answer \in Answers(i) \cup Faults(i) : HydrateHit(i, answer, tail)
  \/ WindowDone

Maintenance ==
  \/ \E i \in Items : \E answer \in Answers(i) \cup Faults(i) :
       RetryItem(i, answer) \/ ReverifyItem(i, answer)
  \/ RetriesDone
  \/ ReverifyPage
  \/ ReverifyDone

StartRun ==
  \E full \in Forced, R \in SUBSET archived : Plan(full, R)

Demand ==
  \E i \in Items : \E answer \in Answers(i) \cup Faults(i) : Targeted(i, answer)

StreamNext == Outside \/ Disturbance \/ StartRun \/ Walk \/ Maintenance \/ Demand

StreamSpec == StreamInit /\ [][StreamNext]_streamVars

-----------------------------------------------------------------------------
(* What the walk must guarantee.                                           *)

Plans == [now : Nat, since : Nat, cold : BOOLEAN, intermediate : Configs,
          backfill : SUBSET Login, due : SUBSET Items,
          quarantined : SUBSET Items, reverify : SUBSET Items]

\* The shape of every variable.
StreamTypeOK ==
  /\ clock \in Nat /\ upd \in [Items -> Nat] /\ gone \in SUBSET Items
  /\ cfg \in Configs
  /\ archived \in SUBSET Items
  /\ fresh \in SUBSET archived /\ deleted \in SUBSET archived
  /\ hasState \in BOOLEAN /\ wm \in Nat /\ fp \in Configs
  /\ checked \in Nat /\ runsSince \in Nat
  /\ quar \in SUBSET Items
  /\ tries \in [Items -> Nat] /\ due \in [Items -> Nat]
  /\ pc \in {"idle", "discover", "hydrate", "retry", "reverify"}
  /\ plan \in Plans
  /\ source \in {"Backfill", "Full"}
  /\ from \in Nat /\ edges \in SUBSET Nat
  /\ hits \in SUBSET Items /\ hitUpd \in [Items -> Nat]
  /\ halt \in BOOLEAN /\ fold \in Nat
  /\ rows \in SUBSET Items /\ rowsFresh \in SUBSET rows
  /\ fails \in SUBSET Items /\ drains \in SUBSET Items
  /\ walked \in SUBSET Items
  /\ trouble \in Nat /\ spurious \in Nat
  /\ forgotten \in SUBSET Items

\* An item inside the lookback that the archive does not hold as it is
\* upstream, and that no quarantine row will resurface.
Missing(i) ==
  /\ Exists(i) /\ upd[i] >= LookbackStart
  /\ i \notin fresh \cup quar \cup forgotten

\* ... and that configuration c asks for: nothing licenses the archive to pass it.
Unlicensed(c, i) == Wants(c, i) /\ Missing(i)

\* The watermark never leads data: an item the stored inputs ask for, and that
\* the archive lacks or holds at an older content, is still at or past the
\* left edge the next incremental walk starts from, whatever was killed,
\* deferred or bumped in between.
WatermarkNeverLeadsData ==
  hasState => \A i \in Items : Unlicensed(fp, i) => upd[i] >= Minus(wm, Overlap)

\* The same between two runs, when the next plan reads the archive.
ResumesBehindData == pc = "idle" => WatermarkNeverLeadsData

\* last_checked_at is honest: what the archive misses of the stored inputs
\* changed after the start of the run that claims to have checked them (or too
\* shortly before for the index to show it).
CheckedMeansSeen ==
  \A i \in Items : Unlicensed(fp, i) => upd[i] + Lag >= checked

\* Only what is gone upstream is drained to deleted_at (sync.rs: "one null can be
\* replication lag; three spaced by backoff is a deletion").
DrainedIsGone == \A i \in forgotten : ~Exists(i)

\* The stored watermark never moves back, backfills and cold starts included.
WatermarkMonotone == [][wm' >= wm]_streamVars

\* An item leaves the quarantine with its content archived, or drained after
\* the attempts the drain asks for; its attempts never fall while it stays.
QuarantineLedger ==
  [][\A i \in quar :
       IF i \in quar' THEN tries'[i] >= tries[i]
       ELSE \/ i \in archived' \ deleted'
            \/ i \in forgotten' /\ tries[i] + 1 >= DrainAttempts]_streamVars

\* What a reader of the archive relies on, without the walk: nothing held is lost
\* but by a change or a drain, nothing leaves the quarantine unheld, and freshness
\* claims no more than that (sync.rs: "state never leads data").
Promise == INSTANCE StreamArchive
  WITH Inputs <- Configs, Asked <- [c \in Configs |-> {i \in Items : Wants(c, i)}],
       Horizon <- Lookback, now <- clock, changed <- upd, held <- fresh,
       listed <- quar, dropped <- forgotten, inputs <- fp, claim <- checked

KeepsThePromise == Promise!PromiseSpec

\* Syncs keep being run, a running sync keeps working, and time passes.  The
\* bounds on the clock and on trouble make updates and faults finite, so this
\* asks for convergence once GitHub is quiet and the runs go through.
FairStreamSpec ==
  /\ StreamSpec
  /\ WF_streamVars(Tick) /\ WF_streamVars(StartRun)
  /\ WF_streamVars(Walk \/ Maintenance)

\* The archive ends up holding everything the configuration asks for, under
\* its own fingerprint, except what waits in the quarantine.
Converges ==
  <>[](hasState /\ fp = cfg /\ \A i \in Items : ~Unlicensed(cfg, i))

\* A quarantined id whose backoff is over does not wait forever.
DueIsRetried ==
  \A i \in Items :
    (i \in quar /\ due[i] <= clock) ~> (i \notin quar \/ due[i] > clock)
=============================================================================
