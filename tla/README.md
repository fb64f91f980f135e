# ghgraph: models, checks and proofs

`ghgraph` keeps a local SQLite archive of the GitHub pull requests and issues a
person is involved in, and answers "what needs me?" from it without the network.
`ghgraph sync` is the only writer: it discovers what changed, hydrates each item
over the GraphQL API through the `gh` command, and commits in small transactions.
Everything else reads. The program's promise is about what the archive may claim:
it may be behind, it must never say it is complete when it is not, and it must
never read an answer it could not fetch as a deletion. This directory states
those promises in TLA+, checks them with TLC on small instances, and proves the
most important of them with TLAPS for all instances.

Line numbers below refer to `src/src/`.

## 1. The system

| Component | State it keeps | Operations | Interacts with |
|---|---|---|---|
| sync: plan (`sync.rs` 749-1217) | none; reads `sync_state`, `quarantine`, rows | compares the stored inputs ("fingerprint") with the configuration: cold start, backfill of new people, incremental; picks retries and re-verifications | archive, config |
| sync: one stream's walk (1382-1720) | window stack, hits, fold, batch | discovery terms, window splits, hydration, `Done` per window | `gh`, channel |
| sync: hydration and refresh (1720-1870, 2168-2870) | pages, baseline | full walk with witnesses; counted refresh of comments; skeleton walk of threads | `gh`, archive (read) |
| sync: quarantine and re-verify (1871-1966, 1068-1217) | `quarantine`, `verified_at` | retries with backoff, drain after repeated `node:null`, rolling re-verification | channel |
| sync: workers, channel, writer (600-643, 1227-1336, 2908-3192) | job list, floor flag, bounded channel, tallies, `runs_since_advance` | repositories in parallel, one transaction per message, the run's telemetry | all of sync |
| sync: bundle upserts (3239-4681) | `prs`, `issues`, `comments`, `review_threads`, `review_requests`, `refs`, `observations` | diff-gated upserts, witness-gated sweeps, the change log, linked issues | archive |
| sync: type backfill (4703-4818) | `comments.author_type` | chunks of untyped comments after the run | `gh`, archive |
| sync: targeted (4942-5158) | none | `sync --pr`: one item on demand | `gh`, archive |
| run lock (645-680) | a lock file | one sync process at a time | operating system |
| `gh` wrapper (`gh.rs`) | retry budget, rate telemetry | one subprocess per call, watchdog, reader threads, retry loop, failure classes | `gh` |
| archive (`db.rs`, `schema.sql`) | file modes, `user_version` | open, refuse, migrate, WAL | SQLite |
| attention judgments (`attention.rs`) | none | freshness of a review, effective review state, whose turn a thread is, bucket, untriaged | reports |
| references (`refs.rs`) | none | one scan of a body for `fixes #7`, `blocked by o/n#7`, `#7` | upserts |
| time (`time.rs`) | none | civil calendar, canonical text, checked subtraction | all |
| reports (`report.rs`) | none | `attention`, `prs`, `pr`, `search`, `query`, `stats` over one read snapshot | archive |
| MCP server (`bin/mcp.rs`) | protocol state, child processes | serves the verbs over stdio | the command line |
| config, identity, parse | none | validation, deserialization | all |

What is hard about it: GitHub changes while it is read, page by page; its search
index is late and capped; any hydration may fail, partly fail, or answer
`node:null` for what exists; a run may be killed between any two transactions,
stopped by the rate-limit floor, or edited around by the operator; a child `gh`
may hang, or die and leave a descendant on its pipes; two processes may migrate
one archive; the channel lets a worker read the archive while its own earlier bundles are still on their
way; two clocks meet in the freshness of a review; and `attention` must not hide
a demand, nor show a merge as ready that is not. `PROJECT.json` lists each of
these hazards at its line, with the properties that cover it or the reason none
does.

What makes each part correct:

- the walk: the watermark never passes data the archive lacks, freshness is not
  over-claimed, only what is gone is drained, and once GitHub is quiet the archive
  converges;
- hydration and upsert: a deletion is recorded only under a complete walk, a row
  that is not truncated misses nothing, a replay writes nothing;
- the pipeline: every repository ends accounted for, counters count runs, the
  floor holds, the run ends;
- a call: a body is believed exactly when it is whole, an exhausted limit is never
  hammered, retries are bounded, and the call returns whatever its child does, if what
  its descendants write has an end;
- the archive file: never between two schema versions, and nobody is refused for
  losing a race;
- the schedule: no open row is forgotten;
- time: the text order of stored instants is their order in time;
- the MCP server: one answer per request, under its id, and only whole documents;
- the rows attention reads: verdicts are current, requests and labels are
  forgotten only on proof, what the issue stream wrote does not go back, and the
  references are those the grammar defines;
- attention: `ready_to_merge` and "approved" never lie, demands are never hidden.

## 2. Modules

| Module | Models | State corresponds to |
|---|---|---|
| `StreamSync` | one repository's pull request stream, across runs | `sync_state` (`hasState wm fp checked runsSince`), `quarantine` (`quar tries due`), rows as sets (`archived fresh deleted`), the worker's locals (`pc plan source from edges hits fold rows fails drains walked`), GitHub (`clock upd gone`), the config file (`cfg`) |
| `StreamArchive` | what the archive of one stream promises, with no word on windows, runs or watermarks | `held listed dropped`, the `inputs` it was asked for, the `claim` |
| `MCStreamSync`, `StreamSync_proofs` | its instances; theorems about it, the refinement of `StreamArchive` among them | |
| `Discovery` | the pages of one window's discovery | `discover`'s locals (`term after pages counted hits complete`), the search (`updated masked`) |
| `Fetch_proofs` | theorems about `Discovery` and `Threads` | |
| `Reverify`, `Parts_proofs` | which rows a run re-verifies, run after run | `verified_at` (`earlier age`), `state` (`shut`), `quarantine` (`waiting`) |
| `MCReverify` | its starved instance | |
| `MCGhCall` | `GhCall` with a descendant that writes without end | |
| `PrArchive` | top-level comments of one pull request: full walk, counted refresh, upsert, sweep | the `prs` row's `truncated`/`verified_at`/`deleted_at`, its comments (`live dead`), bundles in the channel (`queue`), the hydration in progress (`mode base seen total more pages`) |
| `CommentArchive` | what an archive of comments promises, with no word on how they are fetched | |
| `PrArchive_proofs` | theorems about both | |
| `Threads` | review threads of one pull request: full walk, skeletons, bodies resolved from the archive | `comments` rows of kind review_comment (`rows`), `review_threads` (`threadRows`), `prRow`, `bundles`, the hydration in progress (`walk fetched todo paging baseline`) |
| `Pipeline`, `Pipeline_proofs` | worker threads, job list, floor, channel, writer, run after run | threads' locals (`worker`), `jobs`, `tripped`, `chan`/`open`, `tally`, `runs_since_advance` (`starved`), GitHub's points (`remaining`) |
| `GhCall`, `Calls_proofs` | one repository's calls of `gh` | the caller's place (`call`), `GhCtx` (`budget spawned`), the child (`plan life left`), its pipes and channels (`pipe chan held`), the watchdog's and the grace's clocks (`late over`) |
| `ArchiveOpen`, `Parts_proofs` | processes that open, migrate and read one archive, and take the run lock | the file (`file`: stamp and objects), SQLite's locks and snapshots, the lock file, each process's place (`at seen tx`) |
| `Mcp`, `Calls_proofs` | the MCP server, its threads and their children | the reader (`serving read`), a thread per call (`handler reply`), the CLI process (`child`), what was written (`answers`) |
| `Calendar`, `Parts_proofs` | timestamps | `Rfc3339Utc` (`now`), the last `checked_sub` (`cutoff`) |
| `Attention`, `Rows_proofs` | one pull request's reviews, requests, thread and head, and the bucket derived from them | GitHub's pull request (`pr`), the run's reading of its clock (`now`), its rows (`row`), as history what the last hydration met (`shown`) and when the archive first met the head (`met`) |
| `IssueRows`, `Rows_proofs` | one issue's row and its two writers | the issue (`issue`), bundles in flight (`sent`), the row (`arch`) |
| `Refs`, `Refs_proofs` | references found in a body | the body |
| `MCWalk` | `StreamSync` and `PrArchive` in one run; a behaviour is about one of them, the other stands still | |
| `MCRuns` | `StreamSync` and `Pipeline` in one run, likewise | |
| `MCRows` | `Attention` (twice, see 3), `IssueRows` and `Refs` in one run, likewise | |
| `MCParts` | `GhCall`, `Mcp`, `ArchiveOpen`, `Discovery`, `Threads`, `Reverify`, `Calendar` in one run, likewise | |

How they fit together. `Pipeline` takes a call of `gh` as one step that ends:
that is `GhCall`'s `CallEnds`, and `Mcp` assumes it of its children for the same
reason. `StreamSync` takes a window's discovery as one step: that is
`Discovery`'s `CompleteMissesNothing`. It lets any rows be re-verified:
`Reverify` says which are. It takes a hydration and its bundle as one outcome:
`PrArchive`, `Threads`, `Attention` and `IssueRows` are the inside of that
outcome, one kind of row each. `PrArchive!Heals` needs that full walks keep
coming to a row: that is `Reverify`'s `EveryRowComesUp`. All of them compare
times as texts: `Calendar` licenses it. And all take one sync process and a
current schema for granted: that is `ArchiveOpen`.

### StreamSync

One action per step of the code. `Plan` is `plan` and the opening of the first
window; `SplitWindow`, `Discover`, `Decline`, `HydrateHit`, `WindowDone` are
`walk_window` and the transaction its `Done` becomes; `RetryItem`, `RetriesDone`,
`ReverifyItem`, `ReverifyPage`, `ReverifyDone` are the maintenance; `Targeted` is
`sync --pr`; `RunKilled`, `Stopped`, `ShedRetries`, `ShedReverify` are a kill, the
floor or a repository failure, and maintenance cut short by the floor. `Tick`,
`Touch`, `Vanish` are GitHub and `EditConfig` the operator.

Abstractions: an item's content is whether the archived one equals GitHub's
(`fresh`). Sending a message and committing it are one step: the channel is FIFO,
the walk reads the archive only in `plan`, and a kill may fall between any two
messages. A window's discovery is one step, with the late index and the search
cap in it. Fetching a hydration and adding it to the batch are one step. A
quarantine record's backoff is counted from the clock of its transaction. One
process at a time (the run lock). `MaxSpurious` bounds how often GitHub answers
`node:null` for what exists.

`StreamArchive` is the abstract specification. Its one step of the program, `Lands`,
is a transaction: what is held stays held unless it is dropped, an id leaves the list
of what is to be tried again held, dropped or changed since the claim, and the claim
never says more than what is held, listed, dropped or newer. `StreamSync!Promise` is
the mapping: `held` is `fresh`, `listed` is `quar`, `dropped` is `forgotten`, `inputs`
is `fp` and `claim` is `checked`. A step of the walk that writes nothing stutters.

### Discovery and Reverify

`Discovery` pages each term through a search whose cursor is an offset. Between
two pages an item is updated (it moves to the front, or out of a window that has
an end), or leaves the results. `ReadPage` is the body of the loop: what is
collected, when a term ends, and whether it ended complete; a server whose pages
never end or whose cursor stands still is `BrokenPageArrives`.

`Reverify` keeps the order of `verified_at` as a set of pairs of rows (`earlier`):
rows of one transaction come behind all the others, by number among themselves
(`Behind`). `Selected` is `reverify_due`: a tier takes its first `TierCap` rows and
only then drops those that are not due or in quarantine; `ReverifyRun` is what one
run makes of them.

### PrArchive, CommentArchive, Threads

In `PrArchive` the pages are the steps: `StartWalk`, `WalkPage`, `WalkStops`,
`WalkEnds` and `StartTail`, `TailPage`, `TailVerdict`, `TailGivesUp`,
`TailAborted`, `TailDrifted`, with `Create` and `Delete` between any two of them,
and the writer's `Apply` as much as `Depth` bundles behind. Comments are numbered
in creation order; their texts and edits are left out. The other connections are
one flag, whether each earned its witness. A hydration that fails before its first
page is no step. A walk and its first document are one step.

`CommentArchive` is the abstract specification: a bundle lands in one step, made
from what existed at some earlier instant; it marks only what is gone as deleted,
and the row claims to be whole only if nothing is missing that existed when the
hydration began and still does. `PrArchive!KeepsTheArchive` is that every
behaviour of `PrArchive` is one of `CommentArchive` under the mapping `Mirror`:
`ever` is what was created, `whole` is "the row is live and not truncated".

`Threads` follows the edits `PrArchive` leaves out. A comment has texts, each with
the second it was written in; two may share a second. A full walk (`Hydrate`,
`Page`, `Finish`) fetches bodies; a skeleton walk takes the body of a comment
whose edit time equals the archived one from the archive, and `Resolve` fetches
the threads left over whole. A thread's comments have no second page, so a thread
longer than one withholds the witness. A body that was not fetched is 0, and
`Land` is the upsert and the witness-gated sweep of comments and threads.

### Pipeline and GhCall

In `Pipeline` workers and the writer are processes that step independently:
`Take`, `Call`, `Answer`, `GiveUp`, `Refused`, `Broken`, `Trip`, `Window`,
`Finish`, `Close`; `Receive`, `Record`, `LaneEnds`, `LaneTypes`, `WriterFails`;
`Start`, `Return`, `Kill`, `Spend`. A window here is a number of calls, a message
its kind and addressee. `Page` messages change nothing that is kept and are left
out. Follow-up pages are counted with their hydration. What a context knows of the
budget is whether the last answer put it below the floor. Ties of the plan's order
are arbitrary.

`GhCall` is one attempt after another: `Spawn`, the caller's polling loop (`Reap`,
`WatchdogDecides`, `KillAndReap`), the collection of each pipe within one grace
period (`Collect`, `CollectEnds`), the verdict and the retry (`Judge`, `WakeUp`).
Two threads drain the pipes into bounded channels (`Drain`), a third feeds stdin
(`Feed`). Output is counted in chunks; what a child means to say is a plan, and it
may exit before it said it, hang, or leave a descendant holding any of its pipes.

### ArchiveOpen

Per process: the gates on directory, link and mode, the read of `user_version`
outside any transaction, the migration as one deferred transaction (`Begin`,
`Upgrade` to a writer, `Batch`, `Alter` guarded by the live shape, `Stamp`,
`Commit`), the run lock, or a read-only open. SQLite is modelled by its promises:
a transaction is seen whole or not at all, one writer at a time, and a
transaction that read an older snapshot cannot write (`Busy`).

### Mcp

`ReadFrame` answers most kinds of frame at once and gives a `tools/call` a thread;
`HandlerSteps` spawns the verb, waits for it and turns its end into a response;
`Respond` is one write under the stdout lock, or the end of the process when the
client is gone. The end of stdin joins the threads.

### Attention, IssueRows, Refs, Calendar

`Attention` fuses a hydration with its transaction (`Sync`), because runs exclude
each other and the only thing of a run that outlives the fusion is its clock:
`now` is read once, by `Start`, by a clock that may be off (`Skews`), and `Sync` comes
to the pull request any time later; `MaxAge` bounds it for TLC only. A head may be
pushed back to an earlier one (`PushBack`), with the date it has. A hydration is
complete or has lost one connection. A comment of the thread has an opaque id, of no
order in time, and the report takes the greater id for the later of one second
(`Latest`). Left out: top-level comments (PrArchive), pending reviews, texts, links,
closed rows. Two verdicts of a person differ in their second. `Honest`, `Prompt` and
`Steady` are conditions of `ReadyNeverLies`, not of the model: that the head is not
dated ahead of its first push, that the run which first met it had read its clock less
than the margin before, and that it was not away and back since. The judgments (`Freshness`, `Effective`, `WaitingOnMe`,
`RepliedSince`, `Qualifies`, `Bucket`) are operators over the row, as
`attention.rs` has them.

`IssueRows` keeps the channel: each worker has at most one bundle in flight, in
order, and the two workers' bundles reach the writer in any order. Title, state
and body are a version number. An assignee is a label that is never masked.

`Refs` has the scan as a recursive function over the positions of a sequence of
tokens (`Scan`, `Extract`) and, beside it, the grammar of the module comment without
a scan (`RefsAt`): the targets that start at a position, and the keyword that stands
directly before it. The two are compared on what the grammar is clear about. `Whole`
leaves out a target that is the rest of a longer repository name, one that is the
number of another target (`#5/n#2`), and one whose owner begins with a hyphen or a
dot and has no keyword before it; `Misread` is the case in which the code differs,
see 5. No condition is asked of what the scan finds: all of it must be in the grammar.

`Calendar` has the arithmetic of `time.rs` on integers: `DaysFromCivil`,
`CivilFromDays`, `Parse`, `FormatEpoch`, `FromEpoch`, `CheckedSub`.

## 3. Runs

Every bound is a constant of the module and is named in its declaration. All runs
check deadlock, except those of `Attention`, `MCRows`, `MCParts` and `MCGhCall`: there
GitHub reaches its event bound, a body its length, a session its frames, a call its
number, and nothing more need happen.

| Run | Instance | Asks |
|---|---|---|
| `walk` | a stream: two items, a filter added and lifted, windows of one result (`Cap=1`, so windows split), one trouble of any kind, clock to 4. Comments: five of them, pages of two, two pages to a walk, no bundle in flight when a hydration starts, one fault, then quiet | `WatermarkNeverLeadsData`, `CheckedMeansSeen`, `KeepsThePromise` (refinement of `StreamArchive`); `NothingMissed`, `QuietIsExact`, `ReplayWritesNothing`, `KeepsTheArchive` (refinement), `Heals` (liveness) |
| `ledger` | one item that a filter may exclude, three attempts to the drain, three troubles, a deletion, `--full`, `--pr`, re-verify, then quiet | `DrainedIsGone`, `QuarantineLedger`; `Converges`, `DueIsRetried` (liveness) |
| `runs` | a stream: a person joins and leaves, a bot is excluded and let back in, an index two ticks late, windows that hold everything, no interruption. Threads: two repositories, two workers, a channel of one, budget and floor of two | `ResumesBehindData`, `WatermarkMonotone`; `TypeOK`, `EveryRepoAccounted`, `CountsRuns`, `FloorHolds`, `RunEnds` (liveness) |
| `rows` | see below | `ReadyNeverLies`, `ChangeRequestsStand`, `VerdictsAreCurrent`, `DemandsSurface`, `RequestsNeedAWitness`; `StreamRowsNeverRegress`, `ProvenTriage`, `MarksNeedAWitness`; `ScanMatchesGrammar` |
| `parts` | see below | `CallsAreSound`, `CallEnds`; `AnswersAreTrue`, `RequestsAreAnswered`; `NeverBetweenVersions`, `RefusalsAreEarned`; `CompleteMissesNothing`; `ThreadRowsAreTrue`, `QuietThreadsAreExact`; `EveryRowComesUp`, `PendingRowsAdvance`; `CalendarIsExact` |
| `people_killed` | a new person, one kill | `ResumesBehindData`: **violated**, see 5 |
| `one_null` | `ledger` with one `node:null` for what exists | `DrainedIsGone`: **violated**, see 5 |
| `baseline` | four comments, one bundle in flight, no fault | `QuietIsExact`: **violated**, see 5 |
| `attention_dates` | two other people, three events, no clock skew | `NoApprovalOverAChangeRequest`: **violated**, see 5 |
| `slow_run` | one other person, a push and a review, a margin of one and a run that takes two, no clock skew | `ApprovalsPostdateThePush`: **violated**, see 5 |
| `endless_descendant` | one call, whose child answers and leaves a descendant that writes for ever | `CallEnds`: **violated**, see 5 |
| `reverify_starved` | three rows, a tier of two, two rows no walk completes | `EveryRowComesUp`: **violated**, see 5 |

`walk` and `runs` bound the last changes of the two items taken together: 4
(`LastChanges`, in `runs`) or 3 (`EarlyChanges`, in `walk`) for a clock that stops at 4,
so one item may change at 3 if the other's last change was at 1, or has not come.
The workers of `runs` are alike, so of two at the top of their loop the first one takes
the next repository (`FirstGoesFirst`).

`rows`: a pull request of the viewer's whose heads and verdicts change (two heads, three
reviews, a ghost among two others, a margin of two and runs that take as long; beside one
comment, a draft or a block, at most one review), and one on which people talk (one head,
two reviews, two comments, a bot among two others, a request that comes and goes, no draft
and no block), three events on GitHub each; one issue, three changes and
four bundles; bodies of four tokens after any of eight beginnings.

`parts`: two calls of at most two attempts with one paid retry, pipes and channels
of one chunk, children that answer, are refused, reach the limit or die, and
descendants on none, one or all of the pipes that write one more chunk; sessions of three frames, of which
the first may start a verb that never ends; two processes, four opens and one kill
on archives absent, empty, of versions 3 to 6; four items in pages of two under a
search cap of three, three pages to a term, one update, one broken page, and any
number of departures; three comments of two threads, one edit, one trouble, a
thread page of one; three rows, a tier of two, one row no walk completes, one
setback; eleven instants at the turns of the calendar and seven spans.

Why the bounds are enough. The hazards of the walk are about two items on two
sides of an edge: a window's, the watermark's, the run's. Two items, a clock that
lets one be touched before, during and after a run while the other is, windows that split at two
results and one interruption reach each of them; a third item repeats the second.
The quarantine is per item, so one item with more attempts says more. Five
comments with pages of two, a tail of one and two pages of walk-back reach every
verdict of the counted refresh (anchored, fully observed, unbalanced, drifted, out
of pages). Two workers and two repositories let one worker trip the floor while
the other is in a call and a third repository's place is taken by a queued one; a
channel of one is the tightest there is. Three events are enough for what
`rows` asks: a review, a push and a second review, two pushes and a review, or a
review, a second one and a dismissal; two comments of a thread and one of them
minimized or deleted, a comment of each side, or a request, a comment and a withdrawal.
The runs in between are free. A head that is pushed away, reviewed and pushed back after
a first push takes four events; the theorems of `Attention` have no bound. A pipe and
a channel of one chunk make every blocking write possible with three chunks, and
two attempts with one paid retry separate "out of attempts" from "out of budget".
Two processes are what a race for a migration takes. Three pages of two under a
cap of three meet each way a term can end. A tier of two with three rows has one
row outside, with one outgrown row a place is left.

What they do not reach. Convergence of two items that compete for one run, an
index that is late while windows split (the theorems cover both for safety, under the
conditions section 6 names), and healing of a row whose baseline was stale (`Depth = 1`):
`ledger` has one item, `runs` no capped window, and `walk` has `Depth = 0` and no late
index.
Several updates within one discovery are beyond `parts`; the theorem covers any
number of them.

Every property of a passing run has a mutant: a definition of the model changed
the way a plausible bug in the code would (the fold takes hydration-time
`updatedAt`, a term's count is not compared, a collector waits for end of file, the
ALTER trusts the version that was read, a tier is read by number), which the run
must find violated. The mutants are the definitions whose comment begins with
"Mutant" or ends in "mutant".

## 4. Fairness

- `StreamSync!FairSpec`: time passes, `sync` is run again and again, and a running
  sync takes its steps. The first two are the operator's cron job, the third is a
  thread that is not blocked: every call ends (`GhCall`). Faults and updates are
  finite by their bounds, so `Converges` reads: once GitHub is quiet and runs go
  through.
- `PrArchive!FairSpec`: the writer drains its queue, a hydration goes on, and full
  walks keep being started, strongly fair since they wait for room in the channel.
  The last is the re-verify tier (`Reverify`).
- `Pipeline!Spec`: weak fairness of the threads taken together, nothing more: a
  process that can run does. No fairness is assumed of a single worker, of GitHub
  or of the operator.
- `GhFairness`: the caller's thread and each drain thread are scheduled, and
  deadlines pass. Nothing of the child, its descendants or the thread that feeds
  stdin: a call must end without them. `CallEnds` rests on one thing more, which is a
  constant and no fairness: the descendants' output is finite (`Endless = FALSE`).
- `McpFairness`: the reader and each handler are scheduled, a verb ends, except
  the `Hung` ones.
- `Reverify`: time passes and the operator keeps running syncs, weakly fair as one
  step. Setbacks (a run that sheds, a hydration that fails) are finite. In `parts`
  its fairness is guarded by `about`, since the steps would otherwise be enabled
  in behaviours of the other parts; `GhFairness` and `McpFairness` need no guard,
  as in their initial states none of their fair steps is enabled.

## 5. What the checks found

Seven runs end in a violation; each refutes a statement of the source.

- `people_killed`: a backfill for a new person moves the watermark over that
  person's items before the main walk has run. If the run dies between the two,
  the next main walk starts at the new watermark and skips older items of everyone
  else (`sync.rs` 1577, against 722-724 and 40). The next run to complete then also
  claims to have checked what it never fetched: `CheckedMeansSeen` fails likewise.
- `one_null`: the drain asks for three attempts, but the attempts counted are
  failures of every class; after two transient ones a single `node:null` soft-deletes
  an item that exists (`sync.rs` 1896 and 5075, against 283-286).
- `baseline`: a refresh reads its baseline from the archive while a bundle of the
  same pull request is still in the channel, and may license an untruncated row
  that keeps a deleted comment live (`sync.rs` 1818, against 2415-2420).
- `attention_dates`: a commit dated in the future makes a `CHANGES_REQUESTED` of
  that very head stale, and another's approval then makes the pull request
  "approved" (`attention.rs` 249, against 31-35).
- `slow_run`: a flip of the head is stamped with the time its run began (`sync.rs` 619
  and 3672), and nothing bounds how long a run takes. Once it takes the margin of five
  minutes, an approval of the old head, given after the start and before the push, reads
  as fresh and the pull request as ready to merge (against `attention.rs` 17-20 and
  24-26).
- `endless_descendant`: with no time left `recv_timeout` still returns a chunk that is
  there, so a descendant that keeps the channel from being empty keeps the collector
  reading past the grace (`gh.rs` 760-782, against 145-149).
- `reverify_starved`: a tier takes its 25 oldest rows before it asks which are due;
  rows no full walk can complete are never stamped and stay the oldest, and when
  there are as many of them as the tier has places, no other open row is verified
  again (`sync.rs` 1088-1107, against 1062-1067 and 99-102).

More were met and have no run of their own:

- A head pushed away and back between two hydrations logs no flip (`sync.rs`
  3663-3675), so an approval given to the other head in between reads as fresh
  (against `attention.rs` 216). `ApprovalsPostdateThePush` fails of it too, with four
  events and runs that take no time.
- `sync --full` under a filter tightened since the last run advances the watermark
  over declined items while it still stores the old inputs (`sync.rs` 1496-1502 and
  1571, against 699-700).
- An item that leaves a closed window's results between two pages pulls its
  neighbour under the offset cursor. It was counted on its page and the last
  page's count no longer includes it, so the count adds up. Deletion is not needed,
  an update that moves the item past the window's end is enough. `CompleteMissesNothing` excludes it by `slipped`; no
  comment in `sync.rs` names it.
- `schema.sql` 301-303 says an aborted run is disclosed by its
  `runs_since_advance` increment, but a killed run and a writer that fails leave
  neither a `sync_runs` row nor an increment.
- `refs.rs`: a bare mention whose owner begins with a keyword is read as the
  keyword (114-140). `fix-it/app#3` yields `it/app#3`, and `close/foo#1` yields
  nothing; the module comment's grammar makes both mentions. `Refs!Misread` names
  the case: `ScanMatchesGrammar` does not ask for such a mention, nor allow a
  reference that the grammar does not have.
- A repository that was never synced has no `sync_state` row, so it reads 0 runs of
  starvation (`sync.rs` 879) and nothing bounds how often it is deferred.
- `db.rs` reads `user_version` outside the migration's transaction, and migrations
  are not under the run lock; `NeverBetweenVersions` and `RefusalsAreEarned` hold
  all the same. A database of version 0 that another program made is taken for
  a new one.

## 6. Proofs

TLAPS checks every theorem to its leaves; all are listed in `PROJECT.json`.

**StreamSync.** `TypeCorrect`. `WatermarkNeverFalls`: from the type invariant and
the `max` in the window's transaction. `QuarantineKept`: needs `Apart`, that what
one message releases, requeues and drains are disjoint, since a drain of a requeued
id would lose its attempts. `OnlyTheGoneAreDrained`, for `MaxSpurious = 0`: needs
that ids on their way to a drain are gone already.

`PlansResumeBehindData` (`ResumesBehindData`), `FreshnessIsHonest`
(`CheckedMeansSeen`) and `DataBehindWatermark` (`WatermarkNeverLeadsData`) are the
central theorems. Each says what it assumes:

- `Widening`, all three. Either a term never has more results than the search serves
  (`Cap`), or restarts and `--full` only widen what the stored inputs ask for (with
  less, the first item of the second list above loses items) and
  `2 * Lag <= MinWindow` (a late item may otherwise fall into a window that was split
  and walked). The code's `MIN_WINDOW_SECS` and overlap are chosen so, and no code
  enforces it of the index.
- `JoinsGoThrough`, the first two. A run that found someone new in `people` reaches
  the end of its main walk. Finding `people_killed` is what happens otherwise; nothing
  is asked of runs that join no one, which may be killed, halted or deferred anywhere.
- `Steady`, the third. No one joins `people` at all: while a backfill runs the
  watermark does lead the data of the others, and only the plan of the next run would
  read it. That is why `PlansResumeBehindData` speaks of the time between runs.

They rest on one inductive invariant, `Sound`: `Dated` (nothing is dated after the
clock, closed windows are behind the index), `Claimed` (what freshness claims), `Held`
(unwritten rows are not older than written ones), `Licensed` (the run's configuration
against the inputs its windows store), `Ahead`, the heart (an item the archive lacks is
at or past the window's left edge, or among its hits, its batch or its failures, or in
a later window), and `Joined`, the same of a run that backfills: what the stored inputs
ask for is the main walk's business, past the point the plan took it to resume from;
what only the new people bring is ahead of the backfill. The properties alone are not
inductive because in the middle of a walk the stored watermark says nothing of the
window that is open.

`ImplementsStreamArchive` (`KeepsThePromise`) is the refinement, under `Widening` and
`JoinsGoThrough`: every step is a transaction that `StreamArchive` allows
(`RowsLand`), a step of GitHub or the clock, or changes nothing a reader sees
(`RowsStand`). Besides `Sound` it needs `Parted`, that nothing is both archived and
dropped as it is. The conditions are needed for the claim alone: freshness is part of
the promise.

**PrArchive.** `BalanceIsConfined` and `BalanceIsExact` are about the counted
refresh as a lemma of sets: if the archived ids and the new ones of the tail add
up to the count, the tail hides exactly as many deletions as it misses additions;
if it holds every addition, as an anchored tail in creation order does, the
archive holds nothing that is gone.
`DeletionIsReal` (`SweptIsGone`) and `NothingIsMissed` follow from `Safe`: what
was fetched was created (`Old`), a walk skips nothing from the start and a tail
nothing from the end (`Walking`, `Tailing`), a witness is worth as much when it
is applied as when it was given (`Handed`), and the archive of a row that has a
tail path is an initial part of what exists (`Segment`). They hold for every
`Depth`. `QuietExact` needs `Depth = 0`; finding `baseline` is what happens
otherwise. `ReplayIsSilent` (`ReplayWritesNothing`) needs `Calm`, that an undisturbed
walk ends with all there is and an undisturbed tail holds no more than that.
`ImplementsCommentArchive` is the refinement: under `Safe` every step of `PrArchive`
is a step of `CommentArchive` or stutters (`StepRefines`), again for every `Depth`.

**Discovery** (`Fetch_proofs`). `DiscoveryIsComplete` (`CompleteMissesNothing`), for
any terms, page size, search cap, page limit, masked items and updates. A search
result's place is the number of results before it, so an offset cursor has passed
the items of lower places. An update moves one item to the front and never lets
another's place shrink (`OneLeads`); a departure shrinks places by at most one and is
what `slipped` records (`OneLeaves`). Hence `Counted`: what the pages of a term
counted is never more than the results at places the cursor has passed that are
collected, masked or updated since the discovery began (`Sighted`). If the sum
reaches the count of the last page, every result is one of those (`TermIsWhole`), and
`Finished` carries that from term to term. A page shows no more items than it has
places, because no two results share one: eight lemmas about ranks in finite sets.

**Threads** (`Fetch_proofs`). `ThreadsTyped`, `ThreadRowsTrue`, `QuietThreadsExact`,
for any threads, page sizes, edits, lag and failures. `Honest`: whatever carries a
text (a row, a baseline, a fetched thread, a bundle) carries it under its own edit
time, so a body taken from the archive under an equal edit time is a body of that
time. `Reached`: the walk passes over nothing that is live now or will be once the
bundles before it are applied. `Licensed`: a complete bundle, when its turn comes,
finds nothing live that it does not hold and that still exists; it follows from
`Reached` when the bundle is made, and survives because GitHub never brings back a
deleted comment and the queue is first in, first out. `Still` says the same of
hydrations that nothing disturbed, with equality.

**Pipeline** (`Pipeline_proofs`). `TypeCorrect`, `FloorNeverCrossed` (`FloorHolds`),
`NoRepoLost` (`EveryRepoAccounted`), `StarvationCountsRuns` (`CountsRuns`), for any
number of repositories, workers, windows and calls, any channel, budget and floor.
While a run is open, `RunInvariant` contains `Accounting`: messages of one
repository keep their order and its statistics come last, on the channel and in the
worker that has still to send them (`Lines`); the writer's tally allows each message
that is pending (`Tallies`); a repository is a queued job, or walked by one worker, or
settled, and never two of these (`Places`, `Outcomes`); a message is about a stream
that is configured (`Addressed`); and a walk that reached a stage completed the
streams before it or disclosed why not (`Progress`). The properties alone are not
inductive: when the channel closes they speak of messages sent long before.

**GhCall** (`Calls_proofs`). `GhTypeCorrect`, `CallsStaySound`. The invariant adds to
the property what makes it inductive: between a child and the collector nothing is
lost, and nothing added but what descendants write (`Conserved`); a pipe the
collector left is empty (`Emptied`); each child was paid for by its call or by the
budget (`Paid`). For any plans, capacities, attempts and budget.

**Mcp** (`Calls_proofs`). `EveryAnswerIsTrue` (`AnswersAreTrue`), for any session and
any verbs that never end. `Staged` says what a frame's thread holds at each stage, and
that it has answered only at the last; `Truthful`, that a reply that is ready is the
one its verb's end calls for.

**ArchiveOpen** (`Parts_proofs`). `OpenTypeCorrect`, `ArchivesAreWhole`, `RefusalsEarned`, for any
number of processes, opens and kills. `Migrating` is what a process that came so
far knows: the batch and the guarded ALTER bring each known shape to the current
one whichever version was read before, so the stale read of `user_version` is
harmless.

**Calendar** (`Parts_proofs`). `CivilRoundTrip`, `DatesAreOrdered`, `TextRoundTrip`, `OrderIsTime`
and `BandIsExact` for every integer; `AlwaysExact` for every clock and span. The
argument splits a day number into era, year of the era and day of a year that
begins in March (`IsDay`), and shows that the code's quotients undo that split.

**Reverify** (`Parts_proofs`). `ReverifyTyped`: stamping rows in one transaction
leaves a strict and total order of `verified_at` and number. `OverdueRowsAdvance`
(`PendingRowsAdvance`), for any rows, tier, periods and jitter: an overdue open row is
overtaken by none, and a run that neither sheds nor fails verifies it or some row
before it, unless every place of the open tier is taken by rows the walk cannot verify
or the quarantine holds. It needs `AgesFollow`, that the order of the tier is the order
of ages: what stands before an overdue row is overdue too, hence due whatever its
jitter (`OverripeIsDue`), hence verified if the tier reaches it. A row has finitely
many before it, so whole runs bring it up in the end; that last step, and that they
keep coming, is `EveryRowComesUp` and TLC's. The exception is the finding
`reverify_starved`.

**Refs** (`Refs_proofs`). `ScanIsTheGrammar` (`ScanMatchesGrammar`), for texts of every
length. The helpers of the scan are first shown to find what the grammar says
(`NumberAtIs`, `TargetAtIs`, `BindTargetIs`, `SecondWordIs`, `BoundIs`); then that the
recursive scan exists and unfolds (`ScanExists`, `ScanIs`), by descent from the end of
the text (`Downward`, from the least-element principle, since induction over an
operator is out of reach). Nothing false is found because of `Clean`: at a position the
scan stops at, no target is ahead that a keyword already passed binds, so a mention
found there has no keyword before it. Nothing is missed because what the scan passes
over contains no phrase (`NoPhraseSkipped`: inside a target no keyword is followed by a
separator) and no whole mention (`NoMentionSkipped`).

**IssueRows** (`Rows_proofs`). `IssueTypeCorrect`, `StreamRowsStand`,
`TriageIsProven`, `MarksAreWitnessed`. The second needs that bundles of the issue's
own worker reach the writer in the order they were fetched and a sighting cannot take
a stream row over: `InOrder` says every bundle and the row are at most as new as the
issue, and the own worker's bundle at least as new as a row the stream owns.

**Attention** (`Rows_proofs`). `AttentionTyped`, `VerdictRowsAreCurrent`,
`ChangeRequestsAreKept`, `RequestsAreWitnessed`, `ReadyBucketNeverLies`,
`EveryDemandSurfaces`: all judgments the run `rows` checks, for any people,
reviews, pushes back and forth, clocks, skews and runs however long: no assumption is
made of them. `Reviewed` says that a review is no older than the first push of the
commit it saw, and that one of another head was given before the last push; `Mirrors`
ties the row to the pull request as the last hydration met it, equal where the row is
not truncated; `Logged` counts flips against pushes. `Dated` is what the two clocks
prove under the conditions of `ReadyNeverLies`: a verdict older than an honest date did
not see the head, and one a margin past a flip that was stamped less than the margin
before the head was met is younger than the last push of a head that has stood since.
`EveryDemandSurfaces` needs that the report's order has a last comment (`LatestIsLast`,
from the least-element principle).

`RowsTyped` and `PartsTyped` (`RowsTypeOK`, `PartsTypeOK`) put the types of the parts
of the runs `rows` and `parts` together: whichever part a behaviour is about, the others
stand still. Like the type invariants of `StreamSync` and `PrArchive` they are proved
for every instance and cost no run.

So every invariant and every action property of a passing run is a theorem, and so are
both refinements. Left to TLC are the liveness properties (`Converges`, `DueIsRetried`,
`Heals`, `RunEnds`, `CallEnds`, `RequestsAreAnswered`, `EveryRowComesUp`), since fairness
needs `ENABLED`; for `EveryRowComesUp` the step is proved and only the fairness is not.
The violations are TLC's counterexamples. Not proved is the mapping from
`Discovery` to the one step `StreamSync` makes of it: `CompleteMissesNothing` says what
that step assumes, the composition is by reading.

Known limits of what is shown. A comment deleted and another created between two
pages of a walk-back keep the count and leave the deleted one live: `QuietIsExact`
is about undisturbed hydrations, as `QuietThreadsAreExact` is. `Heals` asks nothing
of a pull request with more comments than a walk has pages for, and `EveryRowComesUp`
nothing of a row whose own thread has outgrown the walk. Two edits of a review
comment in one second may leave the older text: the edit time is all the skeleton
walk compares, and `QuietThreadsAreExact` says so. `ReadyNeverLies` asks nothing of approvals
if the run that met the head was slow, as in `slow_run`, or the head was away and
back (section 5). `DemandsSurface` asks nothing of a thread whose two sides spoke
last in one second. `CallEnds` is about descendants whose output ends.

## 7. Not modelled

- `config.rs`, `identity.rs`: validation of strings, without state. Their outcome
  is `StreamSync`'s `Configs`.
- `parse.rs`: deserialization. That a document may not parse is an outcome of every
  hydration (`drift`), and the shape of a page is `Discovery`'s and `Threads`'.
- `main.rs`, `error.rs`, `help_lint.rs`: arguments, exit codes, layout.
- `report.rs` but for the signals of one `attention` row: read-only queries over
  one snapshot. Full-text search is SQLite's.
- The issue stream's search terms; scalar columns, observations and file lists of
  a bundle; which actor the type backfill gives which type.
- Telemetry counters, the length of pauses, log lines.

## 8. Plan

The walk, the upserts, the pipeline and attention came first because the archive's
promises rest on them; then the parts they take for granted. Done: every module of
section 2. Left, in this order:

1. `Discovery` with an index that is late, and closed windows that drift, as a
   refinement of `StreamSync!Discover`.
2. `Reverify` composed with the walk that verifies rows in the same run, and the
   issue tiers.
3. The linked issues' own discovery terms, and observations as a log that only
   grows.
