------------------------------ MODULE Pipeline ------------------------------
(* One `ghgraph sync` after another, seen from its threads: the workers that *)
(* take repositories from a shared job list and walk them call by call, the  *)
(* bounded channel, and the writer thread that applies what they send        *)
(* (src/src/sync.rs run, worker, sync_repo, writer).  Between them: the      *)
(* rate-limit floor, GitHub's point budget, which other clients of the token *)
(* also spend, the retry loop around each gh call (src/src/gh.rs) and the    *)
(* starvation counters that order the next run.                              *)
(*                                                                           *)
(* What a window holds is StreamSync's subject; here a window is a number of *)
(* calls that may each fail, and a message is its kind and its addressee.    *)
EXTENDS Integers, Sequences, FiniteSets, SequencesExt

CONSTANTS
  Repos, Workers,
  Projects,      \* the repositories whose issue stream the config may turn on
  ChanCap,       \* sync_channel(16)
  Budget, Floor, \* GitHub's points per hour; rate_limit_floor
  MaxCalls,      \* bound: calls a worker starts in one stage of a repository
  MaxStarved,    \* bound: runs_since_advance saturates here
  MaxUntyped     \* bound: comments the type lane has to do

ASSUME PipelineAssumption ==
  /\ IsFiniteSet(Repos) /\ IsFiniteSet(Workers) /\ Workers # {}
  /\ Projects \subseteq Repos
  /\ ChanCap \in Nat \ {0}
  /\ Budget \in Nat /\ Floor \in 0..Budget
  /\ MaxUntyped \in Nat
  /\ {MaxCalls, MaxStarved} \subseteq Nat \ {0}

Streams == {"pr", "issue"}
Keys == Repos \X Streams

VARIABLES
  synced,    \* the keys with a sync_state row
  starved,   \* runs_since_advance of each key
  issues,    \* the repositories whose config runs the issue stream, in a run
  running,
  jobs,      \* what is left of the job list
  tripped,   \* the run-wide floor flag
  remaining, \* the points GitHub has left for this token
  worker,    \* the local state of each worker thread
  chan, open, \* the channel, and whether its receiver is still there
  writer,    \* "off", "recv", "lane", "ok" or "failed"
  tally,     \* what the writer has applied for each repository
  lane,      \* the tightest budget any context reported is below the floor
  untyped,   \* comments whose author_type is NULL
  begun      \* starved as the run found it (history)
vars == <<synced, starved, issues, running, jobs, tripped, remaining, worker,
          chan, open, writer, tally, lane, untyped, begun>>

archive == <<synced, starved, begun>>
receiving == <<open, writer, tally, lane, untyped>>

-----------------------------------------------------------------------------
(* Plans.                                                                    *)
Larger(m, n) == IF m >= n THEN m ELSE n
Smaller(m, n) == IF m <= n THEN m ELSE n

Configured(r) == IF r \in issues THEN Streams ELSE {"pr"}

(* The most starved of a repository's rows; a repository without rows reads 0. *)
Starvation(r) ==
  LET counts == {starved[k] : k \in {s \in synced : s[1] = r}} \cup {0}
  IN CHOOSE n \in counts : \A m \in counts : n >= m

(* Starved first; ties fall to size and name, which are not modelled. *)
Orders ==
  {p \in [1..Cardinality(Repos) -> Repos] :
     \A i, j \in DOMAIN p : i < j =>
       p[i] # p[j] /\ Starvation(p[i]) >= Starvation(p[j])}

-----------------------------------------------------------------------------
(* Messages and tallies.                                                     *)
(* A Page of rows changes nothing of what is kept here and is left out.      *)
Done(r, s, completes, halt) ==
  [kind |-> "done", repo |-> r, stream |-> s, completes |-> completes, halt |-> halt]
Retries(r)  == [kind |-> "retries", repo |-> r]
Deferred(r, s) == [kind |-> "deferred", repo |-> r, stream |-> s]
Failed(r, ss) == [kind |-> "failed", repo |-> r, streams |-> ss]
Stats(r, b) == [kind |-> "stats", repo |-> r, below |-> b]

(* PR first, as the walk; every configured stream was denied the run. *)
DeferralsOfOneStream(r) == <<Deferred(r, "pr")>>   \* mutant of Deferrals
Deferrals(r) ==
  IF r \in issues THEN <<Deferred(r, "pr"), Deferred(r, "issue")>>
  ELSE <<Deferred(r, "pr")>>

NoTally == [done |-> {}, deferred |-> {}, failed |-> FALSE, halted |-> FALSE,
            stats |-> 0, late |-> FALSE]

-----------------------------------------------------------------------------
(* Workers.  pc is "free" at the top of the loop, "walk" inside sync_repo,   *)
(* "skip" while a repository taken after the trip is deferred whole, "end"   *)
(* while the closing messages go out, "gone" after return.  ask is the gh    *)
(* call in flight: a discovery page, the first document of a hydration (its  *)
(* follow-up pages, gated one by one, are counted with it), or the full walk *)
(* that an escalated refresh restarts with.                                  *)
Idle == [pc |-> "free", repo |-> CHOOSE r \in Repos : TRUE, stage |-> "maint",
         ask |-> "none", calls |-> 0, found |-> FALSE, halted |-> FALSE,
         below |-> FALSE, over |-> 0, outbox |-> <<>>]
Gone == [Idle EXCEPT !.pc = "gone"]

GateReadsOnlyTheFlag(k) == ~tripped   \* mutant of GateOpen
GateOpen(k) == ~tripped /\ ~worker[k].below

(* People may have joined since the stored fingerprint; they never shape the *)
(* project scope, which alone runs issues.                                   *)
FirstStages(r) ==
  IF <<r, "pr">> \in synced /\ r \notin issues THEN {"backfill", "pr"} ELSE {"pr"}

StreamOf(stage) == IF stage = "issue" THEN "issue" ELSE "pr"

Following(r, stage) ==
  CASE stage = "backfill" -> "pr"
    [] stage = "pr" /\ r \in issues -> "issue"
    [] OTHER -> "maint"

(* The worker leaves its repository, with these messages still to send. *)
Ends(w, messages) ==
  [Idle EXCEPT !.pc = "end", !.outbox = Append(messages, Stats(w.repo, w.below))]

Keeps(k, w) == worker' = [worker EXCEPT ![k] = w]

(* Inside sync_repo with no call in flight. *)
Walking(k) == worker[k].pc = "walk" /\ worker[k].ask = "none"

(* worker(): the next repository, or the end of the thread.  A repository    *)
(* taken after the floor tripped is deferred without a call.                 *)
Take(k) ==
  /\ running /\ worker[k].pc = "free"
  /\ IF jobs = <<>>
     THEN Keeps(k, Gone) /\ UNCHANGED jobs
     ELSE /\ jobs' = Tail(jobs)
          /\ LET r == Head(jobs) IN
             IF tripped
             THEN Keeps(k, [Idle EXCEPT !.pc = "skip", !.repo = r,
                              !.outbox = Append(Deferrals(r), Stats(r, FALSE))])
             ELSE \E stage \in FirstStages(r) :
                    Keeps(k, [Idle EXCEPT !.pc = "walk", !.repo = r, !.stage = stage])
  /\ UNCHANGED <<archive, issues, running, tripped, remaining, chan, receiving>>

(* The floor stops the repository and, through the flag, the run. *)
FloorStops(k, w) ==
  /\ tripped' = TRUE
  /\ Keeps(k, Ends(w, Deferrals(w.repo)))

RepoStops(k, w) ==
  /\ Keeps(k, Ends(w, <<Failed(w.repo, Configured(w.repo))>>))
  /\ UNCHANGED tripped

(* A gated call begins: a discovery page until the window is known, then     *)
(* hydrations; maintenance hydrates only.                                    *)
Call(k) ==
  LET w == worker[k] IN
  /\ Walking(k) /\ GateOpen(k) /\ w.calls < MaxCalls
  /\ Keeps(k, [w EXCEPT
       !.ask = IF w.stage = "maint" \/ w.found THEN "hydrate" ELSE "discovery",
       !.calls = w.calls + 1])
  /\ UNCHANGED <<archive, issues, running, jobs, tripped, remaining, chan, receiving>>

(* The gate is shut: a walk stops the run, maintenance merely sheds.         *)
Trip(k) ==
  /\ Walking(k) /\ ~GateOpen(k) /\ worker[k].stage # "maint"
  /\ worker[k].calls < MaxCalls
  /\ FloorStops(k, worker[k])
  /\ UNCHANGED <<archive, issues, running, jobs, remaining, chan, receiving>>

(* What may follow a successful answer.  A discovery page is the last of its *)
(* window or not; a refresh may escalate to the full walk, which no gate     *)
(* precedes.                                                                 *)
Continues(w) ==
  LET back == [w EXCEPT !.ask = "none"] IN
  IF w.ask = "discovery"
  THEN {[back EXCEPT !.found = f] : f \in {TRUE, w.calls = MaxCalls}}
  ELSE {back} \cup (IF w.ask = "hydrate" /\ w.stage # "maint"
                        THEN {[w EXCEPT !.ask = "escalated"]} ELSE {})

(* The data arrives, with the budget or without it; below is what the last   *)
(* metered answer told this context, and over counts the gated calls that    *)
(* told it so.                                                               *)
Told(w, n) ==
  [w EXCEPT !.below = n < Floor,
            !.over = IF n < Floor /\ w.ask # "escalated" THEN @ + 1 ELSE @]

Answer(k) ==
  /\ worker[k].ask # "none" /\ remaining > 0
  /\ remaining' = remaining - 1
  /\ \E w \in {worker[k], Told(worker[k], remaining')} :
       \E next \in Continues(w) : Keeps(k, next)
  /\ UNCHANGED <<archive, issues, running, jobs, tripped, chan, receiving>>

(* Every attempt of the call failed, or its answer does not parse: a         *)
(* hydration goes to quarantine, a discovery fails the repository.  The      *)
(* attempts are the call's own: no gate is asked between them.               *)
GiveUp(k) ==
  /\ worker[k].ask # "none"
  /\ IF worker[k].ask = "discovery"
     THEN RepoStops(k, worker[k])
     ELSE Keeps(k, [worker[k] EXCEPT !.ask = "none"]) /\ UNCHANGED tripped
  /\ UNCHANGED <<archive, issues, running, jobs, remaining, chan, receiving>>

(* RateExhausted, never retried: the floor's stop, from maintenance too. *)
Refused(k) ==
  /\ worker[k].ask # "none" /\ remaining = 0
  /\ FloorStops(k, worker[k])
  /\ UNCHANGED <<archive, issues, running, jobs, remaining, chan, receiving>>

(* A failure no retry helps: bad credentials, a renamed repository. *)
Broken(k) ==
  /\ worker[k].ask # "none"
  /\ RepoStops(k, worker[k])
  /\ UNCHANGED <<archive, issues, running, jobs, remaining, chan, receiving>>

(* SyncSender::send blocks while the channel is full; without a receiver it  *)
(* fails, and the failure is the thread's cancellation.                      *)
SendsUnbounded(k, m, w) ==   \* mutant of Sends
  IF open
  THEN chan' = Append(chan, m) /\ Keeps(k, w)
  ELSE Keeps(k, Gone) /\ UNCHANGED chan

Sends(k, m, w) ==
  IF open
  THEN Len(chan) < ChanCap /\ chan' = Append(chan, m) /\ Keeps(k, w)
  ELSE Keeps(k, Gone) /\ UNCHANGED chan

(* A window is exhausted.  It is an earlier one, the stream's last, or one   *)
(* that overflows the search and cannot be split: that one halts its stream, *)
(* not the other, and takes maintenance away.  A halted backfill ends the    *)
(* repository.                                                               *)
Window(k) ==
  LET w == worker[k]
      next == Following(w.repo, w.stage)
      ends(halt) == \/ halt /\ w.stage = "backfill"
                    \/ next = "maint" /\ (halt \/ w.halted)
  IN
  /\ Walking(k) /\ w.found
  /\ \/ /\ w.calls < MaxCalls
        /\ Sends(k, Done(w.repo, StreamOf(w.stage), FALSE, FALSE),
                 [w EXCEPT !.found = FALSE])
     \/ \E halt \in BOOLEAN :
          Sends(k, Done(w.repo, StreamOf(w.stage), w.stage # "backfill" /\ ~halt, halt),
                IF ends(halt) THEN Ends(w, <<>>)
                ELSE [w EXCEPT !.stage = next, !.calls = 0, !.found = FALSE,
                               !.halted = w.halted \/ halt])
  /\ UNCHANGED <<archive, issues, running, jobs, tripped, remaining, receiving>>

(* Maintenance is over or shed: its outcomes, then the closing Stats. *)
Finish(k) ==
  /\ Walking(k) /\ worker[k].stage = "maint"
  /\ \E last \in {<<>>, <<Retries(worker[k].repo)>>} : Keeps(k, Ends(worker[k], last))
  /\ UNCHANGED <<archive, issues, running, jobs, tripped, remaining, chan, receiving>>

(* The closing messages.  A walked repository does not look at what became   *)
(* of its Stats: without a writer it takes the next job all the same.        *)
Close(k) ==
  LET w == worker[k] IN
  /\ w.outbox # <<>>
  /\ IF ~open /\ w.pc = "end" /\ Head(w.outbox).kind = "stats"
     THEN Keeps(k, Idle) /\ UNCHANGED chan
     ELSE Sends(k, Head(w.outbox),
                IF Len(w.outbox) = 1 THEN Idle ELSE [w EXCEPT !.outbox = Tail(@)])
  /\ UNCHANGED <<archive, issues, running, jobs, tripped, remaining, receiving>>

WorkerStep(k) ==
  \/ Take(k) \/ Call(k) \/ Trip(k) \/ Answer(k) \/ GiveUp(k)
  \/ Refused(k) \/ Broken(k) \/ Window(k) \/ Finish(k) \/ Close(k)

-----------------------------------------------------------------------------
(* The writer.                                                               *)

(* Starvation bookkeeping: only a row that exists is incremented. *)
Bumped(ks) ==
  [k \in Keys |-> IF k \in ks \cap synced THEN Smaller(starved[k] + 1, MaxStarved)
                  ELSE starved[k]]

BumpDeferred(m) == Bumped({<<m.repo, m.stream>>})
BumpFailedEveryRow(m) == Bumped({<<m.repo, s>> : s \in Streams})   \* mutant
BumpFailed(m) == Bumped({<<m.repo, s>> : s \in m.streams})

(* A window's rows, quarantine records and advance commit together: the row  *)
(* appears with the first window, and the last one ends the starvation.      *)
ApplyDone(m, t) ==
  /\ synced' = synced \cup {<<m.repo, m.stream>>}
  /\ starved' = IF m.completes THEN [starved EXCEPT ![<<m.repo, m.stream>>] = 0]
                ELSE starved
  /\ tally' = [tally EXCEPT ![m.repo] =
       [t EXCEPT !.done = IF m.completes THEN @ \cup {m.stream} ELSE @,
                 !.halted = @ \/ m.halt, !.late = @ \/ t.stats > 0]]

Apply(m) ==
  LET t == tally[m.repo] IN
  \/ /\ m.kind = "retries"
     /\ tally' = [tally EXCEPT ![m.repo].late = @ \/ t.stats > 0]
     /\ UNCHANGED <<synced, starved>>
  \/ m.kind = "done" /\ ApplyDone(m, t)
  \/ /\ m.kind = "deferred"
     /\ starved' = BumpDeferred(m)
     /\ tally' = [tally EXCEPT ![m.repo].deferred = @ \cup {m.stream}]
     /\ UNCHANGED synced
  \/ /\ m.kind = "failed"
     /\ starved' = BumpFailed(m)
     /\ tally' = [tally EXCEPT ![m.repo].failed = TRUE]
     /\ UNCHANGED synced
  \/ /\ m.kind = "stats"
     /\ tally' = [tally EXCEPT ![m.repo].stats = @ + 1]
     /\ lane' = (lane \/ m.below)
     /\ UNCHANGED <<synced, starved>>

Receive ==
  /\ writer = "recv" /\ chan # <<>>
  /\ Apply(Head(chan))
  /\ Head(chan).kind # "stats" => UNCHANGED lane
  /\ chan' = Tail(chan)
  /\ UNCHANGED <<issues, running, jobs, tripped, remaining, worker, open, writer,
                 untyped, begun>>

(* The recv loop ends when every Sender is dropped, and only then. *)
SendersWithTheOriginal == Workers   \* mutant of Senders: run() keeps its own tx
Senders == {k \in Workers : worker[k].pc # "gone"}

(* record_run and the summary; the lane finds what the archive left untyped. *)
Record ==
  /\ writer = "recv" /\ chan = <<>> /\ Senders = {}
  /\ writer' = "lane" /\ open' = FALSE
  /\ untyped' \in 0..MaxUntyped
  /\ UNCHANGED <<archive, issues, running, jobs, tripped, remaining, worker, chan,
                 tally, lane>>

(* type_backfill: chunk after chunk, until the floor, the end, a failure, or *)
(* a chunk that wrote no row.                                                *)
LaneEnds ==
  /\ writer = "lane"
  /\ writer' = "ok"
  /\ UNCHANGED <<archive, issues, running, jobs, tripped, remaining, worker, chan,
                 open, tally, lane, untyped>>

LaneTypes ==
  /\ writer = "lane" /\ ~lane /\ untyped > 0 /\ remaining > 0
  /\ remaining' = remaining - 1
  /\ \E wrote \in 0..untyped :
       /\ untyped' = untyped - wrote
       /\ writer' = IF wrote = 0 THEN "ok" ELSE "lane"
  /\ lane' \in {lane, remaining' < Floor}
  /\ UNCHANGED <<archive, issues, running, jobs, tripped, worker, chan, open, tally>>

(* An error of SQLite's, in any message or in the lane, ends run(): the      *)
(* receiver drops with what is queued, and the tallies with it.              *)
WriterFails ==
  /\ (writer = "recv" /\ chan # <<>>) \/ writer = "lane"
  /\ writer' = "failed" /\ open' = FALSE /\ chan' = <<>>
  /\ tally' = [r \in Repos |-> NoTally] /\ lane' = FALSE /\ untyped' = 0
  /\ begun' = starved
  /\ UNCHANGED <<synced, starved, issues, running, jobs, tripped, remaining, worker>>

WriterStep == Receive \/ Record \/ LaneEnds \/ LaneTypes \/ WriterFails

-----------------------------------------------------------------------------
(* Runs, kills and the world.                                                *)
Reaped ==
  /\ running' = FALSE /\ writer' = "off" /\ open' = FALSE
  /\ chan' = <<>> /\ jobs' = <<>> /\ tripped' = FALSE /\ lane' = FALSE
  /\ worker' = [k \in Workers |-> Gone] /\ tally' = [r \in Repos |-> NoTally]
  /\ begun' = starved /\ remaining' = Budget /\ untyped' = 0 /\ issues' = {}
  /\ UNCHANGED <<synced, starved>>

(* run(): the plan is read, the threads start.  Since the last run the       *)
(* operator may have edited the config, and the budget is what the hour and  *)
(* the other clients have made of it.                                        *)
Start ==
  /\ ~running
  /\ running' = TRUE /\ writer' = "recv" /\ open' = TRUE
  /\ issues' \in SUBSET Projects
  /\ jobs' \in Orders
  /\ remaining' \in 0..Budget
  /\ worker' = [k \in Workers |-> Idle]
  /\ UNCHANGED <<archive, tripped, chan, tally, lane, untyped>>

(* The scope has joined its threads. *)
Return ==
  /\ running /\ writer \in {"ok", "failed"} /\ Senders = {}
  /\ Reaped

Kill == running /\ Reaped

(* Another client of the same token spends a point. *)
Spend ==
  /\ running /\ remaining > 0
  /\ remaining' = remaining - 1
  /\ UNCHANGED <<archive, issues, running, jobs, tripped, worker, chan, receiving>>

Init ==
  /\ synced = {} /\ starved = [k \in Keys |-> 0] /\ begun = starved
  /\ issues = {} /\ running = FALSE /\ jobs = <<>> /\ tripped = FALSE
  /\ remaining = Budget /\ worker = [k \in Workers |-> Gone]
  /\ chan = <<>> /\ open = FALSE /\ writer = "off"
  /\ tally = [r \in Repos |-> NoTally]
  /\ lane = FALSE /\ untyped = 0

Next ==
  \/ Start \/ Kill \/ Spend
  \/ Return \/ WriterStep \/ \E k \in Workers : WorkerStep(k)

(* The process runs: while one of its threads can take a step, one does.     *)
(* That a call in flight is such a step is the watchdog's doing (gh.rs).     *)
Threads == WriterStep \/ Return \/ \E k \in Workers : WorkerStep(k)

Spec == Init /\ [][Next]_vars /\ WF_vars(Threads)

-----------------------------------------------------------------------------
(* Properties.                                                               *)

Messages ==
  {Retries(r) : r \in Repos}
  \cup {Done(r, s, c, h) : r \in Repos, s \in Streams, c \in BOOLEAN, h \in BOOLEAN}
  \cup {Deferred(r, s) : r \in Repos, s \in Streams}
  \cup {Failed(r, ss) : r \in Repos, ss \in {{"pr"}, Streams}}
  \cup {Stats(r, b) : r \in Repos, b \in BOOLEAN}

(* Every variable has its type.                                              *)
TypeOK ==
  /\ synced \subseteq Keys /\ issues \subseteq Repos
  /\ {starved, begun} \subseteq [Keys -> 0..MaxStarved]
  /\ {running, tripped, open} \subseteq BOOLEAN
  /\ jobs \in Seq(Repos) /\ chan \in Seq(Messages) /\ Len(chan) <= ChanCap
  /\ remaining \in 0..Budget /\ lane \in BOOLEAN /\ untyped \in 0..MaxUntyped
  /\ writer \in {"off", "recv", "lane", "ok", "failed"}
  /\ worker \in [Workers ->
       [pc : {"free", "walk", "skip", "end", "gone"}, repo : Repos \cup {Idle.repo},
        stage : {"backfill", "pr", "issue", "maint"},
        ask : {"none", "discovery", "hydrate", "escalated", "page"},
        calls : Nat, found : BOOLEAN, halted : BOOLEAN,
        below : BOOLEAN, over : Nat, outbox : Seq(Messages)]]
  /\ tally \in [Repos ->
       [done : SUBSET Streams, deferred : SUBSET Streams, failed : BOOLEAN,
        halted : BOOLEAN, stats : Nat, late : BOOLEAN]]

(* A run that reports success accounts for every repository of its plan:     *)
(* Stats once, nothing after it, and one end, with every configured stream   *)
(* completed, every one deferred, the repository failed, or a halt disclosed.*)
(* A worker that returns early, or a floor that forgets a queued repository, *)
(* would lose one in silence (sync.rs worker, writer).                       *)
EveryRepoAccounted ==
  writer \in {"lane", "ok"} =>
    \A r \in Repos :
      LET t == tally[r] IN
      /\ t.stats = 1 /\ ~t.late
      /\ \/ t.deferred = Configured(r) /\ ~t.failed
         \/ t.deferred = {} /\ (t.failed \/ t.halted \/ t.done = Configured(r))

(* runs_since_advance counts runs, and only those the stream was part of: by *)
(* the end of a successful run a stream stands where it stood, or at zero if *)
(* it completed, plus one if its repository was deferred or failed; a row of *)
(* a stream the config no longer runs has not moved.                         *)
CountsRuns ==
  writer \in {"lane", "ok"} =>
    \A k \in Keys :
      LET t == tally[k[1]]
          base == IF k[2] \in t.done THEN 0 ELSE begun[k]
          denied == k[2] \in Configured(k[1]) /\ (t.failed \/ t.deferred # {})
      IN starved[k] = IF denied /\ k \in synced THEN Smaller(base + 1, MaxStarved)
                      ELSE base

(* The floor is soft by one gated unit per repository: once an answer has    *)
(* told a repository's worker that the budget is below the floor, nothing of *)
(* that repository is asked again, but for the full walk that an escalated   *)
(* refresh has already begun.                                                *)
FloorHolds == \A k \in Workers : worker[k].over <= 1

(* A run ends: no worker waits for a channel nobody reads, the writer does   *)
(* not wait for a Sender nobody holds, and no call is retried for ever.      *)
RunEnds == running ~> ~running
=============================================================================
