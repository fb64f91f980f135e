-------------------------- MODULE Pipeline_proofs --------------------------
(***************************************************************************)
(* For any repositories, workers, channel, budget and floor: the shape of  *)
(* the threads' state; that a run loses no repository; that the starvation *)
(* counters count runs; that the floor stops each repository at once.      *)
(***************************************************************************)
EXTENDS Pipeline, FiniteSetTheorems, TLAPS

-----------------------------------------------------------------------------
(* Types.                                                                  *)

WorkerState ==
  [pc : {"free", "walk", "skip", "end", "gone"}, repo : Repos \cup {Idle.repo},
   stage : {"backfill", "pr", "issue", "maint"},
   ask : {"none", "discovery", "hydrate", "escalated", "page"},
   calls : Nat, found : BOOLEAN, halted : BOOLEAN,
   below : BOOLEAN, over : Nat, outbox : Seq(Messages)]

TallyState ==
  [done : SUBSET Streams, deferred : SUBSET Streams, failed : BOOLEAN,
   halted : BOOLEAN, stats : Nat, late : BOOLEAN]

LEMMA Shape ==
  TypeOK => /\ worker \in [Workers -> WorkerState] /\ tally \in [Repos -> TallyState]
            /\ chan \in Seq(Messages) /\ jobs \in Seq(Repos)
            /\ starved \in [Keys -> 0..MaxStarved] /\ begun \in [Keys -> 0..MaxStarved]
            /\ remaining \in 0..Budget /\ synced \subseteq Keys /\ issues \subseteq Repos
            /\ open \in BOOLEAN /\ lane \in BOOLEAN /\ tripped \in BOOLEAN /\ running \in BOOLEAN
BY DEF TypeOK, WorkerState, TallyState

\* What a message of each kind carries.
LEMMA Carries ==
  ASSUME NEW m \in Messages
  PROVE  /\ m.repo \in Repos
         /\ m.kind \in {"retries", "done", "deferred", "failed", "stats"}
         /\ m.kind = "done" => m.stream \in Streams /\ m.completes \in BOOLEAN /\ m.halt \in BOOLEAN
         /\ m.kind = "deferred" => m.stream \in Streams
         /\ m.kind = "failed" => m.streams \in {{"pr"}, Streams}
         /\ m.kind = "stats" => m.below \in BOOLEAN
<1>1. CASE \E r \in Repos : m = Retries(r)
  BY <1>1 DEF Retries
<1>2. CASE \E r \in Repos, s \in Streams, c \in BOOLEAN, h \in BOOLEAN : m = Done(r, s, c, h)
  BY <1>2 DEF Done
<1>3. CASE \E r \in Repos, s \in Streams : m = Deferred(r, s)
  BY <1>3 DEF Deferred
<1>4. CASE \E r \in Repos, ss \in {{"pr"}, Streams} : m = Failed(r, ss)
  BY <1>4 DEF Failed
<1>5. CASE \E r \in Repos, b \in BOOLEAN : m = Stats(r, b)
  BY <1>5 DEF Stats
<1>6. QED
  BY <1>1, <1>2, <1>3, <1>4, <1>5 DEF Messages

\* What a repository's end sends is messages about it, its stats last.
LEMMA Letters ==
  ASSUME NEW r \in Repos, NEW b \in BOOLEAN
  PROVE  /\ Stats(r, b) \in Messages /\ Retries(r) \in Messages
         /\ Failed(r, Configured(r)) \in Messages
         /\ \A s \in Streams : Deferred(r, s) \in Messages
         /\ \A s \in Streams, c, h \in BOOLEAN : Done(r, s, c, h) \in Messages
         /\ Deferrals(r) \in Seq(Messages)
         /\ <<Failed(r, Configured(r))>> \in Seq(Messages)
         /\ <<Retries(r)>> \in Seq(Messages) /\ <<>> \in Seq(Messages)
<1>1. /\ Stats(r, b) \in Messages /\ Retries(r) \in Messages
      /\ \A s \in Streams : Deferred(r, s) \in Messages
      /\ \A s \in Streams, c, h \in BOOLEAN : Done(r, s, c, h) \in Messages
  BY DEF Messages
<1>2. Failed(r, Configured(r)) \in Messages
  BY DEF Messages, Configured
<1>3. Deferred(r, "pr") \in Messages /\ Deferred(r, "issue") \in Messages
  BY <1>1 DEF Streams
<1>4. QED
  BY <1>1, <1>2, <1>3 DEF Deferrals

LEMMA Closing ==
  ASSUME NEW messages \in Seq(Messages), NEW m \in Messages
  PROVE  Append(messages, m) \in Seq(Messages) /\ Append(messages, m) # <<>>
<1>1. Append(messages, m) \in Seq(Messages)
  OBVIOUS
<1> DEFINE s == Append(messages, m)
<1>2. Len(s) = Len(messages) + 1 /\ Len(messages) \in Nat
  OBVIOUS
<1> HIDE DEF s
<1>3. s # <<>>
  BY <1>2
<1>4. QED
  BY <1>1, <1>3 DEF s

LEMMA Leftover ==
  ASSUME NEW s \in Seq(Messages), s # <<>>
  PROVE  Head(s) \in Messages /\ Tail(s) \in Seq(Messages) /\ (Len(s) # 1 => Tail(s) # <<>>)
<1>1. Len(s) \in Nat \ {0} /\ Head(s) \in Messages /\ Tail(s) \in Seq(Messages)
  OBVIOUS
<1>2. Len(Tail(s)) = Len(s) - 1
  OBVIOUS
<1>3. Len(s) # 1 => Tail(s) # <<>>
  BY <1>1, <1>2
<1>4. QED
  BY <1>1, <1>3

LEMMA Lone ==
  ASSUME NEW s \in Seq(Messages), Len(s) = 1
  PROVE  Tail(s) = <<>>
<1> DEFINE t == Tail(s)
<1>1. s # <<>>
  <2>1. s = <<>> => Len(s) = 0
    OBVIOUS
  <2>2. QED
    BY <2>1
<1>2. t \in Seq(Messages)
  BY <1>1, Leftover
<1>3. Len(t) = Len(s) - 1
  BY <1>1
<1> HIDE DEF t
<1>4. Len(t) = 0
  BY <1>3
<1>5. t = <<>>
  BY <1>2, <1>4
<1>6. QED
  BY <1>5 DEF t

LEMMA IdleTyped ==
  /\ Idle \in WorkerState
  /\ Idle.pc = "free" /\ Idle.stage = "maint" /\ Idle.ask = "none" /\ Idle.calls = 0
  /\ Idle.found = FALSE /\ Idle.halted = FALSE /\ Idle.below = FALSE /\ Idle.over = 0
  /\ Idle.outbox = <<>>
<1> DEFINE homes == Repos \cup {Idle.repo}
           resting == [pc |-> "free", repo |-> Idle.repo, stage |-> "maint", ask |-> "none",
                       calls |-> 0, found |-> FALSE, halted |-> FALSE, below |-> FALSE,
                       over |-> 0, outbox |-> <<>>]
<1>1. Idle = resting
  BY DEF Idle
<1>2. resting \in
        [pc : {"free", "walk", "skip", "end", "gone"}, repo : homes,
         stage : {"backfill", "pr", "issue", "maint"},
         ask : {"none", "discovery", "hydrate", "escalated", "page"},
         calls : Nat, found : BOOLEAN, halted : BOOLEAN,
         below : BOOLEAN, over : Nat, outbox : Seq(Messages)]
  <2>1. Idle.repo \in homes
    OBVIOUS
  <2>2. QED
    BY ONLY <2>1 
<1>3. Idle \in WorkerState
  BY <1>1, <1>2, Zenon DEF WorkerState
<1>4. QED
  BY <1>1, <1>3

LEMMA GoneTyped ==
  /\ Gone \in WorkerState
  /\ Gone.pc = "gone" /\ Gone.repo = Idle.repo /\ Gone.ask = "none" /\ Gone.below = FALSE
  /\ Gone.over = 0 /\ Gone.outbox = <<>>
BY IdleTyped DEF Gone, WorkerState

LEMMA EndsTyped ==
  ASSUME NEW w \in WorkerState, w.repo \in Repos, NEW messages \in Seq(Messages)
  PROVE  /\ Ends(w, messages) \in WorkerState
         /\ Ends(w, messages).pc = "end" /\ Ends(w, messages).ask = "none"
         /\ Ends(w, messages).below = FALSE /\ Ends(w, messages).over = 0
         /\ Ends(w, messages).outbox = Append(messages, Stats(w.repo, w.below))
<1> DEFINE out == Append(messages, Stats(w.repo, w.below))
<1>1. w.below \in BOOLEAN
  BY DEF WorkerState
<1>2. out \in Seq(Messages)
  BY <1>1, Letters
<1> HIDE DEF out
<1>3. LET v == [Idle EXCEPT !.pc = "end", !.outbox = out] IN
      v \in WorkerState /\ v.pc = "end" /\ v.ask = "none" /\ v.below = FALSE
      /\ v.over = 0 /\ v.outbox = out
  BY <1>2, IdleTyped DEF WorkerState
<1>4. QED
  BY <1>3, Zenon DEF Ends, out

-----------------------------------------------------------------------------
(* The threads' state.  A worker has messages to send exactly while it      *)
(* leaves a repository, a call in flight only inside one, and, at most once *)
(* in a repository, an answer below the floor: it asks nothing after it.    *)
Sound(w, points) ==
  /\ w.pc \in {"free", "walk", "gone"} => w.outbox = <<>>
  /\ w.pc \in {"skip", "end"} => w.outbox # <<>>
  /\ w.pc = "walk" => w.repo \in Repos
  /\ w.pc # "walk" => w.ask = "none"
  /\ w.over <= 1
  /\ w.over = 1 => w.below /\ w.ask \in {"none", "escalated"}
  /\ w.below => points < Floor

Shapes ==
  \A k \in Workers : /\ Sound(worker[k], remaining)
                     /\ open /\ worker[k].pc = "gone" => jobs = <<>>

Types ==
  /\ synced \subseteq Keys /\ issues \subseteq Repos
  /\ starved \in [Keys -> 0..MaxStarved] /\ begun \in [Keys -> 0..MaxStarved]
  /\ running \in BOOLEAN /\ tripped \in BOOLEAN /\ open \in BOOLEAN
  /\ jobs \in Seq(Repos) /\ chan \in Seq(Messages) /\ Len(chan) <= ChanCap
  /\ remaining \in 0..Budget /\ lane \in BOOLEAN /\ untyped \in 0..MaxUntyped
  /\ writer \in {"off", "recv", "lane", "ok", "failed"}
  /\ worker \in [Workers -> WorkerState] /\ tally \in [Repos -> TallyState]

LEMMA Typing == (TypeOK <=> Types) /\ (TypeOK' <=> Types')
BY DEF TypeOK, Types, WorkerState, TallyState

LEMMA SoundStates ==
  ASSUME NEW n \in Nat
  PROVE  /\ Sound(Idle, n) /\ Sound(Gone, n)
         /\ \A w \in WorkerState, messages \in Seq(Messages) :
              w.repo \in Repos => Sound(Ends(w, messages), n)
<1>1. Sound(Idle, n) /\ Sound(Gone, n)
  BY IdleTyped, GoneTyped DEF Sound
<1>2. ASSUME NEW w \in WorkerState, NEW messages \in Seq(Messages), w.repo \in Repos
      PROVE  Sound(Ends(w, messages), n)
  <2> DEFINE e == Ends(w, messages)
  <2>1. Append(messages, Stats(w.repo, w.below)) # <<>>
    OBVIOUS
  <2>2. e.pc = "end" /\ e.ask = "none" /\ e.below = FALSE /\ e.over = 0 /\ e.outbox # <<>>
    BY <1>2, <2>1, EndsTyped
  <2> HIDE DEF e
  <2>3. Sound(e, n)
    BY <2>2 DEF Sound
  <2>4. QED
    BY <2>3 DEF e
<1>3. QED
  BY <1>1, <1>2

\* What a worker that moves owes: itself in order, and no point given back.
LEMMA Kept ==
  ASSUME TypeOK, Shapes, NEW k \in Workers, NEW w \in WorkerState, Keeps(k, w),
         Sound(w, remaining'), remaining' \in Nat, remaining' <= remaining,
         open' = open, jobs = <<>> => jobs' = <<>>,
         open /\ w.pc = "gone" => jobs' = <<>>
  PROVE  worker' \in [Workers -> WorkerState] /\ Shapes'
<1>1. worker \in [Workers -> WorkerState] /\ remaining \in Nat /\ Floor \in Nat
  BY Typing, PipelineAssumption DEF Types
<1>2. /\ worker' \in [Workers -> WorkerState] /\ worker'[k] = w
      /\ \A l \in Workers \ {k} : worker'[l] = worker[l]
  BY <1>1 DEF Keeps
<1>3. ASSUME NEW l \in Workers \ {k} PROVE Sound(worker[l], remaining')
  <2>1. Sound(worker[l], remaining)
    BY DEF Shapes
  <2>2. QED
    BY <1>1, <2>1 DEF Sound
<1>4. QED
  BY <1>2, <1>3 DEF Shapes

LEMMA Sent ==
  ASSUME TypeOK, Shapes, NEW k \in Workers, NEW w \in WorkerState, NEW m \in Messages,
         Sends(k, m, w), w.pc # "gone", Sound(w, remaining),
         UNCHANGED <<remaining, open, jobs>>
  PROVE  /\ worker' \in [Workers -> WorkerState] /\ Shapes'
         /\ chan' \in Seq(Messages) /\ Len(chan') <= ChanCap
<1>1. chan \in Seq(Messages) /\ remaining \in Nat /\ open \in BOOLEAN /\ ChanCap \in Nat
      /\ Len(chan) <= ChanCap
  BY Typing, PipelineAssumption DEF Types
<1>2. chan' \in Seq(Messages) /\ Len(chan') <= ChanCap
  BY <1>1 DEF Sends
<1>3. CASE open
  <2>1. Keeps(k, w)
    BY <1>3 DEF Sends
  <2>2. QED
    BY <1>1, <1>2, <2>1, Kept
<1>4. CASE ~open
  <2>1. Keeps(k, Gone)
    BY <1>4 DEF Sends
  <2>2. QED
    BY <1>1, <1>2, <1>4, <2>1, Kept, GoneTyped, SoundStates
<1>5. QED
  BY <1>1, <1>3, <1>4

\* A call in flight, or none in a walk: either way the worker is in a repository.
LEMMA InRepo ==
  ASSUME TypeOK, Shapes, NEW k \in Workers, worker[k].ask # "none" \/ Walking(k)
  PROVE  /\ worker[k] \in WorkerState /\ worker[k].pc = "walk" /\ worker[k].repo \in Repos
         /\ worker[k].outbox = <<>> /\ Sound(worker[k], remaining)
BY Typing DEF Shapes, Sound, Walking, Types

LEMMA BaseTake ==
  ASSUME TypeOK, Shapes, NEW k \in Workers, Take(k)
  PROVE  TypeOK' /\ Shapes'
<1>1. /\ remaining \in Nat /\ jobs \in Seq(Repos) /\ tripped \in BOOLEAN
      /\ remaining \in 0..Budget
  BY Typing DEF Types
<1>0. UNCHANGED <<archive, issues, running, tripped, remaining, chan, receiving>>
  BY DEF Take
<1>5. remaining' = remaining /\ open' = open
  BY <1>0 DEF receiving
<1>2. CASE jobs = <<>>
  <2>1. Keeps(k, Gone) /\ jobs' = jobs
    BY <1>2 DEF Take
  <2>2. worker' \in [Workers -> WorkerState] /\ Shapes'
    BY <1>1, <1>2, <1>5, <2>1, Kept, GoneTyped, SoundStates
  <2>3. QED
    BY <1>0, <2>1, <2>2, Typing DEF archive, receiving, Types
<1>3. CASE jobs # <<>>
  <2> DEFINE r == Head(jobs)
             out == Append(Deferrals(r), Stats(r, FALSE))
             sheds == [Idle EXCEPT !.pc = "skip", !.repo = r, !.outbox = out]
             walks(stage) == [Idle EXCEPT !.pc = "walk", !.repo = r, !.stage = stage]
  <2>1. jobs' = Tail(jobs)
    BY <1>3 DEF Take
  <2>2. r \in Repos /\ jobs' \in Seq(Repos)
    BY <1>1, <1>3, <2>1
  <2>3. PICK w : Keeps(k, w) /\ (w = sheds \/ \E stage \in FirstStages(r) : w = walks(stage))
    BY <1>3, Zenon DEF Take
  <2> HIDE DEF r
  <2>4. out \in Seq(Messages) /\ out # <<>>
    <3>1. Stats(r, FALSE) \in Messages /\ Deferrals(r) \in Seq(Messages)
      BY <2>2, Letters
    <3>2. QED
      BY <3>1, Closing
  <2> HIDE DEF out
  <2>5. w \in WorkerState /\ Sound(w, remaining) /\ w.pc # "gone"
    <3>1. CASE w = sheds
      <4>1. sheds \in WorkerState
        BY <2>2, <2>4, IdleTyped DEF WorkerState
      <4>2. /\ sheds.pc = "skip" /\ sheds.outbox = out /\ sheds.ask = "none"
            /\ sheds.below = FALSE /\ sheds.over = 0
        BY IdleTyped DEF WorkerState
      <4> HIDE DEF sheds
      <4>3. QED
        BY <2>4, <3>1, <4>1, <4>2 DEF Sound
    <3>2. ASSUME NEW stage \in FirstStages(r), w = walks(stage)
          PROVE  w \in WorkerState /\ Sound(w, remaining) /\ w.pc # "gone"
      <4>1. stage \in {"backfill", "pr"}
        BY DEF FirstStages
      <4>2. w \in WorkerState
        BY <2>2, <3>2, <4>1, IdleTyped DEF WorkerState
      <4>3. /\ w.pc = "walk" /\ w.outbox = <<>> /\ w.ask = "none" /\ w.repo = r
            /\ w.below = FALSE /\ w.over = 0
        BY <3>2, IdleTyped DEF WorkerState
      <4>4. QED
        BY <2>2, <4>2, <4>3 DEF Sound
    <3>3. QED
      BY <2>3, <3>1, <3>2
  <2> HIDE DEF sheds, walks
  <2>6. worker' \in [Workers -> WorkerState] /\ Shapes'
    <3>1. remaining' \in Nat /\ remaining' <= remaining /\ Sound(w, remaining')
      BY <1>1, <1>5, <2>5
    <3>2. QED
      BY <1>3, <1>5, <2>3, <2>5, <3>1, Kept
  <2>7. QED
    BY <1>0, <2>2, <2>6, Typing DEF archive, receiving, Types
<1>4. QED
  BY <1>2, <1>3

\* The steps of a walk that only move the worker.
LEMMA BaseMove ==
  ASSUME TypeOK, Shapes, NEW k \in Workers, NEW w \in WorkerState, Keeps(k, w),
         Sound(w, remaining'), w.pc # "gone", remaining' \in 0..Budget, remaining' <= remaining,
         tripped' \in BOOLEAN, UNCHANGED <<archive, issues, running, jobs, chan, receiving>>
  PROVE  TypeOK' /\ Shapes'
<1>1. worker' \in [Workers -> WorkerState] /\ Shapes'
  BY Kept, Typing, PipelineAssumption DEF receiving, Types
<1>2. QED
  BY <1>1, Typing DEF archive, receiving, Types

LEMMA BaseCall ==
  ASSUME TypeOK, Shapes, NEW k \in Workers, Call(k)
  PROVE  TypeOK' /\ Shapes'
<1> DEFINE w == worker[k]
           ask == IF w.stage = "maint" \/ w.found THEN "hydrate" ELSE "discovery"
           calls == w.calls + 1
           v == [w EXCEPT !.ask = ask, !.calls = calls]
<1>1. w \in WorkerState /\ w.pc = "walk" /\ w.repo \in Repos /\ Sound(w, remaining)
  BY InRepo DEF Call
<1>2. ~w.below /\ Keeps(k, v) /\ tripped' = tripped /\ remaining' = remaining
  BY DEF Call, GateOpen
<1>3. UNCHANGED <<archive, issues, running, jobs, chan, receiving>>
  BY DEF Call
<1>4. ask \in {"hydrate", "discovery"} /\ calls \in Nat
  BY <1>1 DEF WorkerState
<1> HIDE DEF w, ask, calls
<1>5. v \in WorkerState /\ Sound(v, remaining) /\ v.pc = "walk"
  BY <1>1, <1>2, <1>4 DEF WorkerState, Sound
<1> HIDE DEF v
<1>6. tripped \in BOOLEAN /\ remaining \in 0..Budget /\ remaining \in Nat
  BY Typing DEF Types
<1>7. remaining' \in 0..Budget /\ remaining' <= remaining /\ Sound(v, remaining')
  BY <1>2, <1>5, <1>6
<1>8. QED
  BY <1>2, <1>3, <1>5, <1>6, <1>7, BaseMove

\* The floor, a failure and the end of maintenance all leave the repository.
LEMMA BaseLeave ==
  ASSUME TypeOK, Shapes, NEW k \in Workers, worker[k].ask # "none" \/ Walking(k),
         NEW messages \in Seq(Messages), Keeps(k, Ends(worker[k], messages)),
         tripped' \in BOOLEAN,
         UNCHANGED <<archive, issues, running, jobs, remaining, chan, receiving>>
  PROVE  TypeOK' /\ Shapes'
<1>1. worker[k] \in WorkerState /\ worker[k].repo \in Repos
  BY InRepo
<1>2. remaining \in 0..Budget /\ remaining \in Nat
  BY Typing DEF Types
<1>3. /\ Ends(worker[k], messages) \in WorkerState /\ Ends(worker[k], messages).pc # "gone"
      /\ Sound(Ends(worker[k], messages), remaining)
  BY <1>1, <1>2, EndsTyped, SoundStates
<1>4. QED
  BY <1>2, <1>3, BaseMove

LEMMA BaseStop ==
  ASSUME TypeOK, Shapes, NEW k \in Workers, worker[k].ask # "none" \/ Walking(k),
         FloorStops(k, worker[k]) \/ RepoStops(k, worker[k]),
         UNCHANGED <<archive, issues, running, jobs, remaining, chan, receiving>>
  PROVE  TypeOK' /\ Shapes'
<1>1. /\ Deferrals(worker[k].repo) \in Seq(Messages)
      /\ <<Failed(worker[k].repo, Configured(worker[k].repo))>> \in Seq(Messages)
  BY InRepo, Letters
<1>2. tripped \in BOOLEAN
  BY Typing DEF Types
<1>3. QED
  BY <1>1, <1>2, BaseLeave DEF FloorStops, RepoStops

LEMMA ToldTyped ==
  ASSUME NEW w \in WorkerState, NEW n \in Nat
  PROVE  LET v == Told(w, n) IN
         /\ v \in WorkerState /\ v.pc = w.pc /\ v.repo = w.repo /\ v.stage = w.stage
         /\ v.ask = w.ask /\ v.halted = w.halted /\ v.outbox = w.outbox
         /\ v.below <=> n < Floor
         /\ v.over = IF n < Floor /\ w.ask # "escalated" THEN w.over + 1 ELSE w.over
<1> DEFINE below == n < Floor
           over == IF n < Floor /\ w.ask # "escalated" THEN w.over + 1 ELSE w.over
           v == [w EXCEPT !.below = below, !.over = over]
<1>1. below \in BOOLEAN /\ over \in Nat
  BY PipelineAssumption DEF WorkerState
<1>2. Told(w, n) = v
  BY Zenon DEF Told
<1> HIDE DEF below, over
<1>3. /\ v \in WorkerState /\ v.pc = w.pc /\ v.repo = w.repo /\ v.stage = w.stage
      /\ v.ask = w.ask /\ v.halted = w.halted /\ v.outbox = w.outbox
      /\ v.below = below /\ v.over = over
  BY <1>1 DEF WorkerState
<1> HIDE DEF v
<1>4. QED
  BY <1>2, <1>3 DEF below, over

LEMMA ContinuesTyped ==
  ASSUME NEW w \in WorkerState, NEW v \in Continues(w), w.ask # "none"
  PROVE  /\ v \in WorkerState /\ v.pc = w.pc /\ v.repo = w.repo /\ v.stage = w.stage
         /\ v.halted = w.halted /\ v.outbox = w.outbox
         /\ v.over = w.over /\ v.below = w.below /\ v.ask \in {"none", "escalated"}
<1>1. \/ v = [w EXCEPT !.ask = "none"] \/ v = [w EXCEPT !.ask = "escalated"]
      \/ \E f \in BOOLEAN : v = [w EXCEPT !.ask = "none", !.found = f]
  <2>1. (w.calls = MaxCalls) \in BOOLEAN
    OBVIOUS
  <2>2. QED
    BY <2>1, Zenon DEF Continues
<1>2. CASE v = [w EXCEPT !.ask = "none"]
  BY <1>2 DEF WorkerState
<1>3. CASE v = [w EXCEPT !.ask = "escalated"]
  BY <1>3 DEF WorkerState
<1>4. ASSUME NEW f \in BOOLEAN, v = [w EXCEPT !.ask = "none", !.found = f]
      PROVE  /\ v \in WorkerState /\ v.pc = w.pc /\ v.repo = w.repo /\ v.stage = w.stage
             /\ v.halted = w.halted /\ v.outbox = w.outbox
             /\ v.over = w.over /\ v.below = w.below /\ v.ask \in {"none", "escalated"}
  BY <1>4 DEF WorkerState
<1>5. QED
  BY <1>1, <1>2, <1>3, <1>4

LEMMA BaseAnswer ==
  ASSUME TypeOK, Shapes, NEW k \in Workers, Answer(k)
  PROVE  TypeOK' /\ Shapes'
<1>1. /\ worker[k] \in WorkerState /\ worker[k].pc = "walk" /\ worker[k].repo \in Repos
      /\ worker[k].outbox = <<>> /\ Sound(worker[k], remaining) /\ worker[k].ask # "none"
  BY InRepo DEF Answer
<1>2. /\ remaining \in 0..Budget /\ remaining' = remaining - 1 /\ remaining' \in 0..Budget
      /\ Budget \in Nat /\ Floor \in Nat /\ MaxCalls \in Nat
  BY Typing, PipelineAssumption DEF Answer, Types
<1>3. PICK w \in {worker[k], Told(worker[k], remaining')} : \E v \in Continues(w) : Keeps(k, v)
  BY DEF Answer
<1>4. /\ w \in WorkerState /\ w.pc = "walk" /\ w.repo \in Repos /\ w.outbox = <<>>
      /\ w.ask # "none" /\ w.over <= 1 /\ (w.below => remaining' < Floor)
      /\ w.over = 1 => w.below
  <2>1. CASE w = worker[k]
    BY <1>1, <1>2, <2>1 DEF Sound
  <2>2. CASE w = Told(worker[k], remaining')
    <3>1. remaining' \in Nat
      BY <1>2
    <3>2. /\ w \in WorkerState /\ w.pc = "walk" /\ w.repo = worker[k].repo
          /\ w.ask = worker[k].ask /\ w.outbox = <<>> /\ (w.below <=> remaining' < Floor)
          /\ w.over = IF remaining' < Floor /\ worker[k].ask # "escalated"
                      THEN worker[k].over + 1 ELSE worker[k].over
      BY <1>1, <2>2, <3>1, ToldTyped
    <3>3. worker[k].over \in Nat
      BY <1>1 DEF WorkerState
    <3>4. QED
      BY <1>1, <1>2, <3>2, <3>3 DEF Sound
  <2>3. QED
    BY <1>3, <2>1, <2>2
<1>5. PICK v \in Continues(w) : Keeps(k, v)
  BY <1>3
<1>6. /\ v \in WorkerState /\ v.pc = w.pc /\ v.repo = w.repo /\ v.outbox = w.outbox
      /\ v.over = w.over /\ v.below = w.below /\ v.ask \in {"none", "escalated"}
  BY <1>4, <1>5, ContinuesTyped
<1>7. Sound(v, remaining')
  BY <1>4, <1>6 DEF Sound
<1>8. /\ tripped' \in BOOLEAN /\ remaining' <= remaining
      /\ UNCHANGED <<archive, issues, running, jobs, chan, receiving>>
  BY <1>2, Typing DEF Answer, Types
<1>9. QED
  BY <1>2, <1>4, <1>5, <1>6, <1>7, <1>8, BaseMove

LEMMA BaseGiveUp ==
  ASSUME TypeOK, Shapes, NEW k \in Workers, GiveUp(k)
  PROVE  TypeOK' /\ Shapes'
<1>1. CASE worker[k].ask = "discovery"
  BY <1>1, BaseStop DEF GiveUp
<1>2. CASE worker[k].ask # "discovery"
  <2> DEFINE w == worker[k]
             v == [w EXCEPT !.ask = "none"]
  <2>1. w \in WorkerState /\ w.pc = "walk" /\ w.repo \in Repos /\ Sound(w, remaining)
    BY InRepo DEF GiveUp
  <2>2. /\ Keeps(k, v) /\ tripped' = tripped
        /\ UNCHANGED <<archive, issues, running, jobs, remaining, chan, receiving>>
    BY <1>2 DEF GiveUp
  <2> HIDE DEF w
  <2>3. v \in WorkerState /\ Sound(v, remaining) /\ v.pc = "walk"
    BY <2>1 DEF WorkerState, Sound
  <2> HIDE DEF v
  <2>4. tripped \in BOOLEAN /\ remaining \in 0..Budget /\ remaining \in Nat
    BY Typing DEF Types
  <2>5. QED
    BY <2>2, <2>3, <2>4, BaseMove
<1>3. QED
  BY <1>1, <1>2

\* What a worker is after its window: one of these sends its Done.
WindowNext(w, halt) ==
  LET next == Following(w.repo, w.stage) IN
  IF \/ halt /\ w.stage = "backfill"
     \/ next = "maint" /\ (halt \/ w.halted)
  THEN Ends(w, <<>>)
  ELSE [w EXCEPT !.stage = next, !.calls = 0, !.found = FALSE, !.halted = w.halted \/ halt]

LEMMA WindowSends ==
  ASSUME NEW k \in Workers, Window(k)
  PROVE  LET w == worker[k]
             r == w.repo
             s == StreamOf(w.stage)
         IN \/ Sends(k, Done(r, s, FALSE, FALSE), [w EXCEPT !.found = FALSE])
            \/ \E halt \in BOOLEAN :
                 Sends(k, Done(r, s, w.stage # "backfill" /\ ~halt, halt), WindowNext(w, halt))
BY DEF Window, WindowNext

LEMMA WindowTyped ==
  ASSUME NEW w \in WorkerState, w.pc = "walk", w.repo \in Repos, w.ask = "none", w.outbox = <<>>,
         NEW n \in Nat, Sound(w, n), NEW halt \in BOOLEAN
  PROVE  /\ [w EXCEPT !.found = FALSE] \in WorkerState
         /\ [w EXCEPT !.found = FALSE].pc = "walk" /\ Sound([w EXCEPT !.found = FALSE], n)
         /\ WindowNext(w, halt) \in WorkerState
         /\ WindowNext(w, halt).pc \in {"walk", "end"} /\ Sound(WindowNext(w, halt), n)
<1> DEFINE stays == [w EXCEPT !.found = FALSE]
           next == Following(w.repo, w.stage)
           halted == w.halted \/ halt
           moves == [w EXCEPT !.stage = next, !.calls = 0, !.found = FALSE, !.halted = halted]
<1>1. stays \in WorkerState /\ stays.pc = "walk" /\ Sound(stays, n)
  BY DEF WorkerState, Sound
<1>2. next \in {"pr", "issue", "maint"} /\ halted \in BOOLEAN
  BY DEF Following, WorkerState
<1>3. Ends(w, <<>>) \in WorkerState /\ Ends(w, <<>>).pc = "end" /\ Sound(Ends(w, <<>>), n)
  <2>1. <<>> \in Seq(Messages)
    OBVIOUS
  <2>2. QED
    BY <2>1, EndsTyped, SoundStates
<1>4. WindowNext(w, halt) \in {Ends(w, <<>>), moves}
  BY Zenon DEF WindowNext
<1> HIDE DEF next, halted
<1>5. moves \in WorkerState /\ moves.pc = "walk" /\ Sound(moves, n)
  BY <1>2 DEF WorkerState, Sound
<1> HIDE DEF moves, stays
<1>6. QED
  BY <1>1, <1>3, <1>4, <1>5 DEF stays

LEMMA BaseWindow ==
  ASSUME TypeOK, Shapes, NEW k \in Workers, Window(k)
  PROVE  TypeOK' /\ Shapes'
<1> DEFINE w == worker[k]
           r == w.repo
           s == StreamOf(w.stage)
<1>1. /\ w \in WorkerState /\ w.pc = "walk" /\ r \in Repos /\ w.outbox = <<>>
      /\ w.ask = "none" /\ Sound(w, remaining)
  BY InRepo DEF Window, Walking
<1>2. UNCHANGED <<archive, issues, running, jobs, tripped, remaining, receiving>>
  BY DEF Window
<1>3. s \in Streams /\ remaining \in Nat
  BY Typing DEF StreamOf, Streams, Types
<1>4. PICK c \in BOOLEAN, h \in BOOLEAN : \E u :
         /\ u = [w EXCEPT !.found = FALSE] \/ \E halt \in BOOLEAN : u = WindowNext(w, halt)
         /\ Sends(k, Done(r, s, c, h), u)
  <2>1. \A halt \in BOOLEAN : (w.stage # "backfill" /\ ~halt) \in BOOLEAN
    OBVIOUS
  <2>2. QED
    BY <2>1, WindowSends, Zenon
<1>5. PICK v :
         /\ v = [w EXCEPT !.found = FALSE] \/ \E halt \in BOOLEAN : v = WindowNext(w, halt)
         /\ Sends(k, Done(r, s, c, h), v)
  BY <1>4
<1> HIDE DEF w, r, s
<1>6. v \in WorkerState /\ v.pc # "gone" /\ Sound(v, remaining)
  BY <1>1, <1>3, <1>5, WindowTyped DEF r
<1>7. Done(r, s, c, h) \in Messages
  BY <1>1, <1>3, Letters
<1>8. open' = open
  BY <1>2 DEF receiving
<1>9. /\ worker' \in [Workers -> WorkerState] /\ Shapes'
      /\ chan' \in Seq(Messages) /\ Len(chan') <= ChanCap
  BY <1>2, <1>5, <1>6, <1>7, <1>8, Sent
<1>10. QED
  BY <1>2, <1>9, Typing DEF archive, receiving, Types

LEMMA BaseFinish ==
  ASSUME TypeOK, Shapes, NEW k \in Workers, Finish(k)
  PROVE  TypeOK' /\ Shapes'
<1>1. worker[k].repo \in Repos /\ tripped \in BOOLEAN
  BY InRepo, Typing DEF Finish, Types
<1>2. PICK last \in Seq(Messages) : Keeps(k, Ends(worker[k], last))
  BY <1>1, Letters DEF Finish
<1>3. QED
  BY <1>1, <1>2, BaseLeave DEF Finish

LEMMA BaseClose ==
  ASSUME TypeOK, Shapes, NEW k \in Workers, Close(k)
  PROVE  TypeOK' /\ Shapes'
<1> DEFINE w == worker[k]
           v == IF Len(w.outbox) = 1 THEN Idle ELSE [w EXCEPT !.outbox = Tail(@)]
           rest == [w EXCEPT !.outbox = Tail(w.outbox)]
<1>1. w \in WorkerState /\ Sound(w, remaining) /\ w.outbox # <<>> /\ w.outbox \in Seq(Messages)
  BY Typing DEF Close, Shapes, Types, WorkerState
<1>2. /\ remaining \in Nat /\ remaining' = remaining /\ open' = open
      /\ UNCHANGED <<archive, issues, running, jobs, tripped, remaining, receiving>>
  BY Typing DEF Close, Types, receiving
<1>3. CASE Keeps(k, Idle) /\ UNCHANGED chan
  <2>1. worker' \in [Workers -> WorkerState] /\ Shapes'
    BY <1>2, <1>3, IdleTyped, SoundStates, Kept
  <2>2. QED
    BY <1>2, <1>3, <2>1, Typing DEF archive, receiving, Types
<1>4. CASE Sends(k, Head(w.outbox), v)
  <2> DEFINE out == w.outbox
  <2> HIDE DEF out
  <2>1. Head(out) \in Messages /\ Tail(out) \in Seq(Messages) /\ (Len(out) # 1 => Tail(out) # <<>>)
    BY <1>1, Leftover DEF out
  <2>2. v \in WorkerState /\ Sound(v, remaining) /\ v.pc # "gone"
    <3>1. CASE Len(out) = 1
      BY <1>2, <3>1, IdleTyped, SoundStates DEF out
    <3>2. CASE Len(out) # 1
      <4>1. v = rest
        BY <3>2 DEF out
      <4>2. rest \in WorkerState /\ Sound(rest, remaining) /\ rest.pc # "gone"
        BY <1>1, <2>1, <3>2 DEF Sound, WorkerState, out
      <4>3. QED
        BY <4>1, <4>2
    <3>3. QED
      BY <3>1, <3>2
  <2> HIDE DEF v
  <2>3. /\ worker' \in [Workers -> WorkerState] /\ Shapes'
        /\ chan' \in Seq(Messages) /\ Len(chan') <= ChanCap
    BY <1>2, <1>4, <2>1, <2>2, Sent DEF out
  <2>4. QED
    BY <1>2, <2>3, Typing DEF archive, receiving, Types
<1>5. QED
  BY <1>3, <1>4 DEF Close

LEMMA BumpedTyped ==
  ASSUME starved \in [Keys -> 0..MaxStarved], NEW ks
  PROVE  Bumped(ks) \in [Keys -> 0..MaxStarved]
<1>1. MaxStarved \in Nat
  BY PipelineAssumption
<1>2. ASSUME NEW k \in Keys
      PROVE  (IF k \in ks \cap synced THEN Smaller(starved[k] + 1, MaxStarved) ELSE starved[k])
                \in 0..MaxStarved
  <2>1. starved[k] \in 0..MaxStarved
    OBVIOUS
  <2>2. Smaller(starved[k] + 1, MaxStarved) \in 0..MaxStarved
    BY <1>1, <2>1 DEF Smaller
  <2>3. QED
    BY <2>1, <2>2
<1>3. QED
  BY <1>2 DEF Bumped

\* What applying a message of each kind writes.
LEMMA Applied ==
  ASSUME NEW m \in Messages, TypeOK, Apply(m)
  PROVE  LET t == tally[m.repo] IN
         /\ m.kind = "retries" =>
              /\ tally' = [tally EXCEPT ![m.repo] = [t EXCEPT !.late = t.late \/ t.stats > 0]]
              /\ UNCHANGED <<synced, starved>>
         /\ m.kind = "done" => ApplyDone(m, t)
         /\ m.kind = "deferred" =>
              /\ tally' = [tally EXCEPT ![m.repo] = [t EXCEPT !.deferred = t.deferred \cup {m.stream}]]
              /\ starved' = BumpDeferred(m) /\ UNCHANGED synced
         /\ m.kind = "failed" =>
              /\ tally' = [tally EXCEPT ![m.repo] = [t EXCEPT !.failed = TRUE]]
              /\ starved' = BumpFailed(m) /\ UNCHANGED synced
         /\ m.kind = "stats" =>
              /\ tally' = [tally EXCEPT ![m.repo] = [t EXCEPT !.stats = t.stats + 1]]
              /\ lane' = (lane \/ m.below) /\ UNCHANGED <<synced, starved>>
<1>1. m.repo \in Repos /\ tally \in [Repos -> TallyState]
  BY Carries, Typing DEF Types
<1>2. QED
  BY <1>1 DEF Apply

LEMMA AppliedTyped ==
  ASSUME NEW m \in Messages, TypeOK, Apply(m), m.kind # "stats" => UNCHANGED lane
  PROVE  /\ tally' \in [Repos -> TallyState] /\ synced' \subseteq Keys
         /\ starved' \in [Keys -> 0..MaxStarved] /\ lane' \in BOOLEAN
<1> DEFINE r == m.repo
           t == tally[r]
<1>1. /\ r \in Repos /\ tally \in [Repos -> TallyState] /\ t \in TallyState
      /\ synced \subseteq Keys /\ starved \in [Keys -> 0..MaxStarved] /\ lane \in BOOLEAN
  BY Carries, Typing DEF Types
<1>2. \A ks : Bumped(ks) \in [Keys -> 0..MaxStarved]
  BY <1>1, BumpedTyped
<1>3. \A u \in TallyState : [tally EXCEPT ![r] = u] \in [Repos -> TallyState]
  BY <1>1
<1>4. CASE m.kind = "retries"
  <2> DEFINE late == t.late \/ t.stats > 0
  <2>1. late \in BOOLEAN
    BY <1>1 DEF TallyState
  <2> HIDE DEF late
  <2>2. [t EXCEPT !.late = late] \in TallyState
    BY <1>1, <2>1 DEF TallyState
  <2>3. QED
    BY <1>1, <1>3, <1>4, <2>2, Applied DEF late
<1>5. CASE m.kind = "done"
  <2> DEFINE done == IF m.completes THEN t.done \cup {m.stream} ELSE t.done
             halted == t.halted \/ m.halt
             late == t.late \/ t.stats > 0
             u == [t EXCEPT !.done = done, !.halted = halted, !.late = late]
  <2>1. m.stream \in Streams /\ m.halt \in BOOLEAN
    BY <1>5, Carries
  <2>2. /\ synced' = synced \cup {<<r, m.stream>>}
        /\ starved' = IF m.completes THEN [starved EXCEPT ![<<r, m.stream>>] = 0] ELSE starved
        /\ tally' = [tally EXCEPT ![r] = u]
    BY <1>5, Applied DEF ApplyDone
  <2>3. done \in SUBSET Streams /\ halted \in BOOLEAN /\ late \in BOOLEAN
    BY <1>1, <2>1 DEF TallyState
  <2> HIDE DEF done, halted, late
  <2>4. u \in TallyState
    BY <1>1, <2>3 DEF TallyState
  <2> HIDE DEF u
  <2>5. <<r, m.stream>> \in Keys /\ 0 \in 0..MaxStarved
    BY <1>1, <2>1, PipelineAssumption DEF Keys
  <2>6. QED
    BY <1>1, <1>3, <1>5, <2>2, <2>4, <2>5
<1>6. CASE m.kind = "deferred"
  <2>1. [t EXCEPT !.deferred = t.deferred \cup {m.stream}] \in TallyState
    BY <1>1, <1>6, Carries DEF TallyState
  <2>2. tally' \in [Repos -> TallyState]
    BY <1>3, <1>6, <2>1, Applied
  <2>3. starved' \in [Keys -> 0..MaxStarved] /\ synced' = synced
    <3>1. starved' = BumpDeferred(m) /\ synced' = synced
      BY <1>6, Applied
    <3>2. BumpDeferred(m) \in [Keys -> 0..MaxStarved]
      BY <1>2, Zenon DEF BumpDeferred
    <3>3. QED
      BY <3>1, <3>2
  <2>4. QED
    BY <1>1, <1>6, <2>2, <2>3
<1>7. CASE m.kind = "failed"
  <2>1. [t EXCEPT !.failed = TRUE] \in TallyState
    BY <1>1 DEF TallyState
  <2>2. tally' \in [Repos -> TallyState]
    BY <1>3, <1>7, <2>1, Applied
  <2>3. starved' \in [Keys -> 0..MaxStarved] /\ synced' = synced
    <3>1. starved' = BumpFailed(m) /\ synced' = synced
      BY <1>7, Applied
    <3>2. BumpFailed(m) \in [Keys -> 0..MaxStarved]
      BY <1>2, Zenon DEF BumpFailed
    <3>3. QED
      BY <3>1, <3>2
  <2>4. QED
    BY <1>1, <1>7, <2>2, <2>3
<1>8. CASE m.kind = "stats"
  <2>1. [t EXCEPT !.stats = t.stats + 1] \in TallyState
    BY <1>1 DEF TallyState
  <2>2. QED
    BY <1>1, <1>3, <1>8, <2>1, Applied, Carries
<1>9. QED
  BY <1>4, <1>5, <1>6, <1>7, <1>8, Carries

\* Steps that leave the workers and the job list where they were.
LEMMA ShapesKept ==
  ASSUME TypeOK, Shapes, UNCHANGED <<worker, jobs>>, remaining' \in Nat, remaining' <= remaining,
         open' => open
  PROVE  Shapes'
<1>1. remaining \in Nat /\ Floor \in Nat
  BY Typing, PipelineAssumption DEF Types
<1>2. QED
  BY <1>1 DEF Shapes, Sound

LEMMA BaseReceive ==
  ASSUME TypeOK, Shapes, Receive
  PROVE  TypeOK' /\ Shapes'
<1> DEFINE m == Head(chan)
<1>1. chan \in Seq(Messages) /\ chan # <<>> /\ Apply(m) /\ chan' = Tail(chan)
      /\ (m.kind # "stats" => UNCHANGED lane) /\ Len(chan) <= ChanCap /\ ChanCap \in Nat
      /\ remaining \in Nat
  BY Typing, PipelineAssumption DEF Receive, Types
<1>2. UNCHANGED <<issues, running, jobs, tripped, remaining, worker, open, writer, untyped, begun>>
  BY DEF Receive
<1>3. m \in Messages /\ chan' \in Seq(Messages) /\ Len(chan') <= ChanCap
  BY <1>1
<1> HIDE DEF m
<1>4. /\ tally' \in [Repos -> TallyState] /\ synced' \subseteq Keys
      /\ starved' \in [Keys -> 0..MaxStarved] /\ lane' \in BOOLEAN
  BY <1>1, <1>3, AppliedTyped
<1>5. Shapes'
  BY <1>1, <1>2, ShapesKept
<1>6. QED
  BY <1>2, <1>3, <1>4, <1>5, Typing DEF Types

LEMMA NothingTyped ==
  /\ [r \in Repos |-> NoTally] \in [Repos -> TallyState]
  /\ <<>> \in Seq(Messages) /\ <<>> \in Seq(Repos) /\ Len(<<>>) <= ChanCap
  /\ [k \in Workers |-> Idle] \in [Workers -> WorkerState]
  /\ [k \in Workers |-> Gone] \in [Workers -> WorkerState]
<1>1. NoTally \in TallyState
  BY DEF NoTally, TallyState
<1>2. QED
  BY <1>1, IdleTyped, GoneTyped, PipelineAssumption

LEMMA BaseWriter ==
  ASSUME TypeOK, Shapes, Record \/ LaneEnds \/ LaneTypes \/ WriterFails
  PROVE  TypeOK' /\ Shapes'
<1>0. remaining \in 0..Budget /\ remaining \in Nat /\ untyped \in Nat /\ MaxUntyped \in Nat
  BY Typing, PipelineAssumption DEF Types
<1>1. CASE Record
  <2>1. Shapes'
    BY <1>0, <1>1, ShapesKept DEF Record
  <2>2. QED
    BY <1>1, <2>1, Typing DEF Record, archive, Types
<1>2. CASE LaneEnds
  <2>1. Shapes'
    BY <1>0, <1>2, ShapesKept DEF LaneEnds
  <2>2. QED
    BY <1>2, <2>1, Typing DEF LaneEnds, archive, Types
<1>3. CASE LaneTypes
  <2>1. remaining' = remaining - 1 /\ remaining' \in 0..Budget /\ remaining' <= remaining
    BY <1>0, <1>3, PipelineAssumption DEF LaneTypes
  <2>2. untyped' \in 0..MaxUntyped /\ writer' \in {"ok", "lane"} /\ lane' \in BOOLEAN
    <3>1. untyped \in 0..MaxUntyped /\ lane \in BOOLEAN
      BY Typing DEF Types
    <3>2. PICK wrote \in 0..untyped :
            untyped' = untyped - wrote /\ writer' = IF wrote = 0 THEN "ok" ELSE "lane"
      BY <1>3 DEF LaneTypes
    <3>3. (remaining' < Floor) \in BOOLEAN
      OBVIOUS
    <3>4. lane' \in {lane, remaining' < Floor}
      BY <1>3 DEF LaneTypes
    <3>5. lane' \in BOOLEAN
      BY <3>1, <3>3, <3>4
    <3>6. QED
      BY <1>0, <3>1, <3>2, <3>5
  <2>3. UNCHANGED <<archive, issues, running, jobs, tripped, worker, chan, open, tally>>
    BY <1>3 DEF LaneTypes
  <2>4. Shapes'
    BY <1>0, <2>1, <2>3, ShapesKept
  <2>5. QED
    BY <2>1, <2>2, <2>3, <2>4, Typing DEF archive, Types
<1>4. CASE WriterFails
  <2>1. Shapes'
    BY <1>0, <1>4, ShapesKept DEF WriterFails
  <2>2. /\ writer' = "failed" /\ open' = FALSE /\ chan' = <<>> /\ lane' = FALSE
        /\ untyped' = 0 /\ begun' = starved /\ tally' = [r \in Repos |-> NoTally]
        /\ UNCHANGED <<synced, starved, issues, running, jobs, tripped, remaining, worker>>
    BY <1>4 DEF WriterFails
  <2>3. tally' \in [Repos -> TallyState] /\ chan' \in Seq(Messages) /\ Len(chan') <= ChanCap
        /\ untyped' \in 0..MaxUntyped
    BY <1>0, <2>2, NothingTyped
  <2>4. QED
    BY <2>1, <2>2, <2>3, Typing DEF Types
<1>5. QED
  BY <1>1, <1>2, <1>3, <1>4

LEMMA BaseInit == Init => TypeOK /\ Shapes
<1> SUFFICES ASSUME Init PROVE TypeOK /\ Shapes
  OBVIOUS
<1>1. /\ synced = {} /\ starved = [k \in Keys |-> 0] /\ begun = starved /\ issues = {}
      /\ running = FALSE /\ jobs = <<>> /\ tripped = FALSE /\ remaining = Budget
      /\ worker = [k \in Workers |-> Gone] /\ chan = <<>> /\ open = FALSE /\ writer = "off"
      /\ tally = [r \in Repos |-> NoTally] /\ lane = FALSE /\ untyped = 0
  BY DEF Init
<1>2. /\ 0 \in 0..MaxStarved /\ remaining \in 0..Budget /\ untyped \in 0..MaxUntyped
      /\ remaining \in Nat
  BY <1>1, PipelineAssumption
<1>3. starved \in [Keys -> 0..MaxStarved]
  BY <1>1, <1>2
<1>4. Shapes
  BY <1>1, <1>2, SoundStates DEF Shapes
<1>5. QED
  BY <1>1, <1>2, <1>3, <1>4, NothingTyped, Typing DEF Types

LEMMA BaseReaped ==
  ASSUME TypeOK, Reaped
  PROVE  TypeOK' /\ Shapes'
<1>1. /\ running' = FALSE /\ writer' = "off" /\ open' = FALSE /\ chan' = <<>> /\ jobs' = <<>>
      /\ tripped' = FALSE /\ lane' = FALSE /\ worker' = [k \in Workers |-> Gone]
      /\ tally' = [r \in Repos |-> NoTally] /\ begun' = starved /\ remaining' = Budget
      /\ untyped' = 0 /\ issues' = {} /\ synced' = synced /\ starved' = starved
  BY DEF Reaped
<1>2. remaining' \in 0..Budget /\ untyped' \in 0..MaxUntyped /\ remaining' \in Nat
  BY <1>1, PipelineAssumption
<1>3. Shapes'
  BY <1>1, <1>2, SoundStates DEF Shapes
<1>4. QED
  BY <1>1, <1>2, <1>3, NothingTyped, Typing DEF Types

LEMMA BaseStart ==
  ASSUME TypeOK, Start
  PROVE  TypeOK' /\ Shapes'
<1>1. /\ running' = TRUE /\ writer' = "recv" /\ open' = TRUE /\ issues' \in SUBSET Projects
      /\ jobs' \in Orders /\ remaining' \in 0..Budget /\ worker' = [k \in Workers |-> Idle]
      /\ UNCHANGED <<archive, tripped, chan, tally, lane, untyped>>
  BY DEF Start
<1>2. Orders \subseteq Seq(Repos)
  <2>1. Cardinality(Repos) \in Nat
    BY FS_CardinalityType, PipelineAssumption
  <2>2. QED
    BY <2>1 DEF Orders
<1>3. Shapes'
  BY <1>1, IdleTyped, SoundStates, PipelineAssumption DEF Shapes
<1>4. QED
  BY <1>1, <1>2, <1>3, NothingTyped, Typing, PipelineAssumption DEF Types, archive

LEMMA BaseStep ==
  ASSUME TypeOK, Shapes, [Next]_vars
  PROVE  TypeOK' /\ Shapes'
<1>1. ASSUME NEW k \in Workers, WorkerStep(k)
      PROVE  TypeOK' /\ Shapes'
  <2>1. CASE Trip(k)
    BY <2>1, BaseStop DEF Trip
  <2>2. CASE Refused(k) \/ Broken(k)
    BY <2>2, BaseStop DEF Refused, Broken
  <2>3. QED
    BY <1>1, <2>1, <2>2, BaseTake, BaseCall, BaseAnswer, BaseGiveUp, BaseWindow, BaseFinish,
       BaseClose DEF WorkerStep
<1>2. CASE Spend
  <2>1. remaining \in 0..Budget /\ remaining' = remaining - 1 /\ remaining' \in 0..Budget
        /\ remaining' <= remaining
    BY <1>2, Typing, PipelineAssumption DEF Spend, Types
  <2>2. UNCHANGED <<archive, issues, running, jobs, tripped, worker, chan, receiving>>
    BY <1>2 DEF Spend
  <2>3. open' = open
    BY <2>2 DEF receiving
  <2>4. Shapes'
    BY <2>1, <2>2, <2>3, ShapesKept, PipelineAssumption
  <2>5. QED
    BY <2>1, <2>2, <2>4, Typing DEF archive, receiving, Types
<1>3. CASE UNCHANGED vars
  <2>1. UNCHANGED <<synced, starved, issues, running, jobs, tripped, remaining, worker,
                    chan, open, writer, tally, lane, untyped, begun>>
    BY <1>3 DEF vars
  <2>2. Shapes'
    BY <2>1 DEF Shapes
  <2>3. QED
    BY <2>1, <2>2, Typing DEF Types
<1>4. CASE WriterStep
  BY <1>4, BaseReceive, BaseWriter DEF WriterStep
<1>5. CASE Start \/ Kill \/ Return
  BY <1>5, BaseStart, BaseReaped DEF Kill, Return
<1>6. QED
  BY <1>1, <1>2, <1>3, <1>4, <1>5 DEF Next

(* Every variable has its type, for any repositories, workers and limits:    *)
(* with it, that a worker asks only inside a repository and has messages to  *)
(* send exactly while it leaves one (sync.rs worker, sync_repo).             *)
THEOREM TypeCorrect == Spec => [](TypeOK /\ Shapes)
<1>1. Init => TypeOK /\ Shapes
  BY BaseInit
<1>2. TypeOK /\ Shapes /\ [Next]_vars => (TypeOK /\ Shapes)'
  BY BaseStep
<1>3. QED
  BY <1>1, <1>2, PTL DEF Spec

(* The floor is soft by one gated unit per repository, for any budget and    *)
(* floor, whatever other clients of the token spend meanwhile (sync.rs       *)
(* budget gate; gh.rs RateExhausted).                                        *)
THEOREM FloorNeverCrossed == Spec => []FloorHolds
<1>1. Shapes => FloorHolds
  BY DEF Shapes, Sound, FloorHolds
<1>2. QED
  BY <1>1, TypeCorrect, PTL

-----------------------------------------------------------------------------
(* Sequences of messages.                                                   *)
In(x, s) == \E i \in DOMAIN s : s[i] = x
Distinct(s) == \A i, j \in DOMAIN s : s[i] = s[j] => i = j

\* What may follow a message about the same repository.
Follows(m, n) ==
  \/ m.kind = "done"
  \/ m.kind # "stats" /\ n.kind = "stats"
  \/ m.kind = "deferred" /\ n.kind = "deferred" /\ m.stream # n.stream

Ordered(s) ==
  \A i, j \in DOMAIN s : i < j /\ s[i].repo = s[j].repo => Follows(s[i], s[j])

LEMMA Appended ==
  ASSUME NEW S, NEW s \in Seq(S), NEW y \in S
  PROVE  /\ \A x : In(x, Append(s, y)) <=> In(x, s) \/ x = y
         /\ (Ordered(s) /\ \A x \in S : In(x, s) /\ x.repo = y.repo => Follows(x, y))
              => Ordered(Append(s, y))
<1> DEFINE a == Append(s, y)
<1>1. /\ Len(s) \in Nat /\ DOMAIN s = 1..Len(s) /\ DOMAIN a = 1..(Len(s) + 1)
      /\ a[Len(s) + 1] = y /\ \A i \in DOMAIN s : s[i] \in S /\ a[i] = s[i]
  OBVIOUS
<1> HIDE DEF a
<1>2. ASSUME NEW x PROVE In(x, a) <=> In(x, s) \/ x = y
  <2>1. ASSUME In(x, a) PROVE In(x, s) \/ x = y
    <3>1. PICK i \in DOMAIN a : a[i] = x
      BY <2>1 DEF In
    <3>2. CASE i = Len(s) + 1
      BY <1>1, <3>1, <3>2
    <3>3. CASE i # Len(s) + 1
      <4>1. i \in DOMAIN s
        BY <1>1, <3>1, <3>3
      <4>2. QED
        BY <1>1, <3>1, <4>1 DEF In
    <3>4. QED
      BY <3>2, <3>3
  <2>2. ASSUME In(x, s) PROVE In(x, a)
    <3>1. PICK i \in DOMAIN s : s[i] = x
      BY <2>2 DEF In
    <3>2. i \in DOMAIN a /\ a[i] = x
      BY <1>1, <3>1
    <3>3. QED
      BY <3>2 DEF In
  <2>3. In(y, a)
    <3>1. Len(s) + 1 \in DOMAIN a
      BY <1>1
    <3>2. QED
      BY <1>1, <3>1 DEF In
  <2>4. QED
    BY <2>1, <2>2, <2>3
<1>3. ASSUME Ordered(s), \A x \in S : In(x, s) /\ x.repo = y.repo => Follows(x, y),
             NEW i \in DOMAIN a, NEW j \in DOMAIN a, i < j, a[i].repo = a[j].repo
      PROVE  Follows(a[i], a[j])
  <2>1. i \in DOMAIN s /\ a[i] = s[i] /\ s[i] \in S
    BY <1>1, <1>3
  <2>2. CASE j = Len(s) + 1
    <3>1. In(s[i], s)
      BY <2>1 DEF In
    <3>2. QED
      BY <1>1, <1>3, <2>1, <2>2, <3>1
  <2>3. CASE j # Len(s) + 1
    <3>1. j \in DOMAIN s /\ a[j] = s[j]
      BY <1>1, <2>3
    <3>2. QED
      BY <1>3, <2>1, <3>1 DEF Ordered
  <2>4. QED
    BY <2>2, <2>3
<1>4. QED
  BY <1>2, <1>3 DEF a, Ordered

LEMMA Dropped ==
  ASSUME NEW S, NEW s \in Seq(S), s # <<>>
  PROVE  /\ \A x : In(x, s) <=> x = Head(s) \/ In(x, Tail(s))
         /\ Ordered(s) => /\ Ordered(Tail(s))
                          /\ \A x : In(x, Tail(s)) /\ x.repo = Head(s).repo => Follows(Head(s), x)
         /\ Distinct(s) => Distinct(Tail(s)) /\ ~In(Head(s), Tail(s))
<1> DEFINE t == Tail(s)
           h == Head(s)
<1>1. /\ Len(s) \in Nat \ {0} /\ DOMAIN s = 1..Len(s) /\ DOMAIN t = 1..(Len(s) - 1)
      /\ h = s[1] /\ \A i \in DOMAIN t : t[i] = s[i + 1]
  OBVIOUS
<1> HIDE DEF t, h
<1>2. 1 \in DOMAIN s /\ \A i \in DOMAIN t : i + 1 \in DOMAIN s /\ 1 < i + 1
  BY <1>1
<1>3. ASSUME NEW x PROVE In(x, s) <=> x = h \/ In(x, t)
  <2>1. ASSUME In(x, s) PROVE x = h \/ In(x, t)
    <3>1. PICK i \in DOMAIN s : s[i] = x
      BY <2>1 DEF In
    <3>2. CASE i = 1
      BY <1>1, <3>1, <3>2
    <3>3. CASE i # 1
      <4>1. i - 1 \in DOMAIN t /\ t[i - 1] = s[i]
        BY <1>1, <3>1, <3>3
      <4>2. QED
        BY <3>1, <4>1 DEF In
    <3>4. QED
      BY <3>2, <3>3
  <2>2. ASSUME In(x, t) PROVE In(x, s)
    <3>1. PICK i \in DOMAIN t : t[i] = x
      BY <2>2 DEF In
    <3>2. s[i + 1] = x
      BY <1>1, <3>1
    <3>3. QED
      BY <1>2, <3>2 DEF In
  <2>3. In(h, s)
    BY <1>1, <1>2 DEF In
  <2>4. QED
    BY <2>1, <2>2, <2>3
<1>4. ASSUME Ordered(s)
      PROVE  Ordered(t) /\ \A x : In(x, t) /\ x.repo = h.repo => Follows(h, x)
  <2>1. ASSUME NEW i \in DOMAIN t, NEW j \in DOMAIN t, i < j, t[i].repo = t[j].repo
        PROVE  Follows(t[i], t[j])
    <3>1. i + 1 < j + 1
      BY <1>1, <2>1
    <3>2. QED
      BY <1>1, <1>2, <1>4, <2>1, <3>1 DEF Ordered
  <2>2. ASSUME NEW x, In(x, t), x.repo = h.repo PROVE Follows(h, x)
    <3>1. PICK i \in DOMAIN t : t[i] = x
      BY <2>2 DEF In
    <3>2. QED
      BY <1>1, <1>2, <1>4, <2>2, <3>1 DEF Ordered
  <2>3. QED
    BY <2>1, <2>2 DEF Ordered
<1>5. ASSUME Distinct(s)
      PROVE  Distinct(t) /\ ~In(h, t)
  <2>1. ASSUME NEW i \in DOMAIN t, NEW j \in DOMAIN t, t[i] = t[j] PROVE i = j
    <3>1. i + 1 = j + 1
      BY <1>1, <1>2, <1>5, <2>1 DEF Distinct
    <3>2. QED
      BY <1>1, <2>1, <3>1
  <2>2. ASSUME NEW i \in DOMAIN t, t[i] = h PROVE FALSE
    <3>1. 1 = i + 1
      BY <1>1, <1>2, <1>5, <2>2 DEF Distinct
    <3>2. QED
      BY <1>1, <2>2, <3>1
  <2>3. QED
    BY <2>1, <2>2 DEF Distinct, In
<1>6. QED
  BY <1>3, <1>4, <1>5 DEF t, h

LEMMA InEmpty == \A x : ~In(x, <<>>)
BY DEF In

-----------------------------------------------------------------------------
(* Where a repository is during a run: in the job list, with one worker, or *)
(* in what that worker has sent of it.  What a worker has decided of it is  *)
(* the writer's tally and the messages still on their way together, so that *)
(* neither sending one nor applying one changes it.                         *)
Pending(m) == In(m, chan) \/ \E k \in Workers : In(m, worker[k].outbox)
Queued(r) == In(r, jobs)
Walks(k, r) == worker[k].pc = "walk" /\ worker[k].repo = r
Closes(k, r) == \E m \in Messages : In(m, worker[k].outbox) /\ m.repo = r
Owns(k, r) == Walks(k, r) \/ Closes(k, r)

Completed(r, s) ==
  \/ s \in tally[r].done
  \/ \E m \in Messages : /\ Pending(m) /\ m.repo = r
                         /\ m.kind = "done" /\ m.completes /\ m.stream = s
Denied(r, s) ==
  \/ s \in tally[r].deferred
  \/ \E m \in Messages : Pending(m) /\ m.repo = r /\ m.kind = "deferred" /\ m.stream = s
Broke(r) ==
  \/ tally[r].failed
  \/ \E m \in Messages : Pending(m) /\ m.repo = r /\ m.kind = "failed"
Halted(r) ==
  \/ tally[r].halted
  \/ \E m \in Messages : Pending(m) /\ m.repo = r /\ m.kind = "done" /\ m.halt

(* What a repository's tally still lets arrive. *)
Allows(t, m) ==
  /\ t.stats = 0
  /\ t.failed => m.kind = "stats"
  /\ t.deferred # {} => m.kind = "stats" \/ (m.kind = "deferred" /\ m.stream \notin t.deferred)

(* The messages about a repository keep their order in the channel, and the  *)
(* stats come last.                                                          *)
Lines ==
  /\ Ordered(chan)
  /\ \A k \in Workers :
       LET out == worker[k].outbox IN
       /\ Ordered(out)
       /\ \A m, n \in Messages : In(m, out) /\ In(n, out) => m.repo = n.repo
       /\ out # <<>> => \E m \in Messages : In(m, out) /\ m.kind = "stats"
       /\ \A m, n \in Messages : In(m, chan) /\ In(n, out) /\ m.repo = n.repo => Follows(m, n)

Tallies ==
  /\ \A r \in Repos : ~tally[r].late /\ tally[r].stats <= 1
  /\ \A m \in Messages : Pending(m) => Allows(tally[m.repo], m)

Places ==
  /\ Distinct(jobs)
  /\ \A r \in Repos : Queued(r) =>
       /\ tally[r] = NoTally
       /\ \A m \in Messages : Pending(m) => m.repo # r
       /\ \A k \in Workers : ~Walks(k, r)
  /\ \A r \in Repos, k, l \in Workers : Owns(k, r) /\ Owns(l, r) => k = l
  /\ \A r \in Repos, k \in Workers : Walks(k, r) =>
       /\ tally[r].stats = 0 /\ ~tally[r].failed /\ tally[r].deferred = {}
       /\ \A m \in Messages : Pending(m) /\ m.repo = r => m.kind = "done"
  /\ \A r \in Repos :
       \/ Queued(r) \/ \E k \in Workers : Owns(k, r)
       \/ \E m \in Messages : In(m, chan) /\ m.repo = r /\ m.kind = "stats"
       \/ tally[r].stats = 1

(* Only configured streams are spoken of, and a failure speaks of them all. *)
Proper(m) ==
  /\ m.kind \in {"done", "deferred"} => m.stream \in Configured(m.repo)
  /\ m.kind = "failed" => m.streams = Configured(m.repo)

Addressed ==
  /\ \A r \in Repos : tally[r].done \subseteq Configured(r)
  /\ \A m \in Messages : Pending(m) => Proper(m)

(* A walk that reached a stage has completed the streams before it, or has   *)
(* disclosed a halt.                                                         *)
Reached(w, r) ==
  /\ w.stage = "issue" => r \in issues
  /\ w.stage = "maint" => ~w.halted
  /\ w.halted => Halted(r)
  /\ ~w.halted /\ w.stage = "issue" => Completed(r, "pr")
  /\ ~w.halted /\ w.stage = "maint" => \A s \in Configured(r) : Completed(r, s)

Progress == \A k \in Workers, r \in Repos : Walks(k, r) => Reached(worker[k], r)

Settled(r) ==
  \/ (\A s \in Streams : Denied(r, s) <=> s \in Configured(r)) /\ ~Broke(r)
  \/ /\ \A s \in Streams : ~Denied(r, s)
     /\ Broke(r) \/ Halted(r) \/ \A s \in Configured(r) : Completed(r, s)

Outcomes ==
  \A r \in Repos : Queued(r) \/ (\E k \in Workers : Walks(k, r)) \/ Settled(r)

Accounting == Lines /\ Tallies /\ Places /\ Addressed /\ Progress /\ Outcomes

-----------------------------------------------------------------------------
(* A worker's step, seen from the accounting.  While worker k walks r, what  *)
(* it sends (fresh) or has still to send (out) is about r, in order.         *)
WalkStep(k, r, w, fresh) ==
  /\ worker' = [worker EXCEPT ![k] = w]
  /\ UNCHANGED <<jobs, tally, issues>>
  /\ Ordered(chan')
  /\ \A m \in Messages : In(m, chan') <=> In(m, chan) \/ m \in fresh
  /\ \A m \in fresh : m.kind = "done" /\ m.repo = r /\ Proper(m)
  /\ Ordered(w.outbox)
  /\ \A m \in Messages : In(m, w.outbox) => m.repo = r /\ Proper(m)
  /\ \/ w.pc = "walk" /\ w.repo = r /\ w.outbox = <<>>
     \/ w.pc = "end" /\ \E m \in Messages : In(m, w.outbox) /\ m.kind = "stats"

LEMMA WalkFrame ==
  ASSUME TypeOK, NEW k \in Workers, NEW r \in Repos, NEW w \in WorkerState,
         NEW fresh \in SUBSET Messages,
         worker[k].outbox = <<>>, WalkStep(k, r, w, fresh)
  PROVE  /\ worker'[k] = w /\ \A l \in Workers \ {k} : worker'[l] = worker[l]
         /\ \A m \in Messages : Pending(m)' <=> Pending(m) \/ m \in fresh \/ In(m, w.outbox)
<1>1. worker'[k] = w /\ \A l \in Workers \ {k} : worker'[l] = worker[l]
  BY Typing DEF WalkStep, Types
<1>2. ASSUME NEW m \in Messages
      PROVE  Pending(m)' <=> Pending(m) \/ m \in fresh \/ In(m, w.outbox)
  <2>1. In(m, chan') <=> In(m, chan) \/ m \in fresh
    BY DEF WalkStep
  <2>2. (\E l \in Workers : In(m, worker'[l].outbox))
          <=> In(m, w.outbox) \/ \E l \in Workers : In(m, worker[l].outbox)
    <3>1. ~In(m, worker[k].outbox)
      BY InEmpty
    <3>2. \A l \in Workers \ {k} : In(m, worker'[l].outbox) <=> In(m, worker[l].outbox)
      BY <1>1
    <3>3. In(m, worker'[k].outbox) <=> In(m, w.outbox)
      BY <1>1
    <3>4. QED
      BY <3>1, <3>2, <3>3
  <2>3. Pending(m)' <=> In(m, chan') \/ \E l \in Workers : In(m, worker'[l].outbox)
    BY DEF Pending, In
  <2>4. QED
    BY <2>1, <2>2, <2>3 DEF Pending
<1>3. QED
  BY <1>1, <1>2

LEMMA WalkLines ==
  ASSUME TypeOK, Accounting, NEW k \in Workers, NEW r \in Repos, NEW w \in WorkerState,
         NEW fresh \in SUBSET Messages,
         worker[k].outbox = <<>>, Walks(k, r), WalkStep(k, r, w, fresh)
  PROVE  Lines'
<1>1. /\ worker'[k] = w /\ \A l \in Workers \ {k} : worker'[l] = worker[l]
      /\ \A m \in Messages : Pending(m)' <=> Pending(m) \/ m \in fresh \/ In(m, w.outbox)
  BY WalkFrame
<1>2. /\ \A m \in Messages : Pending(m) /\ m.repo = r => m.kind = "done"
      /\ \A l \in Workers : Owns(l, r) => l = k
  BY DEF Accounting, Places, Owns
<1>3. /\ Ordered(chan') /\ Ordered(w.outbox)
      /\ \A m \in Messages : In(m, chan') <=> In(m, chan) \/ m \in fresh
      /\ \A m \in fresh : m.kind = "done" /\ m.repo = r
      /\ \A m \in Messages : In(m, w.outbox) => m.repo = r
      /\ w.outbox # <<>> => \E m \in Messages : In(m, w.outbox) /\ m.kind = "stats"
  BY DEF WalkStep
<1>4. ASSUME NEW l \in Workers \ {k}
      PROVE  LET out == worker'[l].outbox IN
             /\ Ordered(out)
             /\ \A m, n \in Messages : In(m, out) /\ In(n, out) => m.repo = n.repo
             /\ out # <<>> => \E m \in Messages : In(m, out) /\ m.kind = "stats"
             /\ \A m, n \in Messages : In(m, chan') /\ In(n, out) /\ m.repo = n.repo => Follows(m, n)
  <2> DEFINE out == worker[l].outbox
  <2>1. /\ Ordered(out)
        /\ \A m, n \in Messages : In(m, out) /\ In(n, out) => m.repo = n.repo
        /\ out # <<>> => \E m \in Messages : In(m, out) /\ m.kind = "stats"
        /\ \A m, n \in Messages : In(m, chan) /\ In(n, out) /\ m.repo = n.repo => Follows(m, n)
        /\ worker'[l].outbox = out
    BY <1>1 DEF Accounting, Lines
  <2>2. \A n \in Messages : In(n, out) => n.repo # r
    BY <1>2 DEF Owns, Closes
  <2> HIDE DEF out
  <2>3. \A m, n \in Messages : In(m, chan') /\ In(n, out) /\ m.repo = n.repo => Follows(m, n)
    BY <1>3, <2>1, <2>2
  <2>4. QED
    BY <2>1, <2>3
<1>5. \A m, n \in Messages : In(m, chan') /\ In(n, w.outbox) /\ m.repo = n.repo => Follows(m, n)
  <2>1. ASSUME NEW m \in Messages, In(m, chan'), m.repo = r PROVE m.kind = "done"
    BY <1>2, <1>3, <2>1 DEF Pending
  <2>2. QED
    BY <1>3, <2>1 DEF Follows
<1>6. LET out == worker'[k].outbox IN
      /\ Ordered(out)
      /\ \A m, n \in Messages : In(m, out) /\ In(n, out) => m.repo = n.repo
      /\ out # <<>> => \E m \in Messages : In(m, out) /\ m.kind = "stats"
      /\ \A m, n \in Messages : In(m, chan') /\ In(n, out) /\ m.repo = n.repo => Follows(m, n)
  BY <1>1, <1>3, <1>5
<1>7. QED
  BY <1>3, <1>4, <1>6 DEF Lines, Ordered, In, Follows

LEMMA WalkTallies ==
  ASSUME TypeOK, Accounting, NEW k \in Workers, NEW r \in Repos, NEW w \in WorkerState,
         NEW fresh \in SUBSET Messages,
         worker[k].outbox = <<>>, Walks(k, r), WalkStep(k, r, w, fresh)
  PROVE  Tallies'
<1>1. \A m \in Messages : Pending(m)' <=> Pending(m) \/ m \in fresh \/ In(m, w.outbox)
  BY WalkFrame
<1>2. /\ tally' = tally
      /\ \A m \in Messages : m \in fresh \/ In(m, w.outbox) => m.repo = r
  BY DEF WalkStep
<1>3. tally[r].stats = 0 /\ ~tally[r].failed /\ tally[r].deferred = {}
  BY DEF Accounting, Places
<1>4. \A m \in Messages : m.repo = r => Allows(tally[r], m)
  BY <1>3 DEF Allows
<1>5. \A m \in Messages : Pending(m)' => Allows(tally[m.repo], m)
  BY <1>1, <1>2, <1>4 DEF Accounting, Tallies
<1>6. \A m \in Messages : Allows(tally[m.repo], m)' <=> Allows(tally[m.repo], m)
  BY <1>2 DEF Allows
<1>7. QED
  BY <1>2, <1>5, <1>6 DEF Accounting, Tallies, Allows

LEMMA WalkPlaces ==
  ASSUME TypeOK, Accounting, NEW k \in Workers, NEW r \in Repos, NEW w \in WorkerState,
         NEW fresh \in SUBSET Messages,
         worker[k].outbox = <<>>, Walks(k, r), WalkStep(k, r, w, fresh)
  PROVE  Places'
<1>1. /\ worker'[k] = w /\ \A l \in Workers \ {k} : worker'[l] = worker[l]
      /\ \A m \in Messages : Pending(m)' <=> Pending(m) \/ m \in fresh \/ In(m, w.outbox)
  BY WalkFrame
<1>2. /\ tally' = tally /\ jobs' = jobs
      /\ \A m \in Messages : In(m, chan') <=> In(m, chan) \/ m \in fresh
      /\ \A m \in fresh : m.kind = "done" /\ m.repo = r
      /\ \A m \in Messages : In(m, w.outbox) => m.repo = r
      /\ \/ w.pc = "walk" /\ w.repo = r /\ w.outbox = <<>>
         \/ w.pc = "end" /\ \E m \in Messages : In(m, w.outbox) /\ m.kind = "stats"
  BY DEF WalkStep
<1>3. Places
  BY DEF Accounting
<1>4. \A q \in Repos : Queued(q)' <=> Queued(q)
  BY <1>2 DEF Queued, In
<1>5. \A l \in Workers \ {k}, q \in Repos :
        (Walks(l, q)' <=> Walks(l, q)) /\ (Closes(l, q)' <=> Closes(l, q))
  BY <1>1 DEF Walks, Closes, In
<1>6. \A q \in Repos : (Walks(k, q)' => q = r /\ w.outbox = <<>>) /\ (Closes(k, q)' => q = r)
  BY <1>1, <1>2 DEF Walks, Closes, In
<1>7. Walks(k, r)' \/ Closes(k, r)'
  <2>1. CASE w.pc = "walk" /\ w.repo = r
    BY <1>1, <2>1 DEF Walks
  <2>2. CASE \E m \in Messages : In(m, w.outbox) /\ m.kind = "stats"
    BY <1>1, <1>2, <2>2 DEF Closes, In
  <2>3. QED
    BY <1>2, <2>1, <2>2
<1>8. ASSUME NEW q \in Repos, Queued(q)'
      PROVE  /\ tally'[q] = NoTally
             /\ \A m \in Messages : Pending(m)' => m.repo # q
             /\ \A l \in Workers : ~Walks(l, q)'
  <2>1. Queued(q) /\ q # r
    BY <1>3, <1>4, <1>8 DEF Places
  <2>2. QED
    BY <1>1, <1>2, <1>3, <1>5, <1>6, <2>1 DEF Places
<1>9. \A q \in Repos, l \in Workers : Owns(l, q)' => Owns(l, q)
  BY <1>5, <1>6 DEF Owns
<1>10. \A q \in Repos, l, j \in Workers : Owns(l, q)' /\ Owns(j, q)' => l = j
  BY <1>3, <1>9 DEF Places
<1>11. ASSUME NEW q \in Repos, NEW l \in Workers, Walks(l, q)'
       PROVE  /\ tally'[q].stats = 0 /\ ~tally'[q].failed /\ tally'[q].deferred = {}
              /\ \A m \in Messages : Pending(m)' /\ m.repo = q => m.kind = "done"
  <2>1. Walks(l, q)
    BY <1>5, <1>6, <1>11
  <2>2. /\ tally[q].stats = 0 /\ ~tally[q].failed /\ tally[q].deferred = {}
        /\ \A m \in Messages : Pending(m) /\ m.repo = q => m.kind = "done"
    BY <1>3, <2>1 DEF Places
  <2>3. q = r => w.outbox = <<>>
    <3>1. q = r => l = k
      BY <1>3, <2>1 DEF Places, Owns
    <3>2. QED
      BY <1>6, <1>11, <3>1
  <2>4. QED
    BY <1>1, <1>2, <2>2, <2>3, InEmpty
<1>12. ASSUME NEW q \in Repos
       PROVE  \/ Queued(q)' \/ \E l \in Workers : Owns(l, q)'
              \/ \E m \in Messages : In(m, chan') /\ m.repo = q /\ m.kind = "stats"
              \/ tally'[q].stats = 1
  <2>1. CASE q = r
    BY <1>7, <2>1 DEF Owns
  <2>2. CASE q # r
    <3>1. \A l \in Workers : Owns(l, q) => Owns(l, q)'
      <4>1. ~Owns(k, q)
        BY <2>2, InEmpty DEF Owns, Walks, Closes
      <4>2. QED
        BY <1>5, <4>1 DEF Owns
    <3>2. QED
      BY <1>2, <1>3, <1>4, <3>1 DEF Places
  <2>3. QED
    BY <2>1, <2>2
<1>13. Distinct(jobs)'
  BY <1>2, <1>3 DEF Places, Distinct
<1>14. QED
  BY <1>8, <1>10, <1>11, <1>12, <1>13 DEF Places, In

LEMMA WalkAddressed ==
  ASSUME TypeOK, Accounting, NEW k \in Workers, NEW r \in Repos, NEW w \in WorkerState,
         NEW fresh \in SUBSET Messages,
         worker[k].outbox = <<>>, Walks(k, r), WalkStep(k, r, w, fresh)
  PROVE  Addressed'
<1>1. \A m \in Messages : Pending(m)' <=> Pending(m) \/ m \in fresh \/ In(m, w.outbox)
  BY WalkFrame
<1>2. /\ tally' = tally /\ issues' = issues
      /\ \A m \in Messages : m \in fresh \/ In(m, w.outbox) => Proper(m)
  BY DEF WalkStep
<1>3. (\A q : Configured(q)' = Configured(q)) /\ \A m : Proper(m)' <=> Proper(m)
  BY <1>2 DEF Configured, Proper
<1>4. QED
  BY <1>1, <1>2, <1>3 DEF Accounting, Addressed

LEMMA WalkFates ==
  ASSUME TypeOK, Accounting, NEW k \in Workers, NEW r \in Repos, NEW w \in WorkerState,
         NEW fresh \in SUBSET Messages,
         worker[k].outbox = <<>>, Walks(k, r), WalkStep(k, r, w, fresh)
  PROVE  /\ \A q \in Repos : q # r =>
              /\ \A s \in Streams : /\ Completed(q, s)' <=> Completed(q, s)
                                    /\ Denied(q, s)' <=> Denied(q, s)
              /\ Broke(q)' <=> Broke(q)
              /\ Halted(q)' <=> Halted(q)
         /\ \A s \in Streams : Completed(r, s) => Completed(r, s)'
         /\ Halted(r) => Halted(r)'
         /\ \A m \in fresh : (m.completes => Completed(r, m.stream)') /\ (m.halt => Halted(r)')
         /\ \A s \in Streams : Denied(r, s)' <=>
              \E m \in Messages : In(m, w.outbox) /\ m.kind = "deferred" /\ m.stream = s
         /\ Broke(r)' <=> \E m \in Messages : In(m, w.outbox) /\ m.kind = "failed"
<1>1. \A m \in Messages : Pending(m)' <=> Pending(m) \/ m \in fresh \/ In(m, w.outbox)
  BY WalkFrame
<1>2. /\ tally' = tally
      /\ \A m \in fresh : m.kind = "done" /\ m.repo = r
      /\ \A m \in Messages : In(m, w.outbox) => m.repo = r
  BY DEF WalkStep
<1>3. /\ ~tally[r].failed /\ tally[r].deferred = {}
      /\ \A m \in Messages : Pending(m) /\ m.repo = r => m.kind = "done"
  BY DEF Accounting, Places
<1>4. ASSUME NEW q \in Repos, q # r
      PROVE  /\ \A s \in Streams : /\ Completed(q, s)' <=> Completed(q, s)
                                   /\ Denied(q, s)' <=> Denied(q, s)
             /\ Broke(q)' <=> Broke(q)
             /\ Halted(q)' <=> Halted(q)
  <2>1. \A m \in Messages : m.repo = q => (Pending(m)' <=> Pending(m))
    BY <1>1, <1>2, <1>4
  <2>2. QED
    BY <1>2, <2>1 DEF Completed, Denied, Broke, Halted
<1>5. \A s \in Streams : Completed(r, s) => Completed(r, s)'
  BY <1>1, <1>2 DEF Completed
<1>6. Halted(r) => Halted(r)'
  BY <1>1, <1>2 DEF Halted
<1>7. \A m \in fresh : (m.completes => Completed(r, m.stream)') /\ (m.halt => Halted(r)')
  BY <1>1, <1>2 DEF Completed, Halted
<1>8. \A m \in Messages : Pending(m)' /\ m.repo = r /\ m.kind # "done" <=>
                          In(m, w.outbox) /\ m.kind # "done"
  BY <1>1, <1>2, <1>3
<1>9. \A s \in Streams : Denied(r, s)' <=>
              \E m \in Messages : In(m, w.outbox) /\ m.kind = "deferred" /\ m.stream = s
  BY <1>2, <1>3, <1>8 DEF Denied
<1>10. Broke(r)' <=> \E m \in Messages : In(m, w.outbox) /\ m.kind = "failed"
  BY <1>2, <1>3, <1>8 DEF Broke
<1>11. QED
  BY <1>4, <1>5, <1>6, <1>7, <1>9, <1>10

LEMMA WalkAccounting ==
  ASSUME TypeOK, Accounting, NEW k \in Workers, NEW r \in Repos, NEW w \in WorkerState,
         NEW fresh \in SUBSET Messages,
         worker[k].outbox = <<>>, Walks(k, r), WalkStep(k, r, w, fresh),
         w.pc = "walk" => Reached(w, r)', w.pc = "end" => Settled(r)'
  PROVE  Accounting'
<1>1. /\ worker'[k] = w /\ \A l \in Workers \ {k} : worker'[l] = worker[l]
  BY WalkFrame
<1>2. /\ (w.pc = "walk" /\ w.repo = r) \/ w.pc = "end"
      /\ UNCHANGED <<jobs, issues>>
  BY DEF WalkStep
<1>3. /\ \A q \in Repos : q # r =>
              /\ \A s \in Streams : /\ Completed(q, s)' <=> Completed(q, s)
                                    /\ Denied(q, s)' <=> Denied(q, s)
              /\ Broke(q)' <=> Broke(q)
              /\ Halted(q)' <=> Halted(q)
  BY WalkFates
<1>4. \A q \in Repos : Configured(q)' = Configured(q) /\ Configured(q) \subseteq Streams
  BY <1>2 DEF Configured, Streams
<1>5. ASSUME NEW l \in Workers, NEW q \in Repos, Walks(l, q)' PROVE Reached(worker[l], q)'
  <2>1. CASE l = k
    <3>1. q = r /\ w.pc = "walk" /\ worker'[l] = w
      BY <1>1, <1>2, <1>5, <2>1 DEF Walks
    <3>2. QED
      BY <3>1 DEF Reached
  <2>2. CASE l # k
    <3>1. worker'[l] = worker[l] /\ Walks(l, q)
      BY <1>1, <1>5, <2>2 DEF Walks
    <3>2. q # r
      BY <2>2, <3>1 DEF Accounting, Places, Owns
    <3>3. Reached(worker[l], q)
      BY <3>1 DEF Accounting, Progress
    <3>4. QED
      BY <1>2, <1>3, <1>4, <3>1, <3>2, <3>3 DEF Reached, Streams
  <2>3. QED
    BY <2>1, <2>2
<1>6. ASSUME NEW q \in Repos
      PROVE  Queued(q)' \/ (\E l \in Workers : Walks(l, q)') \/ Settled(q)'
  <2>1. CASE q = r
    BY <1>1, <1>2, <2>1 DEF Walks
  <2>2. CASE q # r
    <3>1. Queued(q) \/ (\E l \in Workers : Walks(l, q)) \/ Settled(q)
      BY DEF Accounting, Outcomes
    <3>2. CASE Queued(q)
      BY <1>2, <3>2 DEF Queued, In
    <3>3. ASSUME NEW l \in Workers, Walks(l, q) PROVE Walks(l, q)'
      <4>1. l # k
        BY <2>2, <3>3 DEF Walks
      <4>2. QED
        BY <1>1, <3>3, <4>1 DEF Walks
    <3>4. CASE Settled(q)
      BY <1>3, <1>4, <2>2, <3>4 DEF Settled
    <3>5. QED
      BY <3>1, <3>2, <3>3, <3>4
  <2>3. QED
    BY <2>1, <2>2
<1>7. Lines' /\ Tallies' /\ Places' /\ Addressed'
  BY WalkLines, WalkTallies, WalkPlaces, WalkAddressed
<1>8. Progress' /\ Outcomes'
  BY <1>5, <1>6 DEF Progress, Outcomes
<1>9. QED
  BY <1>7, <1>8 DEF Accounting

-----------------------------------------------------------------------------
(* The four ways a repository's closing messages read.                      *)
LEMMA Listed ==
  /\ \A a, x : In(x, <<a>>) <=> x = a
  /\ \A a, b, x : In(x, <<a, b>>) <=> x = a \/ x = b
<1>1. ASSUME NEW a, NEW x PROVE In(x, <<a>>) <=> x = a
  <2>1. DOMAIN <<a>> = {1} /\ <<a>>[1] = a
    OBVIOUS
  <2>2. QED
    BY <2>1 DEF In
<1>2. ASSUME NEW a, NEW b, NEW x PROVE In(x, <<a, b>>) <=> x = a \/ x = b
  <2>1. DOMAIN <<a, b>> = {1, 2} /\ <<a, b>>[1] = a /\ <<a, b>>[2] = b
    OBVIOUS
  <2>2. QED
    BY <2>1 DEF In
<1>3. QED
  BY <1>1, <1>2

\* Messages about r before its stats, each properly addressed.
Opening(r, messages) ==
  /\ messages \in Seq(Messages) /\ Ordered(messages)
  /\ \A m \in Messages : In(m, messages) => m.repo = r /\ m.kind # "stats" /\ Proper(m)

\* The same with its stats.
Sealing(r, messages, out) ==
  /\ out \in Seq(Messages) /\ Ordered(out)
  /\ \A m \in Messages : In(m, out) => m.repo = r /\ Proper(m)
  /\ \E m \in Messages : In(m, out) /\ m.kind = "stats"
  /\ \A m \in Messages : m.kind # "stats" => (In(m, out) <=> In(m, messages))

LEMMA Sealed ==
  ASSUME NEW r \in Repos, NEW b \in BOOLEAN, NEW messages, Opening(r, messages)
  PROVE  Sealing(r, messages, Append(messages, Stats(r, b)))
<1> DEFINE st == Stats(r, b)
           out == Append(messages, st)
<1>1. st \in Messages /\ st.repo = r /\ st.kind = "stats" /\ messages \in Seq(Messages)
  BY Letters DEF Stats, Opening
<1>2. Proper(st)
  BY <1>1 DEF Proper
<1> HIDE DEF st
<1>3. \A x : In(x, out) <=> In(x, messages) \/ x = st
  BY <1>1, Appended
<1>4. Ordered(out)
  <2>1. \A x \in Messages : In(x, messages) /\ x.repo = st.repo => Follows(x, st)
    BY <1>1 DEF Opening, Follows
  <2>2. QED
    BY <1>1, <2>1, Appended DEF Opening
<1>5. out \in Seq(Messages)
  BY <1>1
<1> HIDE DEF out
<1>6. QED
  BY <1>1, <1>2, <1>3, <1>4, <1>5 DEF Opening, Sealing, out, st

LEMMA DeferralsOpen ==
  ASSUME NEW r \in Repos
  PROVE  /\ Opening(r, Deferrals(r))
         /\ \A m \in Messages : In(m, Deferrals(r)) => m.kind = "deferred"
         /\ \A s \in Streams : s \in Configured(r) <=>
              \E m \in Messages : In(m, Deferrals(r)) /\ m.stream = s
<1> DEFINE p == Deferred(r, "pr")
           i == Deferred(r, "issue")
           d == Deferrals(r)
<1>1. /\ p \in Messages /\ i \in Messages /\ d \in Seq(Messages)
  BY Letters DEF Streams
<1>2. /\ p.kind = "deferred" /\ p.repo = r /\ p.stream = "pr"
      /\ i.kind = "deferred" /\ i.repo = r /\ i.stream = "issue"
  BY DEF Deferred
<1>3. CASE r \in issues
  <2>1. d = <<p, i>> /\ Configured(r) = {"pr", "issue"}
    BY <1>3 DEF Deferrals, Configured, Streams
  <2> HIDE DEF p, i, d
  <2>2. \A x : In(x, d) <=> x = p \/ x = i
    BY <2>1, Listed
  <2>3. Ordered(d)
    <3>1. DOMAIN d = {1, 2} /\ d[1] = p /\ d[2] = i
      BY <2>1
    <3>2. Follows(p, i)
      BY <1>2 DEF Follows
    <3>3. QED
      BY <3>1, <3>2 DEF Ordered
  <2>4. Proper(p) /\ Proper(i)
    BY <1>2, <2>1 DEF Proper
  <2>5. Opening(r, d)
    BY <1>1, <1>2, <2>2, <2>3, <2>4 DEF Opening
  <2>6. QED
    BY <1>1, <1>2, <2>1, <2>2, <2>5 DEF d, Streams
<1>4. CASE r \notin issues
  <2>1. d = <<p>> /\ Configured(r) = {"pr"}
    BY <1>4 DEF Deferrals, Configured
  <2> HIDE DEF p, i, d
  <2>2. \A x : In(x, d) <=> x = p
    BY <2>1, Listed
  <2>3. Ordered(d)
    <3>1. DOMAIN d = {1}
      BY <2>1
    <3>2. QED
      BY <3>1 DEF Ordered
  <2>4. Proper(p)
    BY <1>2, <2>1 DEF Proper
  <2>5. Opening(r, d)
    BY <1>1, <1>2, <2>2, <2>3, <2>4 DEF Opening
  <2>6. QED
    BY <1>1, <1>2, <2>1, <2>2, <2>5 DEF d, Streams
<1>5. QED
  BY <1>3, <1>4

LEMMA SinglesOpen ==
  ASSUME NEW r \in Repos
  PROVE  /\ Opening(r, <<Failed(r, Configured(r))>>)
         /\ \A x : In(x, <<Failed(r, Configured(r))>>) => x.kind = "failed"
         /\ \E m \in Messages : In(m, <<Failed(r, Configured(r))>>) /\ m.kind = "failed"
         /\ Opening(r, <<Retries(r)>>)
         /\ \A x : In(x, <<Retries(r)>>) => x.kind = "retries"
         /\ Opening(r, <<>>)
<1> DEFINE f == Failed(r, Configured(r))
           e == Retries(r)
<1>1. f \in Messages /\ e \in Messages
  BY Letters
<1>2. f.kind = "failed" /\ f.repo = r /\ f.streams = Configured(r) /\ e.kind = "retries" /\ e.repo = r
  BY DEF Failed, Retries
<1> HIDE DEF f, e
<1>3. Proper(f) /\ Proper(e)
  BY <1>2 DEF Proper
<1>4. \A a : Ordered(<<a>>)
  <2> TAKE a
  <2>1. DOMAIN <<a>> = {1}
    OBVIOUS
  <2>2. QED
    BY <2>1 DEF Ordered
<1>5. Ordered(<<>>)
  BY DEF Ordered
<1>6. Opening(r, <<f>>)
  BY <1>1, <1>2, <1>3, <1>4, Listed DEF Opening
<1>7. Opening(r, <<e>>)
  BY <1>1, <1>2, <1>3, <1>4, Listed DEF Opening
<1>8. Opening(r, <<>>)
  BY <1>5, InEmpty DEF Opening
<1>9. QED
  BY <1>1, <1>2, <1>6, <1>7, <1>8, Listed DEF f, e

-----------------------------------------------------------------------------
(* The worker's actions keep the accounting, while somebody listens.        *)
LEMMA QuietStep ==
  ASSUME TypeOK, Shapes, Accounting, NEW k \in Workers, NEW r \in Repos, Walks(k, r),
         NEW v \in WorkerState, Keeps(k, v),
         v.pc = "walk", v.repo = r, v.stage = worker[k].stage, v.halted = worker[k].halted,
         v.outbox = <<>>, UNCHANGED <<jobs, tally, issues, chan>>
  PROVE  Accounting'
<1>1. worker[k].outbox = <<>>
  BY DEF Walks, Shapes, Sound
<1>2. WalkStep(k, r, v, {})
  <2>1. Ordered(chan') /\ Ordered(v.outbox)
    BY DEF Accounting, Lines, Ordered
  <2>2. \A m \in Messages : In(m, chan') <=> In(m, chan)
    BY DEF In
  <2>3. QED
    BY <2>1, <2>2, InEmpty DEF WalkStep, Keeps
<1>3. Reached(worker[k], r)
  BY DEF Accounting, Progress
<1>4. Reached(v, r)'
  <2>1. Halted(r) => Halted(r)'
    BY <1>1, <1>2, WalkFates
  <2>2. \A s \in Streams : Completed(r, s) => Completed(r, s)'
    BY <1>1, <1>2, WalkFates
  <2>3. Configured(r)' = Configured(r) /\ Configured(r) \subseteq Streams /\ "pr" \in Streams
    BY DEF Configured, Streams
  <2>4. QED
    BY <1>3, <2>1, <2>2, <2>3 DEF Reached
<1>5. QED
  BY <1>1, <1>2, <1>4, WalkAccounting

\* The reason a worker leaves r, and that it settles r.
Leaves(k, r, messages) ==
  \/ messages = Deferrals(r)
  \/ messages = <<Failed(r, Configured(r))>>
  \/ messages \in {<<>>, <<Retries(r)>>} /\ worker[k].stage = "maint"

LEMMA LeaveStep ==
  ASSUME TypeOK, Shapes, Accounting, NEW k \in Workers, NEW r \in Repos, Walks(k, r),
         NEW v \in WorkerState, Keeps(k, v), v.pc = "end",
         NEW messages, Sealing(r, messages, v.outbox),
         Leaves(k, r, messages), UNCHANGED <<jobs, tally, issues, chan>>
  PROVE  Accounting'
<1>1. worker[k].outbox = <<>>
  BY DEF Walks, Shapes, Sound
<1>3. /\ Ordered(v.outbox)
      /\ \A m \in Messages : In(m, v.outbox) => m.repo = r /\ Proper(m)
      /\ \E m \in Messages : In(m, v.outbox) /\ m.kind = "stats"
      /\ \A m \in Messages : m.kind # "stats" => (In(m, v.outbox) <=> In(m, messages))
  BY DEF Sealing
<1>4. WalkStep(k, r, v, {})
  <2>1. Ordered(chan')
    BY DEF Accounting, Lines, Ordered
  <2>2. \A m \in Messages : In(m, chan') <=> In(m, chan)
    BY DEF In
  <2>3. QED
    BY <1>3, <2>1, <2>2 DEF WalkStep, Keeps
<1>5. /\ \A s \in Streams : Completed(r, s) => Completed(r, s)'
      /\ \A s \in Streams : Denied(r, s)' <=>
              \E m \in Messages : In(m, v.outbox) /\ m.kind = "deferred" /\ m.stream = s
      /\ Broke(r)' <=> \E m \in Messages : In(m, v.outbox) /\ m.kind = "failed"
  <2>1. \A s \in Streams : Completed(r, s) => Completed(r, s)'
    BY <1>1, <1>4, WalkFates
  <2>2. \A s \in Streams : Denied(r, s)' <=>
              \E m \in Messages : In(m, v.outbox) /\ m.kind = "deferred" /\ m.stream = s
    BY <1>1, <1>4, WalkFates
  <2>3. Broke(r)' <=> \E m \in Messages : In(m, v.outbox) /\ m.kind = "failed"
    BY <1>1, <1>4, WalkFates
  <2>4. QED
    BY <2>1, <2>2, <2>3
<1>6. Configured(r)' = Configured(r) /\ Configured(r) \subseteq Streams
  BY DEF Configured, Streams
<1>7. Settled(r)'
  <2>1. CASE messages = Deferrals(r)
    <3>1. ~Broke(r)'
      BY <1>3, <1>5, <2>1, DeferralsOpen
    <3>2. \A s \in Streams : Denied(r, s)' <=> s \in Configured(r)
      BY <1>3, <1>5, <2>1, DeferralsOpen
    <3>3. QED
      BY <1>6, <3>1, <3>2 DEF Settled
  <2>2. CASE messages = <<Failed(r, Configured(r))>>
    <3>1. Broke(r)' /\ \A s \in Streams : ~Denied(r, s)'
      BY <1>3, <1>5, <2>2, SinglesOpen
    <3>2. QED
      BY <3>1 DEF Settled
  <2>3. CASE messages \in {<<>>, <<Retries(r)>>} /\ worker[k].stage = "maint"
    <3>1. \A s \in Streams : ~Denied(r, s)'
      <4>1. \A m \in Messages : In(m, messages) => m.kind = "retries"
        BY <2>3, SinglesOpen, InEmpty
      <4>2. QED
        BY <1>3, <1>5, <4>1
    <3>2. \A s \in Configured(r) : Completed(r, s)
      BY <2>3 DEF Accounting, Progress, Reached
    <3>3. QED
      BY <1>5, <1>6, <3>1, <3>2 DEF Settled
  <2>4. QED
    BY <2>1, <2>2, <2>3 DEF Leaves
<1>8. QED
  BY <1>1, <1>4, <1>7, WalkAccounting

\* A window's Done, then the next stage, the same one, or the end.
LEMMA WindowStep ==
  ASSUME TypeOK, Shapes, Accounting, NEW k \in Workers, NEW r \in Repos, Walks(k, r),
         NEW v \in WorkerState, Keeps(k, v), NEW d \in Messages, chan' = Append(chan, d),
         d.kind = "done", d.repo = r, d.stream \in Configured(r),
         UNCHANGED <<jobs, tally, issues>>,
         \/ v.pc = "walk" /\ v.repo = r /\ v.outbox = <<>>
         \/ v.pc = "end" /\ Sealing(r, <<>>, v.outbox),
         v.pc = "end" => d.halt \/ worker[k].halted,
         v.halted => d.halt \/ worker[k].halted,
         v.stage = "issue" => r \in issues,
         v.stage = "maint" => ~v.halted,
         v.pc = "walk" /\ ~v.halted =>
           \/ v.stage = worker[k].stage /\ ~worker[k].halted
           \/ v.stage = "pr"
           \/ /\ v.stage = Following(r, worker[k].stage) /\ ~worker[k].halted
              /\ worker[k].stage # "backfill"
              /\ d.completes /\ d.stream = StreamOf(worker[k].stage)
  PROVE  Accounting'
<1>1. worker[k].outbox = <<>>
  BY DEF Walks, Shapes, Sound
<1>2. chan \in Seq(Messages) /\ worker[k] \in WorkerState
  BY Typing DEF Types
<1>3. \A x : In(x, chan') <=> In(x, chan) \/ x = d
  BY <1>2, Appended
<1>4. Ordered(chan')
  <2>1. \A x \in Messages : In(x, chan) /\ x.repo = d.repo => Follows(x, d)
    BY DEF Accounting, Places, Pending, Follows
  <2>2. QED
    BY <1>2, <2>1, Appended DEF Accounting, Lines
<1>5. Proper(d)
  BY DEF Proper
<1>7. /\ Ordered(v.outbox)
      /\ \A m \in Messages : In(m, v.outbox) => m.repo = r /\ Proper(m) /\ m.kind = "stats"
      /\ v.pc = "end" => \E m \in Messages : In(m, v.outbox) /\ m.kind = "stats"
  <2>1. CASE v.pc = "walk" /\ v.outbox = <<>>
    BY <2>1, InEmpty DEF Ordered
  <2>2. CASE Sealing(r, <<>>, v.outbox)
    <3>1. \A m \in Messages : In(m, v.outbox) => m.kind = "stats"
      BY <2>2, InEmpty DEF Sealing
    <3>2. QED
      BY <2>2, <3>1 DEF Sealing
  <2>3. QED
    BY <2>1, <2>2
<1>8. WalkStep(k, r, v, {d})
  BY <1>3, <1>4, <1>5, <1>7 DEF WalkStep, Keeps
<1>9. /\ \A s \in Streams : Completed(r, s) => Completed(r, s)'
      /\ Halted(r) => Halted(r)'
      /\ (d.completes => Completed(r, d.stream)') /\ (d.halt => Halted(r)')
      /\ \A s \in Streams : Denied(r, s)' <=>
              \E m \in Messages : In(m, v.outbox) /\ m.kind = "deferred" /\ m.stream = s
      /\ Broke(r)' <=> \E m \in Messages : In(m, v.outbox) /\ m.kind = "failed"
  BY <1>1, <1>8, WalkFates
<1>10. Configured(r)' = Configured(r) /\ Configured(r) \subseteq Streams /\ "pr" \in Streams
       /\ Configured(r) = IF r \in issues THEN Streams ELSE {"pr"}
  BY DEF Configured, Streams
<1>11. Reached(worker[k], r)
  BY DEF Accounting, Progress
<1>12. v.halted \/ v.pc = "end" => Halted(r)'
  BY <1>9, <1>11 DEF Reached
<1>13. CASE v.pc = "end"
  <2>1. \A s \in Streams : ~Denied(r, s)'
    BY <1>7, <1>9
  <2>2. Settled(r)'
    BY <1>12, <1>13, <2>1 DEF Settled
  <2>3. QED
    BY <1>1, <1>8, <1>13, <2>2, WalkAccounting
<1>14. CASE v.pc = "walk"
  <2>1. ASSUME ~v.halted, v.stage = "issue" PROVE Completed(r, "pr")'
    <3>1. CASE v.stage = worker[k].stage /\ ~worker[k].halted
      BY <1>9, <1>10, <1>11, <2>1, <3>1 DEF Reached
    <3>2. CASE /\ v.stage = Following(r, worker[k].stage) /\ worker[k].stage # "backfill"
               /\ d.completes /\ d.stream = StreamOf(worker[k].stage)
      <4>1. worker[k].stage = "pr"
        BY <2>1, <3>2 DEF Following
      <4>2. QED
        BY <1>9, <3>2, <4>1 DEF StreamOf
    <3>3. QED
      BY <1>14, <2>1, <3>1, <3>2
  <2>2. ASSUME ~v.halted, v.stage = "maint", NEW s \in Configured(r) PROVE Completed(r, s)'
    <3>1. CASE v.stage = worker[k].stage /\ ~worker[k].halted
      BY <1>9, <1>10, <1>11, <2>2, <3>1 DEF Reached
    <3>2. CASE /\ v.stage = Following(r, worker[k].stage) /\ worker[k].stage # "backfill"
               /\ ~worker[k].halted
               /\ d.completes /\ d.stream = StreamOf(worker[k].stage)
      <4>1. worker[k].stage \in {"pr", "issue", "maint"}
        BY <1>2, <3>2 DEF WorkerState
      <4>2. CASE worker[k].stage = "pr"
        <5>1. r \notin issues
          BY <2>2, <3>2, <4>2 DEF Following
        <5>2. QED
          BY <1>9, <1>10, <2>2, <3>2, <4>2, <5>1 DEF StreamOf
      <4>3. CASE worker[k].stage = "issue"
        BY <1>9, <1>10, <1>11, <2>2, <3>2, <4>3 DEF StreamOf, Reached, Streams
      <4>4. CASE worker[k].stage = "maint"
        BY <1>9, <1>10, <1>11, <2>2, <3>2, <4>4 DEF Reached
      <4>5. QED
        BY <4>1, <4>2, <4>3, <4>4
    <3>3. QED
      BY <1>14, <2>2, <3>1, <3>2
  <2>3. Reached(v, r)'
    BY <1>10, <1>12, <2>1, <2>2 DEF Reached
  <2>4. QED
    BY <1>1, <1>8, <1>14, <2>3, WalkAccounting
<1>15. QED
  BY <1>13, <1>14

\* A repository leaves the job list, to be walked or to be deferred.
LEMMA TakeStep ==
  ASSUME TypeOK, Shapes, Accounting, NEW k \in Workers, worker[k].pc = "free",
         jobs # <<>>, NEW r \in Repos, r = Head(jobs), jobs' = Tail(jobs),
         NEW v \in WorkerState, Keeps(k, v), UNCHANGED <<tally, issues, chan>>,
         \/ /\ v.pc = "walk" /\ v.repo = r /\ v.outbox = <<>>
            /\ v.stage \in {"backfill", "pr"} /\ ~v.halted
         \/ v.pc = "skip" /\ Sealing(r, Deferrals(r), v.outbox)
  PROVE  Accounting'
<1>1. /\ worker[k].outbox = <<>> /\ jobs \in Seq(Repos)
      /\ worker'[k] = v /\ \A l \in Workers \ {k} : worker'[l] = worker[l]
  BY Typing DEF Shapes, Sound, Keeps, Types
<1>2. /\ Queued(r) /\ \A q \in Repos : Queued(q)' <=> Queued(q) /\ q # r
      /\ Distinct(jobs)'
  <2>1. /\ \A x : In(x, jobs) <=> x = Head(jobs) \/ In(x, Tail(jobs))
        /\ Distinct(Tail(jobs)) /\ ~In(Head(jobs), Tail(jobs))
    BY <1>1, Dropped DEF Accounting, Places
  <2>2. Distinct(jobs') /\ \A x : In(x, jobs) <=> x = r \/ In(x, jobs')
    BY <2>1
  <2>3. ~In(r, jobs')
    BY <2>1
  <2>4. QED
    BY <2>2, <2>3 DEF Queued, In, Distinct
<1>3. /\ tally[r] = NoTally /\ \A m \in Messages : Pending(m) => m.repo # r
      /\ \A l \in Workers : ~Walks(l, r)
  BY <1>2 DEF Accounting, Places
<1>4. /\ Ordered(v.outbox) /\ \A m \in Messages : In(m, v.outbox) => m.repo = r /\ Proper(m)
      /\ v.pc = "skip" =>
           /\ \E m \in Messages : In(m, v.outbox) /\ m.kind = "stats"
           /\ \A m \in Messages : m.kind # "stats" => (In(m, v.outbox) <=> In(m, Deferrals(r)))
      /\ v.outbox # <<>> => v.pc = "skip"
  BY InEmpty DEF Sealing, Ordered
<1>5. v.pc \in {"walk", "skip"} /\ (v.pc = "walk" => v.repo = r /\ v.outbox = <<>>)
  OBVIOUS
<1>6. \A m \in Messages : Pending(m)' <=> Pending(m) \/ In(m, v.outbox)
  <2>1. ASSUME NEW m \in Messages PROVE Pending(m)' <=> Pending(m) \/ In(m, v.outbox)
    <3>1. Pending(m)' <=> In(m, chan) \/ \E l \in Workers : In(m, worker'[l].outbox)
      BY DEF Pending, In
    <3>2. \A l \in Workers \ {k} : In(m, worker'[l].outbox) <=> In(m, worker[l].outbox)
      BY <1>1
    <3>3. (In(m, worker'[k].outbox) <=> In(m, v.outbox)) /\ ~In(m, worker[k].outbox)
      BY <1>1, InEmpty
    <3>4. QED
      BY <3>1, <3>2, <3>3 DEF Pending
  <2>2. QED
    BY <2>1
<1>7. Lines'
  <2>1. ASSUME NEW l \in Workers
        PROVE  LET out == worker'[l].outbox IN
               /\ Ordered(out)
               /\ \A m, n \in Messages : In(m, out) /\ In(n, out) => m.repo = n.repo
               /\ out # <<>> => \E m \in Messages : In(m, out) /\ m.kind = "stats"
               /\ \A m, n \in Messages : In(m, chan) /\ In(n, out) /\ m.repo = n.repo => Follows(m, n)
    <3>1. CASE l = k
      <4>1. \A m \in Messages : In(m, chan) => m.repo # r
        BY <1>3 DEF Pending
      <4>2. QED
        BY <1>1, <1>4, <3>1, <4>1
    <3>2. CASE l # k
      BY <1>1, <3>2 DEF Accounting, Lines
    <3>3. QED
      BY <3>1, <3>2
  <2>2. QED
    BY <2>1 DEF Accounting, Lines, Ordered, In, Follows
<1>8. Tallies'
  <2>1. \A m \in Messages : m.repo = r => Allows(tally[r], m)
    BY <1>3 DEF Allows, NoTally
  <2>2. \A m \in Messages : Pending(m)' => Allows(tally[m.repo], m)
    BY <1>4, <1>6, <2>1 DEF Accounting, Tallies
  <2>3. \A m \in Messages : Allows(tally[m.repo], m)' <=> Allows(tally[m.repo], m)
    BY DEF Allows
  <2>4. QED
    BY <2>2, <2>3 DEF Accounting, Tallies
<1>9. \A l \in Workers \ {k}, q \in Repos :
        (Walks(l, q)' <=> Walks(l, q)) /\ (Closes(l, q)' <=> Closes(l, q))
  BY <1>1 DEF Walks, Closes, In
<1>10. \A q \in Repos : /\ Walks(k, q)' => q = r /\ v.outbox = <<>>
                        /\ Closes(k, q)' => q = r
                        /\ ~Owns(k, q)
  BY <1>1, <1>4, <1>5, InEmpty DEF Walks, Closes, In, Owns
<1>11. Walks(k, r)' \/ Closes(k, r)'
  <2>1. CASE v.pc = "walk"
    BY <1>1, <1>5, <2>1 DEF Walks
  <2>2. CASE v.pc = "skip"
    BY <1>1, <1>4, <2>2 DEF Closes, In
  <2>3. QED
    BY <1>5, <2>1, <2>2
<1>12. \A l \in Workers : ~Owns(l, r)
  BY <1>3 DEF Owns, Closes, Pending
<1>13. Places'
  <2>1. ASSUME NEW q \in Repos, Queued(q)'
        PROVE  /\ tally'[q] = NoTally
               /\ \A m \in Messages : Pending(m)' => m.repo # q
               /\ \A l \in Workers : ~Walks(l, q)'
    <3>1. Queued(q) /\ q # r
      BY <1>2, <2>1
    <3>2. QED
      BY <1>4, <1>6, <1>9, <1>10, <3>1 DEF Accounting, Places
  <2>2. \A q \in Repos, l, j \in Workers : Owns(l, q)' /\ Owns(j, q)' => l = j
    <3>1. ASSUME NEW q \in Repos, NEW l \in Workers, Owns(l, q)'
          PROVE  (l = k /\ q = r) \/ (l # k /\ Owns(l, q))
      <4>1. CASE l = k
        BY <1>10, <3>1, <4>1 DEF Owns
      <4>2. CASE l # k
        BY <1>9, <3>1, <4>2 DEF Owns
      <4>3. QED
        BY <4>1, <4>2
    <3>2. QED
      BY <1>12, <3>1 DEF Accounting, Places
  <2>3. ASSUME NEW q \in Repos, NEW l \in Workers, Walks(l, q)'
        PROVE  /\ tally'[q].stats = 0 /\ ~tally'[q].failed /\ tally'[q].deferred = {}
               /\ \A m \in Messages : Pending(m)' /\ m.repo = q => m.kind = "done"
    <3>1. CASE l = k
      <4>1. q = r /\ v.outbox = <<>>
        BY <1>10, <2>3, <3>1
      <4>2. QED
        BY <1>3, <1>6, <4>1, InEmpty DEF NoTally
    <3>2. CASE l # k
      <4>1. Walks(l, q) /\ q # r
        BY <1>3, <1>9, <2>3, <3>2
      <4>2. QED
        BY <1>4, <1>6, <4>1 DEF Accounting, Places
    <3>3. QED
      BY <3>1, <3>2
  <2>4. ASSUME NEW q \in Repos
        PROVE  \/ Queued(q)' \/ \E l \in Workers : Owns(l, q)'
               \/ \E m \in Messages : In(m, chan) /\ m.repo = q /\ m.kind = "stats"
               \/ tally'[q].stats = 1
    <3>1. CASE q = r
      BY <1>11, <3>1 DEF Owns
    <3>2. CASE q # r
      <4>1. \A l \in Workers : Owns(l, q) => Owns(l, q)'
        BY <1>9, <1>10 DEF Owns
      <4>2. QED
        BY <1>2, <3>2, <4>1 DEF Accounting, Places
    <3>3. QED
      BY <3>1, <3>2
  <2>5. QED
    BY <1>2, <2>1, <2>2, <2>3, <2>4 DEF Places, In
<1>14. (\A q : Configured(q)' = Configured(q)) /\ (\A m : Proper(m)' <=> Proper(m))
       /\ \A q : Configured(q) \subseteq Streams
  BY DEF Configured, Proper, Streams
<1>15. Addressed'
  BY <1>4, <1>6, <1>14 DEF Accounting, Addressed
<1>16. ASSUME NEW q \in Repos, q # r
       PROVE  /\ \A s \in Streams : /\ Completed(q, s)' <=> Completed(q, s)
                                    /\ Denied(q, s)' <=> Denied(q, s)
              /\ Broke(q)' <=> Broke(q)
              /\ Halted(q)' <=> Halted(q)
  <2>1. \A m \in Messages : m.repo = q => (Pending(m)' <=> Pending(m))
    BY <1>4, <1>6, <1>16
  <2>2. QED
    BY <2>1 DEF Completed, Denied, Broke, Halted
<1>17. Progress'
  <2>1. ASSUME NEW l \in Workers, NEW q \in Repos, Walks(l, q)' PROVE Reached(worker[l], q)'
    <3>1. CASE l = k
      <4>1. v.stage \in {"backfill", "pr"} /\ ~v.halted
        BY <1>1, <2>1, <3>1 DEF Walks
      <4>2. QED
        BY <1>1, <3>1, <4>1 DEF Reached
    <3>2. CASE l # k
      <4>1. Walks(l, q) /\ q # r /\ worker'[l] = worker[l]
        BY <1>1, <1>3, <1>9, <2>1, <3>2
      <4>2. Reached(worker[l], q)
        BY <4>1 DEF Accounting, Progress
      <4>3. QED
        BY <1>14, <1>16, <4>1, <4>2 DEF Reached, Streams
    <3>3. QED
      BY <3>1, <3>2
  <2>2. QED
    BY <2>1 DEF Progress
<1>18. Outcomes'
  <2>1. ASSUME NEW q \in Repos
        PROVE  Queued(q)' \/ (\E l \in Workers : Walks(l, q)') \/ Settled(q)'
    <3>1. CASE q = r /\ v.pc = "walk"
      BY <1>1, <1>5, <3>1 DEF Walks
    <3>2. CASE q = r /\ v.pc = "skip"
      <4>1. \A m \in Messages : m.repo = r => (Pending(m)' <=> In(m, v.outbox))
        BY <1>3, <1>6
      <4>2. ~Broke(r)'
        BY <1>3, <1>4, <3>2, <4>1, DeferralsOpen DEF Broke, NoTally
      <4>3. \A s \in Streams : Denied(r, s)' <=> s \in Configured(r)
        <5>1. \A m \in Messages : In(m, Deferrals(r)) => m.kind = "deferred" /\ In(m, v.outbox)
          BY <1>4, <3>2, DeferralsOpen
        <5>2. \A m \in Messages : m.repo = r /\ m.kind = "deferred" =>
                (Pending(m)' <=> In(m, Deferrals(r)))
          BY <1>4, <3>2, <4>1
        <5>3. \A m \in Messages : In(m, Deferrals(r)) => m.repo = r
          BY DeferralsOpen DEF Opening
        <5>4. \A s \in Streams : s \in Configured(r) <=>
                \E m \in Messages : In(m, Deferrals(r)) /\ m.stream = s
          BY DeferralsOpen
        <5>5. tally'[r].deferred = {}
          BY <1>3 DEF NoTally
        <5>6. QED
          BY <5>1, <5>2, <5>3, <5>4, <5>5 DEF Denied
      <4>4. QED
        BY <1>14, <3>2, <4>2, <4>3 DEF Settled
    <3>3. CASE q # r
      <4>1. Queued(q) \/ (\E l \in Workers : Walks(l, q)) \/ Settled(q)
        BY DEF Accounting, Outcomes
      <4>2. ASSUME NEW l \in Workers, Walks(l, q) PROVE Walks(l, q)'
        BY <1>9, <1>10, <4>2 DEF Owns
      <4>3. Settled(q) => Settled(q)'
        BY <1>14, <1>16, <3>3 DEF Settled
      <4>4. QED
        BY <1>2, <3>3, <4>1, <4>2, <4>3
    <3>4. QED
      BY <1>5, <3>1, <3>2, <3>3
  <2>2. QED
    BY <2>1 DEF Outcomes
<1>19. QED
  BY <1>7, <1>8, <1>13, <1>15, <1>17, <1>18 DEF Accounting

\* A closing message moves from its worker to the channel: nothing of what is
\* known of its repository changes.
LEMMA CloseStep ==
  ASSUME TypeOK, Shapes, Accounting, NEW k \in Workers, worker[k].outbox # <<>>,
         NEW h \in Messages, h = Head(worker[k].outbox),
         NEW v \in WorkerState, Keeps(k, v), v.outbox = Tail(worker[k].outbox), v.pc # "walk",
         chan' = Append(chan, h), UNCHANGED <<tally, issues, jobs>>
  PROVE  Accounting'
<1> DEFINE out == worker[k].outbox
           q == h.repo
<1>1. /\ out \in Seq(Messages) /\ chan \in Seq(Messages) /\ worker[k].pc # "walk" /\ q \in Repos
      /\ worker'[k] = v /\ \A l \in Workers \ {k} : worker'[l] = worker[l]
  <2>1. worker[k] \in WorkerState /\ worker \in [Workers -> WorkerState] /\ chan \in Seq(Messages)
    BY Typing DEF Types
  <2>2. worker[k].pc # "walk"
    BY DEF Shapes, Sound
  <2>3. QED
    BY <2>1, <2>2, Carries DEF Keeps, WorkerState
<1>2. /\ \A x : In(x, out) <=> x = h \/ In(x, v.outbox)
      /\ Ordered(v.outbox) /\ \A x : In(x, v.outbox) /\ x.repo = q => Follows(h, x)
  BY <1>1, Dropped DEF Accounting, Lines
<1>3. \A x : In(x, chan') <=> In(x, chan) \/ x = h
  BY <1>1, Appended
<1>4. /\ Ordered(out) /\ \A m \in Messages : In(m, out) => m.repo = q
      /\ \E m \in Messages : In(m, out) /\ m.kind = "stats"
      /\ \A m \in Messages : In(m, chan) /\ m.repo = q => Follows(m, h)
  <2>1. In(h, out)
    BY <1>2
  <2>2. QED
    BY <2>1 DEF Accounting, Lines
<1>5. Ordered(chan')
  BY <1>1, <1>4, Appended DEF Accounting, Lines
<1> HIDE DEF out, q
<1>6. \A m \in Messages : In(m, worker[k].outbox) <=> m = h \/ In(m, worker'[k].outbox)
  BY <1>1, <1>2 DEF out
<1>7. ASSUME NEW m \in Messages PROVE Pending(m)' <=> Pending(m)
  <2>1. Pending(m)' <=> In(m, chan') \/ \E l \in Workers : In(m, worker'[l].outbox)
    BY DEF Pending, In
  <2>2. \A l \in Workers \ {k} : In(m, worker'[l].outbox) <=> In(m, worker[l].outbox)
    BY <1>1
  <2>3. QED
    BY <1>3, <1>6, <2>1, <2>2 DEF Pending
<1>8. \A l \in Workers, r \in Repos : (Walks(l, r)' <=> Walks(l, r)) /\ (Closes(l, r)' => Closes(l, r))
                                      /\ (l # k => (Closes(l, r)' <=> Closes(l, r)))
  <2>1. ASSUME NEW l \in Workers, l # k, NEW r \in Repos
        PROVE  (Walks(l, r)' <=> Walks(l, r)) /\ (Closes(l, r)' <=> Closes(l, r))
    BY <1>1, <2>1 DEF Walks, Closes, In
  <2>2. ASSUME NEW r \in Repos PROVE ~Walks(k, r)' /\ ~Walks(k, r) /\ (Closes(k, r)' => Closes(k, r))
    <3>1. ~Walks(k, r)' /\ ~Walks(k, r)
      BY <1>1 DEF Walks
    <3>2. Closes(k, r)' <=> \E m \in Messages : In(m, worker'[k].outbox) /\ m.repo = r
      BY DEF Closes, In
    <3>3. QED
      BY <1>6, <3>1, <3>2 DEF Closes
  <2>3. QED
    BY <2>1, <2>2
<1>9. \A r \in Repos : Queued(r)' <=> Queued(r)
  BY DEF Queued, In
<1>10. /\ \A r \in Repos : /\ \A s \in Streams : /\ Completed(r, s)' <=> Completed(r, s)
                                                 /\ Denied(r, s)' <=> Denied(r, s)
                           /\ Broke(r)' <=> Broke(r)
                           /\ Halted(r)' <=> Halted(r)
  BY <1>7 DEF Completed, Denied, Broke, Halted
<1>11. (\A r : Configured(r)' = Configured(r)) /\ (\A m : Proper(m)' <=> Proper(m))
       /\ \A r : Configured(r) \subseteq Streams
  BY DEF Configured, Proper, Streams
<1>12. Closes(k, q)
  BY <1>2, <1>1 DEF Closes, out, q
<1>13. Lines'
  <2>1. ASSUME NEW l \in Workers
        PROVE  LET o == worker'[l].outbox IN
               /\ Ordered(o)
               /\ \A m, n \in Messages : In(m, o) /\ In(n, o) => m.repo = n.repo
               /\ o # <<>> => \E m \in Messages : In(m, o) /\ m.kind = "stats"
               /\ \A m, n \in Messages : In(m, chan') /\ In(n, o) /\ m.repo = n.repo => Follows(m, n)
    <3>1. CASE l = k
      <4>1. \A m, n \in Messages : In(m, v.outbox) /\ In(n, v.outbox) => m.repo = n.repo
        BY <1>2, <1>4
      <4>2. v.outbox # <<>> => \E m \in Messages : In(m, v.outbox) /\ m.kind = "stats"
        <5>1. ASSUME v.outbox # <<>>, h.kind = "stats" PROVE FALSE
          <6>1. v.outbox \in Seq(Messages)
            BY DEF WorkerState
          <6>2. In(Head(v.outbox), v.outbox) /\ Head(v.outbox) \in Messages
            BY <5>1, <6>1, Dropped, Leftover
          <6>3. Head(v.outbox).repo = q
            BY <1>2, <1>4, <6>2
          <6>4. Follows(h, Head(v.outbox))
            BY <1>2, <6>2, <6>3
          <6>5. QED
            BY <5>1, <6>4 DEF Follows
        <5>2. QED
          BY <1>2, <1>4, <5>1
      <4>3. \A m, n \in Messages : In(m, chan') /\ In(n, v.outbox) /\ m.repo = n.repo => Follows(m, n)
        <5>1. \A m, n \in Messages : In(m, chan) /\ In(n, out) /\ m.repo = n.repo => Follows(m, n)
          BY DEF Accounting, Lines, out
        <5>2. QED
          BY <1>2, <1>3, <5>1 DEF q
      <4>4. QED
        BY <1>1, <1>2, <3>1, <4>1, <4>2, <4>3
    <3>2. CASE l # k
      <4>1. \A m \in Messages : In(m, worker[l].outbox) => m.repo # q
        BY <1>1, <1>12, <3>2 DEF Accounting, Places, Owns, Closes
      <4>2. worker'[l].outbox = worker[l].outbox
        BY <1>1, <3>2
      <4>3. /\ Ordered(worker[l].outbox)
            /\ \A m, n \in Messages : In(m, worker[l].outbox) /\ In(n, worker[l].outbox) => m.repo = n.repo
            /\ worker[l].outbox # <<>> => \E m \in Messages : In(m, worker[l].outbox) /\ m.kind = "stats"
            /\ \A m, n \in Messages : In(m, chan) /\ In(n, worker[l].outbox) /\ m.repo = n.repo => Follows(m, n)
        BY DEF Accounting, Lines
      <4>4. QED
        BY <1>3, <4>1, <4>2, <4>3 DEF q
    <3>3. QED
      BY <3>1, <3>2
  <2>2. QED
    BY <1>5, <2>1 DEF Lines, Ordered, In, Follows
<1>14. Tallies'
  <2>1. \A m \in Messages : Allows(tally[m.repo], m)' <=> Allows(tally[m.repo], m)
    BY DEF Allows
  <2>2. QED
    BY <1>7, <2>1 DEF Accounting, Tallies
<1>15. Places'
  <2>1. \A r \in Repos : Queued(r)' =>
          /\ tally'[r] = NoTally
          /\ \A m \in Messages : Pending(m)' => m.repo # r
          /\ \A l \in Workers : ~Walks(l, r)'
    BY <1>7, <1>8, <1>9 DEF Accounting, Places
  <2>2. \A r \in Repos, l \in Workers : Owns(l, r)' => Owns(l, r)
    BY <1>8 DEF Owns
  <2>3. \A r \in Repos, l, j \in Workers : Owns(l, r)' /\ Owns(j, r)' => l = j
    BY <2>2 DEF Accounting, Places
  <2>4. \A r \in Repos, l \in Workers : Walks(l, r)' =>
          /\ tally'[r].stats = 0 /\ ~tally'[r].failed /\ tally'[r].deferred = {}
          /\ \A m \in Messages : Pending(m)' /\ m.repo = r => m.kind = "done"
    BY <1>7, <1>8 DEF Accounting, Places
  <2>5. ASSUME NEW r \in Repos
        PROVE  \/ Queued(r)' \/ \E l \in Workers : Owns(l, r)'
               \/ \E m \in Messages : In(m, chan') /\ m.repo = r /\ m.kind = "stats"
               \/ tally'[r].stats = 1
    <3>1. CASE r = q
      <4>1. PICK m \in Messages : In(m, out) /\ m.kind = "stats" /\ m.repo = q
        BY <1>4
      <4>2. CASE m = h
        BY <1>3, <3>1, <4>1, <4>2
      <4>3. CASE m # h
        <5>1. In(m, worker'[k].outbox)
          BY <1>6, <4>1, <4>3 DEF out
        <5>2. Closes(k, r)'
          BY <3>1, <4>1, <5>1 DEF Closes, In
        <5>3. QED
          BY <5>2 DEF Owns
      <4>4. QED
        BY <4>2, <4>3
    <3>2. CASE r # q
      <4>1. \A l \in Workers : Owns(l, r) => Owns(l, r)'
        <5>1. ~Owns(k, r)
          BY <1>1, <1>4, <3>2 DEF Owns, Walks, Closes, out
        <5>2. QED
          BY <1>8, <5>1 DEF Owns
      <4>2. QED
        BY <1>3, <1>9, <4>1 DEF Accounting, Places
    <3>3. QED
      BY <3>1, <3>2
  <2>6. Distinct(jobs)'
    BY DEF Accounting, Places, Distinct
  <2>7. QED
    BY <2>1, <2>3, <2>4, <2>5, <2>6 DEF Places, In
<1>16. Addressed'
  BY <1>7, <1>11 DEF Accounting, Addressed
<1>17. Progress'
  <2>1. ASSUME NEW l \in Workers, NEW r \in Repos, Walks(l, r)' PROVE Reached(worker[l], r)'
    <3>1. l # k /\ Walks(l, r)
      BY <1>1, <1>8, <2>1 DEF Walks
    <3>2. worker'[l] = worker[l] /\ Reached(worker[l], r)
      BY <1>1, <3>1 DEF Accounting, Progress
    <3>3. QED
      BY <1>10, <1>11, <3>2 DEF Reached, Streams
  <2>2. QED
    BY <2>1 DEF Progress
<1>18. Outcomes'
  <2>1. ASSUME NEW r \in Repos
        PROVE  Queued(r)' \/ (\E l \in Workers : Walks(l, r)') \/ Settled(r)'
    <3>1. Queued(r) \/ (\E l \in Workers : Walks(l, r)) \/ Settled(r)
      BY DEF Accounting, Outcomes
    <3>2. Settled(r) => Settled(r)'
      BY <1>10, <1>11 DEF Settled
    <3>3. QED
      BY <1>8, <1>9, <3>1, <3>2
  <2>2. QED
    BY <2>1 DEF Outcomes
<1>19. QED
  BY <1>13, <1>14, <1>15, <1>16, <1>17, <1>18 DEF Accounting

-----------------------------------------------------------------------------
(* The writer's step: a message moves from the channel into its tally.      *)
Entered(t, m) ==
  CASE m.kind = "retries" -> [t EXCEPT !.late = t.late \/ t.stats > 0]
    [] m.kind = "done" ->
         [t EXCEPT !.done = IF m.completes THEN t.done \cup {m.stream} ELSE t.done,
                   !.halted = t.halted \/ m.halt, !.late = t.late \/ t.stats > 0]
    [] m.kind = "deferred" -> [t EXCEPT !.deferred = t.deferred \cup {m.stream}]
    [] m.kind = "failed" -> [t EXCEPT !.failed = TRUE]
    [] m.kind = "stats" -> [t EXCEPT !.stats = t.stats + 1]

\* The fields of a tally after a message that it allows.
LEMMA EnteredFields ==
  ASSUME NEW t \in TallyState, NEW m \in Messages, Allows(t, m), ~t.late, NEW u, u = Entered(t, m)
  PROVE  /\ ~u.late
         /\ u.stats = IF m.kind = "stats" THEN 1 ELSE 0
         /\ u.done = IF m.kind = "done" /\ m.completes THEN t.done \cup {m.stream} ELSE t.done
         /\ u.deferred = IF m.kind = "deferred" THEN t.deferred \cup {m.stream} ELSE t.deferred
         /\ u.failed <=> t.failed \/ m.kind = "failed"
         /\ u.halted <=> t.halted \/ (m.kind = "done" /\ m.halt)
<1>1. t.stats = 0 /\ m.kind \in {"retries", "done", "deferred", "failed", "stats"}
  BY Carries DEF Allows
<1>2. CASE m.kind = "retries"
  <2>1. u = [t EXCEPT !.late = t.late \/ t.stats > 0]
    BY <1>2 DEF Entered
  <2>2. QED
    BY <1>1, <1>2, <2>1 DEF TallyState
<1>3. CASE m.kind = "done"
  <2> DEFINE done == IF m.completes THEN t.done \cup {m.stream} ELSE t.done
             halted == t.halted \/ m.halt
             late == t.late \/ t.stats > 0
  <2>1. u = [t EXCEPT !.done = done, !.halted = halted, !.late = late]
    BY <1>3, Zenon DEF Entered
  <2>2. late = FALSE
    BY <1>1
  <2> HIDE DEF done, halted, late
  <2>3. u.stats = t.stats /\ u.done = done /\ u.deferred = t.deferred /\ u.failed = t.failed
        /\ u.halted = halted /\ u.late = late
    BY <2>1 DEF TallyState
  <2>4. QED
    BY <1>1, <1>3, <2>2, <2>3 DEF done, halted
<1>4. CASE m.kind = "deferred"
  <2>1. u = [t EXCEPT !.deferred = t.deferred \cup {m.stream}]
    BY <1>4 DEF Entered
  <2>2. QED
    BY <1>1, <1>4, <2>1 DEF TallyState
<1>5. CASE m.kind = "failed"
  <2>1. u = [t EXCEPT !.failed = TRUE]
    BY <1>5 DEF Entered
  <2>2. QED
    BY <1>1, <1>5, <2>1 DEF TallyState
<1>6. CASE m.kind = "stats"
  <2>1. u = [t EXCEPT !.stats = t.stats + 1]
    BY <1>6 DEF Entered
  <2>2. QED
    BY <1>1, <1>6, <2>1 DEF TallyState
<1>7. QED
  BY <1>1, <1>2, <1>3, <1>4, <1>5, <1>6

LEMMA ReceiveEnters ==
  ASSUME TypeOK, Receive, NEW m \in Messages, m = Head(chan)
  PROVE  tally' = [tally EXCEPT ![m.repo] = Entered(tally[m.repo], m)]
<1>1. Apply(m)
  BY DEF Receive
<1>2. m.kind \in {"retries", "done", "deferred", "failed", "stats"}
  BY Carries
<1>3. m.kind = "retries" =>
        tally' = [tally EXCEPT ![m.repo] =
                   [tally[m.repo] EXCEPT !.late = tally[m.repo].late \/ tally[m.repo].stats > 0]]
  BY <1>1, Applied
<1>4. m.kind = "done" => ApplyDone(m, tally[m.repo])
  BY <1>1, Applied
<1>5. m.kind = "deferred" =>
        tally' = [tally EXCEPT ![m.repo] =
                   [tally[m.repo] EXCEPT !.deferred = tally[m.repo].deferred \cup {m.stream}]]
  BY <1>1, Applied
<1>6. m.kind = "failed" =>
        tally' = [tally EXCEPT ![m.repo] = [tally[m.repo] EXCEPT !.failed = TRUE]]
  BY <1>1, Applied
<1>7. m.kind = "stats" =>
        tally' = [tally EXCEPT ![m.repo] =
                   [tally[m.repo] EXCEPT !.stats = tally[m.repo].stats + 1]]
  BY <1>1, Applied
<1>8. CASE m.kind = "done"
  BY <1>4, <1>8 DEF ApplyDone, Entered
<1>9. CASE m.kind # "done"
  BY <1>2, <1>3, <1>5, <1>6, <1>7, <1>9 DEF Entered
<1>10. QED
  BY <1>8, <1>9

LEMMA ReceiveStep ==
  ASSUME TypeOK, Shapes, Accounting, Receive
  PROVE  Accounting'
<1> DEFINE h == Head(chan)
<1>1. /\ chan \in Seq(Messages) /\ chan # <<>> /\ chan' = Tail(chan)
      /\ tally \in [Repos -> TallyState]
  BY Typing DEF Receive, Types
<1>2. PICK m \in Messages : m = h
  BY <1>1
<1>3. PICK q \in Repos : q = m.repo
  BY Carries
<1>4. /\ UNCHANGED <<issues, jobs, worker>>
  BY DEF Receive
<1>5. /\ \A x : In(x, chan) <=> x = m \/ In(x, chan')
      /\ Ordered(chan') /\ \A x : In(x, chan') /\ x.repo = q => Follows(m, x)
  BY <1>1, <1>2, <1>3, Dropped DEF Accounting, Lines
<1> HIDE DEF h
<1>6. Pending(m) /\ Allows(tally[q], m) /\ Proper(m) /\ ~tally[q].late /\ tally[q] \in TallyState
  BY <1>1, <1>3, <1>5 DEF Pending, Accounting, Tallies, Addressed
<1>7. PICK t \in TallyState : t = tally[q]
  BY <1>6
<1>8. PICK u : u = Entered(t, m)
  OBVIOUS
<1>9. /\ tally'[q] = u /\ \A r \in Repos : r # q => tally'[r] = tally[r]
  <2>1. tally' = [tally EXCEPT ![m.repo] = Entered(tally[m.repo], m)]
    BY <1>2, ReceiveEnters DEF h
  <2>2. tally' = [tally EXCEPT ![q] = u]
    BY <1>3, <1>7, <1>8, <2>1
  <2>3. QED
    BY <1>1, <2>2
<1>10. /\ ~u.late
       /\ u.stats = IF m.kind = "stats" THEN 1 ELSE 0
       /\ u.done = IF m.kind = "done" /\ m.completes THEN t.done \cup {m.stream} ELSE t.done
       /\ u.deferred = IF m.kind = "deferred" THEN t.deferred \cup {m.stream} ELSE t.deferred
       /\ u.failed <=> t.failed \/ m.kind = "failed"
       /\ u.halted <=> t.halted \/ (m.kind = "done" /\ m.halt)
  <2>1. Allows(t, m) /\ ~t.late
    BY <1>6, <1>7
  <2>2. QED
    BY <1>8, <2>1, EnteredFields, Zenon
<1>11. ASSUME NEW x \in Messages
       PROVE  /\ Pending(x)' => Pending(x) /\ (x.repo = q => Follows(m, x))
              /\ Pending(x) => x = m \/ Pending(x)'
  <2>1. Pending(x)' <=> In(x, chan') \/ \E k \in Workers : In(x, worker[k].outbox)
    BY <1>4 DEF Pending, In
  <2>2. \A k \in Workers : In(x, worker[k].outbox) /\ x.repo = q => Follows(m, x)
    BY <1>3, <1>5 DEF Accounting, Lines
  <2>3. QED
    BY <1>5, <2>1, <2>2 DEF Pending
<1>12. \A k \in Workers, r \in Repos : (Walks(k, r)' <=> Walks(k, r)) /\ (Closes(k, r)' <=> Closes(k, r))
  BY <1>4 DEF Walks, Closes, In
<1>13. \A r \in Repos : Queued(r)' <=> Queued(r)
  BY <1>4 DEF Queued, In
<1>14. (\A r : Configured(r)' = Configured(r)) /\ (\A x : Proper(x)' <=> Proper(x))
       /\ \A r : Configured(r) \subseteq Streams
  BY <1>4 DEF Configured, Proper, Streams
<1>15. ASSUME NEW r \in Repos, NEW s \in Streams
       PROVE  (Completed(r, s)' <=> Completed(r, s)) /\ (Denied(r, s)' <=> Denied(r, s))
  <2>1. CASE r # q
    <3>1. \A x \in Messages : x.repo = r => (Pending(x)' <=> Pending(x))
      BY <1>3, <1>11, <2>1
    <3>2. QED
      BY <1>9, <2>1, <3>1 DEF Completed, Denied
  <2>2. CASE r = q
    <3>1. Completed(r, s)' <=> \/ s \in u.done
                               \/ \E x \in Messages : /\ Pending(x)' /\ x.repo = q
                                    /\ x.kind = "done" /\ x.completes /\ x.stream = s
      BY <1>9, <2>2 DEF Completed
    <3>2. Denied(r, s)' <=> \/ s \in u.deferred
                            \/ \E x \in Messages : /\ Pending(x)' /\ x.repo = q
                                 /\ x.kind = "deferred" /\ x.stream = s
      BY <1>9, <2>2 DEF Denied
    <3>3. Completed(r, s)' <=> Completed(r, s)
      BY <1>3, <1>6, <1>7, <1>10, <1>11, <2>2, <3>1 DEF Completed
    <3>4. Denied(r, s)' <=> Denied(r, s)
      BY <1>3, <1>6, <1>7, <1>10, <1>11, <2>2, <3>2 DEF Denied
    <3>5. QED
      BY <3>3, <3>4
  <2>3. QED
    BY <2>1, <2>2
<1>16. ASSUME NEW r \in Repos
       PROVE  (Broke(r)' <=> Broke(r)) /\ (Halted(r)' <=> Halted(r))
  <2>1. CASE r # q
    <3>1. \A x \in Messages : x.repo = r => (Pending(x)' <=> Pending(x))
      BY <1>3, <1>11, <2>1
    <3>2. QED
      BY <1>9, <2>1, <3>1 DEF Broke, Halted
  <2>2. CASE r = q
    <3>1. Broke(r)' <=> u.failed \/ \E x \in Messages : Pending(x)' /\ x.repo = q /\ x.kind = "failed"
      BY <1>9, <2>2 DEF Broke
    <3>2. Halted(r)' <=> u.halted \/ \E x \in Messages : Pending(x)' /\ x.repo = q
                                        /\ x.kind = "done" /\ x.halt
      BY <1>9, <2>2 DEF Halted
    <3>3. Broke(r)' <=> Broke(r)
      BY <1>3, <1>6, <1>7, <1>10, <1>11, <2>2, <3>1 DEF Broke
    <3>4. Halted(r)' <=> Halted(r)
      BY <1>3, <1>6, <1>7, <1>10, <1>11, <2>2, <3>2 DEF Halted
    <3>5. QED
      BY <3>3, <3>4
  <2>3. QED
    BY <2>1, <2>2
<1>17. Lines'
  <2>1. ASSUME NEW k \in Workers
        PROVE  LET o == worker'[k].outbox IN
               /\ Ordered(o)
               /\ \A x, n \in Messages : In(x, o) /\ In(n, o) => x.repo = n.repo
               /\ o # <<>> => \E x \in Messages : In(x, o) /\ x.kind = "stats"
               /\ \A x, n \in Messages : In(x, chan') /\ In(n, o) /\ x.repo = n.repo => Follows(x, n)
    BY <1>4, <1>5 DEF Accounting, Lines
  <2>2. QED
    BY <1>5, <2>1 DEF Lines, Ordered, In, Follows
<1>18. Tallies'
  <2>1. \A r \in Repos : ~tally'[r].late /\ tally'[r].stats <= 1
    <3>1. u.stats \in {0, 1}
      BY <1>10
    <3>2. QED
      BY <1>9, <1>10, <3>1 DEF Accounting, Tallies
  <2>2. ASSUME NEW x \in Messages, Pending(x)' PROVE Allows(tally'[x.repo], x)
    <3>1. Pending(x) /\ Allows(tally[x.repo], x) /\ x.repo \in Repos
      BY <1>11, <2>2, Carries DEF Accounting, Tallies
    <3>2. CASE x.repo # q
      BY <1>9, <3>1, <3>2
    <3>3. CASE x.repo = q
      <4>1. Follows(m, x) /\ Allows(t, x) /\ Allows(t, m)
        BY <1>6, <1>7, <1>11, <2>2, <3>1, <3>3
      <4>2. Allows(u, x)
        BY <1>10, <4>1 DEF Allows, Follows
      <4>3. QED
        BY <1>9, <3>3, <4>2
    <3>4. QED
      BY <3>2, <3>3
  <2>3. \A x \in Messages : Allows(tally[x.repo], x)' <=> Allows(tally'[x.repo], x)
    BY DEF Allows
  <2>4. QED
    BY <2>1, <2>2, <2>3 DEF Tallies
<1>19. Places'
  <2>1. ASSUME NEW r \in Repos, Queued(r)'
        PROVE  /\ tally'[r] = NoTally
               /\ \A x \in Messages : Pending(x)' => x.repo # r
               /\ \A k \in Workers : ~Walks(k, r)'
    <3>1. Queued(r) /\ r # q
      BY <1>3, <1>6, <1>13, <2>1 DEF Accounting, Places
    <3>2. QED
      BY <1>9, <1>11, <1>12, <3>1 DEF Accounting, Places
  <2>2. \A r \in Repos, k, l \in Workers : Owns(k, r)' /\ Owns(l, r)' => k = l
    BY <1>12 DEF Accounting, Places, Owns
  <2>3. ASSUME NEW r \in Repos, NEW k \in Workers, Walks(k, r)'
        PROVE  /\ tally'[r].stats = 0 /\ ~tally'[r].failed /\ tally'[r].deferred = {}
               /\ \A x \in Messages : Pending(x)' /\ x.repo = r => x.kind = "done"
    <3>1. /\ tally[r].stats = 0 /\ ~tally[r].failed /\ tally[r].deferred = {}
          /\ \A x \in Messages : Pending(x) /\ x.repo = r => x.kind = "done"
      BY <1>12, <2>3 DEF Accounting, Places
    <3>2. CASE r = q
      <4>1. m.kind = "done"
        BY <1>3, <1>6, <3>1, <3>2
      <4>2. QED
        BY <1>7, <1>9, <1>10, <1>11, <3>1, <3>2, <4>1
    <3>3. CASE r # q
      BY <1>9, <1>11, <3>1, <3>3
    <3>4. QED
      BY <3>2, <3>3
  <2>4. ASSUME NEW r \in Repos
        PROVE  \/ Queued(r)' \/ \E k \in Workers : Owns(k, r)'
               \/ \E x \in Messages : In(x, chan') /\ x.repo = r /\ x.kind = "stats"
               \/ tally'[r].stats = 1
    <3>1. \A k \in Workers : Owns(k, r)' <=> Owns(k, r)
      BY <1>12 DEF Owns
    <3>2. \/ Queued(r) \/ \E k \in Workers : Owns(k, r)
          \/ \E x \in Messages : In(x, chan) /\ x.repo = r /\ x.kind = "stats"
          \/ tally[r].stats = 1
      BY DEF Accounting, Places
    <3>3. CASE tally[r].stats = 1
      <4>1. r # q
        BY <1>6, <3>3 DEF Allows
      <4>2. QED
        BY <1>9, <3>3, <4>1
    <3>4. ASSUME NEW x \in Messages, In(x, chan), x.repo = r, x.kind = "stats"
          PROVE  \/ In(x, chan')
                 \/ tally'[r].stats = 1
      BY <1>3, <1>5, <1>9, <1>10, <3>4
    <3>5. QED
      BY <1>13, <3>1, <3>2, <3>3, <3>4
  <2>5. Distinct(jobs)'
    BY <1>4 DEF Accounting, Places, Distinct
  <2>6. QED
    BY <2>1, <2>2, <2>3, <2>4, <2>5 DEF Places, In
<1>20. Addressed'
  <2>1. u.done \subseteq Configured(q)
    BY <1>3, <1>6, <1>7, <1>10 DEF Accounting, Addressed, Proper
  <2>2. \A r \in Repos : tally'[r].done \subseteq Configured(r)
    BY <1>9, <2>1 DEF Accounting, Addressed
  <2>3. QED
    BY <1>11, <1>14, <2>2 DEF Accounting, Addressed
<1>21. Progress'
  <2>1. ASSUME NEW k \in Workers, NEW r \in Repos, Walks(k, r)' PROVE Reached(worker[k], r)'
    <3>1. Reached(worker[k], r)
      BY <1>12, <2>1 DEF Accounting, Progress
    <3>2. QED
      BY <1>4, <1>14, <1>15, <1>16, <3>1 DEF Reached, Streams
  <2>2. QED
    BY <2>1 DEF Progress
<1>22. Outcomes'
  <2>1. ASSUME NEW r \in Repos
        PROVE  Queued(r)' \/ (\E k \in Workers : Walks(k, r)') \/ Settled(r)'
    <3>1. Queued(r) \/ (\E k \in Workers : Walks(k, r)) \/ Settled(r)
      BY DEF Accounting, Outcomes
    <3>2. Settled(r) => Settled(r)'
      BY <1>14, <1>15, <1>16 DEF Settled
    <3>3. QED
      BY <1>12, <1>13, <3>1, <3>2
  <2>2. QED
    BY <2>1 DEF Outcomes
<1>23. QED
  BY <1>17, <1>18, <1>19, <1>20, <1>21, <1>22 DEF Accounting

-----------------------------------------------------------------------------
(* The start of a run, and steps the accounting does not see.               *)

\* A plan names every repository, once.
LEMMA Planned ==
  ASSUME NEW p \in Orders
  PROVE  p \in Seq(Repos) /\ Distinct(p) /\ \A r \in Repos : In(r, p)
<1> DEFINE n == Cardinality(Repos)
<1>1. n \in Nat /\ IsFiniteSet(Repos)
  BY FS_CardinalityType, PipelineAssumption
<1>2. p \in [1..n -> Repos] /\ \A i, j \in DOMAIN p : i < j => p[i] # p[j]
  BY Zenon DEF Orders
<1> HIDE DEF n
<1>3. p \in Seq(Repos) /\ DOMAIN p = 1..n
  BY <1>1, <1>2
<1>4. \A i, j \in DOMAIN p : p[i] = p[j] => i = j
  <2> TAKE i, j \in DOMAIN p
  <2>1. i \in Nat /\ j \in Nat
    BY <1>1, <1>3
  <2>2. i < j \/ j < i \/ i = j
    BY <2>1
  <2>3. QED
    BY <1>2, <2>2
<1>5. p \in Injection(1..n, Repos)
  BY <1>2, <1>4 DEF Injection, IsInjective
<1>6. Cardinality(1..n) = n
  <2>1. Cardinality(1..n) = IF 1 > n THEN 0 ELSE n - 1 + 1
    BY <1>1, FS_Interval
  <2>2. QED
    BY <1>1, <2>1
<1>7. p \in Surjection(1..n, Repos)
  BY <1>1, <1>5, <1>6, FS_Injection DEF n
<1>8. \A r \in Repos : \E i \in DOMAIN p : p[i] = r
  BY <1>3, <1>7 DEF Surjection
<1>9. QED
  BY <1>3, <1>4, <1>8 DEF Distinct, In

LEMMA StartStep ==
  ASSUME TypeOK, Start, chan = <<>>, tally = [r \in Repos |-> NoTally]
  PROVE  Accounting'
<1>1. /\ jobs' \in Orders /\ worker' = [k \in Workers |-> Idle]
      /\ chan' = <<>> /\ tally' = tally
  BY DEF Start
<1>2. /\ Distinct(jobs') /\ \A r \in Repos : In(r, jobs')
  BY <1>1, Planned
<1>3. \A k \in Workers : worker'[k].outbox = <<>> /\ worker'[k].pc = "free"
  BY <1>1, IdleTyped
<1>4. \A m \in Messages : ~Pending(m)'
  BY <1>1, <1>3, InEmpty DEF Pending
<1>5. \A k \in Workers, r \in Repos : ~Walks(k, r)' /\ ~Closes(k, r)'
  BY <1>3, InEmpty DEF Walks, Closes
<1>6. \A r \in Repos : Queued(r)'
  BY <1>2 DEF Queued, In
<1>7. \A r \in Repos : tally'[r] = NoTally /\ ~tally'[r].late /\ tally'[r].stats = 0 /\ tally'[r].done = {}
  BY <1>1 DEF NoTally
<1>8. Lines'
  <2>1. Ordered(<<>>)
    BY DEF Ordered
  <2>2. QED
    BY <1>1, <1>3, <2>1, InEmpty DEF Lines
<1>9. Tallies' /\ Addressed'
  BY <1>4, <1>7 DEF Tallies, Addressed
<1>10. Places'
  <2>1. \A r \in Repos : /\ tally'[r] = NoTally
                         /\ \A m \in Messages : Pending(m)' => m.repo # r
                         /\ \A k \in Workers : ~Walks(k, r)'
    BY <1>4, <1>5, <1>7
  <2>2. \A r \in Repos, k \in Workers : ~Owns(k, r)'
    BY <1>5 DEF Owns
  <2>3. Distinct(jobs)'
    BY <1>2 DEF Distinct
  <2>4. QED
    BY <1>5, <1>6, <2>1, <2>2, <2>3 DEF Places
<1>11. Progress' /\ Outcomes'
  BY <1>5, <1>6 DEF Progress, Outcomes
<1>12. QED
  BY <1>8, <1>9, <1>10, <1>11 DEF Accounting

LEMMA Unseen ==
  ASSUME Accounting, UNCHANGED <<jobs, tally, issues, chan>>,
         \A k \in Workers : /\ worker'[k].outbox = worker[k].outbox
                            /\ worker'[k].pc = "walk" <=> worker[k].pc = "walk"
                            /\ worker[k].pc = "walk" => worker'[k] = worker[k]
  PROVE  Accounting'
<1>1. \A m \in Messages : Pending(m)' <=> Pending(m)
  BY DEF Pending, In
<1>2. \A k \in Workers, r \in Repos : (Walks(k, r)' <=> Walks(k, r)) /\ (Closes(k, r)' <=> Closes(k, r))
  BY DEF Walks, Closes, In
<1>3. \A r \in Repos : Queued(r)' <=> Queued(r)
  BY DEF Queued, In
<1>4. \A k \in Workers, r \in Repos : Owns(k, r)' <=> Owns(k, r)
  BY <1>2 DEF Owns
<1>5. /\ \A r \in Repos : /\ \A s \in Streams : /\ Completed(r, s)' <=> Completed(r, s)
                                                /\ Denied(r, s)' <=> Denied(r, s)
                          /\ Broke(r)' <=> Broke(r)
                          /\ Halted(r)' <=> Halted(r)
  BY <1>1 DEF Completed, Denied, Broke, Halted
<1>6. (\A r : Configured(r)' = Configured(r)) /\ (\A m : Proper(m)' <=> Proper(m))
       /\ \A r : Configured(r) \subseteq Streams
  BY DEF Configured, Proper, Streams
<1>7. Lines'
  <2>1. /\ Ordered(chan)' <=> Ordered(chan)
        /\ \A k \in Workers : Ordered(worker[k].outbox)' <=> Ordered(worker[k].outbox)
    BY DEF Ordered, Follows
  <2>2. \A m \in Messages : /\ In(m, chan)' <=> In(m, chan)
                            /\ \A k \in Workers : In(m, worker[k].outbox)' <=> In(m, worker[k].outbox)
    BY DEF In
  <2>3. QED
    BY <2>1, <2>2 DEF Accounting, Lines, Follows
<1>8. Tallies'
  BY <1>1 DEF Accounting, Tallies, Allows
<1>9. Places'
  BY <1>1, <1>2, <1>3, <1>4 DEF Accounting, Places, Distinct, In
<1>10. Addressed'
  BY <1>1, <1>6 DEF Accounting, Addressed
<1>11. Progress'
  <2>1. ASSUME NEW k \in Workers, NEW r \in Repos, Walks(k, r)' PROVE Reached(worker[k], r)'
    <3>1. worker'[k] = worker[k] /\ Reached(worker[k], r)
      BY <1>2, <2>1 DEF Accounting, Progress, Walks
    <3>2. QED
      BY <1>5, <1>6, <3>1 DEF Reached, Streams
  <2>2. QED
    BY <2>1 DEF Progress
<1>12. Outcomes'
  <2>1. ASSUME NEW r \in Repos
        PROVE  Queued(r)' \/ (\E k \in Workers : Walks(k, r)') \/ Settled(r)'
    <3>1. Queued(r) \/ (\E k \in Workers : Walks(k, r)) \/ Settled(r)
      BY DEF Accounting, Outcomes
    <3>2. Settled(r) => Settled(r)'
      BY <1>5, <1>6 DEF Settled
    <3>3. QED
      BY <1>2, <1>3, <3>1, <3>2
  <2>2. QED
    BY <2>1 DEF Outcomes
<1>13. QED
  BY <1>7, <1>8, <1>9, <1>10, <1>11, <1>12 DEF Accounting

-----------------------------------------------------------------------------
(* Each of a worker's actions is one of the steps above.                    *)
LEMMA InWalk ==
  ASSUME TypeOK, Shapes, NEW k \in Workers, worker[k].ask # "none" \/ Walking(k)
  PROVE  \E r \in Repos : r = worker[k].repo /\ Walks(k, r)
BY InRepo DEF Walks

LEMMA TakeAccounts ==
  ASSUME TypeOK, Shapes, Accounting, NEW k \in Workers, Take(k)
  PROVE  Accounting'
<1>1. /\ jobs \in Seq(Repos) /\ worker[k].pc = "free" /\ worker \in [Workers -> WorkerState]
      /\ worker[k].outbox = <<>>
  BY Typing DEF Take, Types, Shapes, Sound
<1>2. UNCHANGED <<tally, issues, chan>>
  BY DEF Take, receiving
<1>3. CASE jobs = <<>>
  <2>1. Keeps(k, Gone) /\ jobs' = jobs
    BY <1>3 DEF Take
  <2>2. \A l \in Workers : /\ worker'[l].outbox = worker[l].outbox
                           /\ worker'[l].pc = "walk" <=> worker[l].pc = "walk"
                           /\ worker[l].pc = "walk" => worker'[l] = worker[l]
    <3>1. \A l \in Workers : worker'[l] = IF l = k THEN Gone ELSE worker[l]
      BY <1>1, <2>1 DEF Keeps
    <3>2. Gone.outbox = <<>> /\ Gone.pc = "gone"
      BY GoneTyped
    <3>3. QED
      BY <1>1, <3>1, <3>2
  <2>3. UNCHANGED <<jobs, tally, issues, chan>>
    BY <1>2, <2>1
  <2>4. QED
    BY <2>2, <2>3, Unseen
<1>4. CASE jobs # <<>>
  <2>1. PICK r \in Repos : r = Head(jobs)
    BY <1>1, <1>4
  <2>2. jobs' = Tail(jobs)
    BY <1>4 DEF Take
  <2> DEFINE out == Append(Deferrals(r), Stats(r, FALSE))
             sheds == [Idle EXCEPT !.pc = "skip", !.repo = r, !.outbox = out]
             walks(stage) == [Idle EXCEPT !.pc = "walk", !.repo = r, !.stage = stage]
  <2>3. PICK v : Keeps(k, v) /\ (v = sheds \/ \E stage \in FirstStages(r) : v = walks(stage))
    BY <1>4, <2>1, Zenon DEF Take
  <2>4. out \in Seq(Messages) /\ Sealing(r, Deferrals(r), out)
    BY DeferralsOpen, Sealed DEF Sealing
  <2> HIDE DEF out
  <2>5. CASE v = sheds
    <3>1. sheds \in WorkerState /\ sheds.pc = "skip" /\ sheds.outbox = out
      BY <2>4, IdleTyped DEF WorkerState
    <3> HIDE DEF sheds
    <3>2. QED
      BY <1>1, <1>2, <1>4, <2>1, <2>2, <2>3, <2>4, <2>5, <3>1, TakeStep
  <2>6. ASSUME NEW stage \in FirstStages(r), v = walks(stage)
        PROVE  Accounting'
    <3>1. stage \in {"backfill", "pr"}
      BY DEF FirstStages
    <3>2. /\ v \in WorkerState /\ v.pc = "walk" /\ v.outbox = <<>> /\ v.repo = r
          /\ v.stage = stage /\ v.halted = FALSE
      BY <2>6, <3>1, IdleTyped DEF WorkerState
    <3>3. QED
      BY <1>1, <1>2, <1>4, <2>1, <2>2, <2>3, <3>1, <3>2, TakeStep
  <2>7. QED
    BY <2>3, <2>5, <2>6
<1>5. QED
  BY <1>3, <1>4

LEMMA CallAccounts ==
  ASSUME TypeOK, Shapes, Accounting, NEW k \in Workers, Call(k)
  PROVE  Accounting'
<1> DEFINE w == worker[k]
           ask == IF w.stage = "maint" \/ w.found THEN "hydrate" ELSE "discovery"
           calls == w.calls + 1
<1>1. w \in WorkerState /\ w.pc = "walk" /\ w.outbox = <<>>
  BY InRepo DEF Call
<1>2. PICK r \in Repos : r = w.repo /\ Walks(k, r)
  BY InWalk DEF Call
<1>3. UNCHANGED <<jobs, tally, issues, chan>>
  BY DEF Call, receiving
<1>4. ask \in {"hydrate", "discovery"} /\ calls \in Nat
  BY <1>1 DEF WorkerState
<1>5. PICK v : v = [w EXCEPT !.ask = ask, !.calls = calls]
  OBVIOUS
<1>6. Keeps(k, v)
  BY <1>5, Zenon DEF Call
<1> HIDE DEF w, ask, calls
<1>7. /\ v \in WorkerState /\ v.pc = "walk" /\ v.repo = r /\ v.stage = w.stage
      /\ v.halted = w.halted /\ v.outbox = <<>>
  BY <1>1, <1>2, <1>4, <1>5 DEF WorkerState
<1>8. QED
  BY <1>2, <1>3, <1>6, <1>7, QuietStep DEF w

LEMMA AnswerAccounts ==
  ASSUME TypeOK, Shapes, Accounting, NEW k \in Workers, Answer(k)
  PROVE  Accounting'
<1>1. worker[k] \in WorkerState /\ worker[k].pc = "walk" /\ worker[k].outbox = <<>>
      /\ worker[k].ask # "none"
  BY InRepo DEF Answer
<1>2. PICK r \in Repos : r = worker[k].repo /\ Walks(k, r)
  BY InWalk DEF Answer
<1>3. UNCHANGED <<jobs, tally, issues, chan>>
  BY DEF Answer, receiving
<1>4. remaining' \in Nat
  <2>1. remaining \in Nat /\ remaining > 0 /\ remaining' = remaining - 1
    BY Typing DEF Answer, Types
  <2>2. QED
    BY <2>1
<1>5. PICK w \in {worker[k], Told(worker[k], remaining')} : \E v \in Continues(w) : Keeps(k, v)
  BY DEF Answer
<1>6. /\ w \in WorkerState /\ w.pc = "walk" /\ w.repo = r /\ w.stage = worker[k].stage
      /\ w.ask # "none" /\ w.halted = worker[k].halted /\ w.outbox = <<>>
  <2>1. CASE w = worker[k]
    BY <1>1, <1>2, <2>1
  <2>2. CASE w = Told(worker[k], remaining')
    BY <1>1, <1>2, <1>4, <2>2, ToldTyped
  <2>3. QED
    BY <1>5, <2>1, <2>2
<1>7. PICK v \in Continues(w) : Keeps(k, v)
  BY <1>5
<1>8. /\ v \in WorkerState /\ v.pc = "walk" /\ v.repo = r /\ v.stage = worker[k].stage
      /\ v.halted = worker[k].halted /\ v.outbox = <<>>
  BY <1>6, <1>7, ContinuesTyped
<1>9. QED
  BY <1>2, <1>3, <1>7, <1>8, QuietStep

\* Leaving with what the repository's end has to say.
LEMMA LeaveAccounts ==
  ASSUME TypeOK, Shapes, Accounting, NEW k \in Workers, NEW r \in Repos, r = worker[k].repo,
         worker[k].ask # "none" \/ Walking(k),
         NEW messages, Keeps(k, Ends(worker[k], messages)), Leaves(k, r, messages),
         UNCHANGED <<jobs, tally, issues, chan>>
  PROVE  Accounting'
<1>1. worker[k] \in WorkerState /\ Walks(k, r)
  BY InRepo, InWalk
<1>2. Opening(r, messages)
  <2>1. CASE messages = Deferrals(r)
    BY <2>1, DeferralsOpen
  <2>2. CASE messages # Deferrals(r)
    BY <2>2, SinglesOpen DEF Leaves
  <2>3. QED
    BY <2>1, <2>2
<1>3. PICK v : v = Ends(worker[k], messages)
  OBVIOUS
<1>4. PICK b \in BOOLEAN : b = worker[k].below
  BY <1>1 DEF WorkerState
<1>5. v \in WorkerState /\ v.pc = "end" /\ v.outbox = Append(messages, Stats(r, b))
  BY <1>1, <1>2, <1>3, <1>4, EndsTyped DEF Opening
<1>6. Sealing(r, messages, v.outbox)
  BY <1>2, <1>5, Sealed
<1>7. QED
  BY <1>1, <1>3, <1>5, <1>6, LeaveStep

LEMMA StopAccounts ==
  ASSUME TypeOK, Shapes, Accounting, NEW k \in Workers, worker[k].ask # "none" \/ Walking(k),
         FloorStops(k, worker[k]) \/ RepoStops(k, worker[k]),
         UNCHANGED <<jobs, tally, issues, chan>>
  PROVE  Accounting'
<1>1. PICK r \in Repos : r = worker[k].repo
  BY InRepo
<1>2. PICK messages : /\ Keeps(k, Ends(worker[k], messages))
                      /\ messages \in {Deferrals(r), <<Failed(r, Configured(r))>>}
  BY <1>1 DEF FloorStops, RepoStops
<1>3. QED
  BY <1>1, <1>2, LeaveAccounts DEF Leaves

LEMMA GiveUpAccounts ==
  ASSUME TypeOK, Shapes, Accounting, NEW k \in Workers, GiveUp(k)
  PROVE  Accounting'
<1>1. UNCHANGED <<jobs, tally, issues, chan>>
  BY DEF GiveUp, receiving
<1>2. CASE worker[k].ask = "discovery"
  BY <1>1, <1>2, StopAccounts DEF GiveUp
<1>3. CASE worker[k].ask # "discovery"
  <2>1. worker[k] \in WorkerState /\ worker[k].pc = "walk" /\ worker[k].outbox = <<>>
    BY InRepo DEF GiveUp
  <2>2. PICK r \in Repos : r = worker[k].repo /\ Walks(k, r)
    BY InWalk DEF GiveUp
  <2>3. PICK v : v = [worker[k] EXCEPT !.ask = "none"]
    OBVIOUS
  <2>4. Keeps(k, v)
    BY <1>3, <2>3 DEF GiveUp
  <2>5. /\ v \in WorkerState /\ v.pc = "walk" /\ v.repo = r /\ v.stage = worker[k].stage
        /\ v.halted = worker[k].halted /\ v.outbox = <<>>
    BY <2>1, <2>2, <2>3 DEF WorkerState
  <2>6. QED
    BY <1>1, <2>2, <2>4, <2>5, QuietStep
<1>4. QED
  BY <1>2, <1>3

LEMMA FinishAccounts ==
  ASSUME TypeOK, Shapes, Accounting, NEW k \in Workers, Finish(k)
  PROVE  Accounting'
<1>1. UNCHANGED <<jobs, tally, issues, chan>>
  BY DEF Finish, receiving
<1>2. PICK r \in Repos : r = worker[k].repo
  BY InRepo DEF Finish
<1>3. PICK messages \in {<<>>, <<Retries(r)>>} : Keeps(k, Ends(worker[k], messages))
  BY <1>2 DEF Finish
<1>4. QED
  BY <1>1, <1>2, <1>3, LeaveAccounts DEF Finish, Leaves

LEMMA WindowAccounts ==
  ASSUME TypeOK, Shapes, Accounting, open, NEW k \in Workers, Window(k)
  PROVE  Accounting'
<1> DEFINE w == worker[k]
<1>1. /\ w \in WorkerState /\ w.pc = "walk" /\ w.outbox = <<>> /\ w.repo \in Repos
  BY InRepo DEF Window
<1>2. PICK r \in Repos : r = w.repo /\ Walks(k, r)
  BY InWalk DEF Window
<1>3. UNCHANGED <<jobs, tally, issues>>
  BY DEF Window, receiving
<1>4. PICK s : s = StreamOf(w.stage)
  OBVIOUS
<1>5. Reached(w, r)
  BY <1>2 DEF Accounting, Progress
<1>6. s \in Streams /\ s \in Configured(r)
  BY <1>4, <1>5 DEF StreamOf, Streams, Reached, Configured
<1>7. CASE Sends(k, Done(r, s, FALSE, FALSE), [w EXCEPT !.found = FALSE])
  <2>1. PICK v : v = [w EXCEPT !.found = FALSE]
    OBVIOUS
  <2>2. PICK d : d = Done(r, s, FALSE, FALSE)
    OBVIOUS
  <2>3. d \in Messages /\ d.kind = "done" /\ d.repo = r /\ d.stream = s /\ d.halt = FALSE
    BY <1>6, <2>2, Letters DEF Done
  <2>4. Keeps(k, v) /\ chan' = Append(chan, d)
    BY <1>7, <2>1, <2>2 DEF Sends
  <2>5. /\ v \in WorkerState /\ v.pc = "walk" /\ v.repo = r /\ v.outbox = <<>>
        /\ v.stage = w.stage /\ v.halted = w.halted
    BY <1>1, <1>2, <2>1 DEF WorkerState
  <2>6. /\ v.stage = "issue" => r \in issues
        /\ v.stage = "maint" => ~v.halted
    BY <1>5, <2>5 DEF Reached
  <2>7. QED
    BY <1>2, <1>3, <1>6, <2>3, <2>4, <2>5, <2>6, WindowStep
<1>8. ASSUME NEW halt \in BOOLEAN,
             Sends(k, Done(r, s, w.stage # "backfill" /\ ~halt, halt), WindowNext(w, halt))
      PROVE  Accounting'
  <2>1. PICK v : v = WindowNext(w, halt)
    OBVIOUS
  <2>2. PICK c \in BOOLEAN : c = (w.stage # "backfill" /\ ~halt)
    OBVIOUS
  <2>3. PICK d : d = Done(r, s, c, halt)
    OBVIOUS
  <2>4. /\ d \in Messages /\ d.kind = "done" /\ d.repo = r /\ d.stream = s
        /\ d.halt = halt /\ d.completes = c
    BY <1>6, <2>3, Letters DEF Done
  <2>5. Keeps(k, v) /\ chan' = Append(chan, d)
    BY <1>8, <2>1, <2>2, <2>3 DEF Sends
  <2> DEFINE next == Following(r, w.stage)
             halted == w.halted \/ halt
             moves == [w EXCEPT !.stage = next, !.calls = 0, !.found = FALSE, !.halted = halted]
  <2>6. next \in {"pr", "issue", "maint"} /\ halted \in BOOLEAN
        /\ (next = "issue" => r \in issues) /\ (next = "pr" <=> w.stage = "backfill")
    BY <1>1 DEF Following, WorkerState
  <2>7. CASE (halt /\ w.stage = "backfill") \/ (next = "maint" /\ (halt \/ w.halted))
    <3>1. v = Ends(w, <<>>)
      BY <1>2, <2>1, <2>7, Zenon DEF WindowNext
    <3>2. PICK b \in BOOLEAN : b = w.below
      BY <1>1 DEF WorkerState
    <3>3. <<>> \in Seq(Messages) /\ Opening(r, <<>>)
      BY SinglesOpen DEF Opening
    <3>4. /\ v \in WorkerState /\ v.pc = "end" /\ v.outbox = Append(<<>>, Stats(r, b))
      BY <1>1, <1>2, <3>1, <3>2, <3>3, EndsTyped
    <3>5. Sealing(r, <<>>, v.outbox)
      BY <3>3, <3>4, Sealed
    <3>6. v.halted = FALSE /\ v.stage = "maint"
      BY <3>1, IdleTyped DEF Ends, WorkerState
    <3>7. d.halt \/ w.halted
      BY <2>4, <2>7
    <3>8. QED
      BY <1>2, <1>3, <1>6, <2>4, <2>5, <3>4, <3>5, <3>6, <3>7, WindowStep
  <2>8. CASE ~((halt /\ w.stage = "backfill") \/ (next = "maint" /\ (halt \/ w.halted)))
    <3>1. v = moves
      BY <1>2, <2>1, <2>8, Zenon DEF WindowNext
    <3> HIDE DEF next, halted
    <3>2. /\ v \in WorkerState /\ v.pc = "walk" /\ v.repo = r /\ v.outbox = <<>>
          /\ v.stage = next /\ v.halted = halted
      BY <1>1, <1>2, <2>6, <3>1 DEF WorkerState
    <3>3. v.halted => d.halt \/ w.halted
      BY <2>4, <3>2 DEF halted
    <3>4. v.stage = "maint" => ~v.halted
      BY <2>8, <3>2 DEF halted
    <3>5. ~v.halted =>
            \/ v.stage = "pr"
            \/ /\ v.stage = Following(r, w.stage) /\ ~w.halted /\ w.stage # "backfill"
               /\ d.completes /\ d.stream = StreamOf(w.stage)
      BY <1>4, <2>2, <2>4, <2>6, <3>2 DEF halted, next
    <3>6. QED
      BY <1>2, <1>3, <1>6, <2>4, <2>5, <2>6, <3>2, <3>3, <3>4, <3>5, WindowStep
  <2>9. QED
    BY <2>7, <2>8
<1>9. QED
  BY <1>2, <1>4, <1>7, <1>8, WindowSends

LEMMA CloseAccounts ==
  ASSUME TypeOK, Shapes, Accounting, open, NEW k \in Workers, Close(k)
  PROVE  Accounting'
<1> DEFINE w == worker[k]
           last == IF Len(w.outbox) = 1 THEN Idle ELSE [w EXCEPT !.outbox = Tail(@)]
<1>1. /\ w \in WorkerState /\ w.outbox # <<>> /\ w.outbox \in Seq(Messages) /\ w.pc # "walk"
  BY Typing DEF Close, Shapes, Types, WorkerState, Sound
<1>2. UNCHANGED <<jobs, tally, issues>>
  BY DEF Close, receiving
<1>3. PICK h \in Messages : h = Head(w.outbox)
  BY <1>1, Leftover
<1>4. PICK v : v = last
  OBVIOUS
<1>5. Keeps(k, v) /\ chan' = Append(chan, h)
  BY <1>3, <1>4 DEF Close, Sends
<1>6. v \in WorkerState /\ v.outbox = Tail(w.outbox) /\ v.pc # "walk"
  <2>1. CASE Len(w.outbox) = 1
    <3>1. v = Idle
      BY <1>4, <2>1
    <3>2. Tail(w.outbox) = <<>>
      BY <1>1, <2>1, Lone
    <3>3. QED
      BY <3>1, <3>2, IdleTyped
  <2>2. CASE Len(w.outbox) # 1
    <3>1. v = [w EXCEPT !.outbox = Tail(w.outbox)]
      BY <1>4, <2>2
    <3>2. Tail(w.outbox) \in Seq(Messages)
      BY <1>1, Leftover
    <3>3. QED
      BY <1>1, <3>1, <3>2 DEF WorkerState
  <2>3. QED
    BY <2>1, <2>2
<1>7. QED
  BY <1>1, <1>2, <1>3, <1>5, <1>6, CloseStep

LEMMA WorkerAccounts ==
  ASSUME TypeOK, Shapes, Accounting, open, NEW k \in Workers, WorkerStep(k)
  PROVE  Accounting'
<1>1. CASE Trip(k)
  BY <1>1, StopAccounts DEF Trip, receiving
<1>2. CASE Refused(k) \/ Broken(k)
  BY <1>2, StopAccounts DEF Refused, Broken, receiving
<1>3. QED
  BY <1>1, <1>2, TakeAccounts, CallAccounts, AnswerAccounts, GiveUpAccounts, WindowAccounts,
     FinishAccounts, CloseAccounts DEF WorkerStep

-----------------------------------------------------------------------------
(* The run as a whole.                                                      *)
Modes ==
  /\ running <=> writer # "off"
  /\ open <=> writer = "recv"
  /\ writer \in {"off", "failed"} => tally = [r \in Repos |-> NoTally]
  /\ writer # "recv" => chan = <<>>

(* At any point of a run a stream's counter is where the run found it, or at *)
(* zero, plus one if the stream has a row and was denied the run.            *)
Barred(k, t) == k[2] \in t.deferred \/ (t.failed /\ k[2] \in Configured(k[1]))
Base(k, t) == IF k[2] \in t.done THEN 0 ELSE begun[k]
Counted(k, t) ==
  starved[k] = IF Barred(k, t) /\ k \in synced THEN Smaller(Base(k, t) + 1, MaxStarved)
               ELSE Base(k, t)
Count == \A k \in Keys : Counted(k, tally[k[1]])

RunInvariant ==
  TypeOK /\ Shapes /\ Modes /\ Count /\ (open => Accounting) /\ EveryRepoAccounted

LEMMA Undenied ==
  ASSUME NEW k \in Keys, tally = [r \in Repos |-> NoTally]
  PROVE  /\ Counted(k, tally[k[1]]) <=> starved[k] = begun[k]
         /\ tally[k[1]] = NoTally
<1>1. tally[k[1]] = NoTally
  BY DEF Keys
<1>2. NoTally.deferred = {} /\ NoTally.failed = FALSE /\ NoTally.done = {}
  BY DEF NoTally
<1>3. QED
  BY <1>1, <1>2 DEF Counted, Barred, Base

\* A worker's step touches neither the archive nor the writer.
LEMMA WorkerLeaves ==
  ASSUME NEW k \in Workers, WorkerStep(k)
  PROVE  /\ UNCHANGED <<synced, starved, begun, issues, running, open, writer, tally, lane, untyped>>
         /\ ~open => chan' = chan
<1>1. UNCHANGED <<archive, issues, running, receiving>>
  BY DEF WorkerStep, Take, Call, Trip, Answer, GiveUp, Refused, Broken, Window, Finish, Close
<1>2. CASE Window(k)
  <2>1. PICK m, w : Sends(k, m, w)
    BY <1>2, Zenon DEF Window
  <2>2. QED
    BY <1>1, <2>1 DEF Sends, archive, receiving
<1>3. CASE Close(k)
  <2>1. chan' = chan \/ \E m, w : Sends(k, m, w)
    BY <1>3, Zenon DEF Close
  <2>2. QED
    BY <1>1, <2>1 DEF Sends, archive, receiving
<1>4. CASE ~Window(k) /\ ~Close(k)
  <2>1. chan' = chan
    BY <1>4 DEF WorkerStep, Take, Call, Trip, Answer, GiveUp, Refused, Broken, Finish
  <2>2. QED
    BY <1>1, <2>1 DEF archive, receiving
<1>5. QED
  BY <1>2, <1>3, <1>4

\* Nobody left to send, and nothing on its way: every repository has its end.
LEMMA RunOver ==
  ASSUME TypeOK, Shapes, Accounting, open, chan = <<>>, Senders = {}, NEW r \in Repos
  PROVE  LET t == tally[r] IN
         /\ t.stats = 1 /\ ~t.late
         /\ \/ t.deferred = Configured(r) /\ ~t.failed
            \/ t.deferred = {} /\ (t.failed \/ t.halted \/ t.done = Configured(r))
<1>1. \A k \in Workers : worker[k].pc = "gone" /\ worker[k].outbox = <<>>
  BY DEF Senders, Shapes, Sound
<1>2. jobs = <<>>
  BY <1>1, PipelineAssumption DEF Shapes
<1>3. \A m : ~Pending(m) /\ ~In(m, chan)
  BY <1>1, InEmpty DEF Pending
<1>4. ~Queued(r) /\ \A k \in Workers : ~Walks(k, r) /\ ~Owns(k, r)
  BY <1>1, <1>2, InEmpty DEF Queued, Walks, Owns, Closes
<1>5. tally[r].stats = 1 /\ ~tally[r].late
  BY <1>3, <1>4 DEF Accounting, Places, Tallies
<1>6. Settled(r)
  BY <1>4 DEF Accounting, Outcomes
<1>7. /\ \A s \in Streams : /\ Denied(r, s) <=> s \in tally[r].deferred
                            /\ Completed(r, s) <=> s \in tally[r].done
      /\ Broke(r) <=> tally[r].failed
      /\ Halted(r) <=> tally[r].halted
  BY <1>3 DEF Denied, Completed, Broke, Halted
<1>8. /\ Configured(r) \subseteq Streams /\ tally[r].deferred \subseteq Streams
      /\ tally[r].done \subseteq Configured(r)
  <2>1. tally[r] \in TallyState
    BY Typing DEF Types
  <2>2. QED
    BY <2>1 DEF TallyState, Configured, Streams, Accounting, Addressed
<1>9. CASE (\A s \in Streams : Denied(r, s) <=> s \in Configured(r)) /\ ~Broke(r)
  <2>1. tally[r].deferred = Configured(r)
    BY <1>7, <1>8, <1>9
  <2>2. QED
    BY <1>5, <1>7, <1>9, <2>1
<1>10. CASE /\ \A s \in Streams : ~Denied(r, s)
            /\ Broke(r) \/ Halted(r) \/ \A s \in Configured(r) : Completed(r, s)
  <2>1. tally[r].deferred = {}
    BY <1>7, <1>8, <1>10
  <2>2. (\A s \in Configured(r) : Completed(r, s)) => tally[r].done = Configured(r)
    BY <1>7, <1>8
  <2>3. QED
    BY <1>5, <1>7, <1>10, <2>1, <2>2
<1>11. QED
  BY <1>6, <1>9, <1>10 DEF Settled

-----------------------------------------------------------------------------
(* The writer keeps the count.                                              *)
LEMMA ReceiveCounts ==
  ASSUME TypeOK, Shapes, Accounting, Count, Receive
  PROVE  Count'
<1>1. /\ chan \in Seq(Messages) /\ chan # <<>> /\ starved \in [Keys -> 0..MaxStarved]
      /\ tally \in [Repos -> TallyState] /\ begun \in [Keys -> 0..MaxStarved]
  BY Typing DEF Receive, Types
<1>2. PICK m \in Messages : m = Head(chan)
  BY <1>1
<1>3. PICK q \in Repos : q = m.repo
  BY Carries
<1>4. PICK t \in TallyState : t = tally[q]
  BY <1>1
<1>5. Pending(m)
  <2>1. In(m, chan)
    BY <1>1, <1>2, Dropped
  <2>2. QED
    BY <2>1 DEF Pending
<1>6. Allows(t, m) /\ ~t.late /\ Proper(m)
  BY <1>3, <1>4, <1>5 DEF Accounting, Tallies, Addressed
<1>7. PICK u : u = Entered(t, m)
  OBVIOUS
<1>8. tally' = [tally EXCEPT ![q] = u]
  BY <1>2, <1>3, <1>4, <1>7, ReceiveEnters
<1>9. tally'[q] = u /\ \A r \in Repos \ {q} : tally'[r] = tally[r]
  BY <1>1, <1>8
<1>10. /\ u.done = IF m.kind = "done" /\ m.completes THEN t.done \cup {m.stream} ELSE t.done
       /\ u.deferred = IF m.kind = "deferred" THEN t.deferred \cup {m.stream} ELSE t.deferred
       /\ u.failed <=> t.failed \/ m.kind = "failed"
  BY <1>6, <1>7, EnteredFields
<1>11. Apply(m) /\ issues' = issues /\ begun' = begun
  BY <1>2 DEF Receive
<1>12. ASSUME NEW k \in Keys
       PROVE  Counted(k, tally[k[1]])'
  <2>1. /\ k = <<k[1], k[2]>> /\ k[1] \in Repos /\ k[2] \in Streams
        /\ Counted(k, tally[k[1]])
    BY DEF Keys, Count
  <2>2. Configured(k[1])' = Configured(k[1])
    BY <1>11 DEF Configured
  <2>3. CASE k[1] # q
    <3>1. tally'[k[1]] = tally[k[1]]
      BY <1>9, <2>1, <2>3
    <3>2. starved'[k] = starved[k] /\ (k \in synced' <=> k \in synced)
      <4>1. m.kind = "done" => starved'[k] = starved[k] /\ (k \in synced' <=> k \in synced)
        <5>1. <<m.repo, m.stream>> # k
          BY <1>3, <2>1, <2>3
        <5>2. m.kind = "done" => ApplyDone(m, tally[m.repo])
          BY <1>11, Applied
        <5>3. QED
          BY <1>1, <5>1, <5>2 DEF ApplyDone
      <4>2. m.kind = "deferred" => starved'[k] = starved[k] /\ synced' = synced
        <5>1. k \notin {<<m.repo, m.stream>>}
          BY <1>3, <2>1, <2>3
        <5>2. m.kind = "deferred" => starved' = BumpDeferred(m) /\ synced' = synced
          BY <1>11, Applied
        <5>3. QED
          BY <5>1, <5>2 DEF BumpDeferred, Bumped
      <4>3. m.kind = "failed" => starved'[k] = starved[k] /\ synced' = synced
        <5>1. k \notin {<<m.repo, s>> : s \in m.streams}
          BY <1>3, <2>1, <2>3
        <5>2. m.kind = "failed" => starved' = BumpFailed(m) /\ synced' = synced
          BY <1>11, Applied
        <5>3. QED
          BY <5>1, <5>2 DEF BumpFailed, Bumped
      <4>4. m.kind \in {"retries", "stats"} => starved'[k] = starved[k] /\ synced' = synced
        BY <1>11, Applied
      <4>5. QED
        BY <4>1, <4>2, <4>3, <4>4, Carries
    <3>3. QED
      BY <1>11, <2>1, <2>2, <3>1, <3>2 DEF Counted, Barred, Base
  <2>4. CASE k[1] = q
    <3>1. Counted(k, t) /\ tally'[k[1]] = u
      BY <1>4, <1>9, <2>1, <2>4
    <3>2. CASE m.kind \in {"retries", "stats"}
      <4>1. starved'[k] = starved[k] /\ synced' = synced
        BY <1>11, <3>2, Applied
      <4>2. u.done = t.done /\ u.deferred = t.deferred /\ (u.failed <=> t.failed)
        BY <1>10, <3>2
      <4>3. QED
        BY <1>11, <2>2, <3>1, <4>1, <4>2 DEF Counted, Barred, Base
    <3>3. CASE m.kind = "done"
      <4>1. t.deferred = {} /\ ~t.failed
        BY <1>6, <3>3 DEF Allows
      <4>2. u.deferred = {} /\ ~u.failed
        BY <1>10, <3>3, <4>1
      <4>3. starved'[k] = IF m.completes /\ k[2] = m.stream THEN 0 ELSE starved[k]
        <5>1. ApplyDone(m, tally[m.repo])
          BY <1>11, <3>3, Applied
        <5>2. k = <<m.repo, m.stream>> <=> k[2] = m.stream
          BY <1>3, <2>1, <2>4
        <5>3. QED
          BY <1>1, <5>1, <5>2 DEF ApplyDone
      <4>4. k[2] \in u.done <=> k[2] \in t.done \/ (m.completes /\ k[2] = m.stream)
        BY <1>10, <3>3
      <4>5. starved[k] = IF k[2] \in t.done THEN 0 ELSE begun[k]
        BY <3>1, <4>1 DEF Counted, Barred, Base
      <4>6. starved'[k] = IF k[2] \in u.done THEN 0 ELSE begun[k]
        BY <4>3, <4>4, <4>5
      <4>7. QED
        BY <1>11, <3>1, <4>2, <4>6 DEF Counted, Barred, Base
    <3>4. CASE m.kind = "deferred"
      <4>1. ~t.failed /\ m.stream \notin t.deferred
        BY <1>6, <3>4 DEF Allows
      <4>2. u.deferred = t.deferred \cup {m.stream} /\ ~u.failed /\ u.done = t.done
        BY <1>10, <3>4, <4>1
      <4>3. starved' = BumpDeferred(m) /\ synced' = synced
        BY <1>11, <3>4, Applied
      <4>4. k \in {<<m.repo, m.stream>>} <=> k[2] = m.stream
        BY <1>3, <2>1, <2>4
      <4>5. starved'[k] = IF k[2] = m.stream /\ k \in synced THEN Smaller(starved[k] + 1, MaxStarved)
                          ELSE starved[k]
        BY <4>3, <4>4 DEF BumpDeferred, Bumped
      <4>6. Base(k, t)' = Base(k, t) /\ Base(k, u)' = Base(k, t)
        BY <1>11, <4>2 DEF Base
      <4>7. CASE k[2] = m.stream
        <5>1. ~Barred(k, t) /\ Barred(k, u)'
          BY <4>1, <4>2, <4>7 DEF Barred
        <5>2. starved[k] = Base(k, t)
          BY <3>1, <5>1 DEF Counted
        <5>3. QED
          BY <3>1, <4>3, <4>5, <4>6, <4>7, <5>1, <5>2 DEF Counted, Barred, Base
      <4>8. CASE k[2] # m.stream
        <5>1. Barred(k, u)' <=> Barred(k, t)
          BY <4>1, <4>2, <4>8 DEF Barred
        <5>2. starved'[k] = starved[k]
          BY <4>5, <4>8
        <5>3. QED
          BY <3>1, <4>3, <4>6, <5>1, <5>2 DEF Counted, Barred, Base
      <4>9. QED
        BY <4>7, <4>8
    <3>5. CASE m.kind = "failed"
      <4>1. ~t.failed /\ t.deferred = {} /\ m.streams = Configured(q)
        BY <1>3, <1>6, <3>5 DEF Allows, Proper
      <4>2. u.deferred = {} /\ u.failed /\ u.done = t.done
        BY <1>10, <3>5, <4>1
      <4>3. starved' = BumpFailed(m) /\ synced' = synced
        BY <1>11, <3>5, Applied
      <4>4. k \in {<<m.repo, s>> : s \in m.streams} <=> k[2] \in Configured(k[1])
        BY <1>3, <2>1, <2>4, <4>1
      <4>5. starved'[k] = IF k[2] \in Configured(k[1]) /\ k \in synced
                          THEN Smaller(starved[k] + 1, MaxStarved) ELSE starved[k]
        BY <4>3, <4>4 DEF BumpFailed, Bumped
      <4>6. starved[k] = IF k[2] \in t.done THEN 0 ELSE begun[k]
        BY <3>1, <4>1 DEF Counted, Barred, Base
      <4>7. starved[k] = IF k[2] \in u.done THEN 0 ELSE begun[k]
        BY <4>2, <4>6
      <4>8. QED
        BY <1>11, <2>2, <3>1, <4>2, <4>3, <4>5, <4>7 DEF Counted, Barred, Base
    <3>6. QED
      BY <3>2, <3>3, <3>4, <3>5, Carries
  <2>5. QED
    BY <2>3, <2>4
<1>13. QED
  BY <1>12 DEF Count

\* Steps that touch neither the rows nor the tallies.
LEMMA Uncounted ==
  ASSUME Count, UNCHANGED <<synced, starved, begun, tally, issues>>
  PROVE  Count'
BY DEF Count, Counted, Barred, Base, Configured

LEMMA Unsettled ==
  ASSUME EveryRepoAccounted, UNCHANGED <<tally, issues>>,
         writer' \in {"lane", "ok"} => writer \in {"lane", "ok"}
  PROVE  EveryRepoAccounted'
BY DEF EveryRepoAccounted, Configured

\* Nothing is tallied any more, and the counters are the next run's.
LEMMA Unwound ==
  ASSUME tally' = [r \in Repos |-> NoTally], starved' = begun'
  PROVE  Count'
<1>1. ASSUME NEW k \in Keys PROVE Counted(k, tally[k[1]])'
  <2>1. tally'[k[1]] = NoTally
    BY DEF Keys
  <2>2. NoTally.deferred = {} /\ NoTally.failed = FALSE /\ NoTally.done = {}
    BY DEF NoTally
  <2>3. QED
    BY <2>1, <2>2 DEF Counted, Barred, Base
<1>2. QED
  BY <1>1 DEF Count

LEMMA RunInit == Init => RunInvariant
<1> SUFFICES ASSUME Init PROVE RunInvariant
  OBVIOUS
<1>1. /\ starved = begun /\ running = FALSE /\ chan = <<>> /\ open = FALSE /\ writer = "off"
      /\ tally = [r \in Repos |-> NoTally]
  BY DEF Init
<1>2. Modes /\ EveryRepoAccounted
  BY <1>1 DEF Modes, EveryRepoAccounted
<1>3. Count
  BY <1>1, Undenied DEF Count
<1>4. QED
  BY <1>1, <1>2, <1>3, BaseInit DEF RunInvariant

LEMMA RunStep == RunInvariant /\ [Next]_vars => RunInvariant'
<1> SUFFICES ASSUME RunInvariant, [Next]_vars PROVE RunInvariant'
  OBVIOUS
<1>0. /\ TypeOK /\ Shapes /\ Modes /\ Count /\ (open => Accounting) /\ EveryRepoAccounted
      /\ TypeOK' /\ Shapes'
  BY BaseStep DEF RunInvariant
<1> SUFFICES Modes' /\ Count' /\ (open' => Accounting') /\ EveryRepoAccounted'
  BY <1>0 DEF RunInvariant
<1>1. ASSUME NEW k \in Workers, WorkerStep(k)
      PROVE  Modes' /\ Count' /\ (open' => Accounting') /\ EveryRepoAccounted'
  <2>1. /\ UNCHANGED <<synced, starved, begun, issues, running, open, writer, tally>>
        /\ ~open => chan' = chan
    BY <1>1, WorkerLeaves
  <2>2. Modes'
    BY <1>0, <2>1 DEF Modes
  <2>3. Count' /\ EveryRepoAccounted'
    BY <1>0, <2>1, Uncounted, Unsettled
  <2>4. open' => Accounting'
    BY <1>0, <1>1, <2>1, WorkerAccounts
  <2>5. QED
    BY <2>2, <2>3, <2>4
<1>2. CASE Spend \/ UNCHANGED vars
  <2>1. UNCHANGED <<synced, starved, begun, issues, running, jobs, worker, chan, open, writer, tally>>
    BY <1>2 DEF Spend, archive, receiving, vars
  <2>2. Modes'
    BY <1>0, <2>1 DEF Modes
  <2>3. Count' /\ EveryRepoAccounted'
    BY <1>0, <2>1, Uncounted, Unsettled
  <2>4. open' => Accounting'
    BY <1>0, <2>1, Unseen
  <2>5. QED
    BY <2>2, <2>3, <2>4
<1>3. CASE Start
  <2>1. /\ ~running /\ running' = TRUE /\ writer' = "recv" /\ open' = TRUE
        /\ UNCHANGED <<synced, starved, begun, chan, tally>>
    BY <1>3 DEF Start, archive
  <2>2. writer = "off" /\ chan = <<>> /\ tally = [r \in Repos |-> NoTally]
    BY <1>0, <2>1 DEF Modes
  <2>3. Accounting'
    BY <1>0, <1>3, <2>2, StartStep
  <2>4. \A k \in Keys : starved[k] = begun[k]
    BY <1>0, <2>2, Undenied DEF Count
  <2>5. Count'
    <3>1. starved = begun
      BY <1>0, <2>4, Typing DEF Types
    <3>2. QED
      BY <2>1, <2>2, <3>1, Unwound
  <2>6. Modes' /\ EveryRepoAccounted'
    BY <2>1, <2>2 DEF Modes, EveryRepoAccounted
  <2>7. QED
    BY <2>3, <2>5, <2>6
<1>4. CASE Kill \/ Return
  <2>1. /\ running' = FALSE /\ writer' = "off" /\ open' = FALSE /\ chan' = <<>>
        /\ tally' = [r \in Repos |-> NoTally] /\ begun' = starved /\ starved' = starved
    BY <1>4 DEF Kill, Return, Reaped
  <2>2. Modes' /\ EveryRepoAccounted'
    BY <2>1 DEF Modes, EveryRepoAccounted
  <2>3. Count'
    BY <2>1, Unwound
  <2>4. QED
    BY <2>1, <2>2, <2>3
<1>5. CASE WriterStep
  <2>1. CASE Receive
    <3>1. /\ writer = "recv" /\ UNCHANGED <<running, open, writer>>
      BY <2>1 DEF Receive
    <3>2. open /\ Accounting
      BY <1>0, <3>1 DEF Modes
    <3>3. Accounting' /\ Count'
      BY <1>0, <2>1, <3>2, ReceiveStep, ReceiveCounts
    <3>4. Modes' /\ EveryRepoAccounted'
      BY <1>0, <3>1 DEF Modes, EveryRepoAccounted
    <3>5. QED
      BY <3>3, <3>4
  <2>2. CASE Record
    <3>1. /\ writer = "recv" /\ chan = <<>> /\ Senders = {} /\ writer' = "lane" /\ open' = FALSE
          /\ UNCHANGED <<synced, starved, begun, issues, running, chan, tally>>
      BY <2>2 DEF Record, archive
    <3>2. open /\ Accounting
      BY <1>0, <3>1 DEF Modes
    <3>3. EveryRepoAccounted'
      <4>1. \A r \in Repos :
              LET t == tally[r] IN
              /\ t.stats = 1 /\ ~t.late
              /\ \/ t.deferred = Configured(r) /\ ~t.failed
                 \/ t.deferred = {} /\ (t.failed \/ t.halted \/ t.done = Configured(r))
        BY <1>0, <3>1, <3>2, RunOver
      <4>2. \A r \in Repos : tally'[r] = tally[r] /\ Configured(r)' = Configured(r)
        BY <3>1 DEF Configured
      <4>3. QED
        BY <4>1, <4>2 DEF EveryRepoAccounted
    <3>4. Modes'
      BY <1>0, <3>1 DEF Modes
    <3>5. Count'
      BY <1>0, <3>1, Uncounted
    <3>6. QED
      BY <3>1, <3>3, <3>4, <3>5
  <2>3. CASE LaneEnds \/ LaneTypes
    <3>1. /\ writer = "lane" /\ writer' \in {"ok", "lane"}
          /\ UNCHANGED <<synced, starved, begun, issues, running, open, chan, tally>>
      BY <2>3 DEF LaneEnds, LaneTypes, archive
    <3>2. Modes' /\ ~open'
      BY <1>0, <3>1 DEF Modes
    <3>3. Count' /\ EveryRepoAccounted'
      BY <1>0, <3>1, Uncounted, Unsettled
    <3>4. QED
      BY <3>2, <3>3
  <2>4. CASE WriterFails
    <3>1. /\ writer \in {"recv", "lane"} /\ writer' = "failed" /\ open' = FALSE /\ chan' = <<>>
          /\ tally' = [r \in Repos |-> NoTally] /\ begun' = starved /\ starved' = starved
          /\ running' = running
      BY <2>4 DEF WriterFails
    <3>2. Modes' /\ EveryRepoAccounted'
      BY <1>0, <3>1 DEF Modes, EveryRepoAccounted
    <3>3. Count'
      BY <3>1, Unwound
    <3>4. QED
      BY <3>1, <3>2, <3>3
  <2>5. QED
    BY <1>5, <2>1, <2>2, <2>3, <2>4 DEF WriterStep
<1>6. QED
  BY <1>1, <1>2, <1>3, <1>4, <1>5 DEF Next

(* A run that ends in success has lost no repository, for any repositories,  *)
(* workers and channel bound: each has its closing stats, nothing after      *)
(* them, and an outcome that names every configured stream (sync.rs worker,  *)
(* writer, Outcome).                                                         *)
THEOREM NoRepoLost == Spec => []EveryRepoAccounted
<1>1. RunInvariant => EveryRepoAccounted
  BY DEF RunInvariant
<1>2. QED
  BY <1>1, RunInit, RunStep, PTL DEF Spec

(* By the end of a successful run a stream's starvation counter has moved by *)
(* one if the run denied it and it has a row, and only then, whatever order  *)
(* the workers' messages arrived in (sync.rs bump_starvation, writer).       *)
THEOREM StarvationCountsRuns == Spec => []CountsRuns
<1>1. ASSUME RunInvariant, writer \in {"lane", "ok"}, NEW k \in Keys
      PROVE  LET t == tally[k[1]]
                 base == IF k[2] \in t.done THEN 0 ELSE begun[k]
                 denied == k[2] \in Configured(k[1]) /\ (t.failed \/ t.deferred # {})
             IN starved[k] = IF denied /\ k \in synced THEN Smaller(base + 1, MaxStarved)
                             ELSE base
  <2> DEFINE t == tally[k[1]]
  <2>1. k[1] \in Repos /\ Counted(k, t)
    BY <1>1 DEF RunInvariant, Count, Keys
  <2>2. t.deferred = Configured(k[1]) \/ t.deferred = {}
    BY <1>1, <2>1 DEF RunInvariant, EveryRepoAccounted
  <2> HIDE DEF t
  <2>3. Barred(k, t) <=> k[2] \in Configured(k[1]) /\ (t.failed \/ t.deferred # {})
    BY <2>2 DEF Barred
  <2>4. QED
    BY <2>1, <2>3 DEF Counted, Base, t
<1>2. RunInvariant => CountsRuns
  BY <1>1 DEF CountsRuns
<1>3. QED
  BY <1>2, RunInit, RunStep, PTL DEF Spec
=============================================================================
