------------------------------- MODULE GhCall -------------------------------
(***************************************************************************)
(* One repository's calls of gh (gh.rs): a subprocess per attempt, its two *)
(* pipes drained by threads of their own into bounded channels, a watchdog *)
(* that kills a child without an exit, a collector that waits a bounded    *)
(* time for the rest, the verdict on what was collected, and the retries   *)
(* the repository's context pays for.                                      *)
(*                                                                         *)
(* What a child writes is counted in chunks.  It may hang, ignore its      *)
(* stdin, exit just as the watchdog shoots, and leave a descendant that    *)
(* holds its pipes open and writes to them: so much, or, if Endless, for   *)
(* ever.                                                                   *)
(***************************************************************************)
EXTENDS Naturals

CONSTANTS
  Plans,        \* what a child may mean to do
  Holds,        \* which pipes a descendant may be left holding
  Attempts,     \* attempts per call, from the config
  RetryBudget,  \* retries all calls of one repository share
  MaxCalls,     \* bound: calls
  PipeCap,      \* chunks a kernel pipe holds
  ChanCap,      \* chunks a drain's channel holds: 1024 in the code
  MaxMutters,   \* bound: chunks a descendant writes after its parent's death
  Endless       \* the descendants' output has no end: MaxMutters is no bound

Pipes == {"out", "err"}
Phrases == {"nothing", "secondary", "exceeded", "credentials", "other"}
Plan == [answer : {"data", "null"}, out : Nat, err : Nat,
         says : Phrases, code : {0, 1, 4}]
Meant(p) == [q \in Pipes |-> IF q = "out" THEN p.out ELSE p.err]
NoPlan == [answer |-> "null", out |-> 0, err |-> 0,
           says |-> "nothing", code |-> 0]

ASSUME GhAssumption ==
  /\ Plans \subseteq {p \in Plan : /\ p.answer = "data" => p.out > 0
                                   /\ (p.says = "nothing") = (p.err = 0)}
  /\ Holds \subseteq SUBSET (Pipes \cup {"in"}) /\ {} \in Holds
  /\ Attempts \in Nat /\ RetryBudget \in Nat /\ MaxCalls \in Nat
  /\ PipeCap \in Nat \ {0} /\ ChanCap \in Nat \ {0} /\ MaxMutters \in Nat
  /\ Endless \in BOOLEAN /\ (Endless => MaxMutters > 1)

VARIABLES
  call,     \* where the caller's thread is
  calls,    \* calls begun
  attempt,  \* attempts of this call
  budget,   \* retries left to the repository
  spawned,  \* tel.subprocess_count
  result,   \* what the last call returned
  plan,     \* what this child means to do
  life,     \* the child
  stdin,    \* the writer thread: nobody waits for it
  left,     \* chunks the child has yet to write
  pipe,     \* chunks in each kernel pipe
  chan,     \* chunks in each channel
  held,     \* pipes a descendant holds open
  mutters,  \* chunks descendants may still write
  late,     \* the deadline has passed
  over,     \* the grace after the reap has passed
  got,      \* chunks collected
  killed,   \* the watchdog shot this child
  status    \* its exit code

ctxVars == <<calls, attempt, budget, spawned, result>>
runVars == <<late, over, got, killed, status>>
callerVars == <<call, ctxVars, runVars>>
childVars == <<plan, life, stdin, left, held, mutters>>
pipeVars == <<pipe, chan>>
ghVars == <<callerVars, childVars, pipeVars>>

None == 99
Nothing == [p \in Pipes |-> 0]

GhInit ==
  /\ call = "idle" /\ calls = 0 /\ attempt = 0 /\ budget = RetryBudget
  /\ spawned = 0 /\ result = "none" /\ late = FALSE /\ over = FALSE
  /\ got = Nothing /\ killed = FALSE /\ status = None
  /\ plan = NoPlan /\ life = "none" /\ stdin = "none" /\ left = Nothing
  /\ held = {} /\ mutters = MaxMutters
  /\ pipe = Nothing /\ chan = Nothing
-----------------------------------------------------------------------------
(* The child and its descendants. *)

\* The child reads the document; or the write ends in EPIPE.
Feed ==
  /\ stdin = "writing"
  /\ life = "running" \/ (life # "running" /\ "in" \notin held)
  /\ stdin' = "done"
  /\ UNCHANGED <<plan, life, left, held, mutters, callerVars, pipeVars>>

\* gh answers only what it was asked; it complains at any time.
ChildWrites(p) ==
  /\ life = "running" /\ left[p] > 0 /\ pipe[p] < PipeCap
  /\ plan.answer = "data" => stdin = "done"
  /\ left' = [left EXCEPT ![p] = @ - 1]
  /\ pipe' = [pipe EXCEPT ![p] = @ + 1]
  /\ UNCHANGED <<plan, life, stdin, held, mutters, chan, callerVars>>

\* A child ends by itself, when it has written everything or before.
ChildExits ==
  /\ life = "running"
  /\ life' = "exited"
  /\ held' \in Holds
  /\ UNCHANGED <<plan, stdin, left, mutters, callerVars, pipeVars>>

\* Endless output leaves one chunk to write, always.
DescendantWrites(p) ==
  /\ life \in {"exited", "reaped"} /\ p \in held /\ mutters > 0
  /\ pipe[p] < PipeCap
  /\ pipe' = [pipe EXCEPT ![p] = @ + 1]
  /\ mutters' = IF Endless /\ mutters = 1 THEN 1 ELSE mutters - 1
  /\ UNCHANGED <<plan, life, stdin, left, held, chan, callerVars>>

DescendantEnds ==
  /\ held # {} /\ held' = {}
  /\ UNCHANGED <<plan, life, stdin, left, mutters, callerVars, pipeVars>>

\* A drain thread: a full channel stops it, and then the pipe fills too.
Drain(p) ==
  /\ pipe[p] > 0 /\ chan[p] < ChanCap
  /\ pipe' = [pipe EXCEPT ![p] = @ - 1]
  /\ chan' = [chan EXCEPT ![p] = @ + 1]
  /\ UNCHANGED <<callerVars, childVars>>

Draining(p) == pipe[p] > 0 /\ chan[p] < ChanCap

\* The drain met the end of the pipe and dropped its sender.
Disconnected(p) == life # "running" /\ p \notin held /\ pipe[p] = 0
-----------------------------------------------------------------------------
(* The caller. *)

BeginCall ==
  /\ call = "idle" /\ calls < MaxCalls
  /\ call' = "spawn" /\ calls' = calls + 1 /\ attempt' = 0
  /\ result' = "none"
  /\ UNCHANGED <<budget, spawned, runVars, childVars, pipeVars>>

Spawn ==
  /\ call = "spawn"
  /\ attempt' = attempt + 1 /\ spawned' = spawned + 1
  /\ \E p \in Plans : plan' = p /\ left' = Meant(p)
  /\ call' = "poll" /\ life' = "running" /\ stdin' = "writing"
  /\ killed' = FALSE /\ status' = None
  /\ UNCHANGED <<calls, budget, result, held, mutters, got, late, over, pipeVars>>

\* No such binary, or it cannot be run: an answer for the operator.
SpawnFails ==
  /\ call = "spawn"
  /\ attempt' = attempt + 1
  /\ call' = "idle" /\ result' = "Config" /\ plan' = NoPlan
  /\ life' = "none" /\ left' = Nothing /\ killed' = FALSE /\ status' = None
  /\ UNCHANGED <<calls, budget, spawned, late, over, got, stdin, held, mutters, pipeVars>>

DeadlinePasses ==
  /\ call = "poll" /\ ~late
  /\ late' = TRUE
  /\ UNCHANGED <<call, ctxVars, over, got, killed, status, childVars, pipeVars>>

ExitCode == IF left = Nothing THEN plan.code ELSE 1

Reap ==
  /\ call = "poll" /\ life = "exited"
  /\ life' = "reaped" /\ call' = "out" /\ status' = ExitCode
  /\ UNCHANGED <<ctxVars, late, over, got, killed, plan, stdin, left, held, mutters, pipeVars>>

\* try_wait saw no exit, and the deadline has passed.
WatchdogDecides ==
  /\ call = "poll" /\ late /\ life = "running"
  /\ call' = "kill" /\ killed' = TRUE
  /\ UNCHANGED <<ctxVars, late, over, got, status, childVars, pipeVars>>

\* try_wait failed: kill the child all the same.
WaitFails ==
  /\ call = "poll"
  /\ call' = "kill"
  /\ UNCHANGED <<ctxVars, runVars, childVars, pipeVars>>

\* The child may have exited since.  Its descendants survive it.
KillAndReap ==
  /\ call = "kill"
  /\ call' = "out" /\ life' = "reaped"
  /\ \/ /\ life = "running"
        /\ held' \in Holds /\ status' = None
     \/ /\ life = "exited"
        /\ status' = ExitCode /\ UNCHANGED held
  /\ UNCHANGED <<ctxVars, late, over, got, killed, plan, stdin, left, mutters, pipeVars>>

GraceEnds ==
  /\ call \in Pipes /\ ~over
  /\ over' = TRUE
  /\ UNCHANGED <<call, ctxVars, late, got, killed, status, childVars, pipeVars>>

\* recv_timeout hands out a chunk that is there, whatever time is left.  Beyond
\* what the child meant to write it is all one how much too much there is.
Collect ==
  /\ call \in Pipes /\ chan[call] > 0
  /\ got' = [got EXCEPT ![call] = IF @ > Meant(plan)[call] THEN @ ELSE @ + 1]
  /\ chan' = [chan EXCEPT ![call] = @ - 1]
  /\ UNCHANGED <<call, ctxVars, late, over, killed, status, childVars, pipe>>

\* Mutant: the collector waits for the end of the pipe only.
CollectEndsAtEof ==
  /\ call \in Pipes /\ chan[call] = 0 /\ Disconnected(call)
  /\ call' = IF call = "out" THEN "err" ELSE "judge"
  /\ UNCHANGED <<ctxVars, runVars, childVars, pipeVars>>

\* The end of the pipe, or of the time for both: two seconds are long for a
\* drain with something to move.
CollectEnds ==
  /\ call \in Pipes /\ chan[call] = 0
  /\ Disconnected(call) \/ (over /\ ~Draining(call))
  /\ call' = IF call = "out" THEN "err" ELSE "judge"
  /\ UNCHANGED <<ctxVars, runVars, childVars, pipeVars>>

\* stdout parses and carries data: all of the child's body and nothing after.
BodySuccess ==
  plan.answer = "data" /\ left["out"] = 0 /\ got["out"] = plan.out

\* The text a failure is classified by, when it was collected.
Heard == IF left["err"] = 0 /\ got["err"] >= plan.err THEN plan.says ELSE "nothing"

Classify ==
  IF Heard = "secondary" THEN "SecondaryLimit"
  ELSE IF Heard = "exceeded" THEN "RateExhausted"
  ELSE IF Heard = "credentials" \/ status = 4 THEN "Config" ELSE "Other"

\* Mutant: a shot child has failed.
VerdictKilledFirst ==
  IF killed THEN "Watchdog" ELSE IF BodySuccess THEN "Ok" ELSE Classify

Verdict ==
  IF BodySuccess THEN "Ok" ELSE IF killed THEN "Watchdog" ELSE Classify

Retryable == {"SecondaryLimit", "Watchdog", "Other"}

Retried ==
  /\ Verdict \in Retryable
  /\ attempt < (IF Attempts = 0 THEN 1 ELSE Attempts)
  /\ budget > 0

\* Pays for one more attempt and sleeps; or hands the verdict to the caller.
\* The receivers are dropped: the pipes are nobody's concern from here on.
Judge ==
  /\ call = "judge"
  /\ \/ /\ Retried
        /\ budget' = budget - 1 /\ call' = "pause"
        /\ UNCHANGED result
     \/ /\ ~Retried
        /\ result' = Verdict /\ call' = "idle"
        /\ UNCHANGED budget
  /\ stdin' = "none" /\ held' = {} /\ pipe' = Nothing /\ chan' = Nothing
  /\ got' = Nothing /\ late' = FALSE /\ over' = FALSE
  /\ UNCHANGED <<calls, attempt, spawned, killed, status, plan, life, left, mutters>>

WakeUp ==
  /\ call = "pause" /\ call' = "spawn"
  /\ UNCHANGED <<ctxVars, runVars, childVars, pipeVars>>
-----------------------------------------------------------------------------
CallerSteps == Spawn \/ SpawnFails \/ Reap \/ WatchdogDecides
                 \/ KillAndReap \/ Collect \/ CollectEnds \/ Judge \/ WakeUp
TimePasses == DeadlinePasses \/ GraceEnds
ChildSteps == Feed \/ ChildExits \/ DescendantEnds
                \/ \E p \in Pipes : ChildWrites(p) \/ DescendantWrites(p)

GhNext == BeginCall \/ CallerSteps \/ WaitFails \/ TimePasses \/ ChildSteps
            \/ \E p \in Pipes : Drain(p)

\* The caller's thread and the drains are scheduled, and time passes.
\* Nothing is assumed of the child and its descendants.
GhFairness ==
  /\ WF_ghVars(CallerSteps)
  /\ WF_ghVars(TimePasses)
  /\ \A p \in Pipes : WF_ghVars(Drain(p))

GhSpec == GhInit /\ [][GhNext]_ghVars /\ GhFairness
-----------------------------------------------------------------------------
(* Properties. *)

GhTypeOK ==
  /\ call \in {"idle", "spawn", "poll", "kill", "out", "err", "judge", "pause"}
  /\ calls \in 0..MaxCalls /\ attempt \in Nat /\ budget \in 0..RetryBudget
  /\ spawned \in Nat
  /\ result \in {"none", "Ok", "Watchdog", "SecondaryLimit", "RateExhausted",
                 "Config", "Other"}
  /\ plan \in Plans \cup {NoPlan}
  /\ life \in {"none", "running", "exited", "reaped"}
  /\ call \notin {"poll", "kill"} => life \in {"none", "reaped"}
  /\ stdin \in {"none", "writing", "done"}
  /\ held \in Holds /\ mutters \in 0..MaxMutters
  /\ left \in [Pipes -> Nat] /\ got \in [Pipes -> Nat]
  /\ pipe \in [Pipes -> 0..PipeCap] /\ chan \in [Pipes -> 0..ChanCap]
  /\ late \in BOOLEAN /\ over \in BOOLEAN /\ killed \in BOOLEAN
  /\ status \in {0, 1, 4, None}

\* A call's last attempt counts as a success if its child wrote all of a body
\* that carries data and nobody wrote after it, even when the watchdog shot the
\* child, the exit code is not 0 or a descendant still holds the pipe; and only
\* if the child wrote all of it: a body cut short is never taken for an answer
\* (gh.rs: "Body first, unconditionally").
CompleteBodyWins ==
  call = "idle" /\ plan # NoPlan =>
    /\ result = "Ok" => plan.answer = "data" /\ left["out"] = 0
    /\ (plan.answer = "data" /\ left["out"] = 0 /\ mutters = MaxMutters)
         => result = "Ok"

\* A child that reported the exhausted limit and ended by itself before the
\* deadline ends its call with that verdict and no further attempt, whoever
\* holds its pipes: hammering an exhausted limit is what the class is for
\* (gh.rs: "RateExhausted: defer, never retry").
ExhaustedDefers ==
  (/\ plan.says = "exceeded" /\ plan.answer = "null" /\ left["err"] = 0
   /\ life = "reaped" /\ ~killed) =>
    /\ call # "pause"
    /\ call = "idle" => result = "RateExhausted"

\* All calls of a repository together start no more children than they are
\* calls plus the retries the budget has paid for, and no call more than its
\* attempts: the bound a run's cost rests on (gh.rs, GhCtx).
RetriesAreBounded ==
  /\ spawned <= calls + RetryBudget
  /\ attempt <= (IF Attempts = 0 THEN 1 ELSE Attempts)

\* What a run is told of its calls, and what they cost it.
CallsAreSound == CompleteBodyWins /\ ExhaustedDefers /\ RetriesAreBounded

\* Every call returns, if what the descendants write has an end: whatever the
\* child does, however it is shot, and whoever holds its stdin and both its
\* pipes open after it (gh.rs, run_gh).  Under Endless it does not hold: the
\* claim that "the bound is unconditional" (gh.rs 145-149) forgets that a chunk
\* which is there is handed out with no time left (760-782).
CallEnds == call # "idle" ~> call = "idle"
=============================================================================
