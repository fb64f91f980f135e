---------------------------- MODULE Calls_proofs ----------------------------
(***************************************************************************)
(* Calls of the program and calls on it. Of gh: whatever the children and  *)
(* their descendants do, and for any capacities, attempts and budget, a    *)
(* body is believed exactly when it is whole, an exhausted limit is never  *)
(* retried, and the budget bounds the children. On the MCP server:         *)
(* whatever a client sends and however its verbs end, an answer is the one *)
(* true answer of its frame.                                               *)
(***************************************************************************)
EXTENDS GhCall, Mcp, TLAPS

AtMost == IF Attempts = 0 THEN 1 ELSE Attempts

\* An attempt is on its way from its child's start to its verdict.
Attempting == call \in {"poll", "kill", "out", "err", "judge"}

\* Nothing is lost between a child and the collector, and nothing is added but
\* what descendants write.
Conserved ==
  \A p \in Pipes :
    /\ Meant(plan)[p] <= got[p] + chan[p] + pipe[p] + left[p]
    /\ mutters = MaxMutters => Meant(plan)[p] = got[p] + chan[p] + pipe[p] + left[p]

\* The collector leaves a pipe when it is empty: what comes later is a
\* descendant's.
Emptied ==
  /\ call \in {"err", "judge"} =>
       (mutters = MaxMutters => chan["out"] = 0 /\ pipe["out"] = 0)
  /\ call = "judge" /\ left["err"] = 0 => Meant(plan)["err"] <= got["err"]

Collected == Attempting => Conserved /\ Emptied

\* Each child was paid for: by its call, or by the repository's budget.
Paid ==
  /\ spawned + budget + (IF call \in {"spawn", "pause"} THEN 1 ELSE 0) <= calls + RetryBudget
  /\ attempt <= AtMost
  /\ call \in {"spawn", "pause"} => attempt < AtMost

\* Nothing moves between two attempts.
Quiet == ~Attempting => got = Nothing /\ chan = Nothing /\ pipe = Nothing /\ held = {}

GhInv == GhTypeOK /\ Quiet /\ Collected /\ Paid /\ CompleteBodyWins /\ ExhaustedDefers

LEMMA Constants ==
  /\ RetryBudget \in Nat /\ MaxCalls \in Nat /\ PipeCap \in Nat /\ ChanCap \in Nat
  /\ 1 <= PipeCap /\ 1 <= ChanCap /\ MaxMutters \in Nat /\ Attempts \in Nat
  /\ AtMost \in Nat /\ 1 <= AtMost /\ {} \in Holds
BY GhAssumption DEF AtMost

LEMMA PlansMean ==
  ASSUME NEW p \in Plans \cup {NoPlan}
  PROVE  /\ Meant(p) \in [Pipes -> Nat] /\ p.out \in Nat /\ p.err \in Nat
         /\ Meant(p)["out"] = p.out /\ Meant(p)["err"] = p.err
         /\ p.code \in {0, 1, 4} /\ p.says \in Phrases /\ p.answer \in {"data", "null"}
         /\ p.says # "nothing" => p.err > 0
<1>1. p \in Plan
  <2>1. NoPlan \in Plan
    BY DEF NoPlan, Plan, Phrases
  <2>2. QED
    BY <2>1, GhAssumption
<1>2. p.out \in Nat /\ p.err \in Nat
  BY <1>1 DEF Plan
<1>3. (p.says = "nothing") = (p.err = 0)
  BY GhAssumption DEF NoPlan
<1>4. QED
  BY <1>1, <1>2, <1>3 DEF Plan, Meant, Pipes

LEMMA GhStarts == GhInit => GhInv
<1> SUFFICES ASSUME GhInit PROVE GhInv
  OBVIOUS
<1>1. GhTypeOK
  <2>1. Nothing \in [Pipes -> Nat] /\ Nothing \in [Pipes -> 0..PipeCap]
        /\ Nothing \in [Pipes -> 0..ChanCap]
    BY Constants DEF Nothing
  <2>2. 0 \in 0..MaxCalls /\ RetryBudget \in 0..RetryBudget /\ MaxMutters \in 0..MaxMutters
    BY Constants
  <2>3. QED
    BY Constants, <2>1, <2>2 DEF GhInit, GhTypeOK, None
<1>2. Quiet /\ Collected /\ CompleteBodyWins /\ ExhaustedDefers
  BY DEF GhInit, Quiet, Collected, Attempting, CompleteBodyWins, ExhaustedDefers, NoPlan
<1>3. Paid
  BY Constants DEF GhInit, Paid
<1>4. QED
  BY <1>1, <1>2, <1>3 DEF GhInv

-----------------------------------------------------------------------------
(* Types.                                                                  *)

LEMMA GhTypes ==
  ASSUME GhTypeOK, [GhNext]_ghVars
  PROVE  GhTypeOK'
<1> USE Constants DEF GhTypeOK, callerVars, ctxVars, runVars, childVars, pipeVars
<1>1. CASE UNCHANGED ghVars
  BY <1>1 DEF ghVars
<1>2. CASE BeginCall
  BY <1>2 DEF BeginCall
<1>3. CASE Spawn
  <2>1. PICK p \in Plans : plan' = p /\ left' = Meant(p)
    BY <1>3 DEF Spawn
  <2>2. p \in Plans \cup {NoPlan}
    BY <2>1
  <2>3. Meant(p) \in [Pipes -> Nat]
    BY <2>2, PlansMean
  <2>4. left' \in [Pipes -> Nat] /\ plan' \in Plans \cup {NoPlan}
    BY <2>1, <2>2, <2>3
  <2>5. calls' = calls /\ call' = "poll" /\ attempt' \in Nat /\ spawned' \in Nat
    BY <1>3 DEF Spawn
  <2>6. QED
    BY <1>3, <2>4, <2>5 DEF Spawn, None
<1>4. CASE SpawnFails
  <2>1. left' \in [Pipes -> Nat]
    BY <1>4 DEF SpawnFails, Nothing
  <2>2. plan' \in Plans \cup {NoPlan} /\ attempt' \in Nat
    BY <1>4 DEF SpawnFails
  <2>3. QED
    BY <1>4, <2>1, <2>2 DEF SpawnFails, None
<1>5. CASE DeadlinePasses
  BY <1>5 DEF DeadlinePasses
<1>6. CASE Reap
  <2>1. ExitCode \in {0, 1, 4, None}
    BY PlansMean DEF ExitCode
  <2>2. QED
    BY <1>6, <2>1 DEF Reap
<1>7. CASE WatchdogDecides
  BY <1>7 DEF WatchdogDecides
<1>8. CASE WaitFails
  BY <1>8 DEF WaitFails
<1>9. CASE KillAndReap
  <2>1. ExitCode \in {0, 1, 4, None}
    BY PlansMean DEF ExitCode
  <2>2. QED
    BY <1>9, <2>1 DEF KillAndReap
<1>10. CASE GraceEnds
  BY <1>10 DEF GraceEnds, Pipes
<1>11. CASE Collect
  BY <1>11 DEF Collect
<1>12. CASE CollectEnds
  BY <1>12 DEF CollectEnds, Pipes
<1>13. CASE Judge
  <2>1. Verdict \in {"Ok", "Watchdog", "SecondaryLimit", "RateExhausted", "Config", "Other"}
    BY DEF Verdict, Classify
  <2>2. Nothing \in [Pipes -> Nat] /\ Nothing \in [Pipes -> 0..PipeCap]
        /\ Nothing \in [Pipes -> 0..ChanCap]
    BY DEF Nothing
  <2>3. budget' \in 0..RetryBudget
    BY <1>13 DEF Judge, Retried
  <2>4. QED
    BY <1>13, <2>1, <2>2, <2>3 DEF Judge
<1>14. CASE WakeUp
  BY <1>14 DEF WakeUp
<1>15. CASE Feed
  BY <1>15 DEF Feed
<1>16. CASE ChildExits
  BY <1>16 DEF ChildExits
<1>17. CASE DescendantEnds
  BY <1>17 DEF DescendantEnds
<1>18. ASSUME NEW p \in Pipes, ChildWrites(p) PROVE GhTypeOK'
  BY <1>18 DEF ChildWrites
<1>19. ASSUME NEW p \in Pipes, DescendantWrites(p) PROVE GhTypeOK'
  BY <1>19 DEF DescendantWrites
<1>20. ASSUME NEW p \in Pipes, Drain(p) PROVE GhTypeOK'
  BY <1>20 DEF Drain
<1>21. QED
  BY <1>1, <1>2, <1>3, <1>4, <1>5, <1>6, <1>7, <1>8, <1>9, <1>10, <1>11, <1>12, <1>13,
     <1>14, <1>15, <1>16, <1>17, <1>18, <1>19, <1>20
     DEF GhNext, CallerSteps, TimePasses, ChildSteps

-----------------------------------------------------------------------------
(* What is collected.                                                      *)

\* No step touches what was collected and what is on its way.
LEMMA Untouched ==
  ASSUME Collected, UNCHANGED <<call, plan, left, mutters, got, pipeVars>>
  PROVE  Collected'
BY DEF Collected, Attempting, Conserved, Emptied, pipeVars

LEMMA QuietSteps ==
  ASSUME GhTypeOK, Quiet, [GhNext]_ghVars
  PROVE  Quiet'
<1> USE DEF Quiet, Attempting, callerVars, ctxVars, runVars, childVars, pipeVars
<1>0. /\ ~Attempting => life \notin {"running", "exited"} /\ \A p \in Pipes : pipe[p] = 0 /\ p \notin held
      /\ "out" \in Pipes /\ "err" \in Pipes /\ \A p \in Pipes : p \in {"out", "err"}
  BY DEF GhTypeOK, Nothing, Pipes
<1>1. CASE UNCHANGED ghVars
  BY <1>1 DEF ghVars
<1>2. CASE BeginCall
  BY <1>0, <1>2 DEF BeginCall
<1>3. CASE Spawn
  BY <1>0, <1>3 DEF Spawn
<1>4. CASE SpawnFails
  BY <1>0, <1>4 DEF SpawnFails
<1>5. CASE DeadlinePasses
  BY <1>0, <1>5 DEF DeadlinePasses
<1>6. CASE Reap
  BY <1>0, <1>6 DEF Reap
<1>7. CASE WatchdogDecides
  BY <1>0, <1>7 DEF WatchdogDecides
<1>8. CASE WaitFails
  BY <1>0, <1>8 DEF WaitFails
<1>9. CASE KillAndReap
  BY <1>0, <1>9 DEF KillAndReap
<1>10. CASE GraceEnds
  BY <1>0, <1>10 DEF GraceEnds
<1>11. CASE Collect
  BY <1>0, <1>11 DEF Collect
<1>12. CASE CollectEnds
  BY <1>0, <1>12 DEF CollectEnds
<1>13. CASE Judge
  BY <1>0, <1>13 DEF Judge
<1>14. CASE WakeUp
  BY <1>0, <1>14 DEF WakeUp
<1>15. CASE Feed
  BY <1>0, <1>15 DEF Feed
<1>16. CASE ChildExits
  BY <1>0, <1>16 DEF ChildExits
<1>17. CASE DescendantEnds
  BY <1>0, <1>17 DEF DescendantEnds
<1>18. ASSUME NEW p \in Pipes, ChildWrites(p) PROVE Quiet'
  BY <1>0, <1>18 DEF ChildWrites
<1>19. ASSUME NEW p \in Pipes, DescendantWrites(p) PROVE Quiet'
  BY <1>0, <1>19 DEF DescendantWrites
<1>20. ASSUME NEW p \in Pipes, Drain(p) PROVE Quiet'
  BY <1>0, <1>20 DEF Drain
<1>21. QED
  BY <1>1, <1>2, <1>3, <1>4, <1>5, <1>6, <1>7, <1>8, <1>9, <1>10, <1>11, <1>12, <1>13, <1>14, <1>15, <1>16, <1>17, <1>18, <1>19, <1>20 DEF GhNext, CallerSteps, TimePasses, ChildSteps

LEMMA CollectedSteps ==
  ASSUME GhTypeOK, Quiet, Collected, [GhNext]_ghVars
  PROVE  Collected'
<1>0. /\ left \in [Pipes -> Nat] /\ got \in [Pipes -> Nat] /\ mutters \in 0..MaxMutters
      /\ pipe \in [Pipes -> Nat] /\ chan \in [Pipes -> Nat] /\ Meant(plan) \in [Pipes -> Nat]
      /\ "out" \in Pipes /\ "err" \in Pipes /\ "out" # "err"
  <2>1. Meant(plan) \in [Pipes -> Nat]
    BY PlansMean DEF GhTypeOK
  <2>2. QED
    BY <2>1, Constants DEF GhTypeOK, Pipes
<1> USE DEF callerVars, ctxVars, runVars, childVars, pipeVars
<1>1. CASE UNCHANGED ghVars
  BY <1>1, Untouched DEF ghVars
<1>2. CASE BeginCall
  BY <1>2 DEF BeginCall, Collected, Attempting
<1>3. CASE Spawn
  <2>1. PICK p \in Plans : plan' = p /\ left' = Meant(p)
    BY <1>3 DEF Spawn
  <2>2. got' = Nothing /\ chan' = Nothing /\ pipe' = Nothing /\ call' = "poll"
    BY <1>3 DEF Spawn, Quiet, Attempting
  <2>3. Meant(p) \in [Pipes -> Nat]
    BY PlansMean
  <2>4. Conserved'
    BY <2>1, <2>2, <2>3 DEF Conserved, Nothing
  <2>5. Emptied'
    BY <2>2 DEF Emptied
  <2>6. QED
    BY <2>4, <2>5 DEF Collected
<1>4. CASE SpawnFails
  BY <1>4 DEF SpawnFails, Collected, Attempting
<1>5. CASE DeadlinePasses
  BY <1>5, Untouched DEF DeadlinePasses
<1>6. CASE Reap
  <2>1. Conserved'
    BY <1>6 DEF Reap, Collected, Attempting, Conserved
  <2>2. Emptied'
    BY <1>6 DEF Reap, Emptied
  <2>3. QED
    BY <2>1, <2>2 DEF Collected
<1>7. CASE WatchdogDecides
  <2>1. Conserved'
    BY <1>7 DEF WatchdogDecides, Collected, Attempting, Conserved
  <2>2. Emptied'
    BY <1>7 DEF WatchdogDecides, Emptied
  <2>3. QED
    BY <2>1, <2>2 DEF Collected
<1>8. CASE WaitFails
  <2>1. Conserved'
    BY <1>8 DEF WaitFails, Collected, Attempting, Conserved
  <2>2. Emptied'
    BY <1>8 DEF WaitFails, Emptied
  <2>3. QED
    BY <2>1, <2>2 DEF Collected
<1>9. CASE KillAndReap
  <2>1. Conserved'
    BY <1>9 DEF KillAndReap, Collected, Attempting, Conserved
  <2>2. Emptied'
    BY <1>9 DEF KillAndReap, Emptied
  <2>3. QED
    BY <2>1, <2>2 DEF Collected
<1>10. CASE GraceEnds
  BY <1>10, Untouched DEF GraceEnds
<1>11. CASE Collect
  <2>1. call \in Pipes /\ Conserved /\ Emptied
    BY <1>11 DEF Collect, Collected, Attempting, Pipes
  <2>2. /\ got' = [got EXCEPT ![call] = IF @ > Meant(plan)[call] THEN @ ELSE @ + 1]
        /\ chan' = [chan EXCEPT ![call] = @ - 1]
        /\ chan[call] > 0 /\ UNCHANGED <<call, plan, left, mutters, pipe>>
    BY <1>11 DEF Collect
  <2>3. ASSUME got[call] > Meant(plan)[call] PROVE Conserved'
    <3>1. got' = got /\ \A p \in Pipes : chan'[p] = IF p = call THEN chan[p] - 1 ELSE chan[p]
      BY <1>0, <2>1, <2>2, <2>3
    <3>2. mutters # MaxMutters
      BY <1>0, <2>1, <2>3 DEF Conserved
    <3>3. chan' \in [Pipes -> Nat]
      BY <1>0, <2>1, <2>2
    <3>4. ASSUME NEW p \in Pipes
          PROVE  Meant(plan)[p] <= got[p] + chan'[p] + pipe[p] + left[p]
      <4>1. CASE p = call
        BY <1>0, <2>3, <3>3, <4>1
      <4>2. CASE p # call
        BY <1>0, <2>1, <3>1, <4>2 DEF Conserved
      <4>3. QED
        BY <4>1, <4>2
    <3>5. Conserved'
      BY <2>2, <3>1, <3>2, <3>4 DEF Conserved
    <3>6. QED
      BY <3>5
  <2>4. ASSUME ~(got[call] > Meant(plan)[call]) PROVE Conserved'
    <3>1. got' = [got EXCEPT ![call] = @ + 1]
      BY <2>2, <2>4
    <3>2. \A p \in Pipes : got'[p] + chan'[p] = got[p] + chan[p]
      BY <1>0, <2>1, <2>2, <3>1
    <3>3. got' \in [Pipes -> Nat] /\ chan' \in [Pipes -> Nat]
      BY <1>0, <2>1, <2>2, <3>1
    <3>4. ASSUME NEW p \in Pipes
          PROVE  got'[p] + chan'[p] + pipe'[p] + left'[p] = got[p] + chan[p] + pipe[p] + left[p]
      BY <1>0, <2>2, <3>2, <3>3
    <3>5. Conserved'
      BY <2>1, <2>2, <3>4 DEF Conserved
    <3>6. QED
      BY <3>5
  <2>5. Conserved'
    BY <2>3, <2>4
  <2>6. Emptied'
    BY <1>0, <2>1, <2>2 DEF Emptied, Pipes
  <2>7. QED
    BY <2>5, <2>6 DEF Collected
<1>12. CASE CollectEnds
  <2>1. call \in Pipes /\ Conserved /\ Emptied
    BY <1>12 DEF CollectEnds, Collected, Attempting, Pipes
  <2>2. UNCHANGED <<plan, left, mutters, got, pipe, chan>>
    BY <1>12 DEF CollectEnds
  <2>3. chan[call] = 0 /\ pipe[call] = 0
    BY <1>0, <1>12, Constants DEF CollectEnds, Disconnected, Draining
  <2>4. Conserved'
    BY <2>1, <2>2 DEF Conserved
  <2>5. CASE call = "out"
    <3>1. call' = "err"
      BY <1>12, <2>5 DEF CollectEnds
    <3>2. QED
      BY <2>2, <2>3, <2>4, <2>5, <3>1 DEF Collected, Emptied
  <2>6. CASE call = "err"
    <3>1. call' = "judge"
      BY <1>12, <2>6 DEF CollectEnds
    <3>2. left["err"] = 0 => Meant(plan)["err"] <= got["err"]
      BY <1>0, <2>1, <2>3, <2>6 DEF Conserved
    <3>3. QED
      BY <2>1, <2>2, <2>4, <2>6, <3>1, <3>2 DEF Collected, Emptied
  <2>7. QED
    BY <2>1, <2>5, <2>6 DEF Pipes
<1>13. CASE Judge
  BY <1>13 DEF Judge, Collected, Attempting
<1>14. CASE WakeUp
  BY <1>14 DEF WakeUp, Collected, Attempting
<1>15. CASE Feed
  BY <1>15, Untouched DEF Feed
<1>16. CASE ChildExits
  BY <1>16, Untouched DEF ChildExits
<1>17. CASE DescendantEnds
  BY <1>17, Untouched DEF DescendantEnds
<1>18. ASSUME NEW p \in Pipes, ChildWrites(p) PROVE Collected'
  <2>1. /\ left' = [left EXCEPT ![p] = @ - 1] /\ pipe' = [pipe EXCEPT ![p] = @ + 1]
        /\ UNCHANGED <<call, plan, mutters, got, chan>> /\ call \in {"poll", "kill"}
    BY <1>18 DEF ChildWrites, GhTypeOK
  <2>2. Conserved
    BY <2>1 DEF Collected, Attempting
  <2>3. \A q \in Pipes : got'[q] + chan'[q] + pipe'[q] + left'[q] = got[q] + chan[q] + pipe[q] + left[q]
    BY <1>0, <2>1
  <2>4. Conserved'
    BY <2>1, <2>2, <2>3 DEF Conserved
  <2>5. QED
    BY <2>1, <2>4 DEF Collected, Emptied
<1>19. ASSUME NEW p \in Pipes, DescendantWrites(p) PROVE Collected'
  <2>1. /\ pipe' = [pipe EXCEPT ![p] = @ + 1] /\ UNCHANGED <<call, plan, left, got, chan>>
    BY <1>19 DEF DescendantWrites
  <2>2. mutters' # MaxMutters
    BY <1>0, <1>19, GhAssumption DEF DescendantWrites
  <2>3. \A q \in Pipes : got[q] + chan[q] + pipe[q] + left[q] <= got'[q] + chan'[q] + pipe'[q] + left'[q]
    BY <1>0, <2>1
  <2>4. pipe' \in [Pipes -> Nat]
    BY <1>0, <2>1
  <2>5. Conserved => Conserved'
    BY <1>0, <2>1, <2>3, <2>4, <2>2 DEF Conserved
  <2>6. Emptied => Emptied'
    BY <2>1, <2>2 DEF Emptied
  <2>7. QED
    BY <2>1, <2>5, <2>6 DEF Collected, Attempting
<1>20. ASSUME NEW p \in Pipes, Drain(p) PROVE Collected'
  <2>1. /\ pipe' = [pipe EXCEPT ![p] = @ - 1] /\ chan' = [chan EXCEPT ![p] = @ + 1]
        /\ pipe[p] > 0 /\ UNCHANGED <<call, plan, left, mutters, got>>
    BY <1>20 DEF Drain
  <2>2. \A q \in Pipes : got'[q] + chan'[q] + pipe'[q] + left'[q] = got[q] + chan[q] + pipe[q] + left[q]
    BY <1>0, <2>1
  <2>3. Conserved => Conserved'
    BY <2>1, <2>2 DEF Conserved
  <2>4. Emptied => Emptied'
    BY <1>0, <2>1 DEF Emptied
  <2>5. QED
    BY <2>1, <2>3, <2>4 DEF Collected, Attempting
<1>21. QED
  BY <1>1, <1>2, <1>3, <1>4, <1>5, <1>6, <1>7, <1>8, <1>9, <1>10, <1>11, <1>12, <1>13,
     <1>14, <1>15, <1>16, <1>17, <1>18, <1>19, <1>20
     DEF GhNext, CallerSteps, TimePasses, ChildSteps

-----------------------------------------------------------------------------
(* What is paid.                                                           *)

LEMMA PaidSteps ==
  ASSUME GhTypeOK, Paid, [GhNext]_ghVars
  PROVE  Paid'
<1>0. /\ calls \in Nat /\ attempt \in Nat /\ budget \in Nat /\ spawned \in Nat
      /\ call \in {"idle", "spawn", "poll", "kill", "out", "err", "judge", "pause"}
  BY Constants DEF GhTypeOK
<1> USE Constants DEF callerVars, ctxVars, runVars, childVars, pipeVars, Paid
<1>1. CASE UNCHANGED <<call, ctxVars>>
  BY <1>1
<1>2. CASE BeginCall
  BY <1>0, <1>2 DEF BeginCall
<1>3. CASE Spawn
  BY <1>0, <1>3 DEF Spawn
<1>4. CASE SpawnFails
  BY <1>0, <1>4 DEF SpawnFails
<1>5. CASE Reap \/ KillAndReap
  BY <1>0, <1>5 DEF Reap, KillAndReap
<1>6. CASE WatchdogDecides \/ WaitFails
  BY <1>0, <1>6 DEF WatchdogDecides, WaitFails
<1>7. CASE CollectEnds
  BY <1>0, <1>7 DEF CollectEnds, Pipes
<1>8. CASE Judge
  <2>1. CASE Retried /\ budget' = budget - 1 /\ call' = "pause"
    <3>1. attempt < AtMost /\ budget > 0
      BY <2>1 DEF Retried, AtMost
    <3>2. UNCHANGED <<calls, attempt, spawned>> /\ call = "judge"
      BY <1>8 DEF Judge
    <3>3. QED
      BY <1>0, <2>1, <3>1, <3>2
  <2>2. CASE call' = "idle" /\ budget' = budget
    BY <1>0, <1>8, <2>2 DEF Judge
  <2>3. QED
    BY <1>8, <2>1, <2>2 DEF Judge
<1>9. CASE WakeUp
  BY <1>0, <1>9 DEF WakeUp
<1>10. QED
  <2>1. Collect => UNCHANGED <<call, ctxVars>>
    BY DEF Collect
  <2>2. TimePasses => UNCHANGED <<call, ctxVars>>
    BY DEF TimePasses, DeadlinePasses, GraceEnds
  <2>3. ChildSteps => UNCHANGED <<call, ctxVars>>
    BY DEF ChildSteps, Feed, ChildExits, DescendantEnds, ChildWrites, DescendantWrites
  <2>4. (\E p \in Pipes : Drain(p)) => UNCHANGED <<call, ctxVars>>
    BY DEF Drain
  <2>5. UNCHANGED ghVars => UNCHANGED <<call, ctxVars>>
    BY DEF ghVars
  <2>6. QED
    BY <1>1, <1>2, <1>3, <1>4, <1>5, <1>6, <1>7, <1>8, <1>9, <2>1, <2>2, <2>3, <2>4, <2>5
       DEF GhNext, CallerSteps

-----------------------------------------------------------------------------
(* What is judged.                                                         *)

\* The verdict on a whole body nobody wrote after, and on a reported limit.
LEMMA Verdicts ==
  ASSUME GhTypeOK, Collected, call = "judge"
  PROVE  /\ Verdict = "Ok" => plan.answer = "data" /\ left["out"] = 0
         /\ plan.answer = "data" /\ left["out"] = 0 /\ mutters = MaxMutters
              => Verdict = "Ok"
         /\ plan.says = "exceeded" /\ plan.answer = "null" /\ left["err"] = 0 /\ ~killed
              => Verdict = "RateExhausted"
<1>1. Conserved /\ Emptied
  BY DEF Collected, Attempting
<1>2. /\ Meant(plan)["out"] = plan.out /\ Meant(plan)["err"] = plan.err
      /\ plan.out \in Nat /\ plan.err \in Nat
  BY PlansMean DEF GhTypeOK
<1>3. got["out"] \in Nat /\ got["err"] \in Nat /\ "out" \in Pipes
  BY DEF GhTypeOK, Pipes
<1>4. ASSUME plan.answer = "data", left["out"] = 0, mutters = MaxMutters
      PROVE  Verdict = "Ok"
  <2>1. got["out"] = plan.out
    BY <1>1, <1>2, <1>3, <1>4 DEF Conserved, Emptied
  <2>2. QED
    BY <1>4, <2>1 DEF Verdict, BodySuccess
<1>5. ASSUME Verdict = "Ok"
      PROVE  plan.answer = "data" /\ left["out"] = 0
  <2>1. Classify # "Ok"
    BY DEF Classify
  <2>2. BodySuccess
    BY <1>5, <2>1 DEF Verdict
  <2>3. QED
    BY <2>2 DEF BodySuccess
<1>6. ASSUME plan.says = "exceeded", plan.answer = "null", left["err"] = 0, ~killed
      PROVE  Verdict = "RateExhausted"
  <2>1. got["err"] >= plan.err
    BY <1>1, <1>2, <1>3, <1>6 DEF Emptied
  <2>2. Heard = "exceeded"
    BY <1>6, <2>1 DEF Heard
  <2>3. Classify = "RateExhausted"
    BY <2>2 DEF Classify
  <2>4. QED
    BY <1>6, <2>3 DEF Verdict, BodySuccess
<1>7. QED
  BY <1>4, <1>5, <1>6

LEMMA JudgedSteps ==
  ASSUME GhTypeOK, Quiet, Collected, CompleteBodyWins, ExhaustedDefers, [GhNext]_ghVars
  PROVE  CompleteBodyWins' /\ ExhaustedDefers'
<1> USE DEF callerVars, ctxVars, runVars, childVars, pipeVars, CompleteBodyWins, ExhaustedDefers
<1>1. CASE UNCHANGED ghVars
  BY <1>1 DEF ghVars
<1>2. CASE BeginCall
  BY <1>2 DEF BeginCall
<1>3. CASE Spawn
  BY <1>3 DEF Spawn
<1>4. CASE SpawnFails
  BY <1>4 DEF SpawnFails, NoPlan
<1>5. CASE Reap \/ KillAndReap
  BY <1>5 DEF Reap, KillAndReap
<1>6. CASE WatchdogDecides \/ WaitFails
  <2>1. life # "reaped" \/ call' = "kill"
    BY <1>6 DEF WatchdogDecides, WaitFails
  <2>2. QED
    BY <1>6, <2>1 DEF WatchdogDecides, WaitFails
<1>7. CASE Collect \/ CollectEnds
  BY <1>7 DEF Collect, CollectEnds, Pipes
<1>8. CASE TimePasses
  BY <1>8 DEF TimePasses, DeadlinePasses, GraceEnds, Pipes
<1>9. CASE Judge
  <2>1. call = "judge" /\ UNCHANGED <<plan, left, mutters, life, killed>>
    BY <1>9 DEF Judge
  <2>2. \/ Retried /\ call' = "pause"
        \/ ~Retried /\ call' = "idle" /\ result' = Verdict
    BY <1>9 DEF Judge
  <2>3. Verdict = "RateExhausted" \/ Verdict = "Ok" => ~Retried
    BY DEF Retried, Retryable
  <2>4. CompleteBodyWins'
    BY <2>1, <2>2, <2>3, Verdicts
  <2>5. ExhaustedDefers'
    BY <2>1, <2>2, <2>3, Verdicts
  <2>6. QED
    BY <2>4, <2>5
<1>10. CASE WakeUp
  BY <1>10 DEF WakeUp
<1>11. CASE Feed
  BY <1>11 DEF Feed
<1>12. CASE ChildExits
  BY <1>12 DEF ChildExits
<1>13. CASE DescendantEnds
  BY <1>13 DEF DescendantEnds
<1>14. ASSUME NEW p \in Pipes, ChildWrites(p) PROVE CompleteBodyWins' /\ ExhaustedDefers'
  <2>1. life = "running" /\ call \in {"poll", "kill"} /\ UNCHANGED <<call, life>>
    BY <1>14 DEF ChildWrites, GhTypeOK
  <2>2. QED
    BY <2>1
<1>15. ASSUME NEW p \in Pipes, DescendantWrites(p) PROVE CompleteBodyWins' /\ ExhaustedDefers'
  <2>1. p \in held /\ UNCHANGED <<call, plan, left, life, killed, result>>
    BY <1>15 DEF DescendantWrites
  <2>2. call # "idle"
    BY <2>1 DEF Quiet, Attempting
  <2>3. QED
    BY <2>1, <2>2
<1>16. ASSUME NEW p \in Pipes, Drain(p) PROVE CompleteBodyWins' /\ ExhaustedDefers'
  BY <1>16 DEF Drain
<1>17. QED
  BY <1>1, <1>2, <1>3, <1>4, <1>5, <1>6, <1>7, <1>8, <1>9, <1>10, <1>11, <1>12, <1>13,
     <1>14, <1>15, <1>16 DEF GhNext, CallerSteps, ChildSteps

-----------------------------------------------------------------------------
LEMMA GhHolds == GhSpec => []GhInv
<1>1. GhInv /\ [GhNext]_ghVars => GhInv'
  BY GhTypes, QuietSteps, CollectedSteps, PaidSteps, JudgedSteps DEF GhInv
<1>2. QED
  BY GhStarts, <1>1, PTL DEF GhSpec

\* Every reachable state has the shape GhTypeOK states: the pipes and channels
\* keep to their capacities, and no child outlives its call.
THEOREM GhTypeCorrect == GhSpec => []GhTypeOK
<1>1. GhInv => GhTypeOK
  BY DEF GhInv
<1>2. QED
  BY <1>1, GhHolds, PTL

\* For any plans, capacities, attempts and budget: a call succeeds exactly on a
\* whole body, an exhausted limit ends it, and the budget bounds the children.
THEOREM CallsStaySound == GhSpec => []CallsAreSound
<1>1. GhInv => CallsAreSound
  <2> SUFFICES ASSUME GhInv PROVE CallsAreSound
    OBVIOUS
  <2>1. spawned \in Nat /\ budget \in Nat /\ calls \in Nat
    BY Constants DEF GhInv, GhTypeOK
  <2>2. RetriesAreBounded
    BY <2>1, Constants DEF GhInv, Paid, RetriesAreBounded, AtMost
  <2>3. QED
    BY <2>2 DEF GhInv, CallsAreSound
<1>2. QED
  BY <1>1, GhHolds, PTL

-----------------------------------------------------------------------------
(* A frame's answer, once written, is true of it; and a thread has written  *)
(* none until its last step.                                                *)
Truthful(f) ==
  answers[f] # <<>> =>
    /\ f <= read /\ Len(answers[f]) = 1 /\ frames[f] # "note"
    /\ answers[f][1].id = IdOf(f, frames[f])
    /\ answers[f][1].text # "fragment"
    /\ answers[f][1].text \in Ends => answers[f][1].text = child[f]

Staged(f) ==
  /\ f > read => handler[f] = "none"
  /\ f <= read /\ frames[f] \in Inline => handler[f] = "none" /\ (answers[f] # <<>> \/ gone)
  /\ f <= read /\ frames[f] = "note" => handler[f] = "none"
  /\ f <= read /\ frames[f] \in {"call", "badcall"} => handler[f] # "none"
  /\ handler[f] \in {"called", "wait", "reply"} => answers[f] = <<>>
  /\ handler[f] = "done" => answers[f] # <<>> \/ gone
  /\ handler[f] = "reply" => /\ reply[f] \in Texts \ {"fragment"}
                             /\ reply[f] \in Ends => reply[f] = child[f]

McpInv ==
  /\ McpTypeOK
  /\ \A f \in FrameIds : Truthful(f) /\ Staged(f)
  /\ serving = "exit" /\ ~gone => \A f \in FrameIds : handler[f] \in {"none", "done"}

\* A first answer, written.
LEMMA OneAnswer ==
  ASSUME NEW S, NEW as \in [FrameIds -> Seq(S)], NEW f \in FrameIds, NEW one \in S,
         NEW bs, bs = [as EXCEPT ![f] = <<one>>]
  PROVE  /\ bs[f] = <<one>> /\ \A g \in FrameIds \ {f} : bs[g] = as[g]
         /\ bs \in [FrameIds -> Seq(S)]
<1>1. <<one>> \in Seq(S)
  OBVIOUS
<1> DEFINE single == <<one>>
<1> HIDE DEF single
<1>2. QED
  BY <1>1 DEF single

LEMMA McpSteps == McpInv /\ [McpNext]_mcpVars => McpInv'
<1> SUFFICES ASSUME McpInv, [McpNext]_mcpVars PROVE McpInv'
  OBVIOUS
<1>0. /\ serving \in {"read", "join", "exit"} /\ gone \in BOOLEAN
      /\ frames \in Seq(Kinds) /\ Len(frames) <= MaxFrames /\ read \in 0..Len(frames)
      /\ closed \in {"open", "eof", "error"} /\ MaxFrames \in Nat /\ Sends \subseteq Kinds
      /\ handler \in [FrameIds -> {"none", "called", "wait", "reply", "done"}]
      /\ reply \in [FrameIds -> Texts \cup {"none"}]
      /\ child \in [FrameIds -> Ends \cup {"none", "working"}]
      /\ answers \in [FrameIds -> Seq([id : 0..MaxFrames, text : Texts])]
      /\ \A f \in FrameIds : Truthful(f) /\ Staged(f)
      /\ serving = "exit" /\ ~gone => \A f \in FrameIds : handler[f] \in {"none", "done"}
  BY McpAssumption DEF McpInv, McpTypeOK
<1>1. ASSUME NEW kind \in Sends, ClientSends(kind) PROVE McpInv'
  <2>1. /\ frames' = Append(frames, kind) /\ Len(frames) < MaxFrames
        /\ UNCHANGED <<serving, read, closed, handler, reply, child, answers, gone>>
    BY <1>1 DEF ClientSends
  <2>2. /\ frames' \in Seq(Kinds) /\ Len(frames') = Len(frames) + 1
        /\ \A f \in 1..Len(frames) : frames'[f] = frames[f]
    <3>1. kind \in Kinds
      BY <1>0
    <3>2. QED
      BY <1>0, <2>1, <3>1
  <2>3. Len(frames') <= MaxFrames /\ read \in 0..Len(frames')
    BY <1>0, <2>1, <2>2
  <2>4. \A f \in FrameIds : f <= read => frames'[f] = frames[f]
    <3>1. ASSUME NEW f \in FrameIds, f <= read PROVE f \in 1..Len(frames)
      <4>1. f \in Nat /\ 1 <= f /\ read \in Nat /\ Len(frames) \in Nat /\ read <= Len(frames)
        BY <1>0 DEF FrameIds
      <4>2. QED
        BY <3>1, <4>1
    <3>2. QED
      BY <2>2, <3>1
  <2>5. \A f \in FrameIds : Truthful(f)' /\ Staged(f)'
    BY <1>0, <2>1, <2>4 DEF Truthful, Staged
  <2>6. McpTypeOK'
    BY <1>0, <2>1, <2>2, <2>3 DEF McpTypeOK
  <2>7. QED
    BY <1>0, <2>1, <2>5, <2>6 DEF McpInv
<1>2. CASE ClientEndsStdin \/ StdinEnds
  <2>1. /\ closed' \in {"open", "eof", "error"} /\ serving' \in {"read", "join", "exit"}
        /\ serving' = "exit" => serving = "exit"
        /\ UNCHANGED <<frames, read, handler, reply, child, answers, gone>>
    BY <1>0, <1>2 DEF ClientEndsStdin, StdinEnds
  <2>2. QED
    BY <1>0, <2>1 DEF McpInv, McpTypeOK, Truthful, Staged
<1>3. CASE Leave
  BY <1>0, <1>3 DEF Leave, McpInv, McpTypeOK, Truthful, Staged
<1>4. CASE ClientCloses
  BY <1>0, <1>4 DEF ClientCloses, McpInv, McpTypeOK, Truthful, Staged
<1>5. CASE ReadFrame
  <2>1. /\ serving = "read" /\ read < Len(frames) /\ read' = read + 1
        /\ UNCHANGED <<frames, closed, reply, child, gone>>
    BY <1>5 DEF ReadFrame
  <2>2. PICK f \in FrameIds : f = read + 1 /\ f \in 1..Len(frames) /\ f > read /\ f \in Nat
    <3>1. read + 1 \in 1..MaxFrames /\ read + 1 \in 1..Len(frames) /\ read + 1 > read
          /\ read + 1 \in Nat
      BY <1>0, <2>1
    <3>2. QED
      BY <3>1 DEF FrameIds
  <2>20. PICK kind \in Kinds : kind = frames[f]
    BY <1>0, <2>2
  <2> DEFINE one == [id |-> IdOf(f, kind), text |-> InlineText(kind)]
  <2>3. answers[f] = <<>> /\ handler[f] = "none"
    BY <1>0, <2>2 DEF Truthful, Staged
  <2>4. \A g \in FrameIds \ {f} : (g <= read' <=> g <= read) /\ (g > read' <=> g > read)
    BY <1>0, <2>1, <2>2 DEF FrameIds
  <2>5. f <= read' /\ ~(f > read') /\ read' \in 0..Len(frames)
    BY <1>0, <2>1, <2>2
  <2>6. CASE kind \in Inline /\ ~gone
    <3>1. answers' = [answers EXCEPT ![f] = Append(@, one)] /\ serving' = serving /\ handler' = handler
      BY <1>5, <2>2, <2>20, <2>6 DEF ReadFrame, Respond, Inline
    <3>2. one \in [id : 0..MaxFrames, text : Texts] /\ one.id = IdOf(f, kind)
          /\ one.text \notin Ends /\ one.text # "fragment"
      <4>1. IdOf(f, kind) \in 0..MaxFrames
        BY <1>0, <2>2 DEF IdOf, NullId, FrameIds
      <4>2. InlineText(kind) \in Texts /\ InlineText(kind) \notin Ends /\ InlineText(kind) # "fragment"
        BY <2>6 DEF InlineText, Texts, Ends, Inline
      <4>3. QED
        BY <4>1, <4>2
    <3> HIDE DEF one
    <3>3. answers[f] \in Seq([id : 0..MaxFrames, text : Texts])
      BY <1>0, <2>2
    <3>4. Append(answers[f], one) = <<one>>
      BY <2>3, <3>2, <3>3
    <3>5. answers' = [answers EXCEPT ![f] = <<one>>]
      BY <3>1, <3>4
    <3>6. /\ answers'[f] = <<one>> /\ \A g \in FrameIds \ {f} : answers'[g] = answers[g]
          /\ answers' \in [FrameIds -> Seq([id : 0..MaxFrames, text : Texts])]
      BY <1>0, <3>2, <3>5, OneAnswer
    <3>7. <<one>> # <<>> /\ Len(<<one>>) = 1 /\ <<one>>[1] = one
      OBVIOUS
    <3>8. Truthful(f)'
      BY <2>1, <2>20, <2>5, <2>6, <3>2, <3>6, <3>7 DEF Truthful, Inline
    <3>9. Staged(f)'
      BY <2>1, <2>20, <2>3, <2>5, <2>6, <3>1, <3>6, <3>7 DEF Staged, Inline
    <3>10. \A g \in FrameIds \ {f} : Truthful(g)' /\ Staged(g)'
      BY <1>0, <2>1, <2>4, <3>1, <3>6 DEF Truthful, Staged
    <3>11. McpTypeOK'
      BY <1>0, <2>1, <2>5, <3>1, <3>6 DEF McpTypeOK
    <3>12. QED
      BY <1>0, <2>1, <3>1, <3>8, <3>9, <3>10, <3>11 DEF McpInv
  <2>7. CASE kind \in Inline /\ gone
    <3>1. answers' = answers /\ serving' = "exit" /\ handler' = handler
      BY <1>5, <2>2, <2>20, <2>7 DEF ReadFrame, Respond, Inline
    <3>2. \A g \in FrameIds \ {f} : Truthful(g)' /\ Staged(g)'
      BY <1>0, <2>1, <2>4, <3>1 DEF Truthful, Staged
    <3>3. Truthful(f)' /\ Staged(f)'
      BY <2>1, <2>20, <2>3, <2>5, <2>7, <3>1 DEF Truthful, Staged, Inline
    <3>4. McpTypeOK'
      BY <1>0, <2>1, <2>5, <3>1 DEF McpTypeOK
    <3>5. QED
      BY <1>0, <2>1, <2>7, <3>1, <3>2, <3>3, <3>4 DEF McpInv
  <2>8. CASE kind \in {"call", "badcall"}
    <3>1. /\ handler' = [handler EXCEPT ![f] = "called"] /\ serving' = serving /\ answers' = answers
      BY <1>5, <2>2, <2>20, <2>8 DEF ReadFrame, Inline
    <3>2. /\ handler'[f] = "called" /\ \A g \in FrameIds \ {f} : handler'[g] = handler[g]
          /\ handler' \in [FrameIds -> {"none", "called", "wait", "reply", "done"}]
      BY <1>0, <2>2, <3>1
    <3>3. \A g \in FrameIds \ {f} : Truthful(g)' /\ Staged(g)'
      BY <1>0, <2>1, <2>4, <3>1, <3>2 DEF Truthful, Staged
    <3>4. Truthful(f)' /\ Staged(f)'
      BY <2>1, <2>20, <2>3, <2>5, <2>8, <3>1, <3>2 DEF Truthful, Staged, Inline
    <3>5. McpTypeOK'
      BY <1>0, <2>1, <2>5, <3>1, <3>2 DEF McpTypeOK
    <3>6. QED
      BY <1>0, <2>1, <3>1, <3>3, <3>4, <3>5 DEF McpInv
  <2>9. CASE kind = "note"
    <3>1. UNCHANGED <<serving, answers, handler>>
      BY <1>5, <2>2, <2>20, <2>9 DEF ReadFrame, Inline
    <3>2. \A g \in FrameIds \ {f} : Truthful(g)' /\ Staged(g)'
      BY <1>0, <2>1, <2>4, <3>1 DEF Truthful, Staged
    <3>3. Truthful(f)' /\ Staged(f)'
      BY <2>1, <2>20, <2>3, <2>5, <2>9, <3>1 DEF Truthful, Staged, Inline
    <3>4. McpTypeOK'
      BY <1>0, <2>1, <2>5, <3>1 DEF McpTypeOK
    <3>5. QED
      BY <1>0, <2>1, <3>1, <3>2, <3>3, <3>4 DEF McpInv
  <2>10. QED
    BY <2>2, <2>6, <2>7, <2>8, <2>9 DEF Kinds, Inline
<1>6. ASSUME NEW f \in FrameIds, VerbEnds(f) PROVE McpInv'
  <2>1. PICK e \in Ends : child' = [child EXCEPT ![f] = e]
    BY <1>6 DEF VerbEnds
  <2>2. /\ child[f] = "working" /\ UNCHANGED <<serving, frames, read, closed, handler, reply, answers, gone>>
    BY <1>6 DEF VerbEnds
  <2>3. child' \in [FrameIds -> Ends \cup {"none", "working"}]
        /\ \A g \in FrameIds \ {f} : child'[g] = child[g]
    BY <1>0, <2>1
  <2>4. Truthful(f)' /\ Staged(f)'
    <3>1. "working" \notin Ends
      BY DEF Ends
    <3>2. Truthful(f) /\ Staged(f)
      BY <1>0
    <3>3. QED
      BY <2>2, <3>1, <3>2 DEF Truthful, Staged
  <2>5. \A g \in FrameIds \ {f} : Truthful(g)' /\ Staged(g)'
    BY <1>0, <2>2, <2>3 DEF Truthful, Staged
  <2>6. QED
    BY <1>0, <2>2, <2>3, <2>4, <2>5 DEF McpInv, McpTypeOK
<1>7. ASSUME NEW f \in FrameIds, Refuse(f) \/ SpawnVerb(f) \/ SpawnVerbFails(f) \/ VerbCollected(f)
      PROVE  McpInv'
  <2>1. /\ serving # "exit" /\ handler[f] \in {"called", "wait"}
        /\ UNCHANGED <<serving, frames, read, closed, answers, gone>>
    BY <1>7 DEF Refuse, SpawnVerb, SpawnVerbFails, VerbCollected, Running
  <2>2. /\ handler' = [handler EXCEPT ![f] = handler'[f]] /\ handler'[f] \in {"wait", "reply"}
    BY <1>0, <1>7 DEF Refuse, SpawnVerb, SpawnVerbFails, VerbCollected
  <2>3. \/ child' = child \/ (child' = [child EXCEPT ![f] = "working"] /\ handler'[f] = "wait")
    BY <1>0, <1>7 DEF Refuse, SpawnVerb, SpawnVerbFails, VerbCollected
  <2>4. \/ reply' = reply /\ handler'[f] = "wait"
        \/ \E r \in Texts \ {"fragment"} :
             /\ reply' = [reply EXCEPT ![f] = r] /\ child' = child
             /\ r \in Ends => r = child[f]
    <3>1. CASE Refuse(f)
      <4>1. reply' = [reply EXCEPT ![f] = "invalid params"] /\ child' = child
        BY <3>1 DEF Refuse
      <4>2. "invalid params" \in Texts \ {"fragment"} /\ "invalid params" \notin Ends
        BY DEF Texts, Ends
      <4>3. QED
        BY <4>1, <4>2
    <3>2. CASE SpawnVerb(f)
      BY <1>0, <3>2 DEF SpawnVerb
    <3>3. CASE SpawnVerbFails(f)
      BY <3>3 DEF SpawnVerbFails, SpawnErrors, Texts, Ends
    <3>4. CASE VerbCollected(f)
      <4>1. /\ child[f] \in Ends /\ reply' = [reply EXCEPT ![f] = ResultOf(child[f])] /\ child' = child
        BY <3>4 DEF VerbCollected
      <4>2. ResultOf(child[f]) \in Texts \ {"fragment"}
            /\ (ResultOf(child[f]) \in Ends => ResultOf(child[f]) = child[f])
        BY <4>1 DEF ResultOf, Ends, Texts
      <4>3. QED
        BY <4>1, <4>2
    <3>5. QED
      BY <1>7, <3>1, <3>2, <3>3, <3>4
  <2>5. /\ handler' \in [FrameIds -> {"none", "called", "wait", "reply", "done"}]
        /\ reply' \in [FrameIds -> Texts \cup {"none"}]
        /\ child' \in [FrameIds -> Ends \cup {"none", "working"}]
        /\ \A g \in FrameIds \ {f} : /\ handler'[g] = handler[g] /\ reply'[g] = reply[g]
                                     /\ child'[g] = child[g]
    <3>1. /\ handler' \in [FrameIds -> {"none", "called", "wait", "reply", "done"}]
          /\ \A g \in FrameIds \ {f} : handler'[g] = handler[g]
      <4>1. PICK h \in {"wait", "reply"} : handler' = [handler EXCEPT ![f] = h]
        BY <2>2
      <4>2. QED
        BY <1>0, <4>1
    <3>2. /\ child' \in [FrameIds -> Ends \cup {"none", "working"}]
          /\ \A g \in FrameIds \ {f} : child'[g] = child[g]
      BY <1>0, <2>3
    <3>3. /\ reply' \in [FrameIds -> Texts \cup {"none"}]
          /\ \A g \in FrameIds \ {f} : reply'[g] = reply[g]
      <4>1. CASE reply' = reply
        BY <1>0, <4>1
      <4>2. ASSUME NEW r \in Texts, reply' = [reply EXCEPT ![f] = r]
            PROVE  /\ reply' \in [FrameIds -> Texts \cup {"none"}]
                   /\ \A g \in FrameIds \ {f} : reply'[g] = reply[g]
        BY <1>0, <4>2
      <4>3. QED
        BY <2>4, <4>1, <4>2
    <3>4. QED
      BY <3>1, <3>2, <3>3
  <2>6. answers[f] = <<>> /\ f <= read /\ frames[f] \in {"call", "badcall"}
    <3>1. Staged(f) /\ Truthful(f)
      BY <1>0
    <3>2. f \in Nat /\ read \in Nat
      BY <1>0 DEF FrameIds
    <3>3. f <= read
      BY <2>1, <3>1, <3>2 DEF Staged
    <3>4. frames[f] \in Kinds
      BY <1>0, <3>3 DEF FrameIds
    <3>5. QED
      BY <2>1, <3>1, <3>3, <3>4 DEF Staged, Kinds, Inline
  <2>7. handler'[f] = "reply" => /\ reply'[f] \in Texts \ {"fragment"}
                                 /\ reply'[f] \in Ends => reply'[f] = child'[f]
    BY <1>0, <2>4
  <2>8. Truthful(f)' /\ Staged(f)'
    <3>1. f \in Nat /\ read \in Nat
      BY <1>0 DEF FrameIds
    <3>2. QED
      BY <2>1, <2>2, <2>6, <2>7, <3>1 DEF Truthful, Staged, Inline
  <2>9. \A g \in FrameIds \ {f} : Truthful(g)' /\ Staged(g)'
    BY <1>0, <2>1, <2>5 DEF Truthful, Staged
  <2>10. QED
    BY <1>0, <2>1, <2>5, <2>8, <2>9 DEF McpInv, McpTypeOK
<1>8. ASSUME NEW f \in FrameIds, Reply(f) PROVE McpInv'
  <2> DEFINE one == [id |-> f, text |-> reply[f]]
  <2>1. /\ serving # "exit" /\ handler[f] = "reply" /\ handler' = [handler EXCEPT ![f] = "done"]
        /\ UNCHANGED <<frames, read, closed, reply, child, gone>>
    BY <1>8 DEF Reply, Running
  <2>2. /\ answers[f] = <<>> /\ reply[f] \in Texts \ {"fragment"}
        /\ reply[f] \in Ends => reply[f] = child[f]
    BY <1>0, <2>1 DEF Staged
  <2>3. f \in Nat /\ read \in Nat /\ f <= read /\ frames[f] \in {"call", "badcall"}
    <3>1. Staged(f) /\ f \in Nat /\ read \in Nat
      BY <1>0 DEF FrameIds
    <3>2. f <= read
      BY <2>1, <3>1 DEF Staged
    <3>3. frames[f] \in Kinds
      BY <1>0, <3>2 DEF FrameIds
    <3>4. QED
      BY <2>1, <3>1, <3>2, <3>3 DEF Staged, Kinds, Inline
  <2>4. /\ handler'[f] = "done" /\ \A g \in FrameIds \ {f} : handler'[g] = handler[g]
        /\ handler' \in [FrameIds -> {"none", "called", "wait", "reply", "done"}]
    BY <1>0, <2>1
  <2>5. CASE ~gone
    <3>1. answers' = [answers EXCEPT ![f] = Append(@, one)] /\ serving' = serving
      BY <1>8, <2>5 DEF Reply, Respond
    <3>2. one \in [id : 0..MaxFrames, text : Texts] /\ one.id = f /\ one.text = reply[f]
      BY <1>0, <2>2 DEF FrameIds
    <3> HIDE DEF one
    <3>3. Append(answers[f], one) = <<one>>
      BY <2>2, <3>2
    <3>4. /\ answers'[f] = <<one>> /\ \A g \in FrameIds \ {f} : answers'[g] = answers[g]
          /\ answers' \in [FrameIds -> Seq([id : 0..MaxFrames, text : Texts])]
      <4>1. answers' = [answers EXCEPT ![f] = <<one>>]
        BY <3>1, <3>3
      <4>2. QED
        BY <1>0, <3>2, <4>1, OneAnswer
    <3>5. <<one>> # <<>> /\ Len(<<one>>) = 1 /\ <<one>>[1] = one
      OBVIOUS
    <3>6. Truthful(f)'
      BY <2>1, <2>2, <2>3, <3>2, <3>4, <3>5 DEF Truthful, IdOf
    <3>7. Staged(f)'
      BY <2>1, <2>3, <2>4, <3>4, <3>5 DEF Staged, Inline
    <3>8. \A g \in FrameIds \ {f} : Truthful(g)' /\ Staged(g)'
      BY <1>0, <2>1, <2>4, <3>4 DEF Truthful, Staged
    <3>9. QED
      BY <1>0, <2>1, <2>4, <3>1, <3>4, <3>6, <3>7, <3>8 DEF McpInv, McpTypeOK
  <2>6. CASE gone
    <3>1. answers' = answers /\ serving' = "exit"
      BY <1>8, <2>6 DEF Reply, Respond
    <3>2. Truthful(f)' /\ Staged(f)'
      BY <2>1, <2>2, <2>3, <2>4, <2>6, <3>1 DEF Truthful, Staged, Inline
    <3>3. \A g \in FrameIds \ {f} : Truthful(g)' /\ Staged(g)'
      BY <1>0, <2>1, <2>4, <3>1 DEF Truthful, Staged
    <3>4. QED
      BY <1>0, <2>1, <2>4, <2>6, <3>1, <3>2, <3>3 DEF McpInv, McpTypeOK
  <2>7. QED
    BY <1>0, <2>5, <2>6
<1>9. CASE UNCHANGED mcpVars
  BY <1>0, <1>9 DEF mcpVars, McpInv, McpTypeOK, Truthful, Staged
<1>10. QED
  BY <1>1, <1>2, <1>3, <1>4, <1>5, <1>6, <1>7, <1>8, <1>9 DEF McpNext, HandlerSteps

LEMMA McpStarts == McpInit => McpInv
<1>1. <<>> \in Seq(Kinds) /\ Len(<<>>) = 0 /\ <<>> \in Seq([id : 0..MaxFrames, text : Texts])
  BY McpAssumption
<1>2. \A f \in FrameIds : f > 0
  BY DEF FrameIds
<1> SUFFICES ASSUME McpInit PROVE McpInv
  OBVIOUS
<1>3. /\ serving = "read" /\ frames = <<>> /\ read = 0 /\ closed = "open" /\ gone = FALSE
      /\ handler = [f \in FrameIds |-> "none"] /\ reply = [f \in FrameIds |-> "none"]
      /\ child = [f \in FrameIds |-> "none"] /\ answers = [f \in FrameIds |-> <<>>]
  BY DEF McpInit
<1>4. McpTypeOK
  <2>1. /\ frames \in Seq(Kinds) /\ Len(frames) = 0 /\ read \in 0..Len(frames)
        /\ Len(frames) <= MaxFrames
    BY <1>1, <1>3, McpAssumption
  <2>2. answers \in [FrameIds -> Seq([id : 0..MaxFrames, text : Texts])]
    BY <1>1, <1>3
  <2>3. QED
    BY <1>3, <2>1, <2>2 DEF McpTypeOK
<1>5. \A f \in FrameIds : Truthful(f) /\ Staged(f)
  BY <1>2, <1>3 DEF Truthful, Staged, FrameIds
<1>6. QED
  BY <1>3, <1>4, <1>5 DEF McpInv

(* Every reachable state of the server has the shape McpTypeOK states: no    *)
(* more frames are read than came, each thread is at one of its stages, and  *)
(* what is written is responses (bin/mcp.rs serve, call).                    *)
THEOREM McpTyped == McpSpec => []McpTypeOK
<1>1. McpInv => McpTypeOK
  BY DEF McpInv
<1>2. QED
  BY <1>1, McpStarts, McpSteps, PTL DEF McpSpec

(* Every answer the server writes is to a frame that asked, under its id,    *)
(* once, and true of how its verb ended; and a session that stdin ends       *)
(* leaves none unanswered: for any frames, in any number (bin/mcp.rs serve,  *)
(* call).                                                                    *)
THEOREM EveryAnswerIsTrue == McpSpec => []AnswersAreTrue
<1>1. McpInv => AnswersAreTrue
  <2> SUFFICES ASSUME McpInv PROVE AnswersAreTrue
    OBVIOUS
  <2>1. /\ frames \in Seq(Kinds) /\ read \in 0..Len(frames) /\ Len(frames) <= MaxFrames
        /\ MaxFrames \in Nat
        /\ \A f \in FrameIds : Truthful(f) /\ Staged(f)
        /\ serving = "exit" /\ ~gone => \A f \in FrameIds : handler[f] \in {"none", "done"}
    BY McpAssumption DEF McpInv, McpTypeOK
  <2>2. ASSUME serving = "exit", ~gone, NEW f \in 1..read
        PROVE  frames[f] = "note" \/ Answered(f)
    <3>1. f \in FrameIds /\ f <= read /\ frames[f] \in Kinds
      BY <2>1 DEF FrameIds
    <3>2. Staged(f) /\ handler[f] \in {"none", "done"}
      BY <2>1, <2>2, <3>1
    <3>3. QED
      BY <2>2, <3>1, <3>2 DEF Staged, Answered, Kinds, Inline
  <2>3. QED
    BY <2>1, <2>2 DEF AnswersAreTrue, Truthful, Answered
<1>2. QED
  BY <1>1, McpStarts, McpSteps, PTL DEF McpSpec
=============================================================================
