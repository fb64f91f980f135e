------------------------- MODULE StreamSync_proofs -------------------------
(***************************************************************************)
(* Theorems about StreamSync, for every value of its constants.            *)
(***************************************************************************)
EXTENDS StreamSync, FiniteSetTheorems, TLAPS

-----------------------------------------------------------------------------
(* The operators the actions are built from.                               *)

\* Greater and Lesser stay in Nat, and Greater bounds both of its arguments.
LEMMA GreaterNat ==
  ASSUME NEW x \in Nat, NEW y \in Nat
  PROVE  Greater(x, y) \in Nat /\ Greater(x, y) >= x /\ Greater(x, y) >= y
BY DEF Greater

LEMMA LesserNat ==
  ASSUME NEW x \in Nat, NEW y \in Nat
  PROVE  Lesser(x, y) \in Nat
BY DEF Lesser

LEMMA MinusNat ==
  ASSUME NEW x \in Nat, NEW y \in Nat
  PROVE  Minus(x, y) \in Nat /\ Minus(x, y) <= x
BY DEF Minus

\* Whatever the number of attempts, the backoff is a time.
LEMMA BackoffNat ==
  ASSUME NEW n
  PROVE  BackoffFor(n) \in Nat
BY StreamSyncAssumption DEF BackoffFor

\* The bounds are natural numbers.
LEMMA ConstantsNat ==
  /\ {Overlap, Lookback, Lag, MinWindow, DrainAttempts} \subseteq Nat
  /\ {MaxClock, MaxTrouble, MaxSpurious, StarvedBound} \subseteq Nat
BY StreamSyncAssumption

\* What the worker keeps in memory, as StreamTypeOK has it.
MemoryType ==
  /\ pc \in {"idle", "discover", "hydrate", "retry", "reverify"}
  /\ plan \in Plans
  /\ source \in {"Backfill", "Full"}
  /\ from \in Nat /\ edges \in SUBSET Nat
  /\ hits \in SUBSET Items /\ hitUpd \in [Items -> Nat]
  /\ halt \in BOOLEAN /\ fold \in Nat
  /\ rows \in SUBSET Items /\ rowsFresh \in SUBSET rows
  /\ fails \in SUBSET Items /\ drains \in SUBSET Items
  /\ walked \in SUBSET Items

\* A process that leaves keeps nothing in memory.
LEMMA LeaveType ==
  ASSUME StreamTypeOK, Leave
  PROVE  MemoryType'
<1>1. NoPlan \in Plans
  <2>1. (CHOOSE c \in Configs : TRUE) \in Configs
    BY DEF StreamTypeOK
  <2>2. QED
    BY <2>1 DEF NoPlan, Plans
<1>2. QED
  BY <1>1 DEF Leave, MemoryType

\* The transaction's rows keep the archive's shape.
LEMMA ApplyType ==
  ASSUME StreamTypeOK, NEW R \in SUBSET Items, NEW F \in SUBSET R, ApplyRows(R, F)
  PROVE  archived' \in SUBSET Items /\ fresh' \in SUBSET archived' /\ deleted' \in SUBSET archived'
BY DEF StreamTypeOK, ApplyRows

LEMMA BatchType ==
  ASSUME StreamTypeOK, NEW i \in Items, Batch(i)
  PROVE  /\ archived' \in SUBSET Items /\ fresh' \in SUBSET archived'
         /\ deleted' \in SUBSET archived'
         /\ rows' \in SUBSET Items /\ rowsFresh' \in SUBSET rows'
         /\ forgotten' \in SUBSET forgotten
<1>1. rows \cup {i} \in SUBSET Items /\ rowsFresh \cup {i} \in SUBSET (rows \cup {i})
  BY DEF StreamTypeOK
<1>2. CASE Cardinality(rows \cup {i}) >= PageBatch
  BY <1>1, <1>2, ApplyType DEF Batch
<1>3. CASE ~(Cardinality(rows \cup {i}) >= PageBatch)
  BY <1>1, <1>3 DEF Batch, StreamTypeOK, content
<1>4. QED
  BY <1>2, <1>3

LEMMA QuarantineType ==
  ASSUME StreamTypeOK, NEW F \in SUBSET Items, NEW N \in [Items -> Nat], NEW L,
         Quarantine(F, N, L)
  PROVE  /\ quar' \in SUBSET Items
         /\ tries' \in [Items -> Nat] /\ due' \in [Items -> Nat]
<1>1. quar' \in SUBSET Items
  BY DEF StreamTypeOK, Quarantine
<1>2. tries' \in [Items -> Nat]
  BY DEF StreamTypeOK, Quarantine
<1>3. \A i \in Items : clock + BackoffFor(N[i]) \in Nat
  BY BackoffNat DEF StreamTypeOK
<1>4. due' \in [Items -> Nat]
  BY <1>3 DEF StreamTypeOK, Quarantine
<1>5. QED
  BY <1>1, <1>2, <1>4

LEMMA ChargeType ==
  ASSUME StreamTypeOK, NEW i \in Items, NEW answer, Charge(i, answer)
  PROVE  trouble' \in Nat /\ spurious' \in Nat
BY DEF StreamTypeOK, Charge

\* The plan a run starts from is made of what the archive holds.
LEMMA PlanType ==
  ASSUME StreamTypeOK, NEW full \in BOOLEAN, NEW R \in SUBSET archived, Plan(full, R)
  PROVE  /\ plan' \in Plans /\ source' \in {"Backfill", "Full"} /\ from' \in Nat
         /\ plan'.due \subseteq quar /\ plan'.quarantined = quar
         /\ plan'.reverify \subseteq archived \ quar
<1> DEFINE t == IF full THEN "ColdStart" ELSE Transition(cfg)
           s == IF t = "ColdStart" THEN LookbackStart ELSE IncrementalSince
           added == IF t = "Backfill" THEN Added(fp, cfg) ELSE {}
<1>1. LookbackStart \in Nat /\ IncrementalSince \in Nat
  BY GreaterNat, MinusNat, ConstantsNat DEF StreamTypeOK, LookbackStart, IncrementalSince
<1>2. added \in SUBSET Login
  BY StreamSyncAssumption DEF StreamTypeOK, Added, Config
<1>3. plan' = [now |-> clock, since |-> s, cold |-> t = "ColdStart",
               intermediate |-> IF hasState THEN fp ELSE cfg,
               backfill |-> added, due |-> Retryable,
               quarantined |-> quar, reverify |-> R]
  BY DEF Plan
<1>4. s \in Nat
  BY <1>1
<1>5. Retryable \in SUBSET quar
  BY DEF Retryable
<1>6. R \subseteq archived \ quar
  BY DEF Plan
<1> HIDE DEF t, s, added
<1>7. /\ plan' \in Plans /\ plan'.due \subseteq quar /\ plan'.quarantined = quar
      /\ plan'.reverify \subseteq archived \ quar
  BY <1>2, <1>3, <1>4, <1>5, <1>6 DEF StreamTypeOK, Plans
<1>8. source' \in {"Backfill", "Full"} /\ from' \in Nat
  BY <1>1 DEF Plan
<1>9. QED
  BY <1>7, <1>8

-----------------------------------------------------------------------------
(* Type correctness.                                                       *)

LEMMA InitType == StreamInit => StreamTypeOK
<1> SUFFICES ASSUME StreamInit PROVE StreamTypeOK
  OBVIOUS
<1>1. NoPlan \in Plans
  <2>1. (CHOOSE c \in Configs : TRUE) \in Configs
    BY DEF StreamInit
  <2>2. QED
    BY <2>1 DEF NoPlan, Plans
<1>2. QED
  BY <1>1 DEF StreamInit, StreamTypeOK

\* A window's Done writes a fingerprint the operator configured.
LEMMA AdvanceStateType ==
  ASSUME StreamTypeOK, NEW offered \in Nat, AdvanceState(offered)
  PROVE  /\ hasState' = TRUE /\ wm' \in Nat /\ wm' >= wm
         /\ fp' \in Configs /\ checked' \in Nat /\ runsSince' \in Nat
<1>1. plan.intermediate \in Configs /\ plan.now \in Nat
  BY DEF StreamTypeOK, Plans
<1>2. wm' \in Nat /\ wm' >= wm
  BY GreaterNat DEF StreamTypeOK, AdvanceState
<1>3. QED
  BY <1>1, <1>2 DEF StreamTypeOK, AdvanceState, DoneFingerprint

LEMMA NextWindowType ==
  ASSUME StreamTypeOK, NextWindow
  PROVE  /\ pc' \in {"discover", "retry"}
         /\ source' \in {"Backfill", "Full"}
         /\ from' \in Nat /\ edges' \in SUBSET Nat
<1>1. plan.since \in Nat
  BY DEF StreamTypeOK, Plans
<1>2. CASE edges # {}
  <2>1. PICK e \in edges : from' = e + 1 /\ edges' = edges \ {e} /\ pc' = "discover" /\ source' = source
    BY <1>2 DEF NextWindow
  <2>2. e \in Nat /\ edges \in SUBSET Nat /\ source \in {"Backfill", "Full"}
    BY DEF StreamTypeOK
  <2>3. QED
    BY <2>1, <2>2
<1>3. CASE edges = {}
  BY <1>1, <1>3 DEF NextWindow
<1>4. QED
  BY <1>2, <1>3

\* Every step of the environment, the operator and the process keeps the types.
LEMMA NextType == StreamTypeOK /\ [StreamNext]_streamVars => StreamTypeOK'
<1> SUFFICES ASSUME StreamTypeOK, [StreamNext]_streamVars PROVE StreamTypeOK'
  OBVIOUS
<1> USE DEF upstream, content, state, ledger, batch, walk, bounds
<1>1. CASE UNCHANGED streamVars
  BY <1>1 DEF StreamTypeOK, streamVars, Plans
<1>2. CASE Outside
  <2>1. CASE Tick
    BY <2>1 DEF StreamTypeOK, Tick, Plans
  <2>2. ASSUME NEW i \in Items, Touch(i) PROVE StreamTypeOK'
    BY <2>2 DEF StreamTypeOK, Touch, Plans
  <2>3. ASSUME NEW i \in Items, Vanish(i) PROVE StreamTypeOK'
    BY <2>3 DEF StreamTypeOK, Vanish, Plans
  <2>4. ASSUME NEW c \in Configs, EditConfig(c) PROVE StreamTypeOK'
    BY <2>4 DEF StreamTypeOK, EditConfig, Plans
  <2>5. QED
    BY <1>2, <2>1, <2>2, <2>3, <2>4 DEF Outside
<1>3. CASE Disturbance
  <2>1. CASE RunKilled
    <3>1. MemoryType'
      BY <2>1, LeaveType DEF RunKilled
    <3>2. QED
      BY <2>1, <3>1 DEF StreamTypeOK, MemoryType, RunKilled
  <2>2. CASE Stopped
    <3>1. runsSince' \in Nat
      BY <2>2, LesserNat, ConstantsNat DEF StreamTypeOK, Stopped
    <3>2. MemoryType'
      BY <2>2, LeaveType DEF Stopped
    <3>3. QED
      BY <2>2, <3>1, <3>2 DEF StreamTypeOK, MemoryType, Stopped
  <2>3. CASE ShedRetries
    BY <2>3 DEF StreamTypeOK, ShedRetries, Plans
  <2>4. CASE ShedReverify
    BY <2>4 DEF StreamTypeOK, ShedReverify, Plans
  <2>5. QED
    BY <1>3, <2>1, <2>2, <2>3, <2>4 DEF Disturbance
<1>4. CASE StartRun
  <2>1. PICK full \in BOOLEAN, R \in SUBSET archived : Plan(full, R)
    BY <1>4, StreamSyncAssumption DEF StartRun
  <2>2. plan' \in Plans /\ source' \in {"Backfill", "Full"} /\ from' \in Nat
    BY <2>1, PlanType
  <2>3. QED
    BY <2>1, <2>2 DEF StreamTypeOK, Plan
<1>5. CASE Walk
  <2>1. ASSUME NEW shown \in SUBSET Items, SplitWindow(shown) PROVE StreamTypeOK'
    <3>1. edges' \in SUBSET Nat
      BY <2>1 DEF StreamTypeOK, SplitWindow, IsWindowEnd
    <3>2. QED
      BY <2>1, <3>1 DEF StreamTypeOK, SplitWindow, Plans
  <2>2. ASSUME NEW shown \in SUBSET Items, NEW H \in SUBSET Items, Discover(shown, H)
        PROVE  StreamTypeOK'
    BY <2>2 DEF StreamTypeOK, Discover, Plans, Capped
  <2>3. ASSUME NEW i \in Items, Decline(i) PROVE StreamTypeOK'
    <3>1. fold' \in Nat
      BY <2>3, GreaterNat DEF StreamTypeOK, Decline
    <3>2. QED
      BY <2>3, <3>1 DEF StreamTypeOK, Decline, Plans
  <2>4. ASSUME NEW i \in Items, NEW tail \in BOOLEAN, NEW answer, HydrateHit(i, answer, tail)
        PROVE  StreamTypeOK'
    <3>1. fold' \in Nat
      BY <2>4, GreaterNat DEF StreamTypeOK, HydrateHit
    <3>2. trouble' \in Nat /\ spurious' \in Nat
      BY <2>4, ChargeType DEF HydrateHit
    <3>3. /\ archived' \in SUBSET Items /\ fresh' \in SUBSET archived'
          /\ deleted' \in SUBSET archived'
          /\ rows' \in SUBSET Items /\ rowsFresh' \in SUBSET rows'
          /\ forgotten' \in SUBSET Items
      BY <2>4, BatchType DEF StreamTypeOK, HydrateHit
    <3>4. fails' \in SUBSET Items /\ walked' \in SUBSET Items
      BY <2>4 DEF StreamTypeOK, HydrateHit
    <3>5. QED
      BY <2>4, <3>1, <3>2, <3>3, <3>4 DEF StreamTypeOK, HydrateHit
  <2>5. CASE WindowDone
    <3>1. archived' \in SUBSET Items /\ fresh' \in SUBSET archived' /\ deleted' \in SUBSET archived'
      BY <2>5, ApplyType DEF WindowDone, StreamTypeOK
    <3>2. quar' \in SUBSET Items /\ tries' \in [Items -> Nat] /\ due' \in [Items -> Nat]
      BY <2>5, QuarantineType, [i \in Items |-> 1] \in [Items -> Nat] DEF WindowDone, StreamTypeOK
    <3>3. /\ hasState' = TRUE /\ wm' \in Nat
          /\ fp' \in Configs /\ checked' \in Nat /\ runsSince' \in Nat
      BY <2>5, AdvanceStateType DEF WindowDone, StreamTypeOK
    <3>4. MemoryType'
      <4>1. CASE halt
        BY <2>5, <4>1, LeaveType DEF WindowDone
      <4>2. CASE ~halt
        <5>1. NextWindow
          BY <2>5, <4>2 DEF WindowDone
        <5>2. /\ pc' \in {"discover", "retry"} /\ source' \in {"Backfill", "Full"}
              /\ from' \in Nat /\ edges' \in SUBSET Nat
          BY <5>1, NextWindowType
        <5>3. /\ hitUpd' = [i \in Items |-> 0] /\ halt' = FALSE /\ fold' = 0
              /\ rows' = {} /\ rowsFresh' = {} /\ fails' = {} /\ drains' = {}
              /\ plan' = plan /\ hits' = hits /\ walked' = walked
          BY <2>5, <4>2 DEF WindowDone
        <5>4. QED
          BY <5>2, <5>3 DEF StreamTypeOK, MemoryType
      <4>3. QED
        BY <4>1, <4>2
    <3>5. QED
      BY <2>5, <3>1, <3>2, <3>3, <3>4 DEF WindowDone, StreamTypeOK, MemoryType
  <2>6. QED
    BY <1>5, <2>1, <2>2, <2>3, <2>4, <2>5 DEF Walk, Unsettled
<1>6. CASE Maintenance
  <2>1. ASSUME NEW i \in Items, NEW answer, RetryItem(i, answer) PROVE StreamTypeOK'
    <3>1. plan' \in Plans
      BY <2>1 DEF StreamTypeOK, RetryItem, Plans
    <3>2. trouble' \in Nat /\ spurious' \in Nat
      BY <2>1, ChargeType DEF RetryItem
    <3>3. QED
      BY <2>1, <3>1, <3>2 DEF StreamTypeOK, RetryItem
  <2>2. ASSUME NEW i \in Items, NEW answer, ReverifyItem(i, answer) PROVE StreamTypeOK'
    <3>1. plan' \in Plans
      BY <2>2 DEF StreamTypeOK, ReverifyItem, Plans
    <3>2. trouble' \in Nat /\ spurious' \in Nat
      BY <2>2, ChargeType DEF ReverifyItem
    <3>3. /\ archived' \in SUBSET Items /\ fresh' \in SUBSET archived'
          /\ deleted' \in SUBSET archived'
          /\ rows' \in SUBSET Items /\ rowsFresh' \in SUBSET rows'
          /\ forgotten' \in SUBSET Items
      BY <2>2, BatchType DEF StreamTypeOK, ReverifyItem
    <3>4. QED
      BY <2>2, <3>1, <3>2, <3>3 DEF StreamTypeOK, ReverifyItem
  <2>3. CASE RetriesDone
    <3>1. [i \in Items |-> tries[i] + 1] \in [Items -> Nat]
      BY DEF StreamTypeOK
    <3>2. quar' \in SUBSET Items /\ tries' \in [Items -> Nat] /\ due' \in [Items -> Nat]
      BY <2>3, <3>1, QuarantineType DEF RetriesDone, StreamTypeOK
    <3>3. QED
      BY <2>3, <3>2 DEF StreamTypeOK, RetriesDone
  <2>4. CASE ReverifyPage
    BY <2>4, ApplyType DEF StreamTypeOK, ReverifyPage
  <2>5. CASE ReverifyDone
    <3>1. quar' \in SUBSET Items /\ tries' \in [Items -> Nat] /\ due' \in [Items -> Nat]
      BY <2>5, QuarantineType, [i \in Items |-> 1] \in [Items -> Nat] DEF ReverifyDone, StreamTypeOK
    <3>2. MemoryType'
      BY <2>5, LeaveType DEF ReverifyDone
    <3>3. QED
      BY <2>5, <3>1, <3>2 DEF StreamTypeOK, MemoryType, ReverifyDone
  <2>6. QED
    BY <1>6, <2>1, <2>2, <2>3, <2>4, <2>5 DEF Maintenance
<1>7. CASE Demand
  <2> PICK i \in Items : \E answer \in Answers(i) \cup Faults(i) : Targeted(i, answer)
    BY <1>7 DEF Demand
  <2>1. PICK answer \in Answers(i) \cup Faults(i) : Targeted(i, answer)
    OBVIOUS
  <2>2. trouble' \in Nat /\ spurious' \in Nat
    BY <2>1, ChargeType DEF Targeted
  <2> DEFINE attempts == IF i \in quar THEN tries[i] + 1 ELSE 1
  <2>3. attempts \in Nat
    BY DEF StreamTypeOK
  <2>4. [j \in Items |-> attempts] \in [Items -> Nat] /\ [j \in Items |-> 0] \in [Items -> Nat]
    BY <2>3
  <2>5. /\ archived' \in SUBSET Items /\ fresh' \in SUBSET archived'
        /\ deleted' \in SUBSET archived' /\ forgotten' \in SUBSET Items
    BY <2>1 DEF Targeted, ApplyRows, StreamTypeOK
  <2>6. quar' \in SUBSET Items /\ tries' \in [Items -> Nat] /\ due' \in [Items -> Nat]
    <3>1. \/ Quarantine({}, [j \in Items |-> 0], {i})
          \/ Quarantine({i}, [j \in Items |-> attempts], {})
      BY <2>1 DEF Targeted
    <3> HIDE DEF attempts
    <3>2. QED
      BY <2>4, <3>1, QuarantineType DEF StreamTypeOK
  <2>7. QED
    BY <2>1, <2>2, <2>5, <2>6 DEF StreamTypeOK, Targeted
<1>8. QED
  BY <1>1, <1>2, <1>3, <1>4, <1>5, <1>6, <1>7 DEF StreamNext

\* Every variable keeps its shape: the archive's sets stay inside the rows it
\* holds, the stored inputs stay a configuration of the operator.
THEOREM TypeCorrect == StreamSpec => []StreamTypeOK
BY InitType, NextType, PTL DEF StreamSpec

-----------------------------------------------------------------------------
(* The watermark.                                                          *)

\* Only a window's Done touches the stored watermark, and it takes the larger.
THEOREM WatermarkNeverFalls == StreamSpec => WatermarkMonotone
<1>1. StreamTypeOK /\ [StreamNext]_streamVars => [wm' >= wm]_streamVars
  <2> SUFFICES ASSUME StreamTypeOK, StreamNext PROVE wm' >= wm
    OBVIOUS
  <2> USE DEF upstream, content, state, ledger, batch, walk, bounds
  <2>1. wm \in Nat
    BY DEF StreamTypeOK
  <2>2. CASE WindowDone
    <3>1. (IF halt THEN 0 ELSE fold) \in Nat
      BY DEF StreamTypeOK
    <3>2. QED
      BY <2>2, <3>1, AdvanceStateType DEF WindowDone
  <2>3. CASE Outside
    BY <2>1, <2>3 DEF Outside, Tick, Touch, Vanish, EditConfig
  <2>4. CASE Disturbance
    BY <2>1, <2>4 DEF Disturbance, RunKilled, Stopped, ShedRetries, ShedReverify
  <2>5. CASE StartRun
    BY <2>1, <2>5 DEF StartRun, Plan
  <2>6. CASE Walk /\ ~WindowDone
    BY <2>1, <2>6 DEF Walk, Unsettled, SplitWindow, Discover, Decline, HydrateHit
  <2>7. CASE Maintenance
    BY <2>1, <2>7 DEF Maintenance, RetryItem, ReverifyItem, RetriesDone, ReverifyPage, ReverifyDone
  <2>8. CASE Demand
    BY <2>1, <2>8 DEF Demand, Targeted
  <2>9. QED
    BY <2>2, <2>3, <2>4, <2>5, <2>6, <2>7, <2>8 DEF StreamNext
<1>2. QED
  BY <1>1, TypeCorrect, PTL DEF StreamSpec, WatermarkMonotone

-----------------------------------------------------------------------------
(* The quarantine: what leaves it, and what is drained.                    *)

\* Where each batch of a run stands towards the quarantine the run was planned
\* with.  Windows and the re-verify tier stay away from the ids planned as
\* quarantined, so what they quarantine is at its first attempt; the retries
\* touch nothing else, and each id they try ends in one batch.
Apart ==
  /\ pc = "idle" => rows = {} /\ fails = {} /\ drains = {}
  /\ pc # "idle" => \A i \in quar \ plan.quarantined : tries[i] = 1
  /\ pc # "idle" => plan.due \subseteq plan.quarantined
  /\ pc # "idle" => plan.reverify \cap plan.quarantined = {}
  /\ pc = "discover" => rows = {} /\ fails = {}
  /\ pc = "hydrate" => (hits \cup fails) \cap plan.quarantined = {}
  /\ pc = "reverify" => fails \cap plan.quarantined = {}
  /\ pc # "retry" => drains = {}
  /\ pc = "retry" =>
       /\ (rows \cup fails \cup drains) \subseteq plan.quarantined
       /\ rows \cap drains = {} /\ rows \cap fails = {} /\ fails \cap drains = {}
       /\ (rows \cup fails \cup drains) \cap plan.due = {}
       /\ \A i \in drains : tries[i] + 1 >= DrainAttempts

LEMMA InitApart == StreamInit => Apart
BY DEF StreamInit, Apart

\* An idle process holds nothing.
LEMMA LeaveApart ==
  ASSUME Leave
  PROVE  Apart'
BY DEF Leave, Apart

LEMMA NextApart == StreamTypeOK /\ Apart /\ [StreamNext]_streamVars => Apart'
<1> SUFFICES ASSUME StreamTypeOK, Apart, [StreamNext]_streamVars PROVE Apart'
  OBVIOUS
<1> USE DEF upstream, content, state, ledger, batch, walk, bounds
<1>1. CASE UNCHANGED streamVars
  BY <1>1 DEF Apart, streamVars
<1>2. CASE Outside
  BY <1>2 DEF Apart, Outside, Tick, Touch, Vanish, EditConfig
<1>3. CASE Disturbance
  <2>1. CASE RunKilled \/ Stopped
    BY <2>1, LeaveApart DEF RunKilled, Stopped
  <2>2. CASE ShedRetries
    BY <2>2 DEF Apart, ShedRetries, StreamTypeOK, Plans
  <2>3. CASE ShedReverify
    BY <2>3 DEF Apart, ShedReverify, StreamTypeOK, Plans
  <2>4. QED
    BY <1>3, <2>1, <2>2, <2>3 DEF Disturbance
<1>4. CASE StartRun
  <2>1. PICK full \in BOOLEAN, R \in SUBSET archived : Plan(full, R)
    BY <1>4, StreamSyncAssumption DEF StartRun
  <2>2. /\ plan'.due \subseteq quar /\ plan'.quarantined = quar
        /\ plan'.reverify \subseteq archived \ quar
    BY <2>1, PlanType
  <2>3. QED
    BY <2>1, <2>2 DEF Plan, Apart
<1>5. CASE Walk
  <2>1. ASSUME NEW shown \in SUBSET Items, SplitWindow(shown) PROVE Apart'
    BY <2>1 DEF Apart, SplitWindow
  <2>2. ASSUME NEW shown \in SUBSET Items, NEW H \in SUBSET Items, Discover(shown, H)
        PROVE  Apart'
    BY <2>2 DEF Apart, Discover
  <2>3. ASSUME NEW i \in Items, Decline(i) PROVE Apart'
    BY <2>3 DEF Apart, Decline
  <2>4. ASSUME NEW i \in Items, NEW tail \in BOOLEAN, NEW answer, HydrateHit(i, answer, tail)
        PROVE  Apart'
    BY <2>4 DEF Apart, HydrateHit, IsNextHit
  <2>5. CASE WindowDone
    <3>1. CASE halt
      BY <2>5, <3>1, LeaveApart DEF WindowDone
    <3>2. CASE ~halt
      <4>1. pc' \in {"discover", "retry"}
        BY <2>5, <3>2, NextWindowType DEF WindowDone
      <4>2. /\ rows' = {} /\ fails' = {} /\ drains' = {} /\ plan' = plan
        BY <2>5, <3>2 DEF WindowDone
      <4>3. \A i \in quar' \ plan.quarantined : tries'[i] = 1
        BY <2>5 DEF WindowDone, Quarantine, Apart, StreamTypeOK
      <4>4. QED
        BY <2>5, <4>1, <4>2, <4>3 DEF Apart, WindowDone
    <3>3. QED
      BY <3>1, <3>2
  <2>6. QED
    BY <1>5, <2>1, <2>2, <2>3, <2>4, <2>5 DEF Walk, Unsettled
<1>6. CASE Maintenance
  <2>1. ASSUME NEW i \in Items, NEW answer, RetryItem(i, answer) PROVE Apart'
    <3>1. /\ plan'.due = plan.due \ {i} /\ plan'.quarantined = plan.quarantined
          /\ plan'.reverify = plan.reverify
      BY <2>1 DEF RetryItem, StreamTypeOK, Plans
    <3>2. QED
      BY <2>1, <3>1 DEF Apart, RetryItem
  <2>2. ASSUME NEW i \in Items, NEW answer, ReverifyItem(i, answer) PROVE Apart'
    <3>1. /\ plan'.due = plan.due /\ plan'.quarantined = plan.quarantined
          /\ plan'.reverify = plan.reverify \ {i}
      BY <2>2 DEF ReverifyItem, StreamTypeOK, Plans
    <3>2. QED
      BY <2>2, <3>1 DEF Apart, ReverifyItem
  <2>3. CASE RetriesDone
    <3>1. \A i \in quar' \ plan.quarantined : i \in quar /\ tries'[i] = tries[i]
      BY <2>3 DEF RetriesDone, Quarantine, Apart, StreamTypeOK
    <3>2. QED
      BY <2>3, <3>1 DEF Apart, RetriesDone
  <2>4. CASE ReverifyPage
    BY <2>4 DEF Apart, ReverifyPage
  <2>5. CASE ReverifyDone
    BY <2>5, LeaveApart DEF ReverifyDone
  <2>6. QED
    BY <1>6, <2>1, <2>2, <2>3, <2>4, <2>5 DEF Maintenance
<1>7. CASE Demand
  BY <1>7 DEF Demand, Targeted, Apart
<1>8. QED
  BY <1>1, <1>2, <1>3, <1>4, <1>5, <1>6, <1>7 DEF StreamNext

LEMMA AlwaysApart == StreamSpec => []Apart
BY InitApart, NextApart, TypeCorrect, PTL DEF StreamSpec

\* What QuarantineLedger asks of one step.
LedgerStep ==
  \A i \in quar :
    IF i \in quar' THEN tries'[i] >= tries[i]
    ELSE \/ i \in archived' \ deleted'
         \/ i \in forgotten' /\ tries[i] + 1 >= DrainAttempts

\* No quarantine row is lost: it goes with the item's content in the archive,
\* or with a drain the attempts had earned, and until then its attempts grow.
THEOREM QuarantineKept == StreamSpec => QuarantineLedger
<1>1. StreamTypeOK /\ Apart /\ [StreamNext]_streamVars => [LedgerStep]_streamVars
  <2> SUFFICES ASSUME StreamTypeOK, Apart, StreamNext PROVE LedgerStep
    OBVIOUS
  <2> USE DEF upstream, content, state, ledger, batch, walk, bounds
  <2>1. CASE quar' = quar /\ tries' = tries
    BY <2>1 DEF LedgerStep, StreamTypeOK
  <2>2. CASE WindowDone
    <3>1. quar \subseteq quar'
      BY <2>2 DEF WindowDone, Quarantine
    <3>2. \A i \in quar : tries'[i] >= tries[i]
      BY <2>2 DEF WindowDone, Quarantine, Apart, StreamTypeOK
    <3>3. QED
      BY <3>1, <3>2 DEF LedgerStep
  <2>3. CASE RetriesDone
    <3>1. SUFFICES ASSUME NEW i \in quar
                   PROVE  IF i \in quar' THEN tries'[i] >= tries[i]
                          ELSE \/ i \in archived' \ deleted'
                               \/ i \in forgotten' /\ tries[i] + 1 >= DrainAttempts
      BY DEF LedgerStep
    <3>2. CASE i \in fails
      BY <2>3, <3>2 DEF RetriesDone, Quarantine, StreamTypeOK
    <3>3. CASE i \in rows \ fails
      BY <2>3, <3>3 DEF RetriesDone, Quarantine, Apart
    <3>4. CASE i \in drains \ fails
      BY <2>3, <3>4 DEF RetriesDone, Quarantine, Apart
    <3>5. CASE i \notin rows \cup fails \cup drains
      BY <2>3, <3>5 DEF RetriesDone, Quarantine, StreamTypeOK
    <3>6. QED
      BY <3>2, <3>3, <3>4, <3>5
  <2>4. CASE ReverifyDone
    <3>1. quar \subseteq quar'
      BY <2>4 DEF ReverifyDone, Quarantine
    <3>2. \A i \in quar : tries'[i] >= tries[i]
      BY <2>4 DEF ReverifyDone, Quarantine, Apart, StreamTypeOK
    <3>3. QED
      BY <3>1, <3>2 DEF LedgerStep
  <2>5. CASE Demand
    <3> PICK i \in Items : \E answer \in Answers(i) \cup Faults(i) : Targeted(i, answer)
      BY <2>5 DEF Demand
    <3>1. PICK answer \in Answers(i) \cup Faults(i) : Targeted(i, answer)
      OBVIOUS
    <3> DEFINE attempts == IF i \in quar THEN tries[i] + 1 ELSE 1
    <3>2. \A j \in quar \ {i} : j \in quar' /\ tries'[j] = tries[j]
      BY <3>1 DEF Targeted, Quarantine, StreamTypeOK
    <3>3. ASSUME i \in quar, i \in quar' PROVE tries'[i] >= tries[i]
      BY <3>1, <3>3 DEF Targeted, Quarantine, StreamTypeOK
    <3>4. ASSUME i \in quar, i \notin quar'
          PROVE  \/ i \in archived' \ deleted'
                 \/ i \in forgotten' /\ tries[i] + 1 >= DrainAttempts
      BY <3>1, <3>4 DEF Targeted, Quarantine, ApplyRows
    <3>5. QED
      BY <3>2, <3>3, <3>4 DEF LedgerStep, StreamTypeOK
  <2>6. CASE Outside
    BY <2>1, <2>6 DEF Outside, Tick, Touch, Vanish, EditConfig
  <2>7. CASE Disturbance
    BY <2>1, <2>7 DEF Disturbance, RunKilled, Stopped, ShedRetries, ShedReverify
  <2>8. CASE StartRun
    BY <2>1, <2>8 DEF StartRun, Plan
  <2>9. CASE Walk /\ ~WindowDone
    BY <2>1, <2>9 DEF Walk, Unsettled, SplitWindow, Discover, Decline, HydrateHit
  <2>10. CASE Maintenance /\ ~RetriesDone /\ ~ReverifyDone
    BY <2>1, <2>10 DEF Maintenance, RetryItem, ReverifyItem, ReverifyPage
  <2>11. QED
    BY <2>2, <2>3, <2>4, <2>5, <2>6, <2>7, <2>8, <2>9, <2>10 DEF StreamNext
<1>2. QED
  BY <1>1, TypeCorrect, AlwaysApart, PTL DEF StreamSpec, QuarantineLedger, LedgerStep

\* Every id the archive, the quarantine or a run holds has existed upstream.
Seen ==
  /\ clock > 0
  /\ \A i \in archived \cup quar \cup hits \cup rows \cup fails \cup plan.due
            \cup plan.reverify : upd[i] > 0

LEMMA InitSeen == StreamInit => Seen
BY DEF StreamInit, Seen, NoPlan

LEMMA LeaveSeen ==
  ASSUME Leave
  PROVE  hits' = {} /\ rows' = {} /\ fails' = {} /\ plan'.due = {} /\ plan'.reverify = {}
BY DEF Leave, NoPlan

LEMMA NextSeen == StreamTypeOK /\ Apart /\ Seen /\ [StreamNext]_streamVars => Seen'
<1> SUFFICES ASSUME StreamTypeOK, Apart, Seen, [StreamNext]_streamVars PROVE Seen'
  OBVIOUS
<1> USE DEF upstream, content, state, ledger, batch, walk, bounds
<1>1. CASE UNCHANGED streamVars
  BY <1>1 DEF Seen, streamVars
<1>2. CASE Outside
  <2>1. CASE Tick
    BY <2>1 DEF Tick, Seen, StreamTypeOK
  <2>2. ASSUME NEW i \in Items, Touch(i) PROVE Seen'
    BY <2>2 DEF Touch, Seen, StreamTypeOK, Plans
  <2>3. ASSUME NEW i \in Items, Vanish(i) PROVE Seen'
    BY <2>3 DEF Vanish, Seen
  <2>4. ASSUME NEW c \in Configs, EditConfig(c) PROVE Seen'
    BY <2>4 DEF EditConfig, Seen
  <2>5. QED
    BY <1>2, <2>1, <2>2, <2>3, <2>4 DEF Outside
<1>3. CASE Disturbance
  <2>1. CASE RunKilled \/ Stopped
    BY <2>1, LeaveSeen DEF RunKilled, Stopped, Seen
  <2>2. CASE ShedRetries
    BY <2>2 DEF Seen, ShedRetries, StreamTypeOK, Plans
  <2>3. CASE ShedReverify
    BY <2>3 DEF Seen, ShedReverify, StreamTypeOK, Plans
  <2>4. QED
    BY <1>3, <2>1, <2>2, <2>3 DEF Disturbance
<1>4. CASE StartRun
  <2>1. PICK full \in BOOLEAN, R \in SUBSET archived : Plan(full, R)
    BY <1>4, StreamSyncAssumption DEF StartRun
  <2>2. /\ plan'.due \subseteq quar /\ plan'.reverify \subseteq archived
    BY <2>1, PlanType
  <2>3. QED
    BY <2>1, <2>2 DEF Plan, Seen
<1>5. CASE Walk
  <2>1. ASSUME NEW shown \in SUBSET Items, SplitWindow(shown) PROVE Seen'
    BY <2>1 DEF Seen, SplitWindow
  <2>2. ASSUME NEW shown \in SUBSET Items, NEW H \in SUBSET Items, Discover(shown, H)
        PROVE  Seen'
    <3>1. \A i \in H : upd[i] > 0
      BY <2>2 DEF Discover, TermHits, Indexed, Exists
    <3>2. QED
      BY <2>2, <3>1 DEF Seen, Discover
  <2>3. ASSUME NEW i \in Items, Decline(i) PROVE Seen'
    BY <2>3 DEF Seen, Decline
  <2>4. ASSUME NEW i \in Items, NEW tail \in BOOLEAN, NEW answer, HydrateHit(i, answer, tail)
        PROVE  Seen'
    BY <2>4 DEF Seen, HydrateHit, IsNextHit, Batch, ApplyRows
  <2>5. CASE WindowDone
    <3>1. archived' \cup quar' \subseteq archived \cup quar \cup rows \cup fails
      BY <2>5 DEF WindowDone, ApplyRows, Quarantine
    <3>2. CASE halt
      BY <2>5, <3>1, <3>2, LeaveSeen DEF WindowDone, Seen
    <3>3. CASE ~halt
      BY <2>5, <3>1, <3>3 DEF WindowDone, Seen
    <3>4. QED
      BY <3>2, <3>3
  <2>6. QED
    BY <1>5, <2>1, <2>2, <2>3, <2>4, <2>5 DEF Walk, Unsettled
<1>6. CASE Maintenance
  <2>1. ASSUME NEW i \in Items, NEW answer, RetryItem(i, answer) PROVE Seen'
    BY <2>1 DEF Seen, RetryItem, StreamTypeOK, Plans
  <2>2. ASSUME NEW i \in Items, NEW answer, ReverifyItem(i, answer) PROVE Seen'
    <3>1. /\ plan'.due = plan.due /\ plan'.reverify = plan.reverify \ {i}
      BY <2>2 DEF ReverifyItem, StreamTypeOK, Plans
    <3>2. /\ archived' \subseteq archived \cup rows \cup {i}
          /\ rows' \subseteq rows \cup {i} /\ fails' \subseteq fails \cup {i}
          /\ i \in plan.reverify
      BY <2>2 DEF ReverifyItem, Batch, ApplyRows
    <3>3. QED
      BY <2>2, <3>1, <3>2 DEF Seen, ReverifyItem
  <2>3. CASE RetriesDone
    BY <2>3 DEF Seen, RetriesDone, Quarantine
  <2>4. CASE ReverifyPage
    BY <2>4 DEF Seen, ReverifyPage, ApplyRows
  <2>5. CASE ReverifyDone
    BY <2>5, LeaveSeen DEF ReverifyDone, Seen, Quarantine
  <2>6. QED
    BY <1>6, <2>1, <2>2, <2>3, <2>4, <2>5 DEF Maintenance
<1>7. CASE Demand
  BY <1>7 DEF Demand, Targeted, Seen, ApplyRows, Quarantine
<1>8. QED
  BY <1>1, <1>2, <1>3, <1>4, <1>5, <1>6, <1>7 DEF StreamNext

\* A replica that never denies an item that exists drains only what is gone.
Drained == drains \cup forgotten \subseteq gone

LEMMA NextDrained ==
  MaxSpurious = 0 /\ StreamTypeOK /\ Apart /\ Seen /\ Drained /\ [StreamNext]_streamVars => Drained'
<1> SUFFICES ASSUME MaxSpurious = 0, StreamTypeOK, Apart, Seen, Drained, [StreamNext]_streamVars
             PROVE  Drained'
  OBVIOUS
<1> USE DEF upstream, content, state, ledger, batch, walk, bounds
<1>1. \A i \in Items : "node_null" \in Answers(i) \cup Faults(i) => ~Exists(i)
  BY DEF Answers, Faults, StreamTypeOK
<1>2. CASE UNCHANGED streamVars
  BY <1>2 DEF Drained, streamVars
<1>3. CASE Outside
  BY <1>3 DEF Drained, Outside, Tick, Touch, Vanish, EditConfig
<1>4. CASE Disturbance
  BY <1>4 DEF Drained, Disturbance, RunKilled, Stopped, Leave, ShedRetries, ShedReverify
<1>5. CASE StartRun
  BY <1>5 DEF Drained, StartRun, Plan
<1>6. CASE Walk
  <2>1. CASE WindowDone
    BY <2>1 DEF Drained, WindowDone, Leave
  <2>2. CASE Walk /\ ~WindowDone
    BY <2>2 DEF Drained, Walk, SplitWindow, Discover, Decline, HydrateHit, Batch
  <2>3. QED
    BY <1>6, <2>1, <2>2
<1>7. CASE Maintenance
  <2>1. ASSUME NEW i \in Items, NEW answer \in Answers(i) \cup Faults(i), RetryItem(i, answer)
        PROVE  Drained'
    <3>1. answer = "node_null" => i \in gone
      BY <1>1, <2>1 DEF RetryItem, Seen, Exists
    <3>2. QED
      BY <2>1, <3>1 DEF Drained, RetryItem
  <2>2. ASSUME NEW i \in Items, NEW answer, ReverifyItem(i, answer) PROVE Drained'
    BY <2>2 DEF Drained, ReverifyItem, Batch
  <2>3. CASE RetriesDone \/ ReverifyPage \/ ReverifyDone
    BY <2>3 DEF Drained, RetriesDone, ReverifyPage, ReverifyDone, Leave
  <2>4. QED
    BY <1>7, <2>1, <2>2, <2>3 DEF Maintenance
<1>8. CASE Demand
  <2> PICK i \in Items : \E answer \in Answers(i) \cup Faults(i) : Targeted(i, answer)
    BY <1>8 DEF Demand
  <2>1. PICK answer \in Answers(i) \cup Faults(i) : Targeted(i, answer)
    OBVIOUS
  <2>2. answer = "node_null" => i \in gone
    BY <1>1, <2>1 DEF Targeted, Exists
  <2>3. QED
    BY <2>1, <2>2 DEF Drained, Targeted
<1>9. QED
  BY <1>2, <1>3, <1>4, <1>5, <1>6, <1>7, <1>8 DEF StreamNext

\* An archived item is marked deleted only when it is gone upstream, as long as
\* node:null is never the answer for one that exists.
THEOREM OnlyTheGoneAreDrained == MaxSpurious = 0 => (StreamSpec => []DrainedIsGone)
<1> SUFFICES ASSUME MaxSpurious = 0 PROVE StreamSpec => []DrainedIsGone
  OBVIOUS
<1>1. StreamInit => Drained
  BY DEF StreamInit, Drained
<1>2. StreamTypeOK /\ Apart /\ Seen /\ Drained /\ [StreamNext]_streamVars => Drained'
  BY NextDrained
<1>3. Drained => DrainedIsGone
  BY DEF Drained, DrainedIsGone, Exists
<1>4. QED
  BY <1>1, <1>2, <1>3, InitSeen, NextSeen, TypeCorrect, AlwaysApart, PTL DEF StreamSpec

-----------------------------------------------------------------------------
(* The watermark never leads data.                                         *)

\* What the theorems ask of an instance in which a term may be capped: a cold
\* start only widens what the stored inputs asked for, and an update shows in
\* the index before a window that is split can close on it.
Widening ==
  \/ Cardinality(Items) <= Cap
  \/ /\ 2 * Lag <= MinWindow
     /\ \A c, d \in Configs :
          Relaxes(c, d) \/ TRUE \in Forced =>
            \A i \in Items : Wants(c, i) => Wants(d, i)

\* ... and that no one joins `people`.
Steady == Widening /\ \A c, d \in Configs : Added(c, d) = {}

\* A run on its way to the watermark of its configuration, and one that has
\* the history of a new person to fetch first.
Walking == pc \in {"discover", "hydrate"}
Joining == Walking /\ plan.backfill # {}

\* A run that backfills a new person reaches the end of its main walk: no kill,
\* no floor, no failure and no halt in between.
GoesThrough == Joining => pc' # "idle"
JoinsGoThrough == [][GoesThrough]_streamVars

\* Nothing is dated after the clock, a closed window is behind the index, and
\* what a window has folded or discovered is inside it.
Dated ==
  /\ wm <= clock /\ fold <= clock
  /\ pc = "discover" => from <= clock
  /\ ~hasState => wm = 0
  /\ \A i \in Items : upd[i] <= clock /\ hitUpd[i] <= clock
  /\ \A e \in edges : e < clock /\ e + Lag <= clock
  /\ \A e \in edges : fold <= e /\ \A i \in hits : hitUpd[i] <= e
  /\ pc # "hydrate" => fold = 0 /\ hits = {}
  /\ pc \notin {"discover", "hydrate"} => edges = {}
  /\ Cardinality(Items) <= Cap => edges = {} /\ ~halt

\* What a run claims to have checked does not lie in the future.
Claimed ==
  /\ plan.now <= clock /\ checked <= clock
  /\ ~hasState => checked = 0
  /\ Walking => checked <= plan.now

\* A row that is not yet written was not fresh in the archive before; a retry
\* that went stale since was touched after what the stream's row claims.
Held ==
  /\ rows \cap (fresh \cup forgotten) \subseteq rowsFresh
  /\ pc = "retry" => \A i \in rows \ rowsFresh : upd[i] >= wm /\ upd[i] >= checked

\* The run's configuration against the stored inputs its windows commit.
Licensed ==
  /\ Walking => plan.quarantined \subseteq quar
  /\ Walking /\ plan.cold =>
       /\ plan.backfill = {}
       /\ hasState => fp = plan.intermediate
       /\ Cardinality(Items) > Cap =>
            \A i \in Items : Wants(plan.intermediate, i) => Wants(cfg, i)
  /\ Walking /\ ~plan.cold =>
       /\ hasState
       /\ plan.backfill = {} => \A i \in Items : Wants(cfg, i) => Wants(fp, i)
  /\ source = "Backfill" =>
       /\ Joining /\ fp = plan.intermediate
       /\ \A i \in Items :
            Wants(cfg, i) => Wants(fp, i) \/ Involves[i] \cap plan.backfill # {}
  /\ Joining => plan.since <= Greater(Minus(plan.now, Overlap), Minus(plan.now, Lookback))

\* i belongs to a later window, or to the next run.
Later(i) ==
  IF edges = {}
  THEN /\ plan.now <= upd[i] + Lag
       /\ Minus(wm, Overlap) <= upd[i] /\ Minus(fold, Overlap) <= upd[i]
       /\ \A j \in hits : Minus(hitUpd[j], Overlap) <= upd[i]
  ELSE \E e \in edges : e < upd[i]

\* i belongs to a later window of the backfill, or to the main walk.
LaterOn(i) ==
  IF edges = {} THEN plan.now <= upd[i] + Lag /\ plan.since <= upd[i]
  ELSE \E e \in edges : e < upd[i]

\* What the archive lacks is ahead of the main walk: at or past the window, or
\* discovered by it, or carried by the batches of its Done.
Ahead ==
  source = "Full" =>
    /\ pc = "discover" => \A i \in Items : Unlicensed(cfg, i) => upd[i] >= from
    /\ pc = "hydrate" /\ ~halt =>
         \A i \in Items : Unlicensed(cfg, i) =>
           i \in hits \cup rowsFresh \cup fails \/ Later(i)

\* While the backfill runs, what the archive lacks is the business of the main
\* walk if the stored inputs ask for it, and ahead of the backfill otherwise.
\* After it, all that is missing is newer than what was claimed before.
Joined ==
  /\ source = "Backfill" =>
       \A i \in Items : Unlicensed(cfg, i) =>
         IF Wants(fp, i) THEN upd[i] >= plan.since
         ELSE /\ pc = "discover" => upd[i] >= from
              /\ pc = "hydrate" /\ ~halt =>
                   i \in hits \cup rowsFresh \cup fails \/ LaterOn(i)
  /\ Joining /\ source = "Full" =>
       \A i \in Items : Unlicensed(cfg, i) => upd[i] + Lag >= checked

\* The watermark may lead data only in a run that joins someone.
Resumes == ~Joining => WatermarkNeverLeadsData

LEMMA InitDated == StreamInit => Dated
BY DEF StreamInit, Dated

\* No term is capped where all items together are no more than a term returns.
LEMMA NeverCapped ==
  ASSUME Cardinality(Items) <= Cap, NEW shown
  PROVE  ~Capped(shown)
<1> SUFFICES ASSUME NEW login \in Terms, Cardinality(TermHits(login, shown)) > Cap
             PROVE  FALSE
  BY DEF Capped
<1>1. TermHits(login, shown) \subseteq Items
  BY DEF TermHits, Indexed
<1>2. Cardinality(TermHits(login, shown)) <= Cardinality(Items)
  BY <1>1, FS_Subset, StreamSyncAssumption
<1>3. Cardinality(Items) \in Nat /\ Cardinality(TermHits(login, shown)) \in Nat /\ Cap \in Nat
  BY <1>1, FS_Subset, FS_CardinalityType, StreamSyncAssumption
<1>4. QED
  BY <1>2, <1>3

\* Splitting a window leaves its closed half behind the index.
LEMMA SplitDated ==
  ASSUME Widening, StreamTypeOK, Dated, NEW shown \in SUBSET Items, SplitWindow(shown)
  PROVE  Dated'
<1> USE DEF upstream, content, state, ledger, batch, walk, bounds
<1>1. PICK e \in 0 .. clock : /\ IsWindowEnd(e) /\ Splittable(e)
                              /\ edges' = edges \cup {from + (e - from) \div 2}
  BY DEF SplitWindow
<1> DEFINE mid == from + (e - from) \div 2
<1>2. 2 * Lag <= MinWindow /\ ~(Cardinality(Items) <= Cap)
  <2>1. Capped(shown)
    BY DEF SplitWindow
  <2>2. QED
    BY <2>1, NeverCapped DEF Widening
<1>3. /\ from \in Nat /\ clock \in Nat /\ Lag \in Nat /\ MinWindow \in Nat
      /\ MinWindow >= 2 /\ from + MinWindow <= e
  BY <1>1, StreamSyncAssumption, WindowAssumption DEF StreamTypeOK, Splittable
<1>4. mid < e /\ mid \in Nat /\ e - mid >= Lag
  BY <1>2, <1>3
<1>5. e <= clock /\ (edges # {} => e \in edges)
  BY <1>1 DEF IsWindowEnd
<1>6. mid < clock /\ mid + Lag <= clock
  <2>1. CASE edges # {}
    BY <1>3, <1>4, <1>5, <2>1 DEF Dated
  <2>2. CASE edges = {}
    BY <1>1, <1>3, <1>4, <2>2 DEF IsWindowEnd
  <2>3. QED
    BY <2>1, <2>2
<1>7. fold = 0 /\ hits = {} /\ pc = "discover"
  BY DEF SplitWindow, Dated
<1> HIDE DEF mid
<1>8. \A f \in edges' : f < clock /\ f + Lag <= clock /\ 0 <= f
  BY <1>1, <1>4, <1>6 DEF Dated, StreamTypeOK, mid
<1>9. QED
  BY <1>2, <1>7, <1>8 DEF SplitWindow, Dated

\* The main walk of a joining run starts no later than the run did.
LEMMA SinceBehind ==
  ASSUME StreamTypeOK, Claimed, Licensed, Joining
  PROVE  plan.since <= clock
<1>1. plan.now \in Nat /\ plan.since \in Nat /\ clock \in Nat
  BY DEF StreamTypeOK, Plans
<1>2. Minus(plan.now, Overlap) <= plan.now /\ Minus(plan.now, Lookback) <= plan.now
  BY <1>1, MinusNat, ConstantsNat
<1>3. Minus(plan.now, Overlap) \in Nat /\ Minus(plan.now, Lookback) \in Nat
  BY <1>1, MinusNat, ConstantsNat
<1>4. QED
  BY <1>1, <1>2, <1>3 DEF Claimed, Licensed, Greater

LEMMA LeaveDated ==
  ASSUME StreamTypeOK, Leave
  PROVE  /\ pc' = "idle" /\ fold' = 0 /\ edges' = {} /\ hits' = {}
         /\ hitUpd' = [i \in Items |-> 0] /\ source' = "Full" /\ ~halt'
BY DEF Leave

LEMMA NextDated == Widening /\ StreamTypeOK /\ Dated /\ Claimed /\ Licensed /\ [StreamNext]_streamVars => Dated'
<1> SUFFICES ASSUME Widening, StreamTypeOK, Dated, Claimed, Licensed, [StreamNext]_streamVars PROVE Dated'
  OBVIOUS
<1> USE DEF upstream, content, state, ledger, batch, walk, bounds
<1>1. CASE UNCHANGED streamVars
  BY <1>1 DEF Dated, streamVars
<1>2. CASE Outside
  <2>1. CASE Tick
    BY <2>1, StreamSyncAssumption DEF Tick, Dated, StreamTypeOK
  <2>2. ASSUME NEW i \in Items, Touch(i) PROVE Dated'
    BY <2>2 DEF Touch, Dated, StreamTypeOK
  <2>3. ASSUME NEW i \in Items, Vanish(i) PROVE Dated'
    BY <2>3 DEF Vanish, Dated
  <2>4. ASSUME NEW c \in Configs, EditConfig(c) PROVE Dated'
    BY <2>4 DEF EditConfig, Dated
  <2>5. QED
    BY <1>2, <2>1, <2>2, <2>3, <2>4 DEF Outside
<1>3. CASE Disturbance
  <2>1. CASE RunKilled \/ Stopped
    <3>1. clock' = clock /\ upd' = upd /\ wm' = wm /\ hasState' = hasState /\ Leave
      BY <2>1 DEF RunKilled, Stopped
    <3>2. QED
      BY <3>1, LeaveDated DEF Dated, StreamTypeOK
  <2>2. CASE ShedRetries \/ ShedReverify
    BY <2>2 DEF Dated, ShedRetries, ShedReverify
  <2>3. QED
    BY <1>3, <2>1, <2>2 DEF Disturbance
<1>4. CASE StartRun
  <2>1. PICK full \in BOOLEAN, R \in SUBSET archived : Plan(full, R)
    BY <1>4, StreamSyncAssumption DEF StartRun
  <2>2. LookbackStart <= clock /\ IncrementalSince <= clock
    <3>1. LookbackStart <= clock
      BY MinusNat, ConstantsNat DEF StreamTypeOK, LookbackStart
    <3>2. Minus(wm, Overlap) <= wm /\ wm <= clock /\ Minus(wm, Overlap) \in Nat
      BY MinusNat, ConstantsNat DEF StreamTypeOK, Dated
    <3>3. IncrementalSince \in {Minus(wm, Overlap), LookbackStart}
      BY DEF IncrementalSince, Greater
    <3>4. QED
      BY <3>1, <3>2, <3>3 DEF StreamTypeOK
  <2>3. from' <= clock
    BY <2>1, <2>2 DEF Plan
  <2>4. QED
    BY <2>1, <2>3 DEF Plan, Dated
<1>5. CASE Walk
  <2>1. ASSUME NEW shown \in SUBSET Items, SplitWindow(shown) PROVE Dated'
    BY <2>1, SplitDated
  <2>2. ASSUME NEW shown \in SUBSET Items, NEW H \in SUBSET Items, Discover(shown, H)
        PROVE  Dated'
    <3>1. \A i \in H : \A e \in edges : upd[i] <= e
      BY <2>2 DEF Discover, TermHits, InWindow
    <3>2. \A i \in hits' : hitUpd'[i] = upd[i] /\ i \in H
      BY <2>2 DEF Discover
    <3>3. \A i \in Items : hitUpd'[i] <= clock
      BY <2>2 DEF Discover, Dated, StreamTypeOK
    <3>4. Cardinality(Items) <= Cap => edges' = {} /\ ~halt'
      BY <2>2, NeverCapped DEF Discover, Dated
    <3>5. QED
      BY <2>2, <3>1, <3>2, <3>3, <3>4 DEF Discover, Dated
  <2>3. ASSUME NEW i \in Items, Decline(i) PROVE Dated'
    <3>1. fold' \in {fold, hitUpd[i]} /\ i \in hits
      BY <2>3 DEF Decline, Greater, IsNextHit
    <3>2. QED
      BY <2>3, <3>1 DEF Decline, Dated, StreamTypeOK
  <2>4. ASSUME NEW i \in Items, NEW tail \in BOOLEAN, NEW answer, HydrateHit(i, answer, tail)
        PROVE  Dated'
    <3>1. fold' \in {fold, hitUpd[i]} /\ i \in hits
      BY <2>4 DEF HydrateHit, Greater, IsNextHit
    <3>2. /\ clock' = clock /\ upd' = upd /\ wm' = wm /\ hasState' = hasState /\ edges' = edges
          /\ hits' = hits \ {i} /\ hitUpd' = hitUpd /\ pc' = pc /\ pc = "hydrate" /\ halt' = halt
      BY <2>4 DEF HydrateHit
    <3>3. QED
      BY <3>1, <3>2 DEF Dated, StreamTypeOK
  <2>5. CASE WindowDone
    <3>1. clock' = clock /\ upd' = upd /\ hasState' = TRUE /\ wm' \in {wm, 0, fold}
      BY <2>5 DEF WindowDone, AdvanceState, Greater
    <3>2. wm' <= clock
      BY <3>1 DEF Dated, StreamTypeOK
    <3>3. CASE halt
      BY <2>5, <3>1, <3>2, <3>3, LeaveDated DEF WindowDone, Dated, StreamTypeOK
    <3>4. CASE ~halt
      <4>1. /\ hitUpd' = [i \in Items |-> 0] /\ fold' = 0 /\ hits' = {} /\ ~halt'
            /\ NextWindow
        BY <2>5, <3>4 DEF WindowDone
      <4>2. CASE edges # {}
        <5>1. PICK e \in edges : from' = e + 1 /\ edges' = edges \ {e} /\ pc' = "discover"
          BY <4>1, <4>2 DEF NextWindow
        <5>2. e \in Nat /\ e < clock /\ edges \subseteq Nat
          BY DEF Dated, StreamTypeOK
        <5>3. QED
          BY <3>1, <3>2, <4>1, <5>1, <5>2 DEF Dated, StreamTypeOK
      <4>3. CASE edges = {}
        <5>1. /\ edges' = {} /\ from' = plan.since
              /\ pc' = IF source = "Backfill" THEN "discover" ELSE "retry"
          BY <4>1, <4>3 DEF NextWindow
        <5>2. source = "Backfill" => plan.since <= clock
          BY SinceBehind DEF Licensed
        <5>3. QED
          BY <3>1, <3>2, <4>1, <5>1, <5>2 DEF Dated, StreamTypeOK
      <4>4. QED
        BY <4>2, <4>3
    <3>5. QED
      BY <3>3, <3>4
  <2>6. QED
    BY <1>5, <2>1, <2>2, <2>3, <2>4, <2>5 DEF Walk, Unsettled
<1>6. CASE Maintenance
  <2>1. CASE ReverifyDone
    <3>1. clock' = clock /\ upd' = upd /\ wm' = wm /\ hasState' = hasState /\ Leave
      BY <2>1 DEF ReverifyDone
    <3>2. QED
      BY <3>1, LeaveDated DEF Dated, StreamTypeOK
  <2>2. CASE ~ReverifyDone
    BY <1>6, <2>2 DEF Maintenance, RetryItem, ReverifyItem, RetriesDone, ReverifyPage, Dated
  <2>3. QED
    BY <2>1, <2>2
<1>7. CASE Demand
  BY <1>7 DEF Demand, Targeted, Dated
<1>8. QED
  BY <1>1, <1>2, <1>3, <1>4, <1>5, <1>6, <1>7 DEF StreamNext

\* A run's plan keeps the instant it was made at.
LEMMA PlanKept ==
  ASSUME StreamTypeOK, StreamNext, ~StartRun
  PROVE  plan'.now = plan.now \/ plan' = NoPlan
<1> USE DEF upstream, content, state, ledger, batch, walk, bounds
<1>1. CASE Outside
  BY <1>1 DEF Outside, Tick, Touch, Vanish, EditConfig
<1>2. CASE Disturbance
  BY <1>2 DEF Disturbance, RunKilled, Stopped, Leave, ShedRetries, ShedReverify, StreamTypeOK, Plans
<1>3. CASE Walk
  BY <1>3 DEF Walk, Unsettled, SplitWindow, Discover, Decline, HydrateHit, WindowDone, Leave
<1>4. CASE Maintenance
  BY <1>4 DEF Maintenance, RetryItem, ReverifyItem, RetriesDone, ReverifyPage, ReverifyDone,
              Leave, StreamTypeOK, Plans
<1>5. CASE Demand
  BY <1>5 DEF Demand, Targeted
<1>6. QED
  BY <1>1, <1>2, <1>3, <1>4, <1>5 DEF StreamNext

\* Time does not run back.
LEMMA ClockKept ==
  ASSUME StreamTypeOK, StreamNext
  PROVE  clock' >= clock
<1> USE DEF upstream, content, state, ledger, batch, walk, bounds
<1>1. CASE Outside
  BY <1>1 DEF Outside, Tick, Touch, Vanish, EditConfig, StreamTypeOK
<1>2. CASE Disturbance
  BY <1>2 DEF Disturbance, RunKilled, Stopped, ShedRetries, ShedReverify, StreamTypeOK
<1>3. CASE StartRun
  BY <1>3 DEF StartRun, Plan, StreamTypeOK
<1>4. CASE Walk
  BY <1>4 DEF Walk, Unsettled, SplitWindow, Discover, Decline, HydrateHit, WindowDone, StreamTypeOK
<1>5. CASE Maintenance
  BY <1>5 DEF Maintenance, RetryItem, ReverifyItem, RetriesDone, ReverifyPage, ReverifyDone, StreamTypeOK
<1>6. CASE Demand
  BY <1>6 DEF Demand, Targeted, StreamTypeOK
<1>7. QED
  BY <1>1, <1>2, <1>3, <1>4, <1>5, <1>6 DEF StreamNext

\* Only a window's Done writes the stream's row, the starvation count apart.
LEMMA StateKept ==
  ASSUME StreamNext, ~WindowDone
  PROVE  hasState' = hasState /\ wm' = wm /\ fp' = fp /\ checked' = checked
<1> USE DEF upstream, content, state, ledger, batch, walk, bounds
<1>1. CASE Outside
  BY <1>1 DEF Outside, Tick, Touch, Vanish, EditConfig
<1>2. CASE Disturbance
  BY <1>2 DEF Disturbance, RunKilled, Stopped, ShedRetries, ShedReverify
<1>3. CASE StartRun
  BY <1>3 DEF StartRun, Plan
<1>4. CASE Walk
  BY <1>4 DEF Walk, Unsettled, SplitWindow, Discover, Decline, HydrateHit
<1>5. CASE Maintenance
  BY <1>5 DEF Maintenance, RetryItem, ReverifyItem, RetriesDone, ReverifyPage, ReverifyDone
<1>6. CASE Demand
  BY <1>6 DEF Demand, Targeted
<1>7. QED
  BY <1>1, <1>2, <1>3, <1>4, <1>5, <1>6 DEF StreamNext

\* A walk is entered by a plan and keeps it.
LEMMA WalkKept ==
  ASSUME StreamNext, ~StartRun, Walking'
  PROVE  Walking /\ plan' = plan /\ cfg' = cfg
<1> USE DEF upstream, content, state, ledger, batch, walk, bounds, Walking
<1>1. CASE Outside
  BY <1>1 DEF Outside, Tick, Touch, Vanish, EditConfig
<1>2. CASE Disturbance
  BY <1>2 DEF Disturbance, RunKilled, Stopped, Leave, ShedRetries, ShedReverify
<1>3. CASE Walk
  BY <1>3 DEF Walk, Unsettled, SplitWindow, Discover, Decline, HydrateHit, WindowDone, Leave
<1>4. CASE Maintenance
  BY <1>4 DEF Maintenance, RetryItem, ReverifyItem, RetriesDone, ReverifyPage, ReverifyDone, Leave
<1>5. CASE Demand
  BY <1>5 DEF Demand, Targeted
<1>6. QED
  BY <1>1, <1>2, <1>3, <1>4, <1>5 DEF StreamNext

LEMMA NextClaimed == StreamTypeOK /\ Claimed /\ [StreamNext]_streamVars => Claimed'
<1> SUFFICES ASSUME StreamTypeOK, Claimed, [StreamNext]_streamVars PROVE Claimed'
  OBVIOUS
<1>1. CASE UNCHANGED streamVars
  BY <1>1 DEF Claimed, Walking, streamVars, upstream, state
<1>2. CASE StreamNext
  <2>1. clock' >= clock /\ clock \in Nat /\ clock' \in Nat /\ plan.now \in Nat /\ checked \in Nat
    BY <1>2, ClockKept, NextType DEF StreamTypeOK, Plans
  <2>2. plan'.now \in Nat /\ plan'.now <= clock'
    <3>1. CASE StartRun
      BY <2>1, <3>1 DEF StartRun, Plan
    <3>2. CASE ~StartRun
      <4>1. plan'.now \in {0, plan.now}
        BY <1>2, <3>2, PlanKept DEF NoPlan
      <4>2. QED
        BY <2>1, <4>1 DEF Claimed
    <3>3. QED
      BY <3>1, <3>2
  <2>3. checked' <= clock' /\ (~hasState' => checked' = 0)
    <3>1. CASE WindowDone
      BY <2>1, <3>1 DEF WindowDone, AdvanceState, Claimed
    <3>2. CASE ~WindowDone
      BY <1>2, <2>1, <3>2, StateKept DEF Claimed
    <3>3. QED
      BY <3>1, <3>2
  <2>4. ASSUME Walking' PROVE checked' <= plan'.now
    <3>1. CASE StartRun
      BY <2>1, <3>1 DEF StartRun, Plan, Claimed, state
    <3>2. CASE ~StartRun
      <4>1. Walking /\ plan' = plan
        BY <1>2, <2>4, <3>2, WalkKept
      <4>2. checked' \in {checked, plan.now}
        BY <1>2, StateKept DEF WindowDone, AdvanceState
      <4>3. QED
        BY <2>1, <4>1, <4>2 DEF Claimed
    <3>3. QED
      BY <3>1, <3>2
  <2>5. QED
    BY <2>2, <2>3, <2>4 DEF Claimed
<1>3. QED
  BY <1>1, <1>2

LEMMA NextHeld == StreamTypeOK /\ Apart /\ Dated /\ Claimed /\ Held /\ [StreamNext]_streamVars => Held'
<1> SUFFICES ASSUME StreamTypeOK, Apart, Dated, Claimed, Held, [StreamNext]_streamVars PROVE Held'
  OBVIOUS
<1> USE DEF upstream, content, state, ledger, batch, walk, bounds
<1>1. CASE UNCHANGED streamVars
  BY <1>1 DEF Held, streamVars
<1>2. CASE Outside
  <2>1. ASSUME NEW i \in Items, Touch(i) PROVE Held'
    BY <2>1 DEF Touch, Held, Dated, Claimed, StreamTypeOK
  <2>2. CASE ~\E i \in Items : Touch(i)
    BY <1>2, <2>2 DEF Outside, Tick, Vanish, EditConfig, Held
  <2>3. QED
    BY <2>1, <2>2
<1>3. CASE Disturbance
  BY <1>3 DEF Disturbance, RunKilled, Stopped, Leave, ShedRetries, ShedReverify, Held
<1>4. CASE StartRun
  BY <1>4 DEF StartRun, Plan, Held
<1>5. CASE Walk
  <2>1. ASSUME NEW i \in Items, NEW tail \in BOOLEAN, NEW answer, HydrateHit(i, answer, tail)
        PROVE  Held'
    BY <2>1 DEF HydrateHit, Batch, ApplyRows, Held
  <2>2. CASE WindowDone
    BY <2>2 DEF WindowDone, Leave, Held
  <2>3. CASE Walk /\ ~WindowDone /\ ~\E i \in Items, tail \in BOOLEAN :
               \E answer \in Answers(i) \cup Faults(i) : HydrateHit(i, answer, tail)
    BY <2>3 DEF Walk, Unsettled, SplitWindow, Discover, Decline, Held
  <2>4. QED
    BY <1>5, <2>1, <2>2, <2>3
<1>6. CASE Maintenance
  <2>1. ASSUME NEW i \in Items, NEW answer, RetryItem(i, answer) PROVE Held'
    BY <2>1 DEF RetryItem, Held
  <2>2. ASSUME NEW i \in Items, NEW answer, ReverifyItem(i, answer) PROVE Held'
    BY <2>2 DEF ReverifyItem, Batch, ApplyRows, Held
  <2>3. CASE RetriesDone \/ ReverifyPage \/ ReverifyDone
    BY <2>3 DEF RetriesDone, ReverifyPage, ReverifyDone, Leave, Held
  <2>4. QED
    BY <1>6, <2>1, <2>2, <2>3 DEF Maintenance
<1>7. CASE Demand
  BY <1>7 DEF Demand, Targeted, Apart, Held
<1>8. QED
  BY <1>2, <1>1, <1>3, <1>4, <1>5, <1>6, <1>7 DEF StreamNext

\* What a plan makes of the stored inputs: a cold start; a backfill of the
\* logins that are new, from the lookback floor; or an incremental walk that
\* asks for no more than they did.
LEMMA PlanLicensed ==
  ASSUME Widening, StreamTypeOK, Dated, NEW full \in Forced, NEW R \in SUBSET archived, Plan(full, R)
  PROVE  /\ pc' = "discover" /\ plan'.quarantined = quar /\ plan'.now = clock
         /\ source' = IF plan'.backfill = {} THEN "Full" ELSE "Backfill"
         /\ plan'.cold =>
              /\ plan'.backfill = {} /\ from' = LookbackStart
              /\ hasState => fp = plan'.intermediate
              /\ Cardinality(Items) > Cap =>
                   \A i \in Items : Wants(plan'.intermediate, i) => Wants(cfg, i)
         /\ ~plan'.cold =>
              /\ hasState /\ plan'.intermediate = fp /\ plan'.since = IncrementalSince
              /\ from' = IF plan'.backfill = {} THEN IncrementalSince ELSE LookbackStart
              /\ \A i \in Items :
                   Wants(cfg, i) => Wants(fp, i) \/ Involves[i] \cap plan'.backfill # {}
<1> DEFINE t == IF full THEN "ColdStart" ELSE Transition(cfg)
           s == IF t = "ColdStart" THEN LookbackStart ELSE IncrementalSince
           added == IF t = "Backfill" THEN Added(fp, cfg) ELSE {}
           mid == IF hasState THEN fp ELSE cfg
<1>1. cfg \in Configs /\ fp \in Configs /\ Forced \subseteq BOOLEAN
  BY StreamSyncAssumption DEF StreamTypeOK
<1>2. t = "ColdStart" => added = {}
  OBVIOUS
<1>3. /\ plan' = [now |-> clock, since |-> s, cold |-> t = "ColdStart",
                  intermediate |-> mid, backfill |-> added, due |-> Retryable,
                  quarantined |-> quar, reverify |-> R]
      /\ source' = IF added # {} THEN "Backfill" ELSE "Full"
      /\ from' = IF added # {} THEN LookbackStart ELSE s
      /\ pc' = "discover"
  BY DEF Plan
<1>4. ASSUME t = "ColdStart", hasState, Cardinality(Items) > Cap, NEW i \in Items, Wants(fp, i)
      PROVE  Wants(cfg, i)
  <2>1. Relaxes(fp, cfg) \/ TRUE \in Forced
    BY <1>1, <1>4 DEF Transition
  <2>2. ~(Cardinality(Items) <= Cap)
    BY <1>4, FS_CardinalityType, StreamSyncAssumption
  <2>3. QED
    BY <1>1, <1>4, <2>1, <2>2 DEF Widening
<1>5. ASSUME t # "ColdStart"
      PROVE  /\ hasState
             /\ \A i \in Items : Wants(cfg, i) => Wants(fp, i) \/ Involves[i] \cap added # {}
  <2>1. hasState /\ ~Relaxes(fp, cfg)
    BY <1>5 DEF Transition
  <2>2. cfg.people \subseteq fp.people \cup added
    BY <1>5, <2>1 DEF Added, Transition
  <2> HIDE DEF added
  <2>3. fp.viewer = cfg.viewer /\ fp.exclude \subseteq cfg.exclude
    BY <2>1 DEF Relaxes
  <2>4. QED
    BY <2>1, <2>2, <2>3 DEF Wants, Excluded
<1> HIDE DEF t, s, added, mid
<1>6. /\ plan'.quarantined = quar /\ (plan'.cold <=> t = "ColdStart") /\ plan'.now = clock
      /\ plan'.intermediate = mid /\ plan'.since = s /\ plan'.backfill = added
  BY <1>3
<1>7. plan'.cold =>
        /\ plan'.backfill = {} /\ from' = LookbackStart
        /\ hasState => fp = plan'.intermediate
        /\ Cardinality(Items) > Cap =>
             \A i \in Items : Wants(plan'.intermediate, i) => Wants(cfg, i)
  BY <1>2, <1>3, <1>4, <1>6 DEF s, mid
<1>8. ~plan'.cold =>
        /\ hasState /\ plan'.intermediate = fp /\ plan'.since = IncrementalSince
        /\ from' = IF plan'.backfill = {} THEN IncrementalSince ELSE LookbackStart
        /\ \A i \in Items :
             Wants(cfg, i) => Wants(fp, i) \/ Involves[i] \cap plan'.backfill # {}
  BY <1>3, <1>5, <1>6 DEF s, mid
<1>9. QED
  BY <1>3, <1>6, <1>7, <1>8

LEMMA LeaveLicensed ==
  ASSUME Leave
  PROVE  Licensed'
BY DEF Leave, Licensed, Walking, Joining

\* The fingerprint of a window's Done in a walk of the configuration.
LEMMA DoneFingerprints ==
  ASSUME source = "Full"
  PROVE  DoneFingerprint = IF plan.cold /\ (edges # {} \/ halt) THEN plan.intermediate ELSE cfg
BY DEF DoneFingerprint, Completes

LEMMA NextLicensed == Widening /\ StreamTypeOK /\ Dated /\ Licensed /\ [StreamNext]_streamVars => Licensed'
<1> SUFFICES ASSUME Widening, StreamTypeOK, Dated, Licensed, [StreamNext]_streamVars PROVE Licensed'
  OBVIOUS
<1> USE DEF upstream, content, state, ledger, batch, walk, bounds, Walking, Joining
<1>1. CASE UNCHANGED streamVars
  BY <1>1 DEF Licensed, streamVars
<1>2. CASE Outside
  BY <1>2 DEF Outside, Tick, Touch, Vanish, EditConfig, Licensed
<1>3. CASE Disturbance
  <2>1. CASE RunKilled \/ Stopped
    BY <2>1, LeaveLicensed DEF RunKilled, Stopped
  <2>2. CASE ShedRetries \/ ShedReverify
    BY <2>2 DEF ShedRetries, ShedReverify, Licensed
  <2>3. QED
    BY <1>3, <2>1, <2>2 DEF Disturbance
<1>4. CASE StartRun
  <2>1. PICK full \in Forced, R \in SUBSET archived : Plan(full, R)
    BY <1>4 DEF StartRun
  <2>2. cfg' = cfg /\ fp' = fp /\ quar' = quar /\ hasState' = hasState
    BY <2>1 DEF Plan
  <2>3. IncrementalSince <= Greater(Minus(clock, Overlap), Minus(clock, Lookback))
    <3>1. wm \in Nat /\ clock \in Nat /\ wm <= clock
      BY DEF StreamTypeOK, Dated
    <3>2. Minus(wm, Overlap) <= Minus(clock, Overlap)
      BY <3>1, ConstantsNat DEF Minus
    <3>3. /\ Minus(wm, Overlap) \in Nat /\ Minus(clock, Overlap) \in Nat
          /\ Minus(clock, Lookback) \in Nat
      BY <3>1, MinusNat, ConstantsNat
    <3>4. QED
      BY <3>2, <3>3 DEF IncrementalSince, LookbackStart, Greater
  <2>4. Joining' => plan'.since <= Greater(Minus(plan'.now, Overlap), Minus(plan'.now, Lookback))
    BY <2>1, <2>3, PlanLicensed
  <2>5. QED
    BY <2>1, <2>2, <2>4, PlanLicensed DEF Licensed
<1>5. CASE Walk
  <2>1. CASE WindowDone
    <3>1. CASE halt
      BY <2>1, <3>1, LeaveLicensed DEF WindowDone
    <3>2. CASE ~halt
      <4>1. /\ hasState' = TRUE /\ fp' = DoneFingerprint /\ cfg' = cfg /\ plan' = plan
            /\ quar' = quar \cup fails /\ pc = "hydrate"
        BY <2>1, <3>2 DEF WindowDone, AdvanceState, Quarantine
      <4>2. NextWindow
        BY <2>1, <3>2 DEF WindowDone
      <4>3. CASE source = "Backfill"
        <5>1. pc' = "discover" /\ source' \in {source, "Full"}
          BY <4>2, <4>3 DEF NextWindow
        <5>2. fp' = plan.intermediate
          BY <4>1, <4>3 DEF DoneFingerprint
        <5>3. ~plan.cold /\ plan.backfill # {}
          BY <4>1, <4>3 DEF Licensed
        <5>4. QED
          BY <4>1, <4>3, <5>1, <5>2, <5>3 DEF Licensed
      <4>4. CASE source = "Full" /\ edges # {}
        <5>1. pc' = "discover" /\ source' = source
          BY <4>2, <4>4 DEF NextWindow
        <5>2. fp' = IF plan.cold THEN plan.intermediate ELSE cfg
          BY <4>1, <4>4, DoneFingerprints
        <5>3. QED
          BY <4>1, <4>4, <5>1, <5>2 DEF Licensed
      <4>5. CASE source = "Full" /\ edges = {}
        <5>1. pc' = "retry" /\ source' = "Full"
          BY <4>2, <4>5 DEF NextWindow
        <5>2. QED
          BY <5>1 DEF Licensed
      <4>6. QED
        BY <4>3, <4>4, <4>5 DEF StreamTypeOK
    <3>3. QED
      BY <3>1, <3>2
  <2>2. CASE ~WindowDone
    BY <1>5, <2>2 DEF Walk, Unsettled, SplitWindow, Discover, Decline, HydrateHit, Licensed
  <2>3. QED
    BY <2>1, <2>2
<1>6. CASE Maintenance
  <2>1. CASE ReverifyDone
    BY <2>1, LeaveLicensed DEF ReverifyDone
  <2>2. CASE ~ReverifyDone
    BY <1>6, <2>2 DEF Maintenance, RetryItem, ReverifyItem, RetriesDone, ReverifyPage, Licensed
  <2>3. QED
    BY <2>1, <2>2
<1>7. CASE Demand
  BY <1>7 DEF Demand, Targeted, Licensed
<1>8. QED
  BY <1>1, <1>2, <1>3, <1>4, <1>5, <1>6, <1>7 DEF StreamNext

\* A step makes an item missing only by touching it, or by the retry of one
\* that was touched after it was hydrated.
LEMMA StillMissing ==
  ASSUME StreamTypeOK, Apart, Dated, Held, StreamNext, NEW i \in Items, Missing(i)'
  PROVE  \/ Missing(i) /\ upd'[i] = upd[i]
         \/ Touch(i) /\ upd'[i] = clock
         \/ /\ pc = "retry" /\ upd'[i] = upd[i]
            /\ upd[i] >= wm /\ upd[i] >= checked
<1> USE DEF upstream, content, state, ledger, batch, walk, bounds
<1>1. ASSUME clock' = clock, upd' = upd, gone' = gone,
             i \in fresh \cup quar \cup forgotten => i \in fresh' \cup quar' \cup forgotten'
      PROVE  Missing(i) /\ upd'[i] = upd[i]
  BY <1>1 DEF Missing, Exists, LookbackStart
<1>2. CASE Outside
  <2>1. CASE Tick
    <3>1. LookbackStart <= LookbackStart'
      BY <2>1, ConstantsNat DEF Tick, StreamTypeOK, Minus, LookbackStart
    <3>2. LookbackStart \in Nat /\ LookbackStart' \in Nat /\ upd[i] \in Nat
      BY <2>1, ConstantsNat DEF Tick, StreamTypeOK, Minus, LookbackStart
    <3>3. upd' = upd /\ gone' = gone /\ fresh' = fresh /\ quar' = quar /\ forgotten' = forgotten
      BY <2>1 DEF Tick
    <3>4. Exists(i) /\ upd[i] >= LookbackStart' /\ i \notin fresh \cup quar \cup forgotten
      BY <3>3 DEF Missing, Exists
    <3>5. Missing(i)
      BY <3>1, <3>2, <3>4 DEF Missing
    <3>6. QED
      BY <3>3, <3>5
  <2>2. ASSUME NEW j \in Items, Touch(j)
        PROVE  \/ Missing(i) /\ upd'[i] = upd[i]
               \/ Touch(i) /\ upd'[i] = clock
    <3>1. CASE i = j
      BY <2>2, <3>1 DEF Touch, StreamTypeOK
    <3>2. CASE i # j
      <4>1. upd'[i] = upd[i]
        BY <2>2, <3>2 DEF Touch, StreamTypeOK
      <4>2. LookbackStart' = LookbackStart
        BY <2>2 DEF Touch, LookbackStart
      <4>3. Missing(i)
        BY <2>2, <3>2, <4>1, <4>2 DEF Touch, Missing, Exists
      <4>4. QED
        BY <4>1, <4>3
    <3>3. QED
      BY <3>1, <3>2
  <2>3. ASSUME NEW j \in Items, Vanish(j) PROVE Missing(i) /\ upd'[i] = upd[i]
    BY <2>3 DEF Vanish, Missing, Exists, LookbackStart
  <2>4. ASSUME NEW c \in Configs, EditConfig(c) PROVE Missing(i) /\ upd'[i] = upd[i]
    BY <1>1, <2>4 DEF EditConfig
  <2>5. QED
    BY <1>2, <2>1, <2>2, <2>3, <2>4 DEF Outside
<1>3. CASE Disturbance
  BY <1>1, <1>3 DEF Disturbance, RunKilled, Stopped, ShedRetries, ShedReverify
<1>4. CASE StartRun
  BY <1>1, <1>4 DEF StartRun, Plan
<1>5. CASE Walk
  <2>1. ASSUME NEW j \in Items, NEW tail \in BOOLEAN, NEW answer, HydrateHit(j, answer, tail)
        PROVE  Missing(i) /\ upd'[i] = upd[i]
    BY <1>1, <2>1 DEF HydrateHit, Batch, ApplyRows, Held
  <2>2. CASE WindowDone
    BY <1>1, <2>2 DEF WindowDone, ApplyRows, Quarantine, Held
  <2>3. CASE Walk /\ ~WindowDone /\ ~\E j \in Items, tail \in BOOLEAN :
               \E answer \in Answers(j) \cup Faults(j) : HydrateHit(j, answer, tail)
    BY <1>1, <2>3 DEF Walk, Unsettled, SplitWindow, Discover, Decline
  <2>4. QED
    BY <1>5, <2>1, <2>2, <2>3
<1>6. CASE Maintenance
  <2>1. ASSUME NEW j \in Items, NEW answer, RetryItem(j, answer)
        PROVE  Missing(i) /\ upd'[i] = upd[i]
    BY <1>1, <2>1 DEF RetryItem
  <2>2. ASSUME NEW j \in Items, NEW answer, ReverifyItem(j, answer)
        PROVE  Missing(i) /\ upd'[i] = upd[i]
    BY <1>1, <2>2 DEF ReverifyItem, Batch, ApplyRows, Held
  <2>3. CASE RetriesDone
    <3>1. CASE i \in rows \ rowsFresh
      BY <2>3, <3>1 DEF RetriesDone, Held
    <3>2. CASE i \notin rows \ rowsFresh
      <4>1. i \in fresh \cup quar \cup forgotten => i \in fresh' \cup quar' \cup forgotten'
        BY <2>3, <3>2 DEF RetriesDone, Quarantine, Held
      <4>2. QED
        BY <1>1, <2>3, <4>1 DEF RetriesDone
    <3>3. QED
      BY <3>1, <3>2
  <2>4. CASE ReverifyPage
    BY <1>1, <2>4 DEF ReverifyPage, ApplyRows, Held
  <2>5. CASE ReverifyDone
    BY <1>1, <2>5 DEF ReverifyDone, Quarantine
  <2>6. QED
    BY <1>6, <2>1, <2>2, <2>3, <2>4, <2>5 DEF Maintenance
<1>7. CASE Demand
  <2> PICK j \in Items : \E answer \in Answers(j) \cup Faults(j) : Targeted(j, answer)
    BY <1>7 DEF Demand
  <2>1. PICK answer \in Answers(j) \cup Faults(j) : Targeted(j, answer)
    OBVIOUS
  <2>2. i \in fresh \cup quar \cup forgotten => i \in fresh' \cup quar' \cup forgotten'
    BY <2>1 DEF Targeted, ApplyRows, Quarantine
  <2>3. QED
    BY <1>1, <2>1, <2>2 DEF Targeted
<1>8. QED
  BY <1>2, <1>3, <1>4, <1>5, <1>6, <1>7 DEF StreamNext

\* A window's Done licenses; it makes nothing missing.
LEMMA DoneKeepsMissing ==
  ASSUME StreamTypeOK, Apart, Dated, Held, WindowDone, NEW i \in Items, Missing(i)'
  PROVE  Missing(i) /\ upd' = upd
<1>1. pc = "hydrate" /\ clock' = clock /\ upd' = upd /\ gone' = gone
  BY DEF WindowDone, upstream
<1>2. i \in fresh \cup quar \cup forgotten => i \in fresh' \cup quar' \cup forgotten'
  BY DEF WindowDone, ApplyRows, Quarantine, Held
<1>3. QED
  BY <1>1, <1>2 DEF Missing, Exists, LookbackStart

\* A window's Done leaves what it did not fetch and did not quarantine.
LEMMA DoneLeaves ==
  ASSUME StreamTypeOK, Apart, Dated, Held, WindowDone, NEW i \in Items, Missing(i)'
  PROVE  Missing(i) /\ upd' = upd /\ i \notin hits \cup rowsFresh \cup fails
<1>1. Missing(i) /\ upd' = upd
  BY DoneKeepsMissing
<1>2. i \notin hits \cup rowsFresh \cup fails
  BY DEF WindowDone, Missing, ApplyRows, Quarantine
<1>3. QED
  BY <1>1, <1>2

\* What a window's Done leaves missing is the business of a later one.
LEMMA DoneLeavesLater ==
  ASSUME StreamTypeOK, Apart, Dated, Held, Ahead, WindowDone, ~halt, source = "Full",
         NEW i \in Items, Wants(cfg, i), Missing(i)'
  PROVE  Missing(i) /\ upd' = upd /\ Later(i)
<1>1. Missing(i) /\ upd' = upd /\ i \notin hits \cup rowsFresh \cup fails
  BY DoneLeaves
<1>2. Later(i)
  BY <1>1 DEF Ahead, Unlicensed, WindowDone
<1>3. QED
  BY <1>1, <1>2

\* ... and, of what only the new configuration asks for, of a later one of the
\* backfill or of the main walk.
LEMMA DoneLeavesLaterOn ==
  ASSUME StreamTypeOK, Apart, Dated, Held, Joined, WindowDone, ~halt, source = "Backfill",
         NEW i \in Items, Wants(cfg, i), ~Wants(fp, i), Missing(i)'
  PROVE  Missing(i) /\ upd' = upd /\ LaterOn(i)
<1>1. Missing(i) /\ upd' = upd /\ i \notin hits \cup rowsFresh \cup fails
  BY DoneLeaves
<1>2. LaterOn(i)
  BY <1>1 DEF Joined, Unlicensed, WindowDone
<1>3. QED
  BY <1>1, <1>2

\* A run that joins someone leaves its walk by the Done of its main walk only.
LEMMA JoiningGoesOn ==
  ASSUME StreamTypeOK, StreamNext, GoesThrough, Joining
  PROVE  /\ WindowDone => ~halt
         /\ Joining' \/ (WindowDone /\ source = "Full" /\ edges = {})
<1> USE DEF upstream, content, state, ledger, batch, walk, bounds
<1>1. pc \in {"discover", "hydrate"} /\ pc' # "idle"
  BY DEF Joining, Walking, GoesThrough
<1>2. ASSUME WindowDone
      PROVE  ~halt /\ (Joining' \/ (source = "Full" /\ edges = {}))
  <2>1. ~halt
    BY <1>1, <1>2 DEF WindowDone, Leave
  <2>2. NextWindow /\ plan' = plan
    BY <1>2, <2>1 DEF WindowDone
  <2>3. CASE edges # {}
    BY <2>1, <2>2, <2>3 DEF NextWindow, Joining, Walking
  <2>4. CASE edges = {} /\ source = "Backfill"
    BY <2>1, <2>2, <2>4 DEF NextWindow, Joining, Walking
  <2>5. CASE edges = {} /\ source = "Full"
    BY <2>1, <2>5
  <2>6. QED
    BY <2>1, <2>3, <2>4, <2>5 DEF StreamTypeOK
<1>3. ASSUME ~WindowDone PROVE Joining'
  <2>1. CASE Outside
    BY <1>1, <2>1 DEF Outside, Tick, Touch, Vanish, EditConfig, Joining, Walking
  <2>2. CASE Disturbance
    BY <1>1, <2>2 DEF Disturbance, RunKilled, Stopped, Leave, ShedRetries, ShedReverify
  <2>3. CASE StartRun
    BY <1>1, <2>3 DEF StartRun, Plan
  <2>4. CASE Walk
    BY <1>3, <1>1, <2>4 DEF Walk, Unsettled, SplitWindow, Discover, Decline, HydrateHit, Joining, Walking
  <2>5. CASE Maintenance
    BY <1>1, <2>5 DEF Maintenance, RetryItem, ReverifyItem, RetriesDone, ReverifyPage, ReverifyDone
  <2>6. CASE Demand
    BY <1>1, <2>6 DEF Demand, Targeted
  <2>7. QED
    BY <2>1, <2>2, <2>3, <2>4, <2>5, <2>6 DEF StreamNext
<1>4. QED
  BY <1>2, <1>3

\* A discovery finds what the archive misses of a term, unless it lies past the
\* window or the index does not show it yet.
LEMMA DiscoverFinds ==
  ASSUME StreamTypeOK, Dated, Licensed, NEW shown \in SUBSET Items, NEW H \in SUBSET Items,
         Discover(shown, H), ~halt', NEW i \in Items, Missing(i), upd[i] >= from,
         NEW login \in Terms, login \in Involves[i]
  PROVE  \/ i \in hits'
         \/ edges = {} /\ upd[i] + Lag > clock
         \/ \E e \in edges : e < upd[i]
<1>1. hits' = H \ plan.quarantined /\ ~Capped(shown) /\ Walking
  BY DEF Discover, Walking
<1>2. Exists(i) /\ i \notin quar /\ upd[i] \in Nat
  BY DEF Missing, StreamTypeOK
<1>3. CASE i \in Indexed(shown) /\ InWindow(upd[i])
  <2>1. i \in TermHits(login, shown)
    BY <1>3 DEF TermHits
  <2>2. ~(Cardinality(TermHits(login, shown)) > Cap)
    BY <1>1 DEF Capped
  <2>3. Cardinality(TermHits(login, shown)) \in Nat /\ Cap \in Nat
    <3>1. TermHits(login, shown) \subseteq Items
      BY DEF TermHits, Indexed
    <3>2. QED
      BY <3>1, FS_Subset, FS_CardinalityType, StreamSyncAssumption
  <2>4. Returns(H, login, shown)
    BY DEF Discover
  <2>5. Cardinality(TermHits(login, shown)) <= Cap
    BY <2>2, <2>3
  <2>6. TermHits(login, shown) \subseteq H
    BY <2>4, <2>5 DEF Returns
  <2>7. i \notin plan.quarantined
    BY <1>1, <1>2 DEF Licensed
  <2>8. QED
    BY <1>1, <2>1, <2>6, <2>7
<1>4. CASE ~InWindow(upd[i])
  <2>1. \E e \in edges : ~(upd[i] <= e)
    BY <1>4 DEF InWindow
  <2>2. QED
    BY <1>2, <2>1 DEF StreamTypeOK
<1>5. CASE i \notin Indexed(shown)
  <2>1. upd[i] + Lag > clock
    BY <1>2, <1>5, ConstantsNat DEF Indexed, StreamTypeOK
  <2>2. CASE edges # {}
    <3>1. PICK e \in edges : e + Lag <= clock /\ e \in Nat
      BY <2>2 DEF Dated, StreamTypeOK
    <3>2. e < upd[i]
      BY <1>2, <2>1, <3>1, ConstantsNat DEF StreamTypeOK
    <3>3. QED
      BY <3>1, <3>2
  <2>3. QED
    BY <2>1, <2>2
<1>6. QED
  BY <1>3, <1>4, <1>5

\* What the index does not show yet is the next run's.
LEMMA UnsettledIsLater ==
  ASSUME StreamTypeOK, Dated, Claimed, NEW i \in Items, upd[i] + Lag > clock,
         NEW n \in Nat, n <= clock
  PROVE  plan.now <= upd[i] + Lag /\ Minus(n, Overlap) <= upd[i]
<1>1. upd[i] \in Nat /\ clock \in Nat /\ plan.now \in Nat /\ plan.now <= clock
  BY DEF StreamTypeOK, Plans, Claimed
<1>2. QED
  BY <1>1, ConstantsNat, WindowAssumption DEF Minus

\* A hydration makes nothing missing, ...
LEMMA HydrateKeepsMissing ==
  ASSUME StreamTypeOK, Held, NEW i \in Items, NEW tail, NEW answer, HydrateHit(i, answer, tail),
         NEW j \in Items, Missing(j)'
  PROVE  Missing(j) /\ upd' = upd
<1> USE DEF upstream, content, state, ledger, batch, walk, bounds
<1>1. clock' = clock /\ upd' = upd /\ gone' = gone /\ quar' = quar
  BY DEF HydrateHit
<1>2. j \in fresh \cup forgotten => j \in fresh' \cup forgotten'
  BY DEF HydrateHit, Batch, ApplyRows, Held
<1>3. QED
  BY <1>1, <1>2 DEF Missing, Exists, LookbackStart

\* ... and keeps a hold of what it discovered or fetched.
LEMMA HydrateKeepsCaught ==
  ASSUME StreamTypeOK, NEW i \in Items, NEW tail, NEW answer, HydrateHit(i, answer, tail),
         NEW j \in Items, Missing(j)', j \in hits \cup rowsFresh \cup fails
  PROVE  j \in hits' \cup rowsFresh' \cup fails'
<1>1. j \notin fresh'
  BY DEF Missing
<1>2. \/ rowsFresh \cup {i} \subseteq rowsFresh' \/ rowsFresh \cup {i} \subseteq fresh'
      \/ rowsFresh \subseteq rowsFresh' /\ i \in fails'
  BY DEF HydrateHit, Batch, ApplyRows
<1>3. fails \subseteq fails' /\ hits' = hits \ {i}
  BY DEF HydrateHit
<1>4. QED
  BY <1>1, <1>2, <1>3

\* What the windows leave behind is ahead of the next one.
LEMMA NextAhead ==
  ASSUME Widening, StreamTypeOK, Apart, Dated, Claimed, Held, Licensed, Ahead, Joined, Resumes,
         GoesThrough, StreamNext
  PROVE  Ahead'
<1> USE DEF upstream, content, state, ledger, batch, walk, bounds
<1>1. CASE Outside
  <2>1. SUFFICES ASSUME source = "Full", pc # "idle", NEW j \in Items, Unlicensed(cfg, j)'
                 PROVE  /\ pc = "discover" => upd'[j] >= from
                        /\ pc = "hydrate" /\ ~halt =>
                             j \in hits \cup rowsFresh' \cup fails \/ Later(j)'
    BY <1>1 DEF Ahead, Outside, Tick, Touch, Vanish, EditConfig, Dated
  <2>2. cfg' = cfg
    BY <1>1, <2>1 DEF Outside, Tick, Touch, Vanish, EditConfig
  <2>3. /\ edges' = edges /\ wm' = wm /\ fold' = fold /\ hits' = hits /\ hitUpd' = hitUpd
        /\ fails' = fails /\ plan' = plan
    BY <1>1 DEF Outside, Tick, Touch, Vanish, EditConfig
  <2>4. CASE Touch(j)
    <3>1. upd'[j] = clock /\ clock \in Nat
      BY <2>4 DEF Touch, StreamTypeOK
    <3>2. pc = "discover" => upd'[j] >= from
      BY <3>1 DEF Dated, StreamTypeOK
    <3>3. Later(j)'
      <4>1. CASE edges = {}
        <5>1. \A n \in Nat : n <= clock => Minus(n, Overlap) <= clock
          BY <3>1, ConstantsNat DEF Minus
        <5>2. QED
          BY <2>3, <3>1, <4>1, <5>1, ConstantsNat DEF Later, Dated, Claimed, StreamTypeOK, Plans
      <4>2. CASE edges # {}
        BY <2>3, <3>1, <4>2 DEF Later, Dated
      <4>3. QED
        BY <4>1, <4>2
    <3>4. QED
      BY <3>2, <3>3
  <2>5. CASE ~Touch(j)
    <3>1. Missing(j)'
      BY <2>1 DEF Unlicensed
    <3>2. pc # "retry" => Missing(j) /\ upd'[j] = upd[j]
      BY <2>5, <3>1, StillMissing
    <3>3. pc # "retry" => Unlicensed(cfg, j)
      BY <2>1, <2>2, <3>2 DEF Unlicensed
    <3>4. j \in rowsFresh => j \in rowsFresh'
      BY <1>1, <2>5 DEF Outside, Tick, Touch, Vanish, EditConfig
    <3>5. pc # "retry" /\ Later(j) => Later(j)'
      BY <2>3, <3>2 DEF Later
    <3>6. QED
      BY <2>1, <3>2, <3>3, <3>4, <3>5 DEF Ahead
  <2>6. QED
    BY <2>4, <2>5
<1>2. CASE Disturbance
  BY <1>2 DEF Disturbance, RunKilled, Stopped, Leave, ShedRetries, ShedReverify, Ahead
<1>3. CASE StartRun
  <2>1. PICK full \in Forced, R \in SUBSET archived : Plan(full, R)
    BY <1>3 DEF StartRun
  <2>2. pc' = "discover" /\ cfg' = cfg /\ upd' = upd /\ (\A i \in Items : Missing(i)' => Missing(i))
    BY <2>1 DEF Plan, Missing, Exists, LookbackStart
  <2>3. WatermarkNeverLeadsData
    BY <2>1 DEF Plan, Resumes, Joining, Walking
  <2>4. ASSUME source' = "Full", NEW i \in Items, Unlicensed(cfg, i)' PROVE upd[i] >= from'
    <3>1. Wants(cfg, i) /\ Missing(i)
      BY <2>2, <2>4 DEF Unlicensed
    <3>2. upd[i] >= LookbackStart
      BY <3>1 DEF Missing
    <3>3. CASE plan'.cold
      BY <2>1, <3>2, <3>3, PlanLicensed
    <3>4. CASE ~plan'.cold
      <4>1. plan'.backfill = {}
        BY <2>1, <2>4, PlanLicensed
      <4>2. hasState /\ Wants(fp, i) /\ from' = IncrementalSince
        BY <2>1, <3>1, <3>4, <4>1, PlanLicensed
      <4>3. upd[i] >= Minus(wm, Overlap)
        BY <2>3, <3>1, <4>2 DEF WatermarkNeverLeadsData, Unlicensed
      <4>4. QED
        BY <3>2, <4>2, <4>3 DEF IncrementalSince, Greater
    <3>5. QED
      BY <3>3, <3>4
  <2>5. QED
    BY <2>2, <2>4 DEF Ahead
<1>4. CASE Walk
  <2>1. ASSUME NEW shown \in SUBSET Items, SplitWindow(shown) PROVE Ahead'
    BY <2>1 DEF SplitWindow, Ahead, Unlicensed, Missing, Exists, LookbackStart
  <2>2. ASSUME NEW shown \in SUBSET Items, NEW H \in SUBSET Items, Discover(shown, H)
        PROVE  Ahead'
    <3>1. SUFFICES ASSUME source = "Full", ~halt', NEW i \in Items, Unlicensed(cfg, i)'
                   PROVE  i \in hits' \/ Later(i)'
      BY <2>2 DEF Discover, Ahead
    <3>2. /\ pc = "discover" /\ upd' = upd /\ wm' = wm /\ fold' = fold
          /\ edges' = edges /\ plan' = plan
      BY <2>2 DEF Discover
    <3>3. Wants(cfg, i) /\ Missing(i) /\ upd[i] >= from
      <4>1. Unlicensed(cfg, i)
        BY <2>2, <3>1 DEF Discover, Unlicensed, Missing, Exists, LookbackStart
      <4>2. QED
        BY <3>1, <3>2, <4>1 DEF Ahead, Unlicensed
    <3>4. PICK login \in Terms : login \in Involves[i]
      BY <3>1, <3>3 DEF Wants, Terms
    <3>5. CASE i \in hits'
      BY <3>5
    <3>6. CASE edges = {} /\ upd[i] + Lag > clock
      <4>1. \A j \in hits' : hitUpd'[j] \in Nat /\ hitUpd'[j] <= clock
        BY <2>2 DEF Discover, Dated, StreamTypeOK
      <4>2. wm \in Nat /\ fold \in Nat /\ wm <= clock /\ fold <= clock
        BY DEF StreamTypeOK, Dated
      <4>3. \A n \in Nat : n <= clock => plan.now <= upd[i] + Lag /\ Minus(n, Overlap) <= upd[i]
        BY <3>6, UnsettledIsLater
      <4>4. QED
        BY <3>2, <3>6, <4>1, <4>2, <4>3 DEF Later
    <3>7. CASE \E e \in edges : e < upd[i]
      BY <3>2, <3>7 DEF Later
    <3>8. QED
      BY <2>2, <3>1, <3>3, <3>4, <3>5, <3>6, <3>7, DiscoverFinds
  <2>3. ASSUME NEW i \in Items, Decline(i) PROVE Ahead'
    <3>1. SUFFICES ASSUME source = "Full", ~halt, NEW j \in Items, Unlicensed(cfg, j)'
                   PROVE  j \in hits' \cup rowsFresh \cup fails \/ Later(j)'
      BY <2>3 DEF Decline, Ahead
    <3>2. Unlicensed(cfg, j) /\ pc = "hydrate"
      BY <2>3, <3>1 DEF Decline, Unlicensed, Missing, Exists, LookbackStart
    <3>3. j # i
      BY <2>3, <3>2 DEF Decline, Unlicensed, Wants
    <3>4. CASE j \in hits \cup rowsFresh \cup fails
      BY <2>3, <3>3, <3>4 DEF Decline
    <3>5. CASE Later(j)
      <4>1. fold' \in {fold, hitUpd[i]} /\ i \in hits /\ hits' = hits \ {i}
        BY <2>3 DEF Decline, Greater, IsNextHit
      <4>2. QED
        BY <2>3, <3>5, <4>1 DEF Decline, Later
    <3>6. QED
      BY <3>1, <3>2, <3>4, <3>5 DEF Ahead
  <2>4. ASSUME NEW i \in Items, NEW tail \in BOOLEAN, NEW answer, HydrateHit(i, answer, tail)
        PROVE  Ahead'
    <3>1. SUFFICES ASSUME source = "Full", ~halt, NEW j \in Items, Unlicensed(cfg, j)'
                   PROVE  j \in hits' \cup rowsFresh' \cup fails' \/ Later(j)'
      BY <2>4 DEF HydrateHit, Ahead
    <3>2. pc = "hydrate" /\ cfg' = cfg /\ Missing(j)'
      BY <2>4, <3>1 DEF HydrateHit, Unlicensed
    <3>3. Unlicensed(cfg, j)
      BY <2>4, <3>1, <3>2, HydrateKeepsMissing DEF Unlicensed
    <3>4. CASE j \in hits \cup rowsFresh \cup fails
      BY <2>4, <3>2, <3>4, HydrateKeepsCaught
    <3>5. CASE Later(j)
      <4>1. /\ fold' \in {fold, hitUpd[i]} /\ i \in hits /\ hits' = hits \ {i}
            /\ upd' = upd /\ wm' = wm /\ edges' = edges /\ hitUpd' = hitUpd /\ plan' = plan
        BY <2>4 DEF HydrateHit, Greater, IsNextHit
      <4>2. QED
        BY <3>5, <4>1 DEF Later
    <3>6. QED
      BY <3>1, <3>2, <3>3, <3>4, <3>5 DEF Ahead
  <2>5. CASE WindowDone
    <3>1. CASE halt
      BY <2>5, <3>1 DEF WindowDone, Leave, Ahead
    <3>2. CASE ~halt
      <4>1. NextWindow /\ cfg' = cfg
        BY <2>5, <3>2 DEF WindowDone
      <4>2. CASE edges = {} /\ source = "Full"
        BY <4>1, <4>2 DEF NextWindow, Ahead
      <4>3. CASE edges = {} /\ source = "Backfill"
        <5>1. pc' = "discover" /\ from' = plan.since
          BY <4>1, <4>3 DEF NextWindow
        <5>2. ASSUME NEW i \in Items, Unlicensed(cfg, i)' PROVE upd'[i] >= from'
          <6>1. Wants(cfg, i) /\ Missing(i)'
            BY <4>1, <5>2 DEF Unlicensed
          <6>2. Missing(i) /\ upd' = upd
            BY <2>5, <6>1, DoneKeepsMissing
          <6>3. CASE Wants(fp, i)
            BY <4>3, <5>1, <6>1, <6>2, <6>3 DEF Joined, Unlicensed
          <6>4. CASE ~Wants(fp, i)
            <7>1. LaterOn(i)
              BY <2>5, <3>2, <4>3, <6>1, <6>4, DoneLeavesLaterOn
            <7>2. plan.since <= upd[i] /\ plan.since \in Nat /\ upd[i] \in Nat
              BY <4>3, <7>1 DEF LaterOn, StreamTypeOK, Plans
            <7>3. QED
              BY <5>1, <6>2, <7>2
          <6>5. QED
            BY <6>3, <6>4
        <5>3. QED
          BY <5>1, <5>2 DEF Ahead
      <4>4. CASE edges # {}
        <5>1. PICK e \in edges : IsWindowEnd(e) /\ from' = e + 1 /\ pc' = "discover" /\ source' = source
          BY <4>1, <4>4 DEF NextWindow
        <5>2. ASSUME source = "Full", NEW i \in Items, Unlicensed(cfg, i)' PROVE upd'[i] >= from'
          <6>1. Wants(cfg, i) /\ Missing(i)'
            BY <4>1, <5>2 DEF Unlicensed
          <6>2. Later(i) /\ upd' = upd
            BY <2>5, <3>2, <5>2, <6>1, DoneLeavesLater
          <6>3. PICK f \in edges : f < upd[i]
            BY <4>4, <6>2 DEF Later
          <6>4. e <= f /\ e \in Nat /\ f \in Nat /\ upd[i] \in Nat
            BY <5>1, <6>3 DEF IsWindowEnd, StreamTypeOK
          <6>5. QED
            BY <5>1, <6>2, <6>3, <6>4
        <5>3. QED
          BY <5>1, <5>2 DEF Ahead
      <4>5. QED
        BY <4>2, <4>3, <4>4 DEF StreamTypeOK
    <3>3. QED
      BY <3>1, <3>2
  <2>6. QED
    BY <1>4, <2>1, <2>2, <2>3, <2>4, <2>5 DEF Walk, Unsettled
<1>5. CASE Maintenance
  BY <1>5 DEF Maintenance, RetryItem, ReverifyItem, RetriesDone, ReverifyPage, ReverifyDone, Leave, Ahead
<1>6. CASE Demand
  BY <1>6 DEF Demand, Targeted, Ahead
<1>7. QED
  BY <1>1, <1>2, <1>3, <1>4, <1>5, <1>6 DEF StreamNext

\* ... and so are the backfill's windows, with the main walk after them.
LEMMA NextJoined ==
  ASSUME Widening, StreamTypeOK, Apart, Dated, Claimed, Held, Licensed, Joined, Resumes,
         CheckedMeansSeen, GoesThrough, StreamNext
  PROVE  Joined'
<1> USE DEF upstream, content, state, ledger, batch, walk, bounds
<1>1. CASE Outside
  <2>1. /\ pc' = pc /\ source' = source /\ plan' = plan /\ edges' = edges /\ halt' = halt
        /\ hits' = hits /\ fails' = fails /\ fp' = fp /\ checked' = checked /\ from' = from
        /\ pc # "idle" => cfg' = cfg
    BY <1>1 DEF Outside, Tick, Touch, Vanish, EditConfig
  <2>2. SUFFICES ASSUME Joining, NEW j \in Items, Unlicensed(cfg, j)'
                 PROVE  /\ source = "Backfill" =>
                             IF Wants(fp, j) THEN upd'[j] >= plan.since
                             ELSE /\ pc = "discover" => upd'[j] >= from
                                  /\ pc = "hydrate" /\ ~halt =>
                                       j \in hits \cup rowsFresh' \cup fails \/ LaterOn(j)'
                        /\ source = "Full" => upd'[j] + Lag >= checked
    <3>1. source = "Backfill" => Joining
      BY DEF Licensed
    <3>2. Joining' => Joining
      BY <2>1 DEF Joining, Walking
    <3>3. QED
      BY <2>1, <2>2, <3>1, <3>2 DEF Joined
  <2>3. Walking /\ cfg' = cfg /\ Missing(j)' /\ Wants(cfg, j)
    BY <2>1, <2>2 DEF Joining, Walking, Unlicensed
  <2>4. CASE Touch(j)
    <3>1. upd'[j] = clock /\ clock \in Nat
      BY <2>4 DEF Touch, StreamTypeOK
    <3>2. plan.since <= clock /\ plan.now <= clock /\ checked <= clock
      BY <2>2, SinceBehind DEF Claimed
    <3>3. plan.since \in Nat /\ plan.now \in Nat /\ checked \in Nat /\ from \in Nat /\ Lag \in Nat
      BY ConstantsNat DEF StreamTypeOK, Plans
    <3>4. pc = "discover" => upd'[j] >= from
      BY <3>1, <3>3 DEF Dated
    <3>5. LaterOn(j)'
      <4>1. CASE edges = {}
        BY <2>1, <3>1, <3>2, <3>3, <4>1 DEF LaterOn
      <4>2. CASE edges # {}
        BY <2>1, <3>1, <4>2 DEF LaterOn, Dated
      <4>3. QED
        BY <4>1, <4>2
    <3>6. QED
      BY <3>1, <3>2, <3>3, <3>4, <3>5
  <2>5. CASE ~Touch(j)
    <3>1. Missing(j) /\ upd'[j] = upd[j]
      BY <2>3, <2>5, StillMissing DEF Walking
    <3>2. Unlicensed(cfg, j)
      BY <2>3, <3>1 DEF Unlicensed
    <3>3. j \in rowsFresh => j \in rowsFresh'
      BY <1>1, <2>5 DEF Outside, Tick, Touch, Vanish, EditConfig
    <3>4. LaterOn(j) => LaterOn(j)'
      BY <2>1, <3>1 DEF LaterOn
    <3>5. QED
      BY <2>2, <3>1, <3>2, <3>3, <3>4 DEF Joined
  <2>6. QED
    BY <2>4, <2>5
<1>2. CASE Disturbance
  BY <1>2 DEF Disturbance, RunKilled, Stopped, Leave, ShedRetries, ShedReverify, Joined, Licensed, Joining, Walking
<1>3. CASE StartRun
  <2>1. PICK full \in Forced, R \in SUBSET archived : Plan(full, R)
    BY <1>3 DEF StartRun
  <2>2. /\ pc' = "discover" /\ cfg' = cfg /\ fp' = fp /\ upd' = upd
        /\ \A i \in Items : Missing(i)' => Missing(i)
    BY <2>1 DEF Plan, Missing, Exists, LookbackStart
  <2>3. WatermarkNeverLeadsData
    BY <2>1 DEF Plan, Resumes, Joining, Walking
  <2>4. Joining' => source' = "Backfill"
    BY <2>1, PlanLicensed DEF Joining
  <2>5. ASSUME source' = "Backfill", NEW i \in Items, Unlicensed(cfg, i)'
        PROVE  IF Wants(fp, i) THEN upd[i] >= plan'.since ELSE upd[i] >= from'
    <3>1. Wants(cfg, i) /\ Missing(i)
      BY <2>2, <2>5 DEF Unlicensed
    <3>2. upd[i] >= LookbackStart
      BY <3>1 DEF Missing
    <3>3. /\ hasState /\ plan'.since = IncrementalSince /\ from' = LookbackStart
      BY <2>1, <2>5, PlanLicensed
    <3>4. Wants(fp, i) => upd[i] >= Minus(wm, Overlap)
      BY <2>3, <3>1, <3>3 DEF WatermarkNeverLeadsData, Unlicensed
    <3>5. QED
      BY <3>2, <3>3, <3>4 DEF IncrementalSince, Greater
  <2>6. source' = "Backfill" =>
          \A i \in Items : Unlicensed(cfg, i)' =>
            IF Wants(fp, i)' THEN upd'[i] >= plan'.since ELSE upd'[i] >= from'
    BY <2>2, <2>5 DEF Wants, Excluded
  <2>7. QED
    BY <2>2, <2>4, <2>6 DEF Joined
<1>4. CASE Walk
  <2>1. ASSUME NEW shown \in SUBSET Items, SplitWindow(shown) PROVE Joined'
    BY <2>1 DEF SplitWindow, Joined, Joining, Walking, Unlicensed, Missing, Exists, LookbackStart
  <2>2. ASSUME NEW shown \in SUBSET Items, NEW H \in SUBSET Items, Discover(shown, H)
        PROVE  Joined'
    <3>1. /\ pc = "discover" /\ pc' = "hydrate" /\ upd' = upd /\ cfg' = cfg /\ fp' = fp
          /\ edges' = edges /\ plan' = plan /\ source' = source /\ checked' = checked
      BY <2>2 DEF Discover
    <3>2. \A i \in Items : Unlicensed(cfg, i)' => Unlicensed(cfg, i)
      BY <2>2 DEF Discover, Unlicensed, Missing, Exists, LookbackStart
    <3>3. ASSUME source = "Backfill", ~halt', NEW i \in Items, Unlicensed(cfg, i)', ~Wants(fp, i)
          PROVE  i \in hits' \/ LaterOn(i)'
      <4>1. Wants(cfg, i) /\ Missing(i) /\ upd[i] >= from
        BY <3>1, <3>2, <3>3 DEF Joined, Unlicensed
      <4>2. PICK login \in Terms : login \in Involves[i]
        BY <3>3, <4>1 DEF Licensed, Terms
      <4>3. CASE i \in hits'
        BY <4>3
      <4>4. CASE edges = {} /\ upd[i] + Lag > clock
        <5>1. Joining /\ plan.since <= Greater(Minus(plan.now, Overlap), Minus(plan.now, Lookback))
          BY <3>3 DEF Licensed
        <5>2. /\ plan.now \in Nat /\ plan.now <= clock /\ clock \in Nat /\ upd[i] \in Nat
              /\ plan.since \in Nat
          BY DEF StreamTypeOK, Plans, Claimed
        <5>3. plan.now <= upd[i] + Lag /\ Minus(plan.now, Overlap) <= upd[i]
          BY <4>4, <5>2, UnsettledIsLater
        <5>4. Minus(plan.now, Lookback) <= upd[i]
          <6>1. Minus(plan.now, Lookback) <= LookbackStart
            BY <5>2, ConstantsNat DEF Minus, LookbackStart
          <6>2. LookbackStart \in Nat /\ Minus(plan.now, Lookback) \in Nat
            BY <5>2, MinusNat, ConstantsNat DEF LookbackStart
          <6>3. QED
            BY <4>1, <5>2, <6>1, <6>2 DEF Missing
        <5>5. Minus(plan.now, Overlap) \in Nat /\ Minus(plan.now, Lookback) \in Nat
          BY <5>2, MinusNat, ConstantsNat
        <5>6. plan.since <= upd[i]
          BY <5>1, <5>2, <5>3, <5>4, <5>5 DEF Greater
        <5>7. QED
          BY <3>1, <4>4, <5>3, <5>6 DEF LaterOn
      <4>5. CASE \E e \in edges : e < upd[i]
        BY <3>1, <4>5 DEF LaterOn
      <4>6. QED
        BY <2>2, <3>3, <4>1, <4>2, <4>3, <4>4, <4>5, DiscoverFinds
    <3>4. QED
      BY <3>1, <3>2, <3>3 DEF Joined, Joining, Walking
  <2>3. ASSUME NEW i \in Items, Decline(i) PROVE Joined'
    <3>1. /\ pc = "hydrate" /\ pc' = pc /\ upd' = upd /\ cfg' = cfg /\ fp' = fp /\ halt' = halt
          /\ edges' = edges /\ plan' = plan /\ source' = source /\ checked' = checked
          /\ hits' = hits \ {i} /\ rowsFresh' = rowsFresh /\ fails' = fails
      BY <2>3 DEF Decline
    <3>2. \A j \in Items : Unlicensed(cfg, j)' => Unlicensed(cfg, j) /\ j # i
      BY <2>3 DEF Decline, Unlicensed, Wants, Missing, Exists, LookbackStart
    <3>3. \A j \in Items : LaterOn(j)' <=> LaterOn(j)
      BY <3>1 DEF LaterOn
    <3>4. QED
      BY <3>1, <3>2, <3>3 DEF Joined, Joining, Walking
  <2>4. ASSUME NEW i \in Items, NEW tail \in BOOLEAN, NEW answer, HydrateHit(i, answer, tail)
        PROVE  Joined'
    <3>1. /\ pc = "hydrate" /\ pc' = pc /\ upd' = upd /\ cfg' = cfg /\ fp' = fp /\ halt' = halt
          /\ edges' = edges /\ plan' = plan /\ source' = source /\ checked' = checked
      BY <2>4 DEF HydrateHit
    <3>2. \A j \in Items : Unlicensed(cfg, j)' => Unlicensed(cfg, j)
      BY <2>4, <3>1, HydrateKeepsMissing DEF Unlicensed
    <3>3. \A j \in Items : Unlicensed(cfg, j)' /\ j \in hits \cup rowsFresh \cup fails =>
            j \in hits' \cup rowsFresh' \cup fails'
      BY <2>4, HydrateKeepsCaught DEF Unlicensed
    <3>4. \A j \in Items : LaterOn(j)' <=> LaterOn(j)
      BY <3>1 DEF LaterOn
    <3>5. QED
      BY <3>1, <3>2, <3>3, <3>4 DEF Joined, Joining, Walking
  <2>5. CASE WindowDone
    <3>1. /\ pc = "hydrate" /\ fp' = DoneFingerprint /\ cfg' = cfg
          /\ checked' = IF Completes THEN plan.now ELSE checked
      BY <2>5 DEF WindowDone, AdvanceState
    <3>2. CASE ~Joining
      <4>1. source # "Backfill"
        BY <3>2 DEF Licensed
      <4>2. source' = "Full"
        BY <2>5, <4>1 DEF WindowDone, Leave, NextWindow, StreamTypeOK
      <4>3. ~Joining'
        BY <2>5, <3>1, <3>2 DEF WindowDone, Leave, Joining, Walking
      <4>4. QED
        BY <4>2, <4>3 DEF Joined
    <3>3. CASE Joining /\ source = "Full"
      <4>1. ~halt
        BY <2>5, <3>3, JoiningGoesOn
      <4>2. NextWindow
        BY <2>5, <4>1 DEF WindowDone
      <4>3. CASE edges = {}
        BY <3>3, <4>2, <4>3 DEF NextWindow, Joined, Joining, Walking
      <4>4. CASE edges # {}
        <5>1. source' = "Full" /\ checked' = checked
          BY <3>1, <3>3, <4>2, <4>4 DEF NextWindow, Completes
        <5>2. ASSUME NEW i \in Items, Unlicensed(cfg, i)' PROVE upd'[i] + Lag >= checked
          <6>1. Missing(i) /\ upd' = upd
            BY <2>5, <5>2, DoneKeepsMissing DEF Unlicensed
          <6>2. Unlicensed(cfg, i)
            BY <3>1, <5>2, <6>1 DEF Unlicensed
          <6>3. QED
            BY <3>3, <6>1, <6>2 DEF Joined
        <5>3. QED
          BY <5>1, <5>2 DEF Joined
      <4>5. QED
        BY <4>3, <4>4
    <3>4. CASE Joining /\ source = "Backfill"
      <4>1. ~halt
        BY <2>5, <3>4, JoiningGoesOn
      <4>2. NextWindow /\ plan' = plan
        BY <2>5, <4>1 DEF WindowDone
      <4>3. fp' = fp /\ checked' = checked
        BY <3>1, <3>4 DEF DoneFingerprint, Completes, Licensed
      <4>4. CASE edges = {}
        <5>1. source' = "Full"
          BY <4>2, <4>4 DEF NextWindow
        <5>2. ASSUME NEW i \in Items, Unlicensed(cfg, i)' PROVE upd'[i] + Lag >= checked
          <6>1. Wants(cfg, i) /\ Missing(i)'
            BY <3>1, <5>2 DEF Unlicensed
          <6>2. Missing(i) /\ upd' = upd
            BY <2>5, <6>1, DoneKeepsMissing
          <6>3. CASE Wants(fp, i)
            BY <6>2, <6>3 DEF CheckedMeansSeen, Unlicensed
          <6>4. CASE ~Wants(fp, i)
            <7>1. plan.now <= upd[i] + Lag
              BY <2>5, <3>4, <4>1, <4>4, <6>1, <6>4, DoneLeavesLaterOn DEF LaterOn
            <7>2. checked <= plan.now
              BY <3>4 DEF Claimed, Joining
            <7>3. checked \in Nat /\ plan.now \in Nat /\ upd[i] + Lag \in Nat
              BY ConstantsNat DEF StreamTypeOK, Plans
            <7>4. QED
              BY <6>2, <7>1, <7>2, <7>3
          <6>5. QED
            BY <6>3, <6>4
        <5>3. QED
          BY <4>3, <5>1, <5>2 DEF Joined
      <4>5. CASE edges # {}
        <5>1. PICK e \in edges : IsWindowEnd(e) /\ from' = e + 1 /\ pc' = "discover" /\ source' = source
          BY <4>2, <4>5 DEF NextWindow
        <5>2. ASSUME NEW i \in Items, Unlicensed(cfg, i)'
              PROVE  IF Wants(fp, i) THEN upd'[i] >= plan.since ELSE upd'[i] >= from'
          <6>1. Wants(cfg, i) /\ Missing(i)'
            BY <3>1, <5>2 DEF Unlicensed
          <6>2. Missing(i) /\ upd' = upd
            BY <2>5, <6>1, DoneKeepsMissing
          <6>3. CASE Wants(fp, i)
            BY <3>4, <6>1, <6>2, <6>3 DEF Joined, Unlicensed
          <6>4. CASE ~Wants(fp, i)
            <7>1. LaterOn(i)
              BY <2>5, <3>4, <4>1, <6>1, <6>4, DoneLeavesLaterOn
            <7>2. PICK f \in edges : f < upd[i]
              BY <4>5, <7>1 DEF LaterOn
            <7>3. e <= f /\ e \in Nat /\ f \in Nat /\ upd[i] \in Nat
              BY <5>1, <7>2 DEF IsWindowEnd, StreamTypeOK
            <7>4. QED
              BY <5>1, <6>2, <6>4, <7>2, <7>3
          <6>5. QED
            BY <6>3, <6>4
        <5>3. QED
          BY <3>4, <4>2, <4>3, <5>1, <5>2 DEF Joined
      <4>6. QED
        BY <4>4, <4>5
    <3>5. QED
      BY <3>2, <3>3, <3>4 DEF StreamTypeOK
  <2>6. QED
    BY <1>4, <2>1, <2>2, <2>3, <2>4, <2>5 DEF Walk, Unsettled
<1>5. CASE Maintenance
  BY <1>5 DEF Maintenance, RetryItem, ReverifyItem, RetriesDone, ReverifyPage, ReverifyDone, Leave,
              Joined, Licensed, Joining, Walking
<1>6. CASE Demand
  BY <1>6 DEF Demand, Targeted, Joined, Licensed, Joining, Walking
<1>7. QED
  BY <1>1, <1>2, <1>3, <1>4, <1>5, <1>6 DEF StreamNext

\* A window's Done passes nothing the stored inputs still ask for, except in
\* the middle of a run that joins someone.
LEMMA DoneBehindData ==
  ASSUME Widening, StreamTypeOK, Apart, Dated, Held, Licensed, Ahead, Resumes, WindowDone,
         source = "Full", ~Joining \/ (edges = {} /\ ~halt)
  PROVE  WatermarkNeverLeadsData'
<1> DEFINE offered == IF halt THEN 0 ELSE fold
<1>1. /\ pc = "hydrate" /\ wm' = Greater(wm, offered) /\ fp' = DoneFingerprint
      /\ upd' = upd
  BY DEF WindowDone, AdvanceState, upstream
<1>2. SUFFICES ASSUME NEW i \in Items, Wants(fp', i), Missing(i)'
               PROVE  upd[i] >= Minus(wm, Overlap) /\ upd[i] >= Minus(offered, Overlap)
  <2>1. wm' \in {wm, offered}
    BY <1>1 DEF Greater
  <2>2. QED
    BY <1>1, <1>2, <2>1 DEF WatermarkNeverLeadsData, Unlicensed
<1>3. fp' = IF plan.cold /\ (edges # {} \/ halt) THEN plan.intermediate ELSE cfg
  BY <1>1, DoneFingerprints
<1>4. upd[i] \in Nat /\ wm \in Nat /\ fold \in Nat /\ Overlap \in Nat
  BY ConstantsNat DEF StreamTypeOK
<1>5. Missing(i)
  BY <1>2, DoneKeepsMissing
<1>6. ASSUME ~halt PROVE Later(i)
  <2>1. Wants(cfg, i)
    <3>1. CASE plan.cold /\ edges # {}
      <4>1. ~(Cardinality(Items) <= Cap) /\ Cardinality(Items) \in Nat /\ Cap \in Nat
        BY <3>1, FS_CardinalityType, StreamSyncAssumption DEF Dated
      <4>2. QED
        BY <1>1, <1>2, <1>3, <3>1, <4>1 DEF Licensed, Walking
    <3>2. CASE ~(plan.cold /\ edges # {})
      BY <1>2, <1>3, <1>6, <3>2
    <3>3. QED
      BY <3>1, <3>2
  <2>2. QED
    BY <1>2, <1>6, <2>1, DoneLeavesLater
<1>7. ASSUME hasState, Wants(fp, i), ~Joining PROVE upd[i] >= Minus(wm, Overlap)
  BY <1>5, <1>7 DEF Resumes, WatermarkNeverLeadsData, Unlicensed
<1>8. upd[i] >= Minus(wm, Overlap)
  <2>1. CASE edges = {} /\ ~halt
    BY <1>4, <1>6, <2>1 DEF Later, Minus
  <2>2. CASE ~Joining /\ ~plan.cold
    <3>1. Wants(cfg, i) /\ plan.backfill = {}
      BY <1>1, <1>2, <1>3, <2>2 DEF Joining, Walking
    <3>2. hasState /\ Wants(fp, i)
      BY <1>1, <2>2, <3>1 DEF Licensed, Walking
    <3>3. QED
      BY <1>7, <2>2, <3>2
  <2>3. CASE ~Joining /\ plan.cold /\ (edges # {} \/ halt)
    <3>1. CASE hasState
      BY <1>1, <1>2, <1>3, <1>7, <2>3, <3>1 DEF Licensed, Walking
    <3>2. CASE ~hasState
      BY <1>4, <3>2 DEF Dated, Minus
    <3>3. QED
      BY <3>1, <3>2
  <2>4. QED
    BY <2>1, <2>2, <2>3
<1>9. upd[i] >= Minus(offered, Overlap)
  <2>1. CASE halt
    BY <1>4, <2>1 DEF Minus
  <2>2. CASE ~halt /\ edges = {}
    BY <1>4, <1>6, <2>2 DEF Later, Minus
  <2>3. CASE ~halt /\ edges # {}
    <3>1. PICK e \in edges : e < upd[i]
      BY <1>6, <2>3 DEF Later
    <3>2. fold <= e /\ e \in Nat
      BY <3>1 DEF Dated, StreamTypeOK
    <3>3. QED
      BY <1>4, <2>3, <3>1, <3>2 DEF Minus
  <2>4. QED
    BY <2>1, <2>2, <2>3
<1>10. QED
  BY <1>8, <1>9

LEMMA NextResumes ==
  ASSUME Widening, StreamTypeOK, Apart, Dated, Held, Licensed, Ahead, Resumes, GoesThrough, StreamNext
  PROVE  Resumes'
<1>1. SUFFICES ASSUME ~Joining' PROVE WatermarkNeverLeadsData'
  BY DEF Resumes
<1>2. CASE Joining
  BY <1>1, <1>2, JoiningGoesOn, DoneBehindData
<1>3. CASE ~Joining /\ WindowDone
  <2>1. source = "Full"
    BY <1>3 DEF Licensed, StreamTypeOK
  <2>2. QED
    BY <1>3, <2>1, DoneBehindData
<1>4. CASE ~Joining /\ ~WindowDone
  <2>1. hasState' = hasState /\ wm' = wm /\ fp' = fp
    BY <1>4, StateKept
  <2>2. SUFFICES ASSUME hasState, NEW i \in Items, Wants(fp, i), Missing(i)'
                 PROVE  upd'[i] >= Minus(wm, Overlap)
    BY <2>1, <2>2 DEF WatermarkNeverLeadsData, Unlicensed
  <2>3. wm \in Nat /\ clock \in Nat /\ upd[i] \in Nat /\ wm <= clock
    BY DEF StreamTypeOK, Dated
  <2>4. Minus(wm, Overlap) \in Nat /\ Minus(wm, Overlap) <= wm
    BY <2>3, MinusNat, ConstantsNat
  <2>5. CASE Missing(i) /\ upd'[i] = upd[i]
    BY <1>4, <2>2, <2>5 DEF Resumes, WatermarkNeverLeadsData, Unlicensed
  <2>6. CASE upd'[i] = clock
    BY <2>3, <2>4, <2>6
  <2>7. CASE upd'[i] = upd[i] /\ upd[i] >= wm
    BY <2>3, <2>4, <2>7
  <2>8. QED
    BY <2>2, <2>5, <2>6, <2>7, StillMissing
<1>5. QED
  BY <1>2, <1>3, <1>4

LEMMA NextCheckedMeansSeen ==
  ASSUME StreamTypeOK, Apart, Dated, Claimed, Held, Licensed, Ahead, Joined, CheckedMeansSeen,
         GoesThrough, StreamNext
  PROVE  CheckedMeansSeen'
<1>1. SUFFICES ASSUME NEW i \in Items, Wants(fp', i), Missing(i)'
               PROVE  upd'[i] + Lag >= checked'
  BY DEF CheckedMeansSeen, Unlicensed
<1>2. upd[i] \in Nat /\ checked \in Nat /\ clock \in Nat /\ Lag \in Nat
  BY ConstantsNat DEF StreamTypeOK
<1>3. CASE WindowDone
  <2>1. /\ pc = "hydrate" /\ fp' = DoneFingerprint
        /\ checked' = IF Completes THEN plan.now ELSE checked
    BY <1>3 DEF WindowDone, AdvanceState
  <2>2. Missing(i) /\ upd' = upd
    BY <1>1, <1>3, DoneKeepsMissing
  <2>3. CASE source = "Backfill"
    <3>1. fp' = fp /\ checked' = checked
      BY <2>1, <2>3 DEF DoneFingerprint, Completes, Licensed
    <3>2. QED
      BY <1>1, <2>2, <3>1 DEF CheckedMeansSeen, Unlicensed
  <2>4. CASE source = "Full" /\ Completes
    <3>1. edges = {} /\ ~halt
      BY <2>4 DEF Completes
    <3>2. Wants(cfg, i)
      BY <1>1, <2>1, <2>4, <3>1, DoneFingerprints
    <3>3. Later(i)
      BY <1>1, <1>3, <2>4, <3>1, <3>2, DoneLeavesLater
    <3>4. QED
      BY <2>1, <2>2, <2>4, <3>1, <3>3 DEF Later
  <2>5. CASE source = "Full" /\ ~Completes
    <3>1. edges # {} \/ halt
      BY <2>5 DEF Completes
    <3>2. fp' = IF plan.cold THEN plan.intermediate ELSE cfg
      BY <2>1, <2>5, <3>1, DoneFingerprints
    <3>3. CASE ~hasState
      BY <1>2, <2>1, <2>2, <2>5, <3>3 DEF Claimed
    <3>4. CASE Joining
      <4>1. Wants(cfg, i)
        BY <1>1, <3>2, <3>4 DEF Licensed, Joining
      <4>2. QED
        BY <2>1, <2>2, <2>5, <3>4, <4>1 DEF Joined, Unlicensed
    <3>5. CASE ~Joining /\ hasState
      <4>1. Wants(fp, i)
        BY <1>1, <2>1, <3>2, <3>5 DEF Licensed, Joining, Walking
      <4>2. QED
        BY <2>1, <2>2, <2>5, <4>1 DEF CheckedMeansSeen, Unlicensed
    <3>6. QED
      BY <3>3, <3>4, <3>5
  <2>6. QED
    BY <2>3, <2>4, <2>5 DEF StreamTypeOK
<1>4. CASE ~WindowDone
  <2>1. checked' = checked /\ fp' = fp
    BY <1>4, StateKept
  <2>2. CASE Missing(i) /\ upd'[i] = upd[i]
    BY <1>1, <2>1, <2>2 DEF CheckedMeansSeen, Unlicensed
  <2>3. CASE upd'[i] = clock
    BY <1>2, <2>1, <2>3 DEF Claimed
  <2>4. CASE upd'[i] = upd[i] /\ upd[i] >= checked
    BY <1>2, <2>1, <2>4
  <2>5. QED
    BY <1>1, <2>2, <2>3, <2>4, StillMissing
<1>5. QED
  BY <1>3, <1>4

\* The inductive invariant of the walk.
Sound ==
  /\ Dated /\ Claimed /\ Held /\ Licensed
  /\ Ahead /\ Joined
  /\ Resumes /\ CheckedMeansSeen

LEMMA InitSound == StreamInit => Sound
BY InitDated DEF StreamInit, Sound, Claimed, NoPlan, Held, Licensed, Walking, Joining, Ahead, Joined,
                 Resumes, WatermarkNeverLeadsData, CheckedMeansSeen, Unlicensed, Missing, Exists

LEMMA NextSound ==
  Widening /\ StreamTypeOK /\ Apart /\ Sound /\ [StreamNext]_streamVars /\ [GoesThrough]_streamVars => Sound'
<1> SUFFICES ASSUME Widening, StreamTypeOK, Apart, Sound, [StreamNext]_streamVars, [GoesThrough]_streamVars
             PROVE  Sound'
  OBVIOUS
<1>1. Dated' /\ Claimed' /\ Held' /\ Licensed'
  BY NextDated, NextClaimed, NextHeld, NextLicensed DEF Sound
<1>2. CASE StreamNext /\ GoesThrough
  BY <1>1, <1>2, NextAhead, NextJoined, NextResumes, NextCheckedMeansSeen DEF Sound
<1>3. CASE UNCHANGED streamVars
  BY <1>1, <1>3 DEF Sound, streamVars, upstream, content, state, ledger, batch, walk, bounds, Ahead, Later,
                    Joined, LaterOn, Joining, Walking, Resumes, WatermarkNeverLeadsData,
                    CheckedMeansSeen, Unlicensed, Missing, Exists, LookbackStart
<1>4. QED
  BY <1>2, <1>3

LEMMA AlwaysSound == Widening => (StreamSpec /\ JoinsGoThrough => []Sound)
<1> SUFFICES ASSUME Widening PROVE StreamSpec /\ JoinsGoThrough => []Sound
  OBVIOUS
<1>1. StreamTypeOK /\ Apart /\ Sound /\ [StreamNext]_streamVars /\ [GoesThrough]_streamVars => Sound'
  BY NextSound
<1>2. QED
  BY InitSound, <1>1, TypeCorrect, AlwaysApart, PTL DEF StreamSpec, JoinsGoThrough

\* A run that backfills a new person and reaches the end of its main walk, and
\* every run that backfills no one, whatever happens to it, leaves the stored
\* watermark behind all that the archive still owes to its stored inputs: the
\* next plan, which reads the row between two runs, starts early enough.
THEOREM PlansResumeBehindData == Widening => (StreamSpec /\ JoinsGoThrough => []ResumesBehindData)
<1> SUFFICES ASSUME Widening PROVE StreamSpec /\ JoinsGoThrough => []ResumesBehindData
  OBVIOUS
<1>1. Sound => ResumesBehindData
  BY DEF Sound, Resumes, ResumesBehindData, Joining, Walking
<1>2. QED
  BY <1>1, AlwaysSound, PTL

\* ... and last_checked_at never claims what the archive has not seen.
THEOREM FreshnessIsHonest == Widening => (StreamSpec /\ JoinsGoThrough => []CheckedMeansSeen)
<1> SUFFICES ASSUME Widening PROVE StreamSpec /\ JoinsGoThrough => []CheckedMeansSeen
  OBVIOUS
<1>1. Sound => CheckedMeansSeen
  BY DEF Sound
<1>2. QED
  BY <1>1, AlwaysSound, PTL

\* Where no one joins, no run backfills.
NoOneJoins == plan.backfill = {}

LEMMA NextNoOneJoins == Steady /\ StreamTypeOK /\ NoOneJoins /\ [StreamNext]_streamVars => NoOneJoins'
<1> SUFFICES ASSUME Steady, StreamTypeOK, NoOneJoins, [StreamNext]_streamVars PROVE NoOneJoins'
  OBVIOUS
<1> USE DEF upstream, content, state, ledger, batch, walk, bounds, NoOneJoins
<1>1. CASE UNCHANGED streamVars
  BY <1>1 DEF streamVars
<1>2. CASE Outside
  BY <1>2 DEF Outside, Tick, Touch, Vanish, EditConfig
<1>3. CASE Disturbance
  BY <1>3 DEF Disturbance, RunKilled, Stopped, Leave, NoPlan, ShedRetries, ShedReverify, StreamTypeOK, Plans
<1>4. CASE StartRun
  <2>1. PICK full \in Forced, R \in SUBSET archived : Plan(full, R)
    BY <1>4 DEF StartRun
  <2>2. Added(fp, cfg) = {}
    BY DEF Steady, StreamTypeOK
  <2>3. QED
    BY <2>1, <2>2 DEF Plan
<1>5. CASE Walk
  BY <1>5 DEF Walk, Unsettled, SplitWindow, Discover, Decline, HydrateHit, WindowDone, Leave, NoPlan
<1>6. CASE Maintenance
  BY <1>6 DEF Maintenance, RetryItem, ReverifyItem, RetriesDone, ReverifyPage, ReverifyDone, Leave,
              NoPlan, StreamTypeOK, Plans
<1>7. CASE Demand
  BY <1>7 DEF Demand, Targeted
<1>8. QED
  BY <1>1, <1>2, <1>3, <1>4, <1>5, <1>6, <1>7 DEF StreamNext

\* In a steady instance no kill, deferral, split, late index entry, touch
\* between discovery and hydration, quarantine or drain lets the stored
\* watermark pass an item the archive still owes to its stored inputs.
THEOREM DataBehindWatermark == Steady => (StreamSpec => []WatermarkNeverLeadsData)
<1> SUFFICES ASSUME Steady PROVE StreamSpec => []WatermarkNeverLeadsData
  OBVIOUS
<1>1. StreamInit => NoOneJoins
  BY DEF StreamInit, NoPlan, NoOneJoins
<1>2. StreamTypeOK /\ NoOneJoins /\ [StreamNext]_streamVars => NoOneJoins'
  BY NextNoOneJoins
<1>3. NoOneJoins => GoesThrough
  BY DEF NoOneJoins, GoesThrough, Joining
<1>4. StreamSpec => []Sound
  <2>1. StreamSpec /\ JoinsGoThrough => []Sound
    BY AlwaysSound DEF Steady
  <2>2. QED
    BY <1>1, <1>2, <1>3, <2>1, TypeCorrect, PTL DEF StreamSpec, JoinsGoThrough
<1>5. Sound /\ NoOneJoins => WatermarkNeverLeadsData
  BY DEF Sound, Resumes, NoOneJoins, Joining
<1>6. QED
  BY <1>1, <1>2, <1>4, <1>5, TypeCorrect, PTL DEF StreamSpec

-----------------------------------------------------------------------------
(* What the walk keeps of the stream's promise.                            *)

\* What is archived as it is was not dropped as it is.
Parted == fresh \cap forgotten = {}

\* The part of a transaction that the archive's rows and its quarantine see.
RowsLand ==
  /\ \A i \in fresh' \ fresh : upd[i] > 0
  /\ fresh \ fresh' \subseteq forgotten' /\ fresh' \cap forgotten' = {}
  /\ forgotten \ forgotten' \subseteq fresh'
  /\ \A i \in quar \ quar' : i \in fresh' \cup forgotten' \/ upd[i] >= checked'
  /\ fp' \in Configs /\ checked' >= checked
  /\ UNCHANGED <<clock, upd, gone>>

\* Nothing a reader sees changes.
RowsStand == UNCHANGED <<clock, upd, gone, fresh, quar, forgotten, fp, checked>>

\* An answer with content is of an item that exists.
LEMMA BundlesExist ==
  ASSUME StreamTypeOK, NEW i \in Items, "bundle" \in Answers(i) \cup Faults(i)
  PROVE  upd[i] > 0
BY DEF Answers, Faults, Exists, StreamTypeOK

\* A bundle that joins the batch, or takes the batch along.
LEMMA BatchLands ==
  ASSUME StreamTypeOK, Seen, Held, Parted, NEW i \in Items, upd[i] > 0, Batch(i)
  PROVE  /\ \A j \in fresh' \ fresh : upd[j] > 0
         /\ fresh \subseteq fresh' /\ fresh' \cap forgotten' = {}
         /\ forgotten \ forgotten' \subseteq fresh'
BY DEF Batch, ApplyRows, content, Seen, Held, Parted, StreamTypeOK

LEMMA RowsStandOrLand ==
  StreamTypeOK /\ Apart /\ Seen /\ Claimed /\ Held /\ Parted /\ StreamNext =>
    /\ RowsStand \/ RowsLand \/ Outside
    /\ Parted'
<1> SUFFICES ASSUME StreamTypeOK, Apart, Seen, Claimed, Held, Parted, StreamNext
             PROVE  (RowsStand \/ RowsLand \/ Outside) /\ Parted'
  OBVIOUS
<1> USE DEF upstream, content, state, ledger, batch, walk, bounds
<1>0. StreamTypeOK' /\ fp \in Configs /\ fp' \in Configs /\ checked \in Nat
  BY NextType DEF StreamTypeOK
<1>1. CASE Outside
  <2>1. ASSUME NEW i \in Items, Touch(i) PROVE Parted'
    BY <2>1 DEF Touch, Parted
  <2>2. CASE ~\E i \in Items : Touch(i)
    BY <1>1, <2>2 DEF Outside, Tick, Vanish, EditConfig, Parted
  <2>3. QED
    BY <1>1, <2>1, <2>2
<1>2. CASE Disturbance
  BY <1>2 DEF Disturbance, RunKilled, Stopped, Leave, ShedRetries, ShedReverify, Parted, RowsStand
<1>3. CASE StartRun
  BY <1>3 DEF StartRun, Plan, Parted, RowsStand
<1>4. CASE Walk
  <2>1. ASSUME NEW i \in Items, NEW tail \in BOOLEAN, NEW answer \in Answers(i) \cup Faults(i),
               HydrateHit(i, answer, tail)
        PROVE  (RowsStand \/ RowsLand) /\ Parted'
    <3>1. CASE answer = "bundle"
      BY <1>0, <2>1, <3>1, BundlesExist, BatchLands DEF HydrateHit, RowsLand, Parted
    <3>2. CASE answer # "bundle"
      BY <2>1, <3>2 DEF HydrateHit, RowsStand, Parted
    <3>3. QED
      BY <3>1, <3>2
  <2>2. CASE WindowDone
    <3>1. checked' >= checked
      <4>1. plan.now \in Nat
        BY DEF StreamTypeOK, Plans
      <4>2. QED
        BY <1>0, <2>2, <4>1 DEF WindowDone, AdvanceState, Claimed, Walking
    <3>2. quar \subseteq quar'
      BY <2>2 DEF WindowDone, Quarantine
    <3>3. /\ fresh' = (fresh \ rows) \cup rowsFresh /\ forgotten' = forgotten \ rows
          /\ UNCHANGED <<clock, upd, gone>>
      BY <2>2 DEF WindowDone, ApplyRows
    <3>4. rowsFresh \subseteq rows
      BY DEF StreamTypeOK
    <3>5. QED
      BY <1>0, <3>1, <3>2, <3>3, <3>4 DEF RowsLand, Seen, Held, Parted
  <2>3. ASSUME NEW shown \in SUBSET Unsettled, NEW H \in SUBSET Items,
               SplitWindow(shown) \/ Discover(shown, H)
        PROVE  RowsStand /\ Parted'
    BY <2>3 DEF SplitWindow, Discover, RowsStand, Parted
  <2>4. ASSUME NEW i \in Items, Decline(i) PROVE RowsStand /\ Parted'
    BY <2>4 DEF Decline, RowsStand, Parted
  <2>5. ASSUME NEW shown \in SUBSET Unsettled, SplitWindow(shown) PROVE RowsStand /\ Parted'
    BY <2>3, <2>5
  <2>6. QED
    BY <1>4, <2>1, <2>2, <2>3, <2>4, <2>5 DEF Walk
<1>5. CASE Maintenance
  <2>1. ASSUME NEW i \in Items, NEW answer \in Answers(i) \cup Faults(i), RetryItem(i, answer)
        PROVE  RowsStand /\ Parted'
    BY <2>1 DEF RetryItem, RowsStand, Parted
  <2>2. ASSUME NEW i \in Items, NEW answer \in Answers(i) \cup Faults(i), ReverifyItem(i, answer)
        PROVE  (RowsStand \/ RowsLand) /\ Parted'
    <3>1. CASE answer = "bundle"
      BY <1>0, <2>2, <3>1, BundlesExist, BatchLands DEF ReverifyItem, RowsLand, Parted
    <3>2. CASE answer # "bundle"
      BY <2>2, <3>2 DEF ReverifyItem, RowsStand, Parted
    <3>3. QED
      BY <3>1, <3>2
  <2>3. CASE RetriesDone
    <3>1. /\ fresh' = (fresh \ (rows \cup drains)) \cup rowsFresh
          /\ forgotten' = (forgotten \ rows) \cup drains
          /\ quar' = (quar \ (rows \cup drains)) \cup fails
          /\ UNCHANGED <<clock, upd, gone, fp, checked>>
      BY <2>3 DEF RetriesDone, Quarantine
    <3>2. rowsFresh \subseteq rows /\ rows \subseteq Items
      BY DEF StreamTypeOK
    <3>3. rows \cap drains = {} /\ \A i \in rows \ rowsFresh : upd[i] >= checked
      BY <2>3 DEF RetriesDone, Apart, Held
    <3>4. rows \cap (fresh \cup forgotten) \subseteq rowsFresh
      BY DEF Held
    <3>5. fresh' \cap forgotten' = {}
      BY <3>1, <3>2, <3>3 DEF Parted
    <3>6. \A i \in quar \ quar' : i \in fresh' \cup forgotten' \/ upd[i] >= checked'
      BY <3>1, <3>3
    <3>7. fresh \ fresh' \subseteq forgotten' /\ forgotten \ forgotten' \subseteq fresh'
      BY <3>1, <3>4
    <3>8. \A i \in fresh' \ fresh : upd[i] > 0
      BY <3>1, <3>2 DEF Seen
    <3>9. QED
      BY <1>0, <3>1, <3>5, <3>6, <3>7, <3>8 DEF RowsLand, Parted
  <2>4. CASE ReverifyPage
    <3>1. /\ fresh' = (fresh \ rows) \cup rowsFresh /\ forgotten' = forgotten \ rows
          /\ UNCHANGED <<clock, upd, gone, quar, fp, checked>>
      BY <2>4 DEF ReverifyPage, ApplyRows
    <3>2. rowsFresh \subseteq rows
      BY DEF StreamTypeOK
    <3>3. QED
      BY <1>0, <3>1, <3>2 DEF RowsLand, Seen, Held, Parted
  <2>5. CASE ReverifyDone
    <3>1. /\ quar \subseteq quar'
          /\ UNCHANGED <<clock, upd, gone, fresh, forgotten, fp, checked>>
      BY <2>5 DEF ReverifyDone, Quarantine, Leave
    <3>2. QED
      BY <1>0, <3>1 DEF RowsLand, Parted
  <2>6. QED
    BY <1>5, <2>1, <2>2, <2>3, <2>4, <2>5 DEF Maintenance
<1>6. CASE Demand
  <2>1. PICK i \in Items : \E answer \in Answers(i) \cup Faults(i) : Targeted(i, answer)
    BY <1>6 DEF Demand
  <2>2. PICK answer \in Answers(i) \cup Faults(i) : Targeted(i, answer)
    BY <2>1
  <2>3. upd[i] > 0 /\ UNCHANGED <<clock, upd, gone, fp, checked>>
    BY <2>2 DEF Targeted
  <2>4. \/ /\ fresh' = fresh \cup {i} /\ forgotten' = forgotten \ {i} /\ quar' = quar \ {i}
        \/ /\ fresh' = fresh \ {i} /\ forgotten' = forgotten \cup {i} /\ quar' = quar \ {i}
        \/ /\ fresh' = fresh /\ forgotten' = forgotten /\ quar' = quar \cup {i}
    BY <2>2 DEF Targeted, ApplyRows, Quarantine
  <2>5. QED
    BY <1>0, <2>3, <2>4 DEF RowsLand, Parted
<1>7. QED
  BY <1>1, <1>2, <1>3, <1>4, <1>5, <1>6 DEF StreamNext

\* What the promise calls owed is what the walk calls missing.
Honest == \A i \in Items : Promise!Owed(i) => upd[i] + Lag >= checked

LEMMA CheckedIsHonest == StreamTypeOK /\ CheckedMeansSeen => Honest
<1> SUFFICES ASSUME StreamTypeOK, CheckedMeansSeen, NEW i \in Items, Promise!Owed(i)
             PROVE  upd[i] + Lag >= checked
  BY DEF Honest
<1>1. fp \in Configs /\ upd[i] \in Nat /\ clock \in Nat /\ Lookback \in Nat
  BY ConstantsNat DEF StreamTypeOK
<1>2. Wants(fp, i)
  BY <1>1 DEF Promise!Owed
<1>3. Missing(i)
  BY <1>1 DEF Promise!Owed, Promise!There, Missing, Exists, LookbackStart, Minus
<1>4. QED
  BY <1>2, <1>3 DEF CheckedMeansSeen, Unlicensed

\* Every step of the walk is a step of the promise, or none.
LEMMA StepKeepsThePromise ==
  ASSUME StreamTypeOK, StreamTypeOK', Apart, Seen, Sound, Sound', Parted, [StreamNext]_streamVars
  PROVE  [Promise!PromiseNext]_(Promise!promiseVars) /\ Parted'
<1>1. CASE UNCHANGED streamVars
  BY <1>1 DEF streamVars, upstream, content, state, ledger, batch, Promise!promiseVars, Parted
<1>2. CASE StreamNext
  <2>1. Parted' /\ (RowsStand \/ RowsLand \/ Outside)
    BY <1>2, RowsStandOrLand DEF Sound
  <2>2. ASSUME RowsStand PROVE UNCHANGED Promise!promiseVars
    BY <2>2 DEF RowsStand, Promise!promiseVars
  <2>3. ASSUME RowsLand PROVE Promise!PromiseNext
    <3>0. CheckedMeansSeen'
      BY DEF Sound
    <3>1. Honest'
      BY <3>0, CheckedIsHonest, PTL
    <3>2. Promise!Lands
      BY <2>3, <3>1 DEF RowsLand, Honest, Promise!Lands
    <3>3. QED
      BY <3>2 DEF Promise!PromiseNext
  <2>4. ASSUME NEW i \in Items, Touch(i) PROVE Promise!PromiseNext
    <3>1. Promise!Changes(i)
      BY <2>4 DEF Touch, state, ledger, Promise!Changes
    <3>2. QED
      BY <3>1 DEF Promise!PromiseNext
  <2>5. ASSUME NEW i \in Items, Vanish(i) PROVE Promise!PromiseNext
    <3>1. Promise!Disappears(i)
      BY <2>5 DEF Vanish, Exists, content, state, ledger, Promise!Disappears, Promise!There
    <3>2. QED
      BY <3>1 DEF Promise!PromiseNext
  <2>6. ASSUME Tick PROVE Promise!PromiseNext
    BY <2>6 DEF Tick, content, state, ledger, Promise!TimePasses, Promise!PromiseNext
  <2>7. ASSUME NEW c \in Configs, EditConfig(c) PROVE UNCHANGED Promise!promiseVars
    BY <2>7 DEF EditConfig, content, state, ledger, Promise!promiseVars
  <2>8. QED
    BY <2>1, <2>2, <2>3, <2>4, <2>5, <2>6, <2>7 DEF Outside
<1>3. QED
  BY <1>1, <1>2

\* The walk implements the promise: whatever is killed, halted, deferred, split,
\* shown late, touched, quarantined, drained or demanded, as long as a run that
\* found someone new in `people` goes through (finding people_killed is what
\* happens otherwise).
THEOREM ImplementsStreamArchive == Widening => (StreamSpec /\ JoinsGoThrough => KeepsThePromise)
<1> SUFFICES ASSUME Widening PROVE StreamSpec /\ JoinsGoThrough => KeepsThePromise
  OBVIOUS
<1>1. StreamInit => Promise!PromiseInit /\ Parted
  BY DEF StreamInit, Promise!PromiseInit, Parted
<1>2. StreamTypeOK /\ StreamTypeOK' /\ Apart /\ Seen /\ Sound /\ Sound' /\ Parted /\ [StreamNext]_streamVars
        => [Promise!PromiseNext]_(Promise!promiseVars) /\ Parted'
  BY StepKeepsThePromise
<1>3. StreamSpec /\ JoinsGoThrough => []Sound
  BY AlwaysSound
<1>4. StreamSpec => []Seen
  BY InitSeen, NextSeen, TypeCorrect, AlwaysApart, PTL DEF StreamSpec
<1>5. QED
  BY <1>1, <1>2, <1>3, <1>4, TypeCorrect, AlwaysApart, PTL DEF StreamSpec, KeepsThePromise, Promise!PromiseSpec
=============================================================================
