------------------------------ MODULE Reverify ------------------------------
(***************************************************************************)
(* The re-verify schedule of one repository (sync.rs): each run selects    *)
(* the rows longest unverified, open ones before closed ones, refetches    *)
(* those that are due, and stamps verified_at on the ones it saw whole.    *)
(* A row that has outgrown the documents of the full walk is refetched and *)
(* never stamped again.  Rows that discovery walks in the same run, drains *)
(* and longer backoffs are left out; so are issues, which have tiers and a *)
(* cap of their own by the same rules.                                     *)
(*                                                                         *)
(* Rows are their numbers.  Time is counted in ticks of at most one run.   *)
(* A page of re-verified rows lands in one transaction, under one second.  *)
(***************************************************************************)
EXTENDS Naturals, FiniteSets

CONSTANTS
  PrRows,       \* rows of the stream's table, within reach of the tiers
  OpenPeriod,   \* reverify_open_days
  ClosedPeriod, \* reverify_closed_days
  Hash,         \* fnv1a(repo, number)
  TierCap,      \* REVERIFY_CAP: 25 in the code
  MaxOutgrown,  \* bound: rows no full walk can witness
  MaxSetbacks   \* bound: runs that shed, hydrations that fail

ASSUME ReverifyAssumption ==
  /\ PrRows \subseteq Nat /\ IsFiniteSet(PrRows)
  /\ OpenPeriod \in Nat \ {0} /\ ClosedPeriod \in Nat \ {0}
  /\ Hash \in [PrRows -> Nat] /\ TierCap \in Nat \ {0}
  /\ MaxOutgrown \in Nat /\ MaxSetbacks \in Nat

VARIABLES
  shut,     \* rows whose pull request is closed or merged
  outgrown, \* rows with a thread longer than the full walk shows
  earlier,  \* ORDER BY verified_at: pairs of rows, the never verified before
            \* the oldest, and by number where that leaves a tie
  age,      \* row |-> ticks since verified_at; Overripe when never or long ago
  waiting,  \* rows in the quarantine
  ran,      \* a run has taken place in this tick
  setbacks

reverifyVars == <<shut, outgrown, earlier, age, waiting, ran, setbacks>>

Period(r) == IF r \in shut THEN ClosedPeriod ELSE OpenPeriod

\* Past twice its period a row is due whatever its jitter.
Overripe == 2 * (IF OpenPeriod > ClosedPeriod THEN OpenPeriod ELSE ClosedPeriod)

ByNumber == {p \in PrRows \X PrRows : p[1] < p[2]}

\* The order in which the rows of S, of one second, come behind all the others.
Behind(S, old) ==
  {p \in PrRows \X PrRows :
     \/ p[1] \notin S /\ (p[2] \in S \/ p \in old)
     \/ p[1] \in S /\ p[2] \in S /\ p[1] < p[2]}

\* Rows come verified from their first walk, or truncated and never verified.
ReverifyInit ==
  /\ shut \in SUBSET PrRows /\ outgrown = {} /\ waiting = {}
  /\ \E never \in SUBSET PrRows :
       /\ earlier = Behind(PrRows \ never, ByNumber)
       /\ age = [r \in PrRows |-> IF r \in never THEN Overripe ELSE 0]
  /\ ran = FALSE /\ setbacks = 0

TickPasses ==
  /\ ran
  /\ ran' = FALSE
  /\ age' = [r \in PrRows |-> IF age[r] < Overripe THEN age[r] + 1 ELSE Overripe]
  /\ UNCHANGED <<shut, outgrown, earlier, waiting, setbacks>>

Closes(r) ==
  /\ r \notin shut /\ shut' = shut \cup {r}
  /\ UNCHANGED <<outgrown, earlier, age, waiting, ran, setbacks>>

Outgrows(r) ==
  /\ r \notin outgrown /\ Cardinality(outgrown) < MaxOutgrown
  /\ outgrown' = outgrown \cup {r}
  /\ UNCHANGED <<shut, earlier, age, waiting, ran, setbacks>>
-----------------------------------------------------------------------------
Due(r) == age[r] >= Period(r) + (Hash[r] % Period(r))

\* LIMIT, and truncate.
FirstOf(S, n) == {r \in S : Cardinality({s \in S : <<s, r>> \in earlier}) < n}

\* Mutant: a tier is read by number, whenever its rows were verified.
TierByNumber(S) ==
  {r \in S : /\ Cardinality({s \in S : s < r}) < TierCap
             /\ r \notin waiting /\ Due(r)}

\* A tier's candidates are its first TierCap rows; only then it is asked which
\* of them are due.
Tier(S) == {r \in FirstOf(S, TierCap) : r \notin waiting /\ Due(r)}

OpenTier == Tier(PrRows \ shut)

\* Open rows first, and no more than TierCap of both.
Selected == OpenTier \cup FirstOf(Tier(shut), TierCap - Cardinality(OpenTier))

\* The order of the selection.
Sooner(r, s) == IF (r \in shut) = (s \in shut) THEN <<r, s>> \in earlier ELSE s \in shut

\* What a complete hydration stamps: a refetch always, a retry only a row that
\* was never verified or has news; `news` is that.
Stamped(walked, retried) == (walked \cup retried) \ outgrown

\* One run: retries before re-verify; the rows `walked` before the floor sheds
\* the rest; `fails` of them are quarantined.
ReverifyRun(walked, fails, news) ==
  LET stamped == Stamped(walked \ fails, news)
  IN /\ ~ran /\ ran' = TRUE
     /\ \A r \in walked, s \in Selected \ walked : Sooner(r, s)
     /\ \/ walked = Selected /\ fails = {} /\ UNCHANGED setbacks
        \/ setbacks < MaxSetbacks /\ setbacks' = setbacks + 1
     /\ earlier' = Behind(stamped, earlier)
     /\ age' = [r \in PrRows |-> IF r \in stamped THEN 0 ELSE age[r]]
     /\ waiting' = fails
     /\ UNCHANGED <<shut, outgrown>>

\* Time passes and the operator keeps running syncs.
SyncsGoOn ==
  \/ TickPasses
  \/ \E walked \in SUBSET Selected, news \in SUBSET waiting :
       \E fails \in SUBSET walked : ReverifyRun(walked, fails, news)

ReverifyNext == SyncsGoOn \/ \E r \in PrRows : Closes(r) \/ Outgrows(r)

ReverifyFairness == WF_reverifyVars(SyncsGoOn)

ReverifySpec == ReverifyInit /\ [][ReverifyNext]_reverifyVars /\ ReverifyFairness
-----------------------------------------------------------------------------
(* Properties. *)

\* e is a strict and total order of the rows.
IsOrder(e) ==
  /\ e \subseteq PrRows \X PrRows
  /\ \A r, s \in PrRows : <<r, s>> \in e <=> r # s /\ <<s, r>> \notin e
  /\ \A r, s, t \in PrRows : <<r, s>> \in e /\ <<s, t>> \in e => <<r, t>> \in e

ReverifyTypeOK ==
  /\ shut \subseteq PrRows /\ outgrown \subseteq PrRows /\ waiting \subseteq PrRows
  /\ IsOrder(earlier) /\ age \in [PrRows -> 0 .. Overripe]
  /\ ran \in BOOLEAN /\ setbacks \in 0 .. MaxSetbacks

\* No open row is forgotten: one that was never verified, or not for two periods,
\* is verified again, unless its own thread has outgrown the walk.  Rows that
\* cannot be verified take places of the tier for good: the property needs one
\* place that is not theirs (sync.rs: "that self-heals because due-ness is
\* monotone in time and the verified_at ASC order moves re-verified rows behind
\* the pending ones").
EveryRowComesUp ==
  \A r \in PrRows :
    (age[r] = Overripe) ~> (age[r] < Overripe \/ r \in outgrown \/ r \in shut)

\* A run that neither sheds nor fails to hydrate.
WholeRun == ~ran /\ ran' /\ UNCHANGED setbacks

\* The rows before r in the order of verified_at.
RowsBefore(r) == {s \in PrRows : <<s, r>> \in earlier}

\* What EveryRowComesUp rests on.  No row overtakes one that is overdue, and a
\* whole run verifies it or brings it forward, unless all the places of the open
\* tier are taken by rows it cannot verify (sync.rs: "the verified_at ASC order
\* moves re-verified rows behind the pending ones"; run reverify_starved reaches
\* the exception).
PendingRowsAdvance ==
  [][\A r \in PrRows \ shut :
       age[r] = Overripe /\ age'[r] # 0 =>
         /\ RowsBefore(r)' \subseteq RowsBefore(r)
         /\ WholeRun /\ r \notin outgrown \cup waiting /\ RowsBefore(r)' = RowsBefore(r) =>
              FirstOf(PrRows \ shut, TierCap) \subseteq outgrown \cup waiting]_reverifyVars
=============================================================================
