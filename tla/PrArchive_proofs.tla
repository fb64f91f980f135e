------------------------- MODULE PrArchive_proofs -------------------------
(***************************************************************************)
(* Theorems about PrArchive, for every value of its constants.             *)
(***************************************************************************)
EXTENDS PrArchive, FiniteSetTheorems, WellFoundedInduction, TLAPS

-----------------------------------------------------------------------------
(* Counting: what a balanced tail proves.                                  *)

\* A disjoint union counts as the sum.
LEMMA DisjointSum ==
  ASSUME NEW S, IsFiniteSet(S), NEW T, IsFiniteSet(T), S \cap T = {}
  PROVE  /\ IsFiniteSet(S \cup T)
         /\ Cardinality(S \cup T) = Cardinality(S) + Cardinality(T)
<1>1. Cardinality(S \cap T) = 0
  BY FS_EmptySet
<1>2. Cardinality(S) \in Nat /\ Cardinality(T) \in Nat
  BY FS_CardinalityType
<1>3. /\ IsFiniteSet(S \cup T)
      /\ Cardinality(S \cup T) = Cardinality(S) + Cardinality(T) - Cardinality(S \cap T)
  BY FS_Union
<1>4. QED
  BY <1>1, <1>2, <1>3

\* What the two sides of the balance are made of.
LEMMA Shares ==
  ASSUME NEW A, IsFiniteSet(A), NEW R, IsFiniteSet(R)
  PROVE  /\ Cardinality(A \ R) \in Nat /\ Cardinality(R \ A) \in Nat
         /\ Cardinality(A \cap R) \in Nat
         /\ Cardinality(A) = Cardinality(A \cap R) + Cardinality(A \ R)
         /\ Cardinality(R) = Cardinality(A \cap R) + Cardinality(R \ A)
<1>1. IsFiniteSet(A \ R) /\ IsFiniteSet(R \ A) /\ IsFiniteSet(A \cap R)
  BY FS_Subset
<1>2. A = (A \cap R) \cup (A \ R) /\ R = (A \cap R) \cup (R \ A)
  OBVIOUS
<1>3. (A \cap R) \cap (A \ R) = {} /\ (A \cap R) \cap (R \ A) = {}
  OBVIOUS
<1>4. Cardinality((A \cap R) \cup (A \ R)) = Cardinality(A \cap R) + Cardinality(A \ R)
  BY <1>1, <1>3, DisjointSum
<1>5. Cardinality((A \cap R) \cup (R \ A)) = Cardinality(A \cap R) + Cardinality(R \ A)
  BY <1>1, <1>3, DisjointSum
<1>6. /\ Cardinality(A \ R) \in Nat /\ Cardinality(R \ A) \in Nat
      /\ Cardinality(A \cap R) \in Nat
  BY <1>1, FS_CardinalityType
<1>7. QED
  BY <1>2, <1>4, <1>5, <1>6

\* Of two equal sums with a common term, the rest is equal.
LEMMA Cancel ==
  ASSUME NEW both \in Nat, NEW gone \in Nat, NEW added \in Nat, NEW kept \in Nat,
         NEW missed \in Nat,
         (both + gone) + kept = both + added, added = kept + missed
  PROVE  gone = missed
OBVIOUS

\* tail_conservation, whatever the order of the connection: a balanced tail T
\* of the comments R hides exactly as many deletions of the archive A as the
\* tail misses additions.
THEOREM BalanceIsConfined ==
  ASSUME NEW A, IsFiniteSet(A), NEW R, IsFiniteSet(R), NEW T \in SUBSET R,
         Cardinality(A) + Cardinality(T \ A) = Cardinality(R)
  PROVE  Cardinality(A \ R) = Cardinality((R \ A) \ T)
<1>1. IsFiniteSet(R \ A) /\ IsFiniteSet(T \ A) /\ IsFiniteSet((R \ A) \ T)
  BY FS_Subset
<1>2. Cardinality(R \ A) = Cardinality(T \ A) + Cardinality((R \ A) \ T)
  <2>1. R \ A = (T \ A) \cup ((R \ A) \ T) /\ (T \ A) \cap ((R \ A) \ T) = {}
    OBVIOUS
  <2>2. Cardinality((T \ A) \cup ((R \ A) \ T))
          = Cardinality(T \ A) + Cardinality((R \ A) \ T)
    BY <1>1, <2>1, DisjointSum
  <2>3. QED
    BY <2>1, <2>2
<1>3. /\ Cardinality(T \ A) \in Nat /\ Cardinality((R \ A) \ T) \in Nat
      /\ Cardinality(A) \in Nat /\ Cardinality(R) \in Nat
  BY <1>1, FS_CardinalityType
<1>4. /\ Cardinality(A \ R) \in Nat /\ Cardinality(R \ A) \in Nat
      /\ Cardinality(A \cap R) \in Nat
      /\ Cardinality(A) = Cardinality(A \cap R) + Cardinality(A \ R)
      /\ Cardinality(R) = Cardinality(A \cap R) + Cardinality(R \ A)
  BY Shares
<1>5. (Cardinality(A \cap R) + Cardinality(A \ R)) + Cardinality(T \ A)
        = Cardinality(A \cap R) + Cardinality(R \ A)
  BY <1>4
<1>6. QED
  <2> DEFINE both == Cardinality(A \cap R)
             gone == Cardinality(A \ R)
             added == Cardinality(R \ A)
             kept == Cardinality(T \ A)
             missed == Cardinality((R \ A) \ T)
  <2>1. both \in Nat /\ gone \in Nat /\ added \in Nat /\ kept \in Nat /\ missed \in Nat
    BY <1>3, <1>4
  <2>2. (both + gone) + kept = both + added /\ added = kept + missed
    BY <1>2, <1>5
  <2> HIDE DEF both, gone, added, kept, missed
  <2>3. gone = missed
    BY <2>1, <2>2, Cancel
  <2>4. QED
    BY <2>3 DEF gone, missed

\* ... and when the tail holds every addition, as it does when it is anchored
\* in creation order, the archive holds nothing that is gone.
THEOREM BalanceIsExact ==
  ASSUME NEW A, IsFiniteSet(A), NEW R, IsFiniteSet(R), NEW T \in SUBSET R,
         R \ A \subseteq T,
         Cardinality(A) + Cardinality(T \ A) = Cardinality(R)
  PROVE  A \subseteq R
<1>1. Cardinality(A \ R) = Cardinality((R \ A) \ T)
  BY BalanceIsConfined
<1>2. (R \ A) \ T = {}
  OBVIOUS
<1>3. Cardinality(A \ R) = 0 /\ IsFiniteSet(A \ R)
  BY <1>1, <1>2, FS_EmptySet, FS_Subset
<1>4. QED
  BY <1>3, FS_EmptySet

-----------------------------------------------------------------------------
(* Pages.                                                                  *)

\* A page is a part of the connection, closed towards the end it is read from.
LEMMA NewestPage ==
  ASSUME NEW S \in SUBSET Nat, IsFiniteSet(S), NEW k \in Nat
  PROVE  /\ Newest(S, k) \subseteq S
         /\ \A x \in S, y \in Newest(S, k) : y <= x => x \in Newest(S, k)
<1>1. Newest(S, k) \subseteq S
  BY DEF Newest
<1>2. ASSUME NEW x \in S, NEW y \in Newest(S, k), y <= x
      PROVE  x \in Newest(S, k)
  <2>1. {z \in S : z > x} \in SUBSET {z \in S : z > y}
    <3>1. x \in Nat /\ y \in Nat /\ \A z \in S : z \in Nat
      BY <1>1, <1>2
    <3>2. \A z \in S : z > x => z > y
      BY <1>2, <3>1
    <3>3. QED
      BY <3>2
  <2>2. IsFiniteSet({z \in S : z > y})
    BY FS_Subset
  <2>3. Cardinality({z \in S : z > x}) <= Cardinality({z \in S : z > y})
    BY <2>1, <2>2, FS_Subset
  <2>4. IsFiniteSet({z \in S : z > x})
    BY FS_Subset
  <2>5. /\ Cardinality({z \in S : z > y}) \in Nat
        /\ Cardinality({z \in S : z > x}) \in Nat
    BY <2>2, <2>4, FS_CardinalityType
  <2>6. Cardinality({z \in S : z > y}) < k
    BY <1>2 DEF Newest
  <2>7. Cardinality({z \in S : z > x}) < k
    BY <2>3, <2>5, <2>6
  <2>8. QED
    BY <2>7 DEF Newest
<1>3. QED
  BY <1>1, <1>2

LEMMA OldestPage ==
  ASSUME NEW S \in SUBSET Nat, IsFiniteSet(S), NEW k \in Nat
  PROVE  /\ Oldest(S, k) \subseteq S
         /\ \A x \in S, y \in Oldest(S, k) : x <= y => x \in Oldest(S, k)
<1>1. Oldest(S, k) \subseteq S
  BY DEF Oldest
<1>2. ASSUME NEW x \in S, NEW y \in Oldest(S, k), x <= y
      PROVE  x \in Oldest(S, k)
  <2>1. {z \in S : z < x} \in SUBSET {z \in S : z < y}
    <3>1. x \in Nat /\ y \in Nat /\ \A z \in S : z \in Nat
      BY <1>1, <1>2
    <3>2. \A z \in S : z < x => z < y
      BY <1>2, <3>1
    <3>3. QED
      BY <3>2
  <2>2. IsFiniteSet({z \in S : z < y})
    BY FS_Subset
  <2>3. Cardinality({z \in S : z < x}) <= Cardinality({z \in S : z < y})
    BY <2>1, <2>2, FS_Subset
  <2>4. IsFiniteSet({z \in S : z < x})
    BY FS_Subset
  <2>5. /\ Cardinality({z \in S : z < y}) \in Nat
        /\ Cardinality({z \in S : z < x}) \in Nat
    BY <2>2, <2>4, FS_CardinalityType
  <2>6. Cardinality({z \in S : z < y}) < k
    BY <1>2 DEF Oldest
  <2>7. Cardinality({z \in S : z < x}) < k
    BY <2>3, <2>5, <2>6
  <2>8. QED
    BY <2>7 DEF Oldest
<1>3. QED
  BY <1>1, <1>2

\* A set of numbers has a least one.
LEMMA Least ==
  ASSUME NEW T \in SUBSET Nat, T # {}
  PROVE  \E x \in T : \A y \in T : x <= y
<1> DEFINE R == {ss \in Nat \X Nat : ss[1] < ss[2]}
<1>1. IsWellFoundedOn(R, Nat)
  BY NatLessThanWellFounded, Zenon DEF OpToRel
<1> HIDE DEF R
<1>2. PICK x \in T : \A y \in T : <<y, x>> \notin R
  BY <1>1, WFMin
<1>3. ASSUME NEW y \in T PROVE x <= y
  <2>1. x \in Nat /\ y \in Nat
    OBVIOUS
  <2>2. y < x => <<y, x>> \in R
    BY <2>1 DEF R
  <2>3. QED
    BY <1>2, <2>1, <2>2
<1>4. QED
  BY <1>3

\* The last page of a connection that is not empty is not empty.
LEMMA NewestIsSome ==
  ASSUME NEW n \in Nat, NEW S \in SUBSET (0 .. n), S # {}, NEW k \in Nat \ {0}
  PROVE  Newest(S, k) # {}
<1> DEFINE T == {n - x : x \in S}
<1>1. T \in SUBSET Nat /\ T # {}
  <2>1. \A x \in S : x \in Int /\ x <= n /\ n - x \in Nat
    OBVIOUS
  <2>2. QED
    BY <2>1
<1>2. PICK t \in T : \A u \in T : t <= u
  BY <1>1, Least
<1>3. PICK x \in S : t = n - x
  OBVIOUS
<1>4. ASSUME NEW y \in S PROVE ~(y > x)
  <2>1. n - y \in T /\ y \in Nat /\ x \in Nat
    OBVIOUS
  <2>2. n - x <= n - y
    BY <1>2, <1>3, <2>1
  <2>3. QED
    BY <2>1, <2>2
<1>5. {y \in S : y > x} = {}
  BY <1>4
<1>6. Cardinality({y \in S : y > x}) = 0
  BY <1>5, FS_EmptySet
<1>7. x \in Newest(S, k)
  BY <1>6 DEF Newest
<1>8. QED
  BY <1>7

-----------------------------------------------------------------------------
(* The queue of the channel.                                               *)

LEMMA AppendFacts ==
  ASSUME NEW B, NEW s \in Seq(B), NEW e \in B
  PROVE  /\ Append(s, e) \in Seq(B)
         /\ Len(Append(s, e)) = Len(s) + 1
         /\ \A k \in 1 .. Len(s) : Append(s, e)[k] = s[k]
         /\ Append(s, e)[Len(s) + 1] = e
OBVIOUS

LEMMA TailFacts ==
  ASSUME NEW B, NEW s \in Seq(B), s # <<>>
  PROVE  /\ Head(s) \in B /\ Head(s) = s[1] /\ Len(s) \in Nat /\ Len(s) >= 1
         /\ Tail(s) \in Seq(B)
         /\ Len(Tail(s)) = Len(s) - 1
         /\ \A k \in 1 .. Len(Tail(s)) : k + 1 \in 1 .. Len(s) /\ Tail(s)[k] = s[k + 1]
OBVIOUS

-----------------------------------------------------------------------------
(* The steps, sorted by what they do.                                      *)

\* The full walk begins, from an idle worker or from a tail that is given up.
WalkBegins ==
  /\ BeginWalk
  /\ mode = "idle" => Len(queue) <= Depth
  /\ UNCHANGED <<remote, archive, queue, applied>>

TailBegins == StartTail

\* One page further back, under an unmoved count.
TailGrows ==
  /\ Hunting
  /\ pages < WalkBack
  /\ Cardinality(alive) = total
  /\ seen' = seen \cup Newest(Before(alive, seen), TailK)
  /\ more' = (Newest(Before(alive, seen), TailK) # Before(alive, seen))
  /\ pages' = pages + 1
  /\ UNCHANGED <<mode, base, total, begun, since, calm>>
  /\ UNCHANGED <<remote, archive, queue, applied>>

\* The worker hands its bundle over.
Gives(comments, others) ==
  /\ Hand(comments, others)
  /\ mode \in {"tail", "walk"}
  /\ comments = "Complete" => mode = "walk" /\ ~more
  /\ comments = "TailHit" => mode = "tail" /\ ~Hunting /\ TailHit(base, total, seen, ~more)
  /\ UNCHANGED <<remote, archive, applied>>

Kinds == {"Complete", "TailHit", "Incomplete"}

\* Every step is one of these, and charges a fault or none.
LEMMA StepForms ==
  ASSUME TypeOK, Next
  PROVE  /\ \/ Create
            \/ \E i \in Ids : Delete(i)
            \/ WalkBegins
            \/ TailBegins
            \/ TailGrows
            \/ WalkPage
            \/ \E c \in Kinds, others \in BOOLEAN : Gives(c, others)
            \/ Apply
            \/ Drain
            \/ Killed
         /\ faults' \in Nat
<1> USE DEF Kinds
<1>1. faults \in Nat /\ faults + 1 \in Nat
  BY DEF TypeOK
<1>2. CASE Environment
  BY <1>1, <1>2 DEF Environment, Create, Delete
<1>3. CASE StartWalk
  BY <1>1, <1>3 DEF StartWalk, WalkBegins
<1>4. CASE StartTail
  BY <1>1, <1>4 DEF StartTail, TailBegins
<1>5. CASE TailPage
  <2>1. CASE Cardinality(alive) = total
    BY <1>1, <1>5, <2>1 DEF TailPage, TailGrows
  <2>2. CASE Cardinality(alive) # total
    BY <1>1, <1>5, <2>2 DEF TailPage, WalkBegins, Hunting
  <2>3. QED
    BY <2>1, <2>2
<1>6. CASE TailGivesUp \/ TailDrifted
  BY <1>1, <1>6 DEF TailGivesUp, TailDrifted, WalkBegins, Hunting, Fault
<1>7. CASE WalkPage
  BY <1>1, <1>7 DEF WalkPage
<1>8. ASSUME NEW others \in BOOLEAN,
             TailVerdict(others) \/ WalkStops(others) \/ WalkEnds(others) \/ TailAborted(others)
      PROVE  /\ WalkBegins \/ \E c \in Kinds : Gives(c, others)
             /\ faults' \in Nat
  <2>1. CASE TailVerdict(others)
    <3>1. CASE TailHit(base, total, seen, ~more)
      BY <1>1, <2>1, <3>1 DEF TailVerdict, Gives, Others, Fault
    <3>2. CASE ~TailHit(base, total, seen, ~more)
      BY <1>1, <2>1, <3>2 DEF TailVerdict, WalkBegins
    <3>3. QED
      BY <3>1, <3>2
  <2>2. CASE WalkStops(others)
    <3>1. Gives("Incomplete", others)
      BY <2>2 DEF WalkStops, Gives
    <3>2. faults' \in Nat
      BY <1>1, <2>2 DEF WalkStops, Others, Fault
    <3>3. QED
      BY <3>1, <3>2
  <2>3. CASE WalkEnds(others)
    <3>1. Gives("Complete", others)
      BY <2>3 DEF WalkEnds, Gives
    <3>2. faults' \in Nat
      BY <1>1, <2>3 DEF WalkEnds, Others, Fault
    <3>3. QED
      BY <3>1, <3>2
  <2>4. CASE TailAborted(others)
    <3>1. Gives("Incomplete", others)
      BY <2>4 DEF TailAborted, Gives, Hunting
    <3>2. faults' \in Nat
      BY <1>1, <2>4 DEF TailAborted, Fault
    <3>3. QED
      BY <3>1, <3>2
  <2>5. QED
    BY <1>8, <2>1, <2>2, <2>3, <2>4
<1>9. CASE Drain \/ Killed
  BY <1>1, <1>9 DEF Drain, Killed, Fault
<1>10. CASE Apply
  BY <1>1, <1>10 DEF Apply
<1>11. QED
  BY <1>2, <1>3, <1>4, <1>5, <1>6, <1>7, <1>8, <1>9, <1>10
     DEF Next, Working, Trouble

-----------------------------------------------------------------------------
(* Type correctness.                                                       *)

\* The sets of ids are finite sets of numbers.
LEMMA Finite ==
  ASSUME TypeOK
  PROVE  /\ alive \in SUBSET Nat /\ IsFiniteSet(alive)
         /\ Before(alive, seen) \in SUBSET Nat /\ IsFiniteSet(Before(alive, seen))
         /\ After(alive, seen) \in SUBSET Nat /\ IsFiniteSet(After(alive, seen))
         /\ PageSize \in Nat /\ TailK \in Nat
         /\ born \in Nat /\ alive \in SUBSET Ids
<1>1. MaxId \in Nat /\ PageSize \in Nat /\ TailK \in Nat
  BY PrArchiveAssumption
<1>2. born \in Nat /\ 1 .. born \subseteq Ids
  BY <1>1 DEF TypeOK, Ids
<1>3. IsFiniteSet(1 .. born)
  BY <1>2, FS_Interval
<1>4. IsFiniteSet(alive)
  BY <1>3, FS_Subset DEF TypeOK
<1>5. Before(alive, seen) \in SUBSET alive /\ After(alive, seen) \in SUBSET alive
  BY DEF Before, After
<1>6. IsFiniteSet(Before(alive, seen)) /\ IsFiniteSet(After(alive, seen))
  BY <1>4, <1>5, FS_Subset
<1>7. alive \in SUBSET Ids /\ alive \in SUBSET Nat
  BY <1>2 DEF TypeOK, Ids
<1>8. Before(alive, seen) \in SUBSET Nat /\ After(alive, seen) \in SUBSET Nat
  BY <1>5, <1>7
<1>9. QED
  BY <1>1, <1>2, <1>4, <1>6, <1>7, <1>8

\* What the worker keeps in memory, as TypeOK has it.
WorkerType ==
  /\ mode \in {"idle", "tail", "walk"}
  /\ base \in SUBSET Ids /\ seen \in SUBSET Ids
  /\ total \in Nat /\ more \in BOOLEAN
  /\ pages \in 0 .. (IF mode = "walk" THEN MaxPages ELSE WalkBack)
  /\ begun \in SUBSET Ids /\ since \in Nat /\ calm \in BOOLEAN

\* An idle worker keeps nothing.
Idle ==
  /\ mode = "idle" /\ base = {} /\ seen = {} /\ total = 0 /\ more = FALSE
  /\ pages = 0 /\ begun = {} /\ since = 0 /\ calm = TRUE

LEMMA IdleType == Idle => WorkerType
<1>1. 0 \in Nat /\ 0 \in 0 .. WalkBack
  BY PrArchiveAssumption
<1>2. ASSUME Idle PROVE pages \in 0 .. (IF mode = "walk" THEN MaxPages ELSE WalkBack)
  BY <1>1, <1>2 DEF Idle
<1>3. QED
  BY <1>1, <1>2 DEF Idle, WorkerType

\* A worker at work left room in the channel for its bundle.
Room == mode # "idle" => Len(queue) <= Depth

LEMMA TypeStep ==
  ASSUME TypeOK, Room, [Next]_vars
  PROVE  TypeOK' /\ Room'
<1>1. /\ MaxPages \in Nat /\ WalkBack \in Nat /\ Depth \in Nat /\ MaxId \in Nat
      /\ Len(queue) \in Nat
  BY PrArchiveAssumption DEF TypeOK
<1>2. WorkerType
  BY DEF TypeOK, WorkerType
<1>3. CASE UNCHANGED vars
  BY <1>3 DEF TypeOK, Room, vars, remote, archive, worker
<1>4. ASSUME Next PROVE faults' \in Nat
  BY <1>4, StepForms
<1>5. CASE Create
  <2>1. born' \in 0 .. MaxId /\ alive' \in SUBSET (1 .. born')
    BY <1>1, <1>5 DEF Create, TypeOK
  <2>2. QED
    BY <1>5, <2>1 DEF Create, TypeOK, Room, archive, worker
<1>6. CASE \E i \in Ids : Delete(i)
  BY <1>6 DEF Delete, TypeOK, Room, archive, worker
<1>7. CASE Next /\ WalkBegins
  <2>1. Oldest(alive, PageSize) \subseteq alive
    BY DEF Oldest
  <2>2. WorkerType'
    BY <1>1, <1>7, <2>1, Finite DEF WorkerType, WalkBegins, BeginWalk
  <2>3. Room'
    BY <1>7 DEF WalkBegins, BeginWalk, Room
  <2>4. QED
    BY <1>4, <1>7, <2>2, <2>3 DEF WorkerType, WalkBegins, TypeOK, remote, archive
<1>8. CASE Next /\ TailBegins
  <2>1. Newest(alive, TailK) \subseteq alive
    BY DEF Newest
  <2>2. Cardinality(alive) \in Nat
    BY Finite, FS_CardinalityType
  <2>3. live \in SUBSET Ids
    BY DEF TypeOK
  <2>4. WorkerType'
    BY <1>1, <1>8, <2>1, <2>2, <2>3, Finite DEF WorkerType, TailBegins, StartTail
  <2>5. Room'
    BY <1>8 DEF TailBegins, StartTail, Room
  <2>6. QED
    BY <1>4, <1>8, <2>4, <2>5 DEF WorkerType, TailBegins, StartTail, TypeOK, remote, archive
<1>9. CASE Next /\ TailGrows
  <2>1. Newest(Before(alive, seen), TailK) \subseteq alive
    BY DEF Newest, Before
  <2>2. WorkerType'
    BY <1>1, <1>2, <1>9, <2>1, Finite DEF WorkerType, TailGrows, Hunting
  <2>3. Room'
    BY <1>9 DEF TailGrows, Room
  <2>4. QED
    BY <1>4, <1>9, <2>2, <2>3 DEF WorkerType, TailGrows, TypeOK, remote, archive
<1>10. CASE Next /\ WalkPage
  <2>1. Oldest(After(alive, seen), PageSize) \subseteq alive
    BY DEF Oldest, After
  <2>2. WorkerType'
    BY <1>1, <1>2, <1>10, <2>1, Finite DEF WorkerType, WalkPage
  <2>3. Room'
    BY <1>10 DEF WalkPage, Room
  <2>4. QED
    BY <1>4, <1>10, <2>2, <2>3 DEF WorkerType, WalkPage, TypeOK, remote, archive
<1>11. ASSUME Next, NEW c \in Kinds, NEW others \in BOOLEAN, Gives(c, others)
       PROVE  TypeOK' /\ Room'
  <2> DEFINE b == [comments |-> c, others |-> others, seen |-> seen,
                   begun |-> begun, since |-> since, calm |-> calm]
  <2>1. b \in Bundles
    BY <1>2, <1>11 DEF Bundles, Kinds, WorkerType
  <2>2. queue' = Append(queue, b) /\ mode' = "idle"
    BY <1>11 DEF Gives, Hand
  <2>3. queue \in Seq(Bundles) /\ Len(queue) <= Depth
    BY <1>11 DEF TypeOK, Room, Gives
  <2> HIDE DEF b
  <2>4. queue' \in Seq(Bundles) /\ Len(queue') = Len(queue) + 1
    BY <2>1, <2>2, <2>3, AppendFacts
  <2>5. WorkerType'
    <3>1. Idle'
      BY <1>11 DEF Gives, Hand, Idle
    <3>2. QED
      BY <3>1, IdleType, PTL
  <2>6. Len(queue') <= Depth + 1
    BY <1>1, <2>3, <2>4
  <2>7. QED
    BY <1>4, <1>11, <2>2, <2>4, <2>5, <2>6
       DEF WorkerType, Room, Gives, TypeOK, remote, archive
<1>12. CASE Next /\ Apply
  <2>1. queue \in Seq(Bundles) /\ queue # <<>>
    BY <1>12 DEF Apply, TypeOK
  <2>2. /\ Head(queue) \in Bundles /\ queue' \in Seq(Bundles)
        /\ Len(queue') = Len(queue) - 1
    BY <1>12, <2>1, TailFacts DEF Apply
  <2>3. /\ Head(queue).seen \in SUBSET Ids
        /\ [begun |-> Head(queue).begun, since |-> Head(queue).since,
            calm |-> Head(queue).calm] \in [begun : SUBSET Ids, since : Nat, calm : BOOLEAN]
    BY <2>2 DEF Bundles
  <2>4. Swept(Head(queue)) \subseteq live
    BY DEF Swept
  <2>5. live' \in SUBSET Ids /\ dead' \in SUBSET (Ids \ live')
    BY <1>12, <2>3, <2>4 DEF Apply, TypeOK
  <2>6. LandedTruncated(Head(queue)) \in BOOLEAN
    BY DEF LandedTruncated, Verified, TypeOK
  <2>7. (verified \/ Verified(Head(queue))) \in BOOLEAN
    OBVIOUS
  <2>8. truncated' \in BOOLEAN /\ verified' \in BOOLEAN /\ row' = "live"
    BY <1>12, <2>6, <2>7 DEF Apply
  <2>9. applied' \in [begun : SUBSET Ids, since : Nat, calm : BOOLEAN]
    BY <1>12, <2>3 DEF Apply
  <2>10. WorkerType'
    BY <1>2, <1>12 DEF Apply, WorkerType, worker
  <2>11. Len(queue') <= Depth + 1 /\ Room'
    BY <1>1, <1>12, <2>2 DEF TypeOK, Room, Apply, worker
  <2>12. QED
    BY <1>4, <1>12, <2>2, <2>5, <2>8, <2>9, <2>10, <2>11
       DEF Apply, TypeOK, WorkerType, remote
<1>13. CASE Next /\ Drain
  BY <1>4, <1>13 DEF Drain, TypeOK, Room, remote, worker
<1>14. CASE Next /\ Killed
  <2>1. Idle' /\ Room'
    BY <1>14 DEF Killed, Idle, Room
  <2>2. queue' \in Seq(Bundles) /\ Len(queue') <= Depth + 1
    BY <1>1, <1>14 DEF Killed
  <2>3. WorkerType'
    BY <2>1, IdleType, PTL
  <2>4. QED
    BY <1>4, <1>14, <2>1, <2>2, <2>3 DEF Killed, TypeOK, WorkerType, remote, archive
<1>15. QED
  BY <1>3, <1>5, <1>6, <1>7, <1>8, <1>9, <1>10, <1>11, <1>12, <1>13, <1>14, StepForms

LEMMA TypeInit == ASSUME Init PROVE TypeOK /\ Room
<1>1. MaxPages \in Nat /\ WalkBack \in Nat /\ Depth \in Nat /\ MaxId \in Nat
  BY PrArchiveAssumption
<1>2. WorkerType
  BY IdleType DEF Init, Idle
<1>3. queue \in Seq(Bundles) /\ Len(queue) = 0
  BY DEF Init
<1>4. applied \in [begun : SUBSET Ids, since : Nat, calm : BOOLEAN]
  BY DEF Init
<1>5. born \in 0 .. MaxId /\ alive \in SUBSET (1 .. born)
  BY DEF Init
<1>6. /\ row \in {"none", "live", "deleted"} /\ truncated \in BOOLEAN
      /\ verified \in BOOLEAN /\ live \in SUBSET Ids
      /\ dead \in SUBSET (Ids \ live) /\ mode = "idle" /\ faults \in Nat
  BY DEF Init
<1>7. Len(queue) <= Depth + 1
  BY <1>1, <1>3
<1>8. QED
  BY <1>2, <1>3, <1>4, <1>5, <1>6, <1>7 DEF TypeOK, WorkerType, Room

\* Type correctness of every variable is invariant, the bounds of the channel
\* and of the two page counters among it.
THEOREM TypeCorrect == Spec => [](TypeOK /\ Room)
<1>1. Init => TypeOK /\ Room
  BY TypeInit
<1>2. (TypeOK /\ Room) /\ [Next]_vars => (TypeOK /\ Room)'
  BY TypeStep
<1>3. QED
  BY <1>1, <1>2, PTL DEF Spec

-----------------------------------------------------------------------------
(* The inductive invariant.                                                *)

\* Whatever was fetched or archived was created.
Old ==
  /\ live \cup dead \cup base \cup seen \cup begun \subseteq 1 .. born
  /\ applied.begun \subseteq 1 .. born
  /\ since <= born
  /\ \A k \in 1 .. Len(queue) :
       /\ queue[k].seen \cup queue[k].begun \subseteq 1 .. born
       /\ queue[k].since <= born

\* The walk skips nothing: what it fetched reaches down to the start of the
\* connection, and at its end it holds all that was archived or on its way.
Walking ==
  mode = "walk" =>
    /\ \A x \in alive, y \in seen : x <= y => x \in seen
    /\ ~more => /\ (live \cup begun) \cap alive \subseteq seen
                /\ \A k \in 1 .. Len(queue) : queue[k].seen \cap alive \subseteq seen

\* The tail skips nothing either, from its end backwards; the baseline, as far
\* as it still exists, lies before whatever it lacks.
Tailing ==
  mode = "tail" =>
    /\ row = "live" /\ verified
    /\ seen \subseteq 1 .. since
    /\ more => seen # {}
    /\ \A r \in alive : r <= since => r \in begun
    /\ base \cap alive \subseteq live
    /\ \A r \in begun \cap alive, y \in seen : y <= r => r \in seen
    /\ ~more => begun \cap alive \subseteq seen
    /\ \A r \in (begun \cap alive) \ base, a \in base : a < r

\* What a witness on its way to the writer is worth when it gets there.
CompleteOK(k) ==
  LET b == queue[k]
  IN b.comments = "Complete" =>
       /\ (live \cup b.begun) \cap alive \subseteq b.seen
       /\ \A x \in alive, y \in b.seen : x <= y => x \in b.seen
       /\ \A j \in 1 .. (k - 1) : queue[j].seen \cap alive \subseteq b.seen

TailHitOK(b) ==
  b.comments = "TailHit" =>
    /\ row = "live" /\ verified
    /\ b.begun \cap alive \subseteq b.seen \cup live
    /\ b.seen \subseteq 1 .. b.since
    /\ \A r \in alive : r <= b.since => r \in b.begun

Handed == \A k \in 1 .. Len(queue) : CompleteOK(k) /\ TailHitOK(queue[k])

\* The archive of a row with a tail path is an initial part of what exists.
Segment == HasBaseline => \A r \in alive \ live, a \in live : a < r

\* The inductive invariant.
Safe ==
  /\ TypeOK /\ Room /\ Old /\ Walking /\ Tailing /\ Handed /\ Segment
  /\ SweptIsGone /\ NothingMissed

-----------------------------------------------------------------------------
(* What a step does to the queue and to the archive.                       *)

\* Ids are numbers, and so is everything they are compared with.
LEMMA Numbers ==
  ASSUME TypeOK, Old
  PROVE  /\ born \in Nat /\ since \in Nat /\ Len(queue) \in Nat
         /\ \A x \in alive \cup live \cup dead \cup base \cup seen \cup begun :
              x \in Nat /\ 1 <= x /\ x <= born
         /\ \A x \in applied.begun : x \in Nat /\ x <= born
         /\ \A k \in 1 .. Len(queue) :
              /\ queue[k] \in Bundles
              /\ queue[k].since \in Nat /\ queue[k].since <= born
              /\ \A x \in queue[k].seen \cup queue[k].begun :
                   x \in Nat /\ 1 <= x /\ x <= born
<1>1. born \in Nat /\ since \in Nat /\ Len(queue) \in Nat
  BY PrArchiveAssumption DEF TypeOK
<1>2. ASSUME NEW k \in 1 .. Len(queue)
      PROVE  queue[k] \in Bundles /\ queue[k].since \in Nat
  <2>1. queue \in Seq(Bundles)
    BY DEF TypeOK
  <2>2. queue[k] \in Bundles
    BY <2>1
  <2>3. QED
    BY <2>2 DEF Bundles
<1>3. alive \subseteq 1 .. born
  BY DEF TypeOK
<1>4. \A x \in 1 .. born : x \in Nat /\ 1 <= x /\ x <= born
  BY <1>1
<1>5. \A x \in alive \cup live \cup dead \cup base \cup seen \cup begun :
        x \in Nat /\ 1 <= x /\ x <= born
  BY <1>3, <1>4 DEF Old
<1>6. \A x \in applied.begun : x \in Nat /\ x <= born
  BY <1>4 DEF Old
<1>7. ASSUME NEW k \in 1 .. Len(queue)
      PROVE  /\ queue[k].since <= born
             /\ \A x \in queue[k].seen \cup queue[k].begun :
                  x \in Nat /\ 1 <= x /\ x <= born
  BY <1>4 DEF Old
<1>8. QED
  BY <1>1, <1>2, <1>5, <1>6, <1>7

LEMMA GivesQueue ==
  ASSUME TypeOK, NEW c \in Kinds, NEW others \in BOOLEAN, Gives(c, others)
  PROVE  /\ Len(queue') = Len(queue) + 1
         /\ \A k \in 1 .. Len(queue) : queue'[k] = queue[k]
         /\ queue'[Len(queue) + 1].comments = c
         /\ queue'[Len(queue) + 1].others = others
         /\ queue'[Len(queue) + 1].seen = seen
         /\ queue'[Len(queue) + 1].begun = begun
         /\ queue'[Len(queue) + 1].since = since
         /\ queue'[Len(queue) + 1].calm = calm
<1> DEFINE b == [comments |-> c, others |-> others, seen |-> seen,
                 begun |-> begun, since |-> since, calm |-> calm]
<1>1. b \in Bundles
  BY DEF Bundles, Kinds, TypeOK
<1>2. queue' = Append(queue, b) /\ queue \in Seq(Bundles)
  BY DEF Gives, Hand, TypeOK
<1>3. /\ b.comments = c /\ b.others = others /\ b.seen = seen
      /\ b.begun = begun /\ b.since = since /\ b.calm = calm
  OBVIOUS
<1> HIDE DEF b
<1>4. /\ Len(queue') = Len(queue) + 1
      /\ \A k \in 1 .. Len(queue) : queue'[k] = queue[k]
      /\ queue'[Len(queue) + 1] = b
  BY <1>1, <1>2, AppendFacts
<1>5. QED
  BY <1>3, <1>4

\* Applying a bundle takes nothing from the archive that still exists, and adds
\* only what the bundle holds.
LEMMA Applied ==
  ASSUME TypeOK, Handed, Apply
  PROVE  /\ queue # <<>> /\ 1 \in 1 .. Len(queue) /\ Head(queue) = queue[1]
         /\ Len(queue) \in Nat /\ Len(queue') = Len(queue) - 1
         /\ \A k \in 1 .. Len(queue') :
              k + 1 \in 1 .. Len(queue) /\ queue'[k] = queue[k + 1]
         /\ live' = (live \ Swept(queue[1])) \cup queue[1].seen
         /\ dead' = (dead \cup Swept(queue[1])) \ queue[1].seen
         /\ live \cap alive \subseteq live'
         /\ Swept(queue[1]) \cap alive = {}
         /\ Swept(queue[1]) \subseteq live
         /\ row' = "live" /\ (verified => verified')
         /\ UNCHANGED <<born, alive>>
<1>1. queue \in Seq(Bundles) /\ queue # <<>>
  BY DEF Apply, TypeOK
<1>2. /\ Head(queue) = queue[1] /\ Len(queue) \in Nat /\ Len(queue) >= 1
      /\ queue' = Tail(queue)
      /\ Len(queue') = Len(queue) - 1
      /\ \A k \in 1 .. Len(queue') : k + 1 \in 1 .. Len(queue) /\ queue'[k] = queue[k + 1]
  BY <1>1, TailFacts DEF Apply
<1>3. /\ live' = (live \ Swept(queue[1])) \cup queue[1].seen
      /\ dead' = (dead \cup Swept(queue[1])) \ queue[1].seen
      /\ row' = "live" /\ (verified => verified')
      /\ UNCHANGED <<born, alive>>
  BY <1>2 DEF Apply, remote
<1>4. 1 \in 1 .. Len(queue)
  BY <1>2
<1>5. CompleteOK(1)
  BY <1>4 DEF Handed
<1>6. Swept(queue[1]) \cap alive = {} /\ Swept(queue[1]) \subseteq live
  BY <1>5 DEF CompleteOK, Swept
<1>7. QED
  BY <1>1, <1>2, <1>3, <1>4, <1>6
-----------------------------------------------------------------------------
(* The invariant, conjunct by conjunct and step by step.                   *)

\* Pages hold only what exists, and a fetched page is kept.
LEMMA Fetched ==
  ASSUME TypeOK, WalkBegins \/ TailBegins \/ TailGrows \/ WalkPage
  PROVE  /\ seen' \subseteq seen \cup alive
         /\ mode' # "idle"
         /\ UNCHANGED <<born, alive, row, truncated, verified, live, dead, queue, applied>>
<1>1. /\ Oldest(alive, PageSize) \subseteq alive
      /\ Newest(alive, TailK) \subseteq alive
      /\ Newest(Before(alive, seen), TailK) \subseteq alive
      /\ Oldest(After(alive, seen), PageSize) \subseteq alive
  BY DEF Oldest, Newest, Before, After
<1>2. CASE WalkBegins
  BY <1>1, <1>2 DEF WalkBegins, BeginWalk, remote, archive
<1>3. CASE TailBegins
  BY <1>1, <1>3 DEF TailBegins, StartTail, remote, archive
<1>4. CASE TailGrows
  BY <1>1, <1>4 DEF TailGrows, Hunting, remote, archive
<1>5. CASE WalkPage
  BY <1>1, <1>5 DEF WalkPage, remote, archive
<1>6. QED
  BY <1>2, <1>3, <1>4, <1>5

LEMMA OldStep ==
  ASSUME Safe, Next
  PROVE  Old'
<1>1. TypeOK /\ Old /\ Handed
  BY DEF Safe
<1>2. born \in Nat /\ Len(queue) \in Nat /\ since <= born /\ alive \subseteq 1 .. born
  BY <1>1, Numbers DEF Old, TypeOK
<1>3. CASE Create
  <2>1. born' = born + 1 /\ 1 .. born \subseteq 1 .. born'
    BY <1>2, <1>3 DEF Create
  <2>2. since' = since /\ since \in Nat /\ since' <= born'
    BY <1>1, <1>2, <1>3, <2>1, Numbers DEF Create, worker
  <2>3. \A k \in 1 .. Len(queue) : queue[k].since \in Nat /\ queue[k].since <= born'
    BY <1>1, <1>2, <2>1, Numbers
  <2>4. QED
    BY <1>1, <1>3, <2>1, <2>2, <2>3 DEF Create, Old, archive, worker
<1>4. CASE \E i \in Ids : Delete(i)
  BY <1>1, <1>4 DEF Delete, Old, archive, worker
<1>5. CASE WalkBegins \/ TailBegins \/ TailGrows \/ WalkPage
  <2>1. seen' \subseteq 1 .. born'
    BY <1>1, <1>2, <1>5, Fetched DEF Old
  <2>2. base' \subseteq 1 .. born' /\ begun' \subseteq 1 .. born' /\ since' <= born'
    <3>1. CASE WalkBegins
      BY <1>2, <3>1 DEF WalkBegins, BeginWalk, remote
    <3>2. CASE TailBegins
      BY <1>1, <1>2, <3>2 DEF TailBegins, StartTail, remote, Old
    <3>3. CASE TailGrows
      BY <1>1, <3>3 DEF TailGrows, remote, Old
    <3>4. CASE WalkPage
      BY <1>1, <3>4 DEF WalkPage, remote, Old
    <3>5. QED
      BY <1>5, <3>1, <3>2, <3>3, <3>4
  <2>3. QED
    BY <1>1, <1>5, <2>1, <2>2, Fetched DEF Old
<1>6. ASSUME NEW c \in Kinds, NEW others \in BOOLEAN, Gives(c, others)
      PROVE  Old'
  <2>1. /\ base' = {} /\ seen' = {} /\ begun' = {} /\ since' = 0
        /\ UNCHANGED <<born, live, dead, applied>>
    BY <1>6 DEF Gives, Hand, remote, archive
  <2>2. \A k \in 1 .. Len(queue') :
          /\ queue'[k].seen \cup queue'[k].begun \subseteq 1 .. born'
          /\ queue'[k].since <= born'
    BY <1>1, <1>2, <1>6, <2>1, GivesQueue DEF Old
  <2>3. 0 <= born'
    BY <1>2, <2>1
  <2>4. QED
    BY <1>1, <2>1, <2>2, <2>3 DEF Old
<1>7. CASE Apply
  <2>1. UNCHANGED <<born, base, seen, begun, since>>
    BY <1>7 DEF Apply, remote, worker
  <2>2. /\ queue[1].seen \cup queue[1].begun \subseteq 1 .. born
        /\ live' \cup dead' \subseteq 1 .. born
    BY <1>1, <1>7, Applied DEF Old
  <2>3. applied'.begun = queue[1].begun
    BY <1>1, <1>7, Applied DEF Apply
  <2>4. \A k \in 1 .. Len(queue') :
          /\ queue'[k].seen \cup queue'[k].begun \subseteq 1 .. born'
          /\ queue'[k].since <= born'
    BY <1>1, <1>7, <2>1, Applied DEF Old
  <2>5. QED
    BY <1>1, <2>1, <2>2, <2>3, <2>4 DEF Old
<1>8. CASE Drain
  BY <1>1, <1>8 DEF Drain, Old, remote, worker
<1>9. CASE Killed
  BY <1>1, <1>2, <1>9 DEF Killed, Old, remote, archive
<1>10. QED
  BY <1>1, <1>3, <1>4, <1>5, <1>6, <1>7, <1>8, <1>9, StepForms

LEMMA WalkingStep ==
  ASSUME Safe, Next
  PROVE  Walking'
<1>1. TypeOK /\ Old /\ Handed /\ Walking
  BY DEF Safe
<1>2. CASE Create
  <2>1. born' = born + 1 /\ alive' = alive \cup {born + 1} /\ born \in Nat
    BY <1>1, <1>2, Numbers DEF Create
  <2>2. /\ born + 1 \notin live \cup begun
        /\ \A y \in seen : y \in Nat /\ ~(born + 1 <= y)
        /\ \A k \in 1 .. Len(queue) : born + 1 \notin queue[k].seen
    BY <1>1, <2>1, Numbers
  <2>3. QED
    BY <1>1, <1>2, <2>1, <2>2 DEF Create, Walking, archive, worker
<1>3. CASE \E i \in Ids : Delete(i)
  BY <1>1, <1>3 DEF Delete, Walking, archive, worker
<1>4. CASE WalkBegins
  <2>1. /\ seen' = Oldest(alive, PageSize) /\ begun' = alive
        /\ more' = (Oldest(alive, PageSize) # alive)
        /\ UNCHANGED <<alive, live, queue>>
    BY <1>4 DEF WalkBegins, BeginWalk, remote, archive
  <2>2. \A x \in alive, y \in Oldest(alive, PageSize) : x <= y => x \in Oldest(alive, PageSize)
    BY <1>1, Finite, OldestPage
  <2>3. QED
    BY <2>1, <2>2 DEF Walking
<1>5. CASE WalkPage
  <2> DEFINE newer == After(alive, seen)
             page == Oldest(newer, PageSize)
  <2>1. /\ mode = "walk" /\ seen' = seen \cup page /\ more' = (page # newer)
        /\ UNCHANGED <<alive, live, begun, queue>>
    BY <1>5 DEF WalkPage, remote, archive
  <2>2. /\ page \subseteq newer /\ newer \subseteq alive
        /\ \A x \in newer, y \in page : x <= y => x \in page
    BY <1>1, Finite, OldestPage DEF After
  <2>3. \A x \in alive : x \notin newer => \E z \in seen : ~(x > z)
    BY DEF After
  <2>4. \A x \in alive \cup seen : x \in Nat
    BY <1>1, Numbers
  <2> HIDE DEF newer, page
  <2>5. \A x \in alive, z \in seen : x <= z => x \in seen
    BY <1>1, <2>1 DEF Walking
  <2>6. \A x \in alive : x \in seen \/ x \in newer
    BY <2>3, <2>4, <2>5
  <2>7. ASSUME NEW x \in alive, NEW y \in seen', x <= y PROVE x \in seen'
    BY <2>1, <2>2, <2>5, <2>6, <2>7
  <2>8. ~more' => alive \subseteq seen'
    BY <2>1, <2>6
  <2>9. QED
    BY <2>1, <2>7, <2>8 DEF Walking
<1>6. CASE TailBegins \/ TailGrows
  BY <1>6 DEF TailBegins, StartTail, TailGrows, Hunting, Walking
<1>7. ASSUME NEW c \in Kinds, NEW others \in BOOLEAN, Gives(c, others)
      PROVE  Walking'
  BY <1>7 DEF Gives, Hand, Walking
<1>8. CASE Apply
  <2>1. UNCHANGED <<mode, alive, seen, more, begun>>
    BY <1>8 DEF Apply, remote, worker
  <2>2. live' \subseteq live \cup queue[1].seen
    BY <1>1, <1>8, Applied
  <2>3. ASSUME mode = "walk", ~more
        PROVE  /\ (live' \cup begun) \cap alive \subseteq seen
               /\ \A k \in 1 .. Len(queue') : queue'[k].seen \cap alive \subseteq seen
    <3>1. /\ (live \cup begun) \cap alive \subseteq seen
          /\ \A k \in 1 .. Len(queue) : queue[k].seen \cap alive \subseteq seen
      BY <1>1, <2>3 DEF Walking
    <3>2. QED
      BY <1>1, <1>8, <2>2, <3>1, Applied
  <2>4. QED
    BY <1>1, <2>1, <2>3 DEF Walking
<1>9. CASE Drain \/ Killed
  BY <1>9 DEF Drain, Killed, Walking, worker
<1>10. QED
  BY <1>1, <1>2, <1>3, <1>4, <1>5, <1>6, <1>7, <1>8, <1>9, StepForms

LEMMA TailingStep ==
  ASSUME Safe, Next
  PROVE  Tailing'
<1>1. TypeOK /\ Old /\ Handed /\ Tailing /\ Segment
  BY DEF Safe
<1>2. CASE Create
  <2>1. born' = born + 1 /\ alive' = alive \cup {born + 1} /\ born \in Nat
    BY <1>1, <1>2, Numbers DEF Create
  <2>2. since \in Nat /\ since <= born /\ ~(born + 1 <= since)
    BY <1>1, <2>1, Numbers DEF Old
  <2>3. born + 1 \notin begun \cup base
    BY <1>1, <2>1, Numbers
  <2>4. QED
    BY <1>1, <1>2, <2>1, <2>2, <2>3 DEF Create, Tailing, archive, worker
<1>3. CASE \E i \in Ids : Delete(i)
  BY <1>1, <1>3 DEF Delete, Tailing, archive, worker
<1>4. CASE WalkBegins \/ WalkPage
  BY <1>4 DEF WalkBegins, BeginWalk, WalkPage, Tailing
<1>5. CASE TailBegins
  <2>1. /\ seen' = Newest(alive, TailK) /\ more' = (Newest(alive, TailK) # alive)
        /\ begun' = alive /\ since' = born /\ base' = live
        /\ UNCHANGED <<alive, live, row, verified>> /\ HasBaseline
    BY <1>5 DEF TailBegins, StartTail, remote, archive
  <2>2. /\ Newest(alive, TailK) \subseteq alive
        /\ \A x \in alive, y \in Newest(alive, TailK) : y <= x => x \in Newest(alive, TailK)
    BY <1>1, Finite, NewestPage
  <2>3. more' => seen' # {}
    <3>1. born \in Nat /\ alive \in SUBSET (0 .. born) /\ TailK \in Nat \ {0}
      BY <1>1, Numbers, PrArchiveAssumption DEF TypeOK
    <3>2. alive # {} => Newest(alive, TailK) # {}
      BY <3>1, NewestIsSome
    <3>3. QED
      BY <2>1, <2>2, <3>2
  <2>4. \A r \in alive \ live, a \in live : a < r
    BY <1>1, <2>1 DEF Segment
  <2>5. seen' \subseteq 1 .. since'
    BY <2>1, <2>2 DEF TypeOK, Safe
  <2>6. row = "live" /\ verified
    BY <2>1 DEF HasBaseline
  <2>7. QED
    BY <2>1, <2>2, <2>3, <2>4, <2>5, <2>6 DEF Tailing
<1>6. CASE TailGrows
  <2> DEFINE older == Before(alive, seen)
             page == Newest(older, TailK)
  <2>1. /\ mode = "tail" /\ more /\ seen' = seen \cup page /\ more' = (page # older)
        /\ UNCHANGED <<mode, alive, live, row, verified, base, begun, since>>
    BY <1>6 DEF TailGrows, Hunting, remote, archive
  <2>2. /\ page \subseteq older /\ older \subseteq alive
        /\ \A x \in older, y \in page : y <= x => x \in page
    BY <1>1, Finite, NewestPage DEF Before
  <2>3. \A x \in alive : x \notin older => \E z \in seen : ~(x < z)
    BY DEF Before
  <2>4. \A x \in older, z \in seen : x < z
    BY DEF Before
  <2>5. /\ since \in Nat /\ \A x \in alive \cup seen : x \in Nat /\ 1 <= x
        /\ seen \subseteq 1 .. since
    BY <1>1, <2>1, Numbers DEF Tailing
  <2> HIDE DEF older, page
  <2>6. /\ seen # {}
        /\ \A x \in begun \cap alive, z \in seen : z <= x => x \in seen
    BY <1>1, <2>1 DEF Tailing
  <2>7. \A x \in begun \cap alive : x \in seen \/ x \in older
    BY <2>3, <2>5, <2>6
  <2>8. ASSUME NEW x \in begun \cap alive, NEW y \in seen', y <= x PROVE x \in seen'
    BY <2>1, <2>2, <2>6, <2>7, <2>8
  <2>9. ~more' => begun \cap alive \subseteq seen'
    BY <2>1, <2>7
  <2>10. seen' \subseteq 1 .. since
    <3>1. PICK z \in seen : TRUE
      BY <2>6
    <3>2. z \in Nat /\ z <= since
      BY <2>5, <3>1
    <3>3. ASSUME NEW x \in page PROVE x \in 1 .. since
      <4>1. x \in Nat /\ 1 <= x /\ x < z
        BY <2>2, <2>4, <2>5, <3>1
      <4>2. QED
        BY <2>5, <3>2, <4>1
    <3>4. QED
      BY <2>1, <2>5, <3>3
  <2>11. QED
    BY <1>1, <2>1, <2>6, <2>8, <2>9, <2>10 DEF Tailing
<1>7. ASSUME NEW c \in Kinds, NEW others \in BOOLEAN, Gives(c, others)
      PROVE  Tailing'
  BY <1>7 DEF Gives, Hand, Tailing
<1>8. CASE Apply
  <2>1. UNCHANGED <<mode, alive, seen, more, begun, since, base>>
    BY <1>8 DEF Apply, remote, worker
  <2>2. live \cap alive \subseteq live' /\ row' = "live" /\ (verified => verified')
    BY <1>1, <1>8, Applied
  <2>3. QED
    BY <1>1, <2>1, <2>2 DEF Tailing
<1>9. CASE Drain \/ Killed
  BY <1>9 DEF Drain, Killed, Tailing, worker
<1>10. QED
  BY <1>1, <1>2, <1>3, <1>4, <1>5, <1>6, <1>7, <1>8, <1>9, StepForms

\* A hit licenses what the tail did not fetch: it is archived.
LEMMA HitHolds ==
  ASSUME TypeOK, Old, Tailing, mode = "tail", ~Hunting,
         TailHit(base, total, seen, ~more)
  PROVE  begun \cap alive \subseteq seen \cup base
<1> SUFFICES ASSUME NEW r \in begun \cap alive, r \notin seen
               PROVE  r \in base
  OBVIOUS
<1>1. more
  BY DEF Tailing
<1>2. PICK a \in seen : a \in base
  BY <1>1 DEF Hunting, Anchored
<1>3. r \in Nat /\ a \in Nat
  BY Numbers
<1>4. ~(a <= r)
  BY DEF Tailing
<1>5. r \notin base => a < r
  BY <1>2 DEF Tailing
<1>6. QED
  BY <1>3, <1>4, <1>5

LEMMA HandedStep ==
  ASSUME Safe, Next
  PROVE  Handed'
<1>1. TypeOK /\ Old /\ Handed /\ Walking /\ Tailing
  BY DEF Safe
<1>2. CASE Create
  <2>1. /\ born' = born + 1 /\ alive' = alive \cup {born + 1} /\ born \in Nat
        /\ UNCHANGED <<live, row, verified, queue>>
    BY <1>1, <1>2, Numbers DEF Create, archive
  <2>2. /\ born + 1 \notin live
        /\ \A k \in 1 .. Len(queue) :
             /\ born + 1 \notin queue[k].seen \cup queue[k].begun
             /\ \A y \in queue[k].seen : ~(born + 1 <= y)
             /\ ~(born + 1 <= queue[k].since)
    BY <1>1, <2>1, Numbers
  <2>3. ASSUME NEW k \in 1 .. Len(queue) PROVE CompleteOK(k)'
    <3>1. \A j \in 1 .. (k - 1) : j \in 1 .. Len(queue)
      BY <1>1, Numbers
    <3>2. QED
      BY <1>1, <2>1, <2>2, <3>1 DEF Handed, CompleteOK
  <2>4. ASSUME NEW k \in 1 .. Len(queue) PROVE TailHitOK(queue[k])'
    BY <1>1, <2>1, <2>2 DEF Handed, TailHitOK
  <2>5. QED
    BY <2>1, <2>3, <2>4 DEF Handed
<1>3. CASE \E i \in Ids : Delete(i)
  <2>1. alive' \subseteq alive /\ UNCHANGED <<live, row, verified, queue>>
    BY <1>3 DEF Delete, archive
  <2>2. QED
    BY <1>1, <2>1 DEF Handed, CompleteOK, TailHitOK
<1>4. CASE WalkBegins \/ TailBegins \/ TailGrows \/ WalkPage
  BY <1>1, <1>4, Fetched DEF Handed, CompleteOK, TailHitOK
<1>5. ASSUME NEW c \in Kinds, NEW others \in BOOLEAN, Gives(c, others)
      PROVE  Handed'
  <2> PICK n \in Nat : n = Len(queue)
    BY <1>1, Numbers
  <2>1. /\ UNCHANGED <<alive, live, row, verified>>
        /\ c = "Complete" => mode = "walk" /\ ~more
        /\ c = "TailHit" => mode = "tail" /\ ~Hunting /\ TailHit(base, total, seen, ~more)
    BY <1>5 DEF Gives, remote, archive
  <2>2. /\ n \in Nat /\ Len(queue') = n + 1 /\ \A k \in 1 .. n : queue'[k] = queue[k]
        /\ queue'[n + 1].comments = c /\ queue'[n + 1].seen = seen
        /\ queue'[n + 1].begun = begun /\ queue'[n + 1].since = since
    BY <1>1, <1>5, GivesQueue, Numbers
  <2>3. ASSUME NEW k \in 1 .. n PROVE CompleteOK(k)' /\ TailHitOK(queue[k])'
    <3>1. CompleteOK(k) /\ TailHitOK(queue[k])
      BY <1>1 DEF Handed
    <3>2. queue'[k] = queue[k] /\ \A j \in 1 .. (k - 1) : queue'[j] = queue[j]
      BY <2>2
    <3>3. QED
      BY <2>1, <3>1, <3>2 DEF CompleteOK, TailHitOK
  <2>4. CompleteOK(n + 1)'
    <3>1. \A j \in 1 .. ((n + 1) - 1) : j \in 1 .. n
      BY <2>2
    <3>2. mode = "walk" /\ ~more =>
            /\ (live \cup begun) \cap alive \subseteq seen
            /\ \A x \in alive, y \in seen : x <= y => x \in seen
            /\ \A j \in 1 .. n : queue[j].seen \cap alive \subseteq seen
      BY <1>1 DEF Walking
    <3>3. QED
      BY <2>1, <2>2, <3>1, <3>2 DEF CompleteOK
  <2>5. TailHitOK(queue[n + 1])'
    <3>1. c = "TailHit" => /\ row = "live" /\ verified
                           /\ begun \cap alive \subseteq seen \cup live
                           /\ seen \subseteq 1 .. since
                           /\ \A r \in alive : r <= since => r \in begun
      BY <1>1, <2>1, HitHolds DEF Tailing
    <3>2. QED
      BY <2>1, <2>2, <3>1 DEF TailHitOK
  <2>6. ASSUME NEW k \in 1 .. (n + 1) PROVE k \in 1 .. n \/ k = n + 1
    BY <2>2
  <2>7. QED
    BY <2>2, <2>3, <2>4, <2>5, <2>6 DEF Handed
<1>6. CASE Apply
  <2>1. /\ UNCHANGED alive /\ live' \subseteq live \cup queue[1].seen
        /\ live \cap alive \subseteq live' /\ row' = "live" /\ (verified => verified')
        /\ Len(queue) \in Nat /\ Len(queue') = Len(queue) - 1
        /\ \A k \in 1 .. Len(queue') : k + 1 \in 1 .. Len(queue) /\ queue'[k] = queue[k + 1]
    BY <1>1, <1>6, Applied
  <2>2. ASSUME NEW k \in 1 .. Len(queue') PROVE CompleteOK(k)'
    <3>1. CompleteOK(k + 1) /\ queue'[k] = queue[k + 1]
      BY <1>1, <2>1 DEF Handed
    <3>2. 1 \in 1 .. ((k + 1) - 1)
      BY <2>1
    <3>3. \A j \in 1 .. (k - 1) : j + 1 \in 1 .. ((k + 1) - 1) /\ queue'[j] = queue[j + 1]
      BY <2>1
    <3>4. QED
      BY <2>1, <3>1, <3>2, <3>3 DEF CompleteOK
  <2>3. ASSUME NEW k \in 1 .. Len(queue') PROVE TailHitOK(queue[k])'
    <3>1. TailHitOK(queue[k + 1]) /\ queue'[k] = queue[k + 1]
      BY <1>1, <2>1 DEF Handed
    <3>2. QED
      BY <2>1, <3>1 DEF TailHitOK
  <2>4. QED
    BY <2>2, <2>3 DEF Handed
<1>7. CASE Drain \/ Killed
  <2>1. queue' = <<>>
    BY <1>7 DEF Drain, Killed
  <2>2. QED
    BY <2>1 DEF Handed
<1>8. QED
  BY <1>1, <1>2, <1>3, <1>4, <1>5, <1>6, <1>7, StepForms

LEMMA SegmentStep ==
  ASSUME Safe, Next
  PROVE  Segment'
<1>1. TypeOK /\ Old /\ Handed /\ Segment
  BY DEF Safe
<1>2. CASE Create
  <2>1. /\ alive' = alive \cup {born + 1} /\ born \in Nat
        /\ UNCHANGED <<live, row, verified, truncated>>
    BY <1>1, <1>2, Numbers DEF Create, archive
  <2>2. \A a \in live : a < born + 1
    BY <1>1, <2>1, Numbers
  <2>3. QED
    BY <1>1, <2>1, <2>2 DEF Segment, HasBaseline
<1>3. CASE \E i \in Ids : Delete(i)
  BY <1>1, <1>3 DEF Delete, Segment, HasBaseline, archive
<1>4. CASE WalkBegins \/ TailBegins \/ TailGrows \/ WalkPage
  BY <1>1, <1>4, Fetched DEF Segment, HasBaseline
<1>5. ASSUME NEW c \in Kinds, NEW others \in BOOLEAN, Gives(c, others)
      PROVE  Segment'
  BY <1>1, <1>5 DEF Gives, Segment, HasBaseline, remote, archive
<1>6. CASE Apply
  <2> DEFINE b == queue[1]
  <2>1. /\ UNCHANGED alive /\ live' = (live \ Swept(b)) \cup b.seen
        /\ CompleteOK(1) /\ TailHitOK(b)
    BY <1>1, <1>6, Applied DEF Handed
  <2>2. truncated' = LandedTruncated(b) /\ verified' = (verified \/ Verified(b))
    BY <1>1, <1>6, Applied DEF Apply
  <2>3. \A x \in alive \cup live \cup b.seen : x \in Nat
    BY <1>1, <1>6, Applied, Numbers
  <2>4. b.since \in Nat
    BY <1>1, <1>6, Applied, Numbers
  <2> SUFFICES ASSUME HasBaseline', NEW r \in alive \ live', NEW a \in live'
               PROVE  a < r
    BY <2>1 DEF Segment
  <2>5. ~LandedTruncated(b)
    BY <2>2 DEF HasBaseline
  <2>6. CASE b.comments = "Complete"
    <3>1. live' = (live \cap b.seen) \cup b.seen
      BY <2>1, <2>6 DEF Swept
    <3>2. a \in b.seen /\ r \notin b.seen
      BY <3>1
    <3>3. ~(r <= a)
      BY <2>1, <2>6, <3>2 DEF CompleteOK
    <3>4. QED
      BY <2>3, <3>2, <3>3
  <2>7. CASE b.comments # "Complete"
    <3>1. b.comments = "TailHit" /\ ~truncated
      BY <2>5, <2>7 DEF LandedTruncated, Verified
    <3>2. row = "live" /\ verified
      BY <2>1, <3>1 DEF TailHitOK
    <3>3. live' = live \cup b.seen
      BY <2>1, <2>7 DEF Swept
    <3>4. CASE a \in live
      BY <1>1, <3>1, <3>2, <3>3, <3>4 DEF Segment, HasBaseline
    <3>5. CASE a \in b.seen
      <4>1. r \notin b.begun
        BY <2>1, <3>1, <3>3 DEF TailHitOK
      <4>2. ~(r <= b.since)
        BY <2>1, <3>1, <4>1 DEF TailHitOK
      <4>3. a \in 1 .. b.since
        BY <2>1, <3>1, <3>5 DEF TailHitOK
      <4>4. QED
        BY <2>3, <2>4, <4>2, <4>3
    <3>6. QED
      BY <3>3, <3>4, <3>5
  <2>8. QED
    BY <2>6, <2>7
<1>7. CASE Drain
  BY <1>7 DEF Drain, Segment, HasBaseline
<1>8. CASE Killed
  BY <1>1, <1>8 DEF Killed, Segment, HasBaseline, remote, archive
<1>9. QED
  BY <1>1, <1>2, <1>3, <1>4, <1>5, <1>6, <1>7, <1>8, StepForms

LEMMA SweptStep ==
  ASSUME Safe, Next
  PROVE  SweptIsGone'
<1>1. TypeOK /\ Old /\ Handed /\ SweptIsGone
  BY DEF Safe
<1>2. CASE Create
  <2>1. alive' = alive \cup {born + 1} /\ dead' = dead /\ born \in Nat
    BY <1>1, <1>2, Numbers DEF Create, archive
  <2>2. born + 1 \notin dead
    BY <1>1, <2>1, Numbers
  <2>3. QED
    BY <1>1, <2>1, <2>2 DEF SweptIsGone
<1>3. CASE \E i \in Ids : Delete(i)
  BY <1>1, <1>3 DEF Delete, SweptIsGone, archive
<1>4. CASE WalkBegins \/ TailBegins \/ TailGrows \/ WalkPage
  BY <1>1, <1>4, Fetched DEF SweptIsGone
<1>5. ASSUME NEW c \in Kinds, NEW others \in BOOLEAN, Gives(c, others)
      PROVE  SweptIsGone'
  BY <1>1, <1>5 DEF Gives, SweptIsGone, remote, archive
<1>6. CASE Apply
  BY <1>1, <1>6, Applied DEF SweptIsGone
<1>7. CASE Drain \/ Killed
  BY <1>1, <1>7 DEF Drain, Killed, SweptIsGone, remote, archive
<1>8. QED
  BY <1>1, <1>2, <1>3, <1>4, <1>5, <1>6, <1>7, StepForms

LEMMA MissedStep ==
  ASSUME Safe, Next
  PROVE  NothingMissed'
<1>1. TypeOK /\ Old /\ Handed /\ NothingMissed
  BY DEF Safe
<1>2. CASE Create
  <2>1. /\ alive' = alive \cup {born + 1} /\ born \in Nat
        /\ UNCHANGED <<live, row, truncated, applied>>
    BY <1>1, <1>2, Numbers DEF Create, archive
  <2>2. born + 1 \notin applied.begun
    BY <1>1, <2>1, Numbers
  <2>3. QED
    BY <1>1, <2>1, <2>2 DEF NothingMissed, Whole
<1>3. CASE \E i \in Ids : Delete(i)
  BY <1>1, <1>3 DEF Delete, NothingMissed, Whole, archive
<1>4. CASE WalkBegins \/ TailBegins \/ TailGrows \/ WalkPage
  BY <1>1, <1>4, Fetched DEF NothingMissed, Whole
<1>5. ASSUME NEW c \in Kinds, NEW others \in BOOLEAN, Gives(c, others)
      PROVE  NothingMissed'
  BY <1>1, <1>5 DEF Gives, NothingMissed, Whole, remote, archive
<1>6. CASE Apply
  <2> DEFINE b == queue[1]
  <2>1. /\ UNCHANGED alive /\ live' = (live \ Swept(b)) \cup b.seen
        /\ live \cap alive \subseteq live'
        /\ CompleteOK(1) /\ TailHitOK(b)
    BY <1>1, <1>6, Applied DEF Handed
  <2>2. truncated' = LandedTruncated(b) /\ applied'.begun = b.begun
    BY <1>1, <1>6, Applied DEF Apply
  <2>3. ~LandedTruncated(b) => b.comments \in {"Complete", "TailHit"}
    BY DEF LandedTruncated, Verified
  <2>4. b.comments \in {"Complete", "TailHit"} => b.begun \cap alive \subseteq live'
    BY <2>1 DEF CompleteOK, TailHitOK
  <2>5. QED
    BY <2>1, <2>2, <2>3, <2>4 DEF NothingMissed, Whole
<1>7. CASE Drain
  BY <1>7 DEF Drain, NothingMissed, Whole
<1>8. CASE Killed
  BY <1>1, <1>8 DEF Killed, NothingMissed, Whole, remote, archive
<1>9. QED
  BY <1>1, <1>2, <1>3, <1>4, <1>5, <1>6, <1>7, <1>8, StepForms

\* The inductive invariant holds of every behaviour.
LEMMA Safety == Spec => []Safe
<1>1. Init => Safe
  <2> SUFFICES ASSUME Init PROVE Safe
    OBVIOUS
  <2>1. TypeOK /\ Room
    BY TypeInit
  <2>2. /\ live = {} /\ dead = {} /\ base = {} /\ seen = {} /\ begun = {} /\ since = 0
        /\ applied.begun = {} /\ Len(queue) = 0 /\ mode = "idle" /\ row = "none"
    BY DEF Init
  <2>3. born \in Nat
    BY <2>1, Finite
  <2>4. Old /\ Handed
    BY <2>2, <2>3 DEF Old, Handed
  <2>5. Walking /\ Tailing /\ Segment /\ SweptIsGone /\ NothingMissed
    BY <2>2 DEF Walking, Tailing, Segment, SweptIsGone, NothingMissed, HasBaseline, Whole
  <2>6. QED
    BY <2>1, <2>4, <2>5 DEF Safe
<1>2. Safe /\ [Next]_vars => Safe'
  <2> SUFFICES ASSUME Safe, [Next]_vars PROVE Safe'
    OBVIOUS
  <2>1. TypeOK' /\ Room'
    BY TypeStep DEF Safe
  <2>2. CASE Next
    BY <2>1, <2>2, OldStep, WalkingStep, TailingStep, HandedStep, SegmentStep, SweptStep,
       MissedStep DEF Safe
  <2>3. CASE UNCHANGED vars
    <3>1. Safe
      OBVIOUS
    <3>2. QED
      BY <2>1, <2>3, <3>1
         DEF Safe, Old, Walking, Tailing, Handed, CompleteOK, TailHitOK, Segment, HasBaseline,
             SweptIsGone, NothingMissed, Whole, vars, remote, archive, worker
  <2>4. QED
    BY <2>2, <2>3
<1>3. QED
  BY <1>1, <1>2, PTL DEF Spec

\* Whatever is lost, aborted or killed, and however the comments change between
\* two pages, the sweep marks deleted only what is gone.
THEOREM DeletionIsReal == Spec => []SweptIsGone
<1>1. Safe => SweptIsGone
  BY DEF Safe
<1>2. QED
  BY <1>1, Safety, PTL

\* An untruncated row misses no comment that its last hydration could have
\* seen, also when that hydration counted instead of fetching.
THEOREM NothingIsMissed == Spec => []NothingMissed
<1>1. Safe => NothingMissed
  BY DEF Safe
<1>2. QED
  BY <1>1, Safety, PTL

-----------------------------------------------------------------------------
(* The refinement: every step is one of the abstract archive's, or none.   *)

\* A bundle lands as the abstract archive allows.
LEMMA ApplyLands ==
  ASSUME Safe, Safe', Apply
  PROVE  Mirror!Landed
<1>1. TypeOK /\ TypeOK' /\ Old' /\ Handed /\ SweptIsGone /\ NothingMissed'
  BY DEF Safe
<1> DEFINE b == queue[1]
<1>2. /\ live' = (live \ Swept(b)) \cup b.seen
      /\ dead' = (dead \cup Swept(b)) \ b.seen
      /\ Swept(b) \cap alive = {} /\ Swept(b) \subseteq live
      /\ UNCHANGED <<born, alive>>
  BY <1>1, Applied
<1>3. live' \cap dead' = {} /\ live \cup dead \subseteq live' \cup dead'
  BY <1>1, <1>2 DEF TypeOK
<1>4. dead' \ dead \subseteq live \ alive
  BY <1>2
<1>5. live' \subseteq 1 .. born /\ (applied.begun)' \subseteq 1 .. born
  BY <1>1, <1>2 DEF Old
<1>6. Whole' => (applied.begun)' \cap alive \subseteq live'
  BY <1>1, <1>2 DEF NothingMissed
<1>7. QED
  BY <1>2, <1>3, <1>4, <1>5, <1>6 DEF Mirror!Landed

\* A step that leaves the comments as they are, and claims no more than before.
LEMMA QuietLands ==
  ASSUME Safe, Safe', UNCHANGED <<born, alive, live, dead, applied>>
  PROVE  Mirror!Landed
<1>1. TypeOK /\ Old /\ NothingMissed'
  BY DEF Safe
<1>2. live \cap dead = {} /\ live \subseteq 1 .. born /\ applied.begun \subseteq 1 .. born
  BY <1>1 DEF TypeOK, Old
<1>3. Whole' => (applied.begun)' \cap alive \subseteq live'
  BY <1>1 DEF NothingMissed
<1>4. QED
  BY <1>2, <1>3 DEF Mirror!Landed

LEMMA StepRefines ==
  ASSUME Safe, Safe', [Next]_vars
  PROVE  [Mirror!MirrorNext]_Mirror!mirrorVars
<1>1. TypeOK /\ Old
  BY DEF Safe
<1>2. CASE Create
  <2>1. /\ born' = born + 1 /\ alive' = alive \cup {born + 1} /\ born < MaxId
        /\ UNCHANGED <<row, truncated, live, dead, applied>>
    BY <1>2 DEF Create, archive
  <2>2. born \in Nat /\ MaxId \in Nat
    BY <1>1, Numbers, PrArchiveAssumption
  <2>3. born + 1 \in Ids \ (1 .. born) /\ (1 .. born') = (1 .. born) \cup {born + 1}
    BY <2>1, <2>2 DEF Ids
  <2>4. Mirror!Posted(born + 1)
    BY <2>1, <2>3 DEF Mirror!Posted, Whole
  <2>5. QED
    BY <2>3, <2>4 DEF Mirror!MirrorNext
<1>3. ASSUME NEW i \in Ids, Delete(i)
      PROVE  Mirror!MirrorNext
  <2>1. Mirror!Deleted(i)
    BY <1>3 DEF Delete, Mirror!Deleted, Whole, archive
  <2>2. QED
    BY <2>1 DEF Mirror!MirrorNext
<1>4. CASE WalkBegins \/ TailBegins \/ TailGrows \/ WalkPage
  BY <1>1, <1>4, Fetched, QuietLands DEF Mirror!MirrorNext
<1>5. ASSUME NEW c \in Kinds, NEW others \in BOOLEAN, Gives(c, others)
      PROVE  Mirror!MirrorNext
  BY <1>5, QuietLands DEF Gives, remote, archive, Mirror!MirrorNext
<1>6. CASE Apply
  BY <1>6, ApplyLands DEF Mirror!MirrorNext
<1>7. CASE Drain \/ Killed
  BY <1>7, QuietLands DEF Drain, Killed, remote, archive, Mirror!MirrorNext
<1>8. CASE UNCHANGED vars
  BY <1>8 DEF vars, remote, archive, Mirror!mirrorVars, Whole
<1>9. QED
  BY <1>1, <1>2, <1>3, <1>4, <1>5, <1>6, <1>7, <1>8, StepForms

\* The pull request's hydrations, with their pages, tails, verdicts, lag,
\* faults and kills, implement the archive of comments.
THEOREM ImplementsCommentArchive == Spec => KeepsTheArchive
<1>1. Init => Mirror!MirrorInit
  <2> SUFFICES ASSUME Init PROVE Mirror!MirrorInit
    OBVIOUS
  <2>2. TypeOK
    BY TypeInit
  <2>3. 1 .. born \subseteq Ids
    BY <2>2, PrArchiveAssumption DEF TypeOK, Ids
  <2>4. QED
    BY <2>3 DEF Init, Mirror!MirrorInit, Whole
<1>2. Safe /\ Safe' /\ [Next]_vars => [Mirror!MirrorNext]_Mirror!mirrorVars
  BY StepRefines
<1>3. QED
  BY <1>1, <1>2, Safety, PTL DEF Spec, KeepsTheArchive, Mirror!MirrorSpec

-----------------------------------------------------------------------------
(* One bundle in flight: the refresh counts against the archive it lands on. *)

\* With one bundle in flight nothing is written while a hydration runs.
Quiet ==
  /\ mode # "idle" /\ calm => alive = begun
  /\ mode = "walk" /\ calm => seen \subseteq begun
  /\ mode = "tail" => /\ base = live /\ total = Cardinality(begun)
                      /\ calm => seen \subseteq begun
  /\ \A k \in 1 .. Len(queue) :
       LET b == queue[k]
       IN b.calm => /\ b.comments = "Complete" => b.seen = b.begun
                    /\ b.comments = "TailHit" => live \cup b.seen = b.begun
  /\ QuietIsExact

\* A hit that nothing interfered with accounts for every comment.
LEMMA HitIsExact ==
  ASSUME Safe, Quiet, mode = "tail", calm, ~Hunting,
         TailHit(base, total, seen, ~more)
  PROVE  live \cup seen = begun
<1>1. /\ alive = begun /\ base = live /\ total = Cardinality(begun)
      /\ seen \subseteq begun
  BY DEF Quiet
<1>2. begun \subseteq seen \cup base
  BY <1>1, HitHolds DEF Safe
<1>3. IsFiniteSet(begun) /\ IsFiniteSet(base)
  <2>1. IsFiniteSet(begun)
    BY <1>1, Finite DEF Safe
  <2>2. base \in SUBSET (1 .. MaxId)
    BY DEF Safe, TypeOK, Ids
  <2>3. IsFiniteSet(1 .. MaxId)
    BY PrArchiveAssumption, FS_Interval
  <2>4. QED
    BY <2>1, <2>2, <2>3, FS_Subset
<1>4. Cardinality(base) + Cardinality(seen \ base) = Cardinality(begun)
  BY <1>1 DEF TailHit
<1>5. base \subseteq begun
  <2>1. begun \ base \subseteq seen
    BY <1>2
  <2>2. QED
    BY <1>1, <1>3, <1>4, <2>1, BalanceIsExact
<1>6. QED
  BY <1>1, <1>2, <1>5

LEMMA QuietStep ==
  ASSUME Depth = 0, Safe, Quiet, Next
  PROVE  Quiet'
<1>1. TypeOK /\ Room /\ Old /\ Handed /\ Walking
  BY DEF Safe
<1>2. CASE Create \/ \E i \in Ids : Delete(i)
  <2>1. /\ calm' = FALSE
        /\ UNCHANGED <<row, truncated, live, queue, mode, base, total, begun, applied>>
    BY <1>2 DEF Create, Delete, archive, worker
  <2>2. QED
    BY <2>1 DEF Quiet, QuietIsExact, Whole
<1>3. CASE WalkBegins \/ TailBegins \/ TailGrows \/ WalkPage
  <2>1. /\ seen' \subseteq seen \cup alive
        /\ UNCHANGED <<alive, row, truncated, live, queue, applied>>
    BY <1>1, <1>3, Fetched
  <2>2. /\ mode' # "idle" /\ calm' => alive' = begun' /\ seen' \subseteq begun'
        /\ mode' = "tail" => base' = live' /\ total' = Cardinality(begun')
    <3>1. CASE WalkBegins
      <4>1. Oldest(alive, PageSize) \subseteq alive
        BY DEF Oldest
      <4>2. QED
        BY <2>1, <3>1, <4>1 DEF WalkBegins, BeginWalk
    <3>2. CASE TailBegins
      <4>1. Newest(alive, TailK) \subseteq alive
        BY DEF Newest
      <4>2. QED
        BY <2>1, <3>2, <4>1 DEF TailBegins, StartTail
    <3>3. CASE TailGrows
      <4>1. mode = "tail" /\ UNCHANGED <<mode, base, total, begun, calm>>
        BY <3>3 DEF TailGrows, Hunting
      <4>2. QED
        BY <2>1, <4>1 DEF Quiet
    <3>4. CASE WalkPage
      <4>1. mode = "walk" /\ UNCHANGED <<mode, begun, calm>>
        BY <3>4 DEF WalkPage
      <4>2. QED
        BY <2>1, <4>1 DEF Quiet
    <3>5. QED
      BY <1>3, <3>1, <3>2, <3>3, <3>4
  <2>3. QED
    BY <2>1, <2>2 DEF Quiet, QuietIsExact, Whole
<1>4. ASSUME NEW c \in Kinds, NEW others \in BOOLEAN, Gives(c, others)
      PROVE  Quiet'
  <2> PICK n \in Nat : n = Len(queue)
    BY <1>1, Numbers
  <2>1. /\ mode' = "idle" /\ UNCHANGED <<row, truncated, live, applied>>
        /\ c = "Complete" => mode = "walk" /\ ~more
        /\ c = "TailHit" => mode = "tail" /\ ~Hunting /\ TailHit(base, total, seen, ~more)
    BY <1>4 DEF Gives, Hand, archive
  <2>2. /\ Len(queue') = n + 1 /\ \A k \in 1 .. n : queue'[k] = queue[k]
        /\ queue'[n + 1].comments = c /\ queue'[n + 1].seen = seen
        /\ queue'[n + 1].begun = begun /\ queue'[n + 1].calm = calm
    BY <1>1, <1>4, GivesQueue
  <2>3. calm /\ c = "Complete" => seen = begun
    BY <1>1, <2>1 DEF Quiet, Walking
  <2>4. calm /\ c = "TailHit" => live \cup seen = begun
    BY <2>1, HitIsExact
  <2>5. ASSUME NEW k \in 1 .. (n + 1)
        PROVE  LET b == queue'[k]
               IN b.calm => /\ b.comments = "Complete" => b.seen = b.begun
                            /\ b.comments = "TailHit" => live' \cup b.seen = b.begun
    <3>1. CASE k = n + 1
      BY <2>1, <2>2, <2>3, <2>4, <3>1
    <3>2. CASE k \in 1 .. n
      BY <2>1, <2>2, <3>2 DEF Quiet
    <3>3. QED
      BY <3>1, <3>2
  <2>6. QED
    BY <2>1, <2>2, <2>5 DEF Quiet, QuietIsExact, Whole
<1>5. CASE Apply
  <2> DEFINE b == queue[1]
  <2>1. /\ Len(queue) \in Nat /\ 1 \in 1 .. Len(queue) /\ Len(queue') = Len(queue) - 1
        /\ live' = (live \ Swept(b)) \cup b.seen
    BY <1>1, <1>5, Applied
  <2>2. /\ truncated' = LandedTruncated(b) /\ applied'.begun = b.begun
        /\ applied'.calm = b.calm /\ mode' = mode
    BY <1>1, <1>5, Applied DEF Apply, worker
  <2>3. Len(queue') = 0 /\ mode = "idle"
    <3>1. Len(queue) <= Depth + 1 /\ (mode # "idle" => Len(queue) <= Depth)
      BY <1>1 DEF TypeOK, Room
    <3>2. QED
      BY <2>1, <3>1
  <2>4. QuietIsExact'
    <3>1. ~LandedTruncated(b) => b.comments \in {"Complete", "TailHit"}
      BY DEF LandedTruncated, Verified
    <3>2. b.calm => /\ b.comments = "Complete" => b.seen = b.begun
                    /\ b.comments = "TailHit" => live \cup b.seen = b.begun
      BY <2>1 DEF Quiet
    <3>3. /\ b.comments = "Complete" => live' = b.seen
          /\ b.comments = "TailHit" => live' = live \cup b.seen
      BY <2>1 DEF Swept
    <3>4. QED
      BY <2>2, <3>1, <3>2, <3>3 DEF QuietIsExact, Whole
  <2>5. QED
    BY <2>2, <2>3, <2>4 DEF Quiet
<1>6. CASE Drain
  BY <1>6 DEF Drain, Quiet, QuietIsExact, Whole, worker
<1>7. CASE Killed
  BY <1>7 DEF Killed, Quiet, QuietIsExact, Whole, archive
<1>8. QED
  BY <1>1, <1>2, <1>3, <1>4, <1>5, <1>6, <1>7, StepForms

\* With no bundle in flight when a hydration starts, a hydration that nothing
\* interfered with leaves exactly what it found, counted or fetched.
THEOREM QuietExact ==
  ASSUME Depth = 0
  PROVE  Spec => []QuietIsExact
<1>1. Init => Quiet
  BY DEF Init, Quiet, QuietIsExact, Whole
<1>2. Safe /\ Quiet /\ [Next]_vars => Quiet'
  <2> SUFFICES ASSUME Safe, Quiet, [Next]_vars PROVE Quiet'
    OBVIOUS
  <2>1. CASE Next
    BY <2>1, QuietStep
  <2>2. CASE UNCHANGED vars
    BY <2>2 DEF Quiet, QuietIsExact, Whole, vars, remote, archive, worker
  <2>3. QED
    BY <2>1, <2>2
<1>3. Quiet => QuietIsExact
  BY DEF Quiet
<1>4. QED
  BY <1>1, <1>2, <1>3, Safety, PTL DEF Spec

-----------------------------------------------------------------------------
(* A replay of what the archive holds already.                             *)

\* For any lag of the writer: what is fetched while nothing moves is some of
\* what there is, and a finished walk is all of it.
Calm ==
  /\ mode # "idle" /\ calm => alive = begun /\ seen \subseteq begun
  /\ \A k \in 1 .. Len(queue) :
       queue[k].calm =>
         /\ queue[k].comments = "Complete" => queue[k].seen = queue[k].begun
         /\ queue[k].comments = "TailHit" => queue[k].seen \subseteq queue[k].begun

LEMMA CalmStep ==
  ASSUME Safe, Calm, Next
  PROVE  Calm'
<1>1. TypeOK /\ Room /\ Old /\ Handed /\ Walking
  BY DEF Safe
<1>2. CASE Create \/ \E i \in Ids : Delete(i)
  <2>1. calm' = FALSE /\ UNCHANGED queue
    BY <1>2 DEF Create, Delete
  <2>2. QED
    BY <2>1 DEF Calm
<1>3. CASE WalkBegins \/ TailBegins \/ TailGrows \/ WalkPage
  <2>1. seen' \subseteq seen \cup alive /\ UNCHANGED <<alive, queue>>
    BY <1>1, <1>3, Fetched
  <2>2. mode' # "idle" /\ calm' => alive' = begun' /\ seen' \subseteq begun'
    <3>1. CASE WalkBegins
      <4>1. Oldest(alive, PageSize) \subseteq alive
        BY DEF Oldest
      <4>2. QED
        BY <2>1, <3>1, <4>1 DEF WalkBegins, BeginWalk
    <3>2. CASE TailBegins
      <4>1. Newest(alive, TailK) \subseteq alive
        BY DEF Newest
      <4>2. QED
        BY <2>1, <3>2, <4>1 DEF TailBegins, StartTail
    <3>3. CASE TailGrows
      <4>1. mode = "tail" /\ UNCHANGED <<mode, begun, calm>>
        BY <3>3 DEF TailGrows, Hunting
      <4>2. QED
        BY <2>1, <4>1 DEF Calm
    <3>4. CASE WalkPage
      <4>1. mode = "walk" /\ UNCHANGED <<mode, begun, calm>>
        BY <3>4 DEF WalkPage
      <4>2. QED
        BY <2>1, <4>1 DEF Calm
    <3>5. QED
      BY <1>3, <3>1, <3>2, <3>3, <3>4
  <2>3. QED
    BY <2>1, <2>2 DEF Calm
<1>4. ASSUME NEW c \in Kinds, NEW others \in BOOLEAN, Gives(c, others)
      PROVE  Calm'
  <2> PICK n \in Nat : n = Len(queue)
    BY <1>1, Numbers
  <2>1. /\ mode' = "idle" /\ mode # "idle"
        /\ c = "Complete" => mode = "walk" /\ ~more
    BY <1>4 DEF Gives, Hand
  <2>2. /\ Len(queue') = n + 1 /\ \A k \in 1 .. n : queue'[k] = queue[k]
        /\ queue'[n + 1].comments = c /\ queue'[n + 1].seen = seen
        /\ queue'[n + 1].begun = begun /\ queue'[n + 1].calm = calm
    BY <1>1, <1>4, GivesQueue
  <2>3. calm => seen \subseteq begun /\ (c = "Complete" => seen = begun)
    BY <1>1, <2>1 DEF Calm, Walking
  <2>4. ASSUME NEW k \in 1 .. (n + 1)
        PROVE  queue'[k].calm =>
                 /\ queue'[k].comments = "Complete" => queue'[k].seen = queue'[k].begun
                 /\ queue'[k].comments = "TailHit" => queue'[k].seen \subseteq queue'[k].begun
    <3>1. CASE k = n + 1
      BY <2>2, <2>3, <3>1
    <3>2. CASE k \in 1 .. n
      BY <2>2, <3>2 DEF Calm
    <3>3. QED
      BY <3>1, <3>2
  <2>5. QED
    BY <2>1, <2>2, <2>4 DEF Calm
<1>5. CASE Apply
  <2>1. \A k \in 1 .. Len(queue') : k + 1 \in 1 .. Len(queue) /\ queue'[k] = queue[k + 1]
    BY <1>1, <1>5, Applied
  <2>2. UNCHANGED <<alive, mode, seen, begun, calm>>
    BY <1>5 DEF Apply, remote, worker
  <2>3. QED
    BY <2>1, <2>2 DEF Calm
<1>6. CASE Drain
  BY <1>6 DEF Drain, Calm, remote, worker
<1>7. CASE Killed
  BY <1>7 DEF Killed, Calm
<1>8. QED
  BY <1>1, <1>2, <1>3, <1>4, <1>5, <1>6, <1>7, StepForms

\* A hydration that nothing interfered with and that found the archive as it
\* is writes nothing, whether it walked or counted and however late it lands
\* (sync.rs: "replaying an unchanged remote writes no row").
THEOREM ReplayIsSilent == Spec => ReplayWritesNothing
<1>1. Init => Calm
  BY DEF Init, Calm
<1>2. Safe /\ Calm /\ [Next]_vars => Calm'
  <2> SUFFICES ASSUME Safe, Calm, [Next]_vars PROVE Calm'
    OBVIOUS
  <2>1. CASE Next
    BY <2>1, CalmStep
  <2>2. CASE UNCHANGED vars
    BY <2>2 DEF Calm, vars, remote, worker
  <2>3. QED
    BY <2>1, <2>2
<1>3. ASSUME Safe, Calm, Apply, Whole, verified, live = Head(queue).begun,
             Head(queue).calm, Head(queue).others, Head(queue).comments # "Incomplete"
      PROVE  UNCHANGED archive
  <2> DEFINE b == queue[1]
  <2>1. TypeOK /\ Handed
    BY <1>3 DEF Safe
  <2>2. /\ Head(queue) = b /\ queue # <<>> /\ 1 \in 1 .. Len(queue)
        /\ live' = (live \ Swept(b)) \cup b.seen
        /\ dead' = (dead \cup Swept(b)) \ b.seen
        /\ row' = "live" /\ (verified => verified')
    BY <1>3, <2>1, Applied
  <2>3. b.comments \in {"Complete", "TailHit"} /\ b.others /\ live = b.begun /\ b.calm
    <3>1. b \in Bundles
      BY <2>1, <2>2 DEF TypeOK
    <3>2. QED
      BY <1>3, <2>2, <3>1 DEF Bundles
  <2>4. /\ b.comments = "Complete" => b.seen = live
        /\ b.comments = "TailHit" => b.seen \subseteq live
    BY <1>3, <2>2, <2>3 DEF Calm
  <2>5. Swept(b) = {} /\ b.seen \subseteq live
    BY <2>3, <2>4 DEF Swept
  <2>6. live' = live /\ dead' = dead
    BY <2>1, <2>2, <2>5 DEF TypeOK
  <2>7. row' = row /\ verified' = verified
    BY <1>3, <2>1, <2>2 DEF Whole, TypeOK, Apply
  <2>8. truncated' = truncated
    <3>1. truncated' = LandedTruncated(b) /\ row = "live" /\ truncated = FALSE
      BY <1>3, <2>1, <2>2 DEF Apply, Whole, TypeOK
    <3>2. QED
      BY <2>3, <3>1 DEF LandedTruncated, Verified
  <2>9. QED
    BY <2>6, <2>7, <2>8 DEF archive
<1>4. Safe /\ Calm =>
        [LET b == Head(queue)
         IN Apply /\ Whole /\ verified /\ live = b.begun
              /\ b.calm /\ b.others /\ b.comments # "Incomplete"
            => UNCHANGED archive]_vars
  BY <1>3
<1>5. QED
  BY <1>1, <1>2, <1>4, Safety, PTL DEF Spec, ReplayWritesNothing
=============================================================================
