---------------------------- MODULE Fetch_proofs ----------------------------
(***************************************************************************)
(* What one fetch brings.  Of a discovery, for any terms, page size, cap and *)
(* updates between two pages: one that calls itself complete missed nothing. *)
(* Of a pull request's review threads, for any threads, page sizes, lag of the *)
(* writer, edits and failures: no sweep deletes what is there, and what was *)
(* fetched while nothing moved is what the archive then holds.             *)
(***************************************************************************)
EXTENDS Discovery, Threads, FiniteSetTheorems, SequenceTheorems,
        WellFoundedInduction, TLAPS

-----------------------------------------------------------------------------
(* The order of a search's results, for any stamps u of any items S.        *)

Before(u, j, i) == u[j] > u[i] \/ (u[j] = u[i] /\ j < i)
Front(u, S, i) == {j \in S : Before(u, j, i)}
Rank(u, S, i) == Cardinality(Front(u, S, i))

Dated(u, S) == S \subseteq Nat /\ IsFiniteSet(S) /\ \A i \in S : u[i] \in Nat

(* A set of naturals has a least member.                                    *)
LEMMA LeastOf ==
  ASSUME NEW S \in SUBSET Nat, S # {}
  PROVE  \E m \in S : \A n \in S : m <= n
<1> DEFINE R == {ss \in Nat \X Nat : ss[1] < ss[2]}
<1>1. IsWellFoundedOn(R, Nat)
  BY NatLessThanWellFounded, Zenon DEF OpToRel
<1> HIDE DEF R
<1>2. PICK m \in S : \A n \in S : <<n, m>> \notin R
  BY <1>1, WFMin
<1>3. ASSUME NEW n \in S PROVE m <= n
  <2>1. n < m => <<n, m>> \in R
    BY DEF R
  <2>2. QED
    BY <1>2, <2>1
<1>4. QED
  BY <1>3

(* A rank is a number.                                                      *)
LEMMA RankIsNat ==
  ASSUME NEW u, NEW S, Dated(u, S), NEW i
  PROVE  /\ IsFiniteSet(Front(u, S, i)) /\ Rank(u, S, i) \in Nat
         /\ Rank(u, S, i) <= Cardinality(S)
<1>1. Front(u, S, i) \subseteq S
  BY DEF Front
<1>2. IsFiniteSet(S)
  BY DEF Dated
<1>3. IsFiniteSet(Front(u, S, i)) /\ Cardinality(Front(u, S, i)) <= Cardinality(S)
  BY <1>1, <1>2, FS_Subset
<1>4. QED
  BY <1>3, FS_CardinalityType DEF Rank

(* What is before an item has a lower rank.                                 *)
LEMMA RankIsStrict ==
  ASSUME NEW u, NEW S, Dated(u, S), NEW i \in S, NEW j \in S, Before(u, j, i)
  PROVE  Rank(u, S, j) < Rank(u, S, i)
<1>1. Front(u, S, j) \cup {j} \subseteq Front(u, S, i)
  <2>1. ASSUME NEW k \in Front(u, S, j) PROVE k \in Front(u, S, i)
    <3>1. k \in S /\ Before(u, k, j)
      BY DEF Front
    <3>2. u[i] \in Nat /\ u[j] \in Nat /\ u[k] \in Nat /\ i \in Nat /\ j \in Nat /\ k \in Nat
      BY <3>1 DEF Dated
    <3>3. Before(u, k, i)
      BY <3>1, <3>2 DEF Before
    <3>4. QED
      BY <3>1, <3>3 DEF Front
  <2>2. j \in Front(u, S, i)
    BY DEF Front
  <2>3. QED
    BY <2>1, <2>2
<1>2. j \notin Front(u, S, j)
  <2>1. u[j] \in Nat /\ j \in Nat
    BY DEF Dated
  <2>2. QED
    BY <2>1 DEF Front, Before
<1>3. IsFiniteSet(Front(u, S, j)) /\ IsFiniteSet(Front(u, S, i))
  BY RankIsNat
<1>4. Cardinality(Front(u, S, j) \cup {j}) = Cardinality(Front(u, S, j)) + 1
  BY <1>2, <1>3, FS_AddElement
<1>5. Cardinality(Front(u, S, j) \cup {j}) <= Cardinality(Front(u, S, i))
  BY <1>1, <1>3, FS_Subset
<1>6. Rank(u, S, j) \in Nat /\ Rank(u, S, i) \in Nat
  BY RankIsNat
<1>7. QED
  BY <1>4, <1>5, <1>6 DEF Rank

(* Two items are never side by side.                                        *)
LEMMA RankIsTotal ==
  ASSUME NEW u, NEW S, Dated(u, S), NEW i \in S, NEW j \in S, i # j
  PROVE  Before(u, i, j) \/ Before(u, j, i)
<1>1. u[i] \in Nat /\ u[j] \in Nat /\ i \in Nat /\ j \in Nat
  BY DEF Dated
<1>2. QED
  BY <1>1 DEF Before

(* No more than n items have a rank below n.                                *)
LEMMA FewInFront ==
  ASSUME NEW u, NEW S, Dated(u, S), NEW n \in Nat
  PROVE  Cardinality({i \in S : Rank(u, S, i) < n}) <= n
<1> DEFINE A == {i \in S : Rank(u, S, i) < n}
           C == Cardinality(S)
           D == {C - Rank(u, S, i) : i \in A}
<1>1. IsFiniteSet(S) /\ C \in Nat
  BY FS_CardinalityType DEF Dated
<1>2. \A i \in S : Rank(u, S, i) \in Nat /\ Rank(u, S, i) <= C
  BY RankIsNat
<1>3. CASE A = {}
  BY <1>3, FS_EmptySet
<1>4. CASE A # {}
  <2>1. D \in SUBSET Nat
    BY <1>1, <1>2
  <2>2. D # {}
    BY <1>4
  <2>3. PICK m \in D : \A k \in D : m <= k
    BY <2>1, <2>2, LeastOf
  <2>4. PICK a \in A : m = C - Rank(u, S, a)
    BY <2>3
  <2>5. A \subseteq Front(u, S, a) \cup {a}
    <3>1. SUFFICES ASSUME NEW i \in A, i # a PROVE Before(u, i, a)
      BY DEF Front
    <3>2. SUFFICES ASSUME Before(u, a, i) PROVE FALSE
      BY <3>1, RankIsTotal
    <3>3. Rank(u, S, a) < Rank(u, S, i)
      BY <3>2, RankIsStrict
    <3>4. C - Rank(u, S, a) <= C - Rank(u, S, i)
      BY <2>3, <2>4
    <3>5. QED
      BY <3>3, <3>4, <1>1, <1>2
  <2>6. IsFiniteSet(Front(u, S, a)) /\ Rank(u, S, a) \in Nat
    BY RankIsNat
  <2>7. IsFiniteSet(Front(u, S, a) \cup {a})
        /\ Cardinality(Front(u, S, a) \cup {a}) <= Rank(u, S, a) + 1
    BY <2>6, FS_AddElement DEF Rank
  <2>8. Cardinality(A) <= Cardinality(Front(u, S, a) \cup {a})
    BY <2>5, <2>7, FS_Subset
  <2>9. IsFiniteSet(A)
    BY <1>1, FS_Subset
  <2>10. Cardinality(A) \in Nat /\ Cardinality(Front(u, S, a) \cup {a}) \in Nat
    BY <2>9, <2>7, FS_CardinalityType
  <2>11. Rank(u, S, a) < n
    BY <2>4
  <2>12. QED
    BY <2>6, <2>7, <2>8, <2>10, <2>11
<1>5. QED
  BY <1>3, <1>4

(* When an item leaves, no rank grows.                                      *)
LEMMA OneLeaves ==
  ASSUME NEW u, NEW S, Dated(u, S), NEW i, NEW v, \A j \in S \ {i} : v[j] = u[j],
         NEW j \in S \ {i}
  PROVE  Rank(v, S \ {i}, j) <= Rank(u, S, j)
<1>1. Front(v, S \ {i}, j) \subseteq Front(u, S, j)
  BY DEF Front, Before
<1>2. IsFiniteSet(Front(u, S, j))
  BY RankIsNat
<1>3. QED
  BY <1>1, <1>2, FS_Subset DEF Rank

(* When an item moves to the front, those that were before it move by one.  *)
LEMMA OneLeads ==
  ASSUME NEW u, NEW S, Dated(u, S), NEW i \in S, NEW v, Dated(v, S),
         \A j \in S \ {i} : v[j] = u[j] /\ v[j] < v[i]
  PROVE  /\ Rank(v, S, i) = 0
         /\ \A j \in S \ {i} : /\ Rank(v, S, j) <= Rank(u, S, j) + 1
                               /\ Before(u, i, j) => Rank(v, S, j) <= Rank(u, S, j)
<1>1. Front(v, S, i) = {}
  <2>1. SUFFICES ASSUME NEW j \in S, Before(v, j, i) PROVE FALSE
    BY DEF Front
  <2>2. v[j] \in Nat /\ v[i] \in Nat /\ j \in Nat /\ i \in Nat
    BY DEF Dated
  <2>3. j # i
    BY <2>1, <2>2 DEF Before
  <2>4. v[j] < v[i]
    BY <2>3
  <2>5. QED
    BY <2>1, <2>2, <2>4 DEF Before
<1>2. Rank(v, S, i) = 0
  BY <1>1, FS_EmptySet DEF Rank
<1>3. ASSUME NEW j \in S \ {i}
      PROVE  /\ Rank(v, S, j) <= Rank(u, S, j) + 1
             /\ Before(u, i, j) => Rank(v, S, j) <= Rank(u, S, j)
  <2>1. Front(v, S, j) \subseteq Front(u, S, j) \cup {i}
    BY DEF Front, Before
  <2>2. IsFiniteSet(Front(u, S, j)) /\ Rank(u, S, j) \in Nat
    BY RankIsNat
  <2>3. IsFiniteSet(Front(u, S, j) \cup {i})
        /\ Cardinality(Front(u, S, j) \cup {i}) <= Rank(u, S, j) + 1
    BY <2>2, FS_AddElement DEF Rank
  <2>4. /\ IsFiniteSet(Front(v, S, j)) /\ Rank(v, S, j) \in Nat
        /\ Rank(v, S, j) <= Cardinality(Front(u, S, j) \cup {i})
    BY <2>1, <2>3, FS_Subset, RankIsNat DEF Rank
  <2>5. Cardinality(Front(u, S, j) \cup {i}) \in Nat
    BY <2>3, FS_CardinalityType
  <2>6. Before(u, i, j) => Front(u, S, j) \cup {i} = Front(u, S, j)
    BY DEF Front
  <2>7. Before(u, i, j) => Rank(v, S, j) <= Rank(u, S, j)
    BY <2>4, <2>6 DEF Rank
  <2>8. QED
    BY <2>2, <2>3, <2>4, <2>5, <2>7
<1>4. QED
  BY <1>2, <1>3

(* A page ends where its nodes end: if n items are in front of a place and  *)
(* of the others those ranked below b are shown, each is shown n items and  *)
(* the page's others behind that place at most.                             *)
LEMMA PageIsFull ==
  ASSUME NEW u, NEW S, Dated(u, S), NEW n \in Nat, NEW b \in Nat,
         NEW i \in S, n <= Rank(u, S, i), Rank(u, S, i) < b
  PROVE  Rank(u, S, i) < n + Cardinality({j \in S : n <= Rank(u, S, j) /\ Rank(u, S, j) < b})
<1> DEFINE A == {j \in S : Rank(u, S, j) < n}
           N == {j \in S : n <= Rank(u, S, j) /\ Rank(u, S, j) < b}
<1>1. IsFiniteSet(S)
  BY DEF Dated
<1>2. IsFiniteSet(A) /\ IsFiniteSet(N) /\ Cardinality(A) \in Nat /\ Cardinality(N) \in Nat
  BY <1>1, FS_Subset, FS_CardinalityType
<1>3. Cardinality(A) <= n
  BY FewInFront
<1>4. Front(u, S, i) \cup {i} \subseteq A \cup N
  <2>1. ASSUME NEW j \in Front(u, S, i) PROVE j \in A \cup N
    <3>1. j \in S /\ Rank(u, S, j) < Rank(u, S, i)
      BY RankIsStrict DEF Front
    <3>2. Rank(u, S, j) \in Nat /\ Rank(u, S, i) \in Nat
      BY RankIsNat
    <3>3. QED
      BY <3>1, <3>2
  <2>2. i \in N
    OBVIOUS
  <2>3. QED
    BY <2>1, <2>2
<1>5. i \notin Front(u, S, i) /\ IsFiniteSet(Front(u, S, i)) /\ Rank(u, S, i) \in Nat
  <2>1. u[i] \in Nat /\ i \in Nat
    BY DEF Dated
  <2>2. QED
    BY <2>1, RankIsNat DEF Front, Before
<1>6. Cardinality(Front(u, S, i) \cup {i}) = Rank(u, S, i) + 1
  BY <1>5, FS_AddElement DEF Rank
<1>7. IsFiniteSet(A \cup N) /\ Cardinality(A \cup N) <= Cardinality(A) + Cardinality(N)
  <2>1. Cardinality(A \cup N) = Cardinality(A) + Cardinality(N) - Cardinality(A \cap N)
    BY <1>2, FS_Union
  <2>2. IsFiniteSet(A \cap N) /\ Cardinality(A \cap N) \in Nat
    BY <1>2, FS_Intersection, FS_CardinalityType
  <2>3. QED
    BY <1>2, <2>1, <2>2, FS_Union
<1>8. Cardinality(Front(u, S, i) \cup {i}) <= Cardinality(A \cup N)
  BY <1>4, <1>7, FS_Subset
<1>9. Cardinality(A \cup N) \in Nat
  BY <1>7, FS_CardinalityType
<1> HIDE DEF A, N
<1>10. Rank(u, S, i) < n + Cardinality(N)
  BY <1>2, <1>3, <1>5, <1>6, <1>7, <1>8, <1>9
<1>11. QED
  BY <1>10 DEF N

-----------------------------------------------------------------------------
(* Of the items under the cursor, those the discovery has or need not have. *)
Sure(i) == i \in hits \cup masked \/ updated[i] > Began
Sighted == {i \in Results : Place(i) < after /\ Sure(i)}

(* What was counted is covered, as long as nothing slipped: so a term that  *)
(* counted all its results covers them all.                                 *)
Counted == Paging /\ ~slipped => counted <= Cardinality(Sighted)

(* The terms before this one are settled.                                   *)
Finished ==
  complete /\ ~slipped =>
    \A k \in DOMAIN terms : k < term =>
      \A i \in terms[k] : Sure(i) \/ updated[i] = 0

DiscoveryInv == /\ terms \in TermLists /\ DiscoveryTypeOK
                /\ Counted /\ Finished

LEMMA Ranked ==
  /\ \A i : Place(i) = Rank(updated, Results, i)
  /\ \A i : Place(i)' = Rank(updated', Results', i)
<1>1. ASSUME NEW i PROVE Ahead(i) = Front(updated, Results, i)
                         /\ Ahead(i)' = Front(updated', Results', i)
  BY DEF Ahead, Newer, Front, Before
<1>2. QED
  BY <1>1 DEF Place, Rank

(* While a term is paged, its items are numbers with stamps.                *)
LEMMA Searched ==
  ASSUME terms \in TermLists, DiscoveryTypeOK, Paging
  PROVE  /\ term \in DOMAIN terms /\ terms[term] \subseteq Matched
         /\ terms[term] \subseteq Nat /\ IsFiniteSet(terms[term])
         /\ Results \subseteq terms[term] /\ Dated(updated, Results)
         /\ updated \in [Matched -> Nat] /\ {after, counted, pages, Began} \subseteq Nat
         /\ open \in BOOLEAN
<1>1. terms \in Seq(SUBSET Nat) /\ Began \in Nat /\ MaxBumps \in Nat
  BY DiscoveryAssumption
<1>2. term \in DOMAIN terms
  BY <1>1 DEF DiscoveryTypeOK, Paging
<1>3. terms[term] \subseteq Matched /\ terms[term] \subseteq Nat /\ IsFiniteSet(terms[term])
  BY <1>1, <1>2, DiscoveryAssumption DEF Matched
<1>4. updated \in [Matched -> Nat] /\ {after, counted, pages} \subseteq Nat /\ open \in BOOLEAN
  BY <1>1 DEF DiscoveryTypeOK
<1>5. Results \subseteq terms[term]
  BY DEF Results
<1>6. Dated(updated, Results)
  BY <1>3, <1>4, <1>5, FS_Subset DEF Dated
<1>7. QED
  BY <1>1, <1>2, <1>3, <1>4, <1>5, <1>6

(* What is covered stays covered when an item changes, or one item that     *)
(* moves to the front takes the place of the last one.                      *)
LEMMA SightedStays ==
  ASSUME terms \in TermLists, DiscoveryTypeOK, NEW i \in Matched, Changes(i), ~slipped'
  PROVE  Cardinality(Sighted) <= Cardinality(Sighted')
<1> DEFINE S == Results
           u == updated
           v == updated'
<1>1. /\ term \in DOMAIN terms /\ terms[term] \subseteq Matched
      /\ terms[term] \subseteq Nat /\ IsFiniteSet(terms[term])
      /\ S \subseteq terms[term] /\ Dated(u, S)
      /\ u \in [Matched -> Nat] /\ after \in Nat /\ Began \in Nat /\ open \in BOOLEAN
  BY Searched DEF Changes
<1>2. PICK t \in Nat : /\ Becomes(i, t)
                       /\ t = 0 \/ (t > Began /\ \A j \in Matched : u[j] < t)
  BY <1>1, DiscoveryAssumption DEF Changes
<1>3. /\ UNCHANGED <<terms, open, masked, term, after, hits>>
      /\ ~(i \in S /\ Place(i) < after /\ ~InWindow(t)) /\ u[i] > 0
      /\ v = [u EXCEPT ![i] = t]
  BY <1>2 DEF Changes, Becomes
<1>4. v[i] = t /\ v \in [Matched -> Nat] /\ \A j \in Matched \ {i} : v[j] = u[j]
  BY <1>1, <1>3
<1>5. Results' = {j \in terms[term] : v[j] > 0 /\ (open \/ v[j] <= Began)}
  BY <1>3 DEF Results, InWindow
<1>6. S = {j \in terms[term] : u[j] > 0 /\ (open \/ u[j] <= Began)}
  BY DEF Results, InWindow
<1>7. Sighted = {j \in S : Rank(u, S, j) < after
                          /\ (j \in hits \cup masked \/ u[j] > Began)}
  BY Ranked DEF Sighted, Sure
<1>8. Sighted' = {j \in Results' : Rank(v, Results', j) < after
                                 /\ (j \in hits \cup masked \/ v[j] > Began)}
  BY <1>3, Ranked DEF Sighted, Sure
<1>9. Results' \subseteq terms[term] /\ IsFiniteSet(Results') /\ Dated(v, Results')
  <2>1. Results' \subseteq terms[term]
    BY <1>5
  <2>2. QED
    BY <2>1, <1>1, <1>4, FS_Subset DEF Dated
<1>10. IsFiniteSet(Sighted') /\ IsFiniteSet(Sighted)
  BY <1>1, <1>7, <1>8, <1>9, FS_Subset DEF Dated
<1>11. InWindow(t) <=> t > 0 /\ (open \/ t <= Began)
  BY DEF InWindow
<1>12. Rank(u, S, i) = Place(i)
  BY Ranked
<1> HIDE DEF S, u, v
<1>13. \A j : Rank(u, S, j) \in Nat /\ Rank(v, Results', j) \in Nat
  BY <1>1, <1>9, RankIsNat
<1>14. Sighted \subseteq Sighted' => Cardinality(Sighted) <= Cardinality(Sighted')
  BY <1>10, FS_Subset
<1>15. CASE ~InWindow(t)
  <2>1. Results' = S \ {i}
    BY <1>1, <1>4, <1>5, <1>6, <1>11, <1>15
  <2>2. ASSUME NEW j \in Sighted PROVE j \in Sighted'
    <3>1. j \in S /\ Rank(u, S, j) < after /\ (j \in hits \cup masked \/ u[j] > Began)
      BY <1>7
    <3>2. j # i
      BY <1>3, <1>12, <1>15, <3>1
    <3>3. v[j] = u[j] /\ j \in Results'
      BY <1>1, <1>4, <2>1, <3>1, <3>2
    <3>4. \A k \in S \ {i} : v[k] = u[k]
      BY <1>1, <1>4
    <3>5. Rank(v, Results', j) <= Rank(u, S, j)
      BY <1>1, <2>1, <3>1, <3>2, <3>4, OneLeaves
    <3>6. Rank(v, Results', j) < after
      BY <1>1, <1>13, <3>1, <3>5
    <3>7. QED
      BY <1>8, <3>1, <3>3, <3>6
  <2>3. QED
    BY <1>14, <2>2
<1>16. CASE InWindow(t) /\ i \notin terms[term]
  <2>1. \A j \in terms[term] : v[j] = u[j]
    BY <1>1, <1>4, <1>16
  <2>2. Results' = S
    BY <1>5, <1>6, <2>1
  <2>3. ASSUME NEW j \in S PROVE Rank(v, S, j) = Rank(u, S, j)
    <3>1. Front(v, S, j) = Front(u, S, j)
      BY <1>1, <2>1 DEF Front, Before
    <3>2. QED
      BY <3>1 DEF Rank
  <2>4. Sighted \subseteq Sighted'
    BY <1>1, <1>7, <1>8, <2>1, <2>2, <2>3
  <2>5. QED
    BY <1>14, <2>4
<1>17. CASE InWindow(t) /\ i \in terms[term]
  <2>1. t > Began /\ open /\ \A j \in Matched : u[j] < t
    BY <1>1, <1>2, <1>11, <1>17
  <2>2. i \in S /\ Results' = S
    BY <1>1, <1>3, <1>4, <1>5, <1>6, <1>17, <2>1
  <2>3. \A j \in S \ {i} : v[j] = u[j] /\ v[j] < v[i]
    BY <1>1, <1>4, <2>1
  <2>4. Dated(v, S)
    BY <1>9, <2>2
  <2>5. /\ Rank(v, S, i) = 0
        /\ \A j \in S \ {i} : /\ Rank(v, S, j) <= Rank(u, S, j) + 1
                              /\ Before(u, i, j) => Rank(v, S, j) <= Rank(u, S, j)
    BY <1>1, <2>2, <2>3, <2>4, OneLeads
  <2>6. CASE after = 0
    <3>1. Sighted = {}
      BY <1>7, <1>13, <2>6
    <3>2. QED
      BY <1>14, <3>1
  <2>7. CASE after > 0
    <3>1. i \in Sighted'
      BY <1>4, <1>8, <2>1, <2>2, <2>5, <2>7
    <3>2. \A j \in Sighted \ {i} : Rank(v, S, j) < after => j \in Sighted'
      BY <1>7, <1>8, <2>2, <2>3
    <3>3. CASE Rank(u, S, i) < after
      <4>1. ASSUME NEW j \in Sighted \ {i} PROVE Rank(v, S, j) < after
        <5>1. j \in S /\ Rank(u, S, j) < after
          BY <1>7
        <5>2. CASE Before(u, i, j)
          BY <1>1, <1>13, <2>2, <2>5, <5>1, <5>2
        <5>3. CASE Before(u, j, i)
          <6>1. Rank(u, S, j) < Rank(u, S, i)
            BY <1>1, <2>2, <5>1, <5>3, RankIsStrict
          <6>2. Rank(v, S, j) <= Rank(u, S, j) + 1
            BY <2>5, <5>1
          <6>3. QED
            BY <1>1, <1>13, <2>2, <3>3, <6>1, <6>2
        <5>4. QED
          BY <1>1, <2>2, <5>1, <5>2, <5>3, RankIsTotal
      <4>2. Sighted \subseteq Sighted'
        BY <3>1, <3>2, <4>1
      <4>3. QED
        BY <1>14, <4>2
    <3>4. CASE ~(Rank(u, S, i) < after)
      <4>1. i \notin Sighted
        BY <1>7, <3>4
      <4>2. \A j \in Sighted : Rank(u, S, j) < after - 1 => j \in Sighted'
        <5>1. SUFFICES ASSUME NEW j \in Sighted, Rank(u, S, j) < after - 1
                       PROVE  Rank(v, S, j) < after
          BY <3>2, <4>1
        <5>2. Rank(v, S, j) <= Rank(u, S, j) + 1
          BY <1>7, <2>5, <4>1
        <5>3. QED
          BY <1>1, <1>13, <2>2, <5>1, <5>2
      <4>3. CASE \E k \in Sighted : ~(Rank(u, S, k) < after - 1)
        <5>1. PICK k \in Sighted : ~(Rank(u, S, k) < after - 1)
          BY <4>3
        <5>2. \A j \in Sighted \ {k} : Rank(u, S, j) < after - 1
          <6>1. SUFFICES ASSUME NEW j \in Sighted \ {k}, ~(Rank(u, S, j) < after - 1)
                         PROVE  FALSE
            OBVIOUS
          <6>2. j \in S /\ k \in S /\ Rank(u, S, j) < after /\ Rank(u, S, k) < after
            BY <1>7
          <6>3. Rank(u, S, j) = Rank(u, S, k)
            BY <1>1, <1>13, <2>7, <5>1, <6>1, <6>2
          <6>4. Rank(u, S, j) < Rank(u, S, k) \/ Rank(u, S, k) < Rank(u, S, j)
            BY <1>1, <6>2, RankIsTotal, RankIsStrict
          <6>5. QED
            BY <1>13, <6>3, <6>4
        <5>3. (Sighted \ {k}) \cup {i} \subseteq Sighted'
          BY <3>1, <4>2, <5>2
        <5>4. Cardinality(Sighted \ {k}) = Cardinality(Sighted) - 1
              /\ IsFiniteSet(Sighted \ {k})
          BY <1>10, FS_RemoveElement
        <5>5. Cardinality((Sighted \ {k}) \cup {i}) = Cardinality(Sighted \ {k}) + 1
          BY <4>1, <5>4, FS_AddElement
        <5>6. Cardinality((Sighted \ {k}) \cup {i}) <= Cardinality(Sighted')
          BY <1>10, <5>3, FS_Subset
        <5>7. Cardinality(Sighted) \in Nat
          BY <1>10, FS_CardinalityType
        <5>8. QED
          BY <5>4, <5>5, <5>6, <5>7
      <4>4. CASE ~\E k \in Sighted : ~(Rank(u, S, k) < after - 1)
        BY <1>14, <4>2, <4>4
      <4>5. QED
        BY <4>3, <4>4
    <3>5. QED
      BY <3>3, <3>4
  <2>8. QED
    BY <1>1, <2>6, <2>7
<1>18. QED
  BY <1>15, <1>16, <1>17

(* A page adds what it shows to what is covered.                            *)
LEMMA PageAdds ==
  ASSUME terms \in TermLists, DiscoveryTypeOK, Paging, Counted, ~slipped
  PROVE  /\ Sighted \cup Nodes \subseteq Results /\ IsFiniteSet(Sighted \cup Nodes)
         /\ counted + Count <= Cardinality(Sighted \cup Nodes)
         /\ Count \in Nat /\ counted \in Nat
<1>1. IsFiniteSet(Results) /\ counted \in Nat /\ after \in Nat
  BY Searched DEF Dated
<1>2. Sighted \subseteq Results /\ Nodes \subseteq Results
  BY DEF Sighted, Nodes
<1>3. IsFiniteSet(Sighted) /\ IsFiniteSet(Nodes)
  BY <1>1, <1>2, FS_Subset
<1>4. \A i : Place(i) \in Nat
  BY Searched, Ranked, RankIsNat
<1>5. Sighted \cap Nodes = {}
  BY <1>1, <1>4 DEF Sighted, Nodes
<1>6. Cardinality(Sighted \cup Nodes) = Cardinality(Sighted) + Cardinality(Nodes)
      /\ IsFiniteSet(Sighted \cup Nodes)
  <2>1. Cardinality(Sighted \cap Nodes) = 0
    BY <1>5, FS_EmptySet
  <2>2. Cardinality(Sighted) \in Nat /\ Cardinality(Nodes) \in Nat
    BY <1>3, FS_CardinalityType
  <2>3. /\ IsFiniteSet(Sighted \cup Nodes)
        /\ Cardinality(Sighted \cup Nodes) =
             Cardinality(Sighted) + Cardinality(Nodes) - Cardinality(Sighted \cap Nodes)
    BY <1>3, FS_Union
  <2>4. QED
    BY <2>1, <2>2, <2>3
<1>7. counted <= Cardinality(Sighted)
  BY DEF Counted
<1>8. Cardinality(Sighted) \in Nat /\ Cardinality(Nodes) \in Nat
  BY <1>3, FS_CardinalityType
<1>9. QED
  BY <1>1, <1>2, <1>6, <1>7, <1>8 DEF Count

(* The next page begins where this one ended, or later.                     *)
LEMMA PageGoesOn ==
  ASSUME terms \in TermLists, DiscoveryTypeOK, Paging, Counted,
         NEW cursor \in Nat, after <= cursor, \A i \in Nodes : Place(i) < cursor,
         hits' = hits \cup (Nodes \ masked), after' = cursor, counted' = counted + Count,
         UNCHANGED <<terms, open, updated, slipped, masked, term, stopped>>
  PROVE  Counted'
<1>1. SUFFICES ASSUME ~slipped PROVE counted + Count <= Cardinality(Sighted')
  BY DEF Counted
<1>2. /\ Sighted \cup Nodes \subseteq Results /\ IsFiniteSet(Sighted \cup Nodes)
      /\ counted + Count <= Cardinality(Sighted \cup Nodes)
      /\ Count \in Nat /\ counted \in Nat
  BY <1>1, PageAdds
<1>3. Results' = Results
  BY DEF Results, InWindow
<1>4. \A i : Place(i)' = Place(i)
  BY <1>3, Ranked
<1>5. \A i : Place(i) \in Nat /\ after \in Nat
  BY Searched, Ranked, RankIsNat
<1>6. Sighted' = {i \in Results : Place(i) < cursor
                          /\ (i \in hits' \cup masked \/ updated[i] > Began)}
  BY <1>3, <1>4 DEF Sighted, Sure
<1>7. ASSUME NEW i \in Sighted PROVE i \in Sighted'
  <2>1. i \in Results /\ Place(i) < after /\ (i \in hits \cup masked \/ updated[i] > Began)
    BY DEF Sighted, Sure
  <2>2. Place(i) < cursor
    BY <1>5, <2>1
  <2>3. QED
    BY <1>6, <2>1, <2>2
<1>8. ASSUME NEW i \in Nodes PROVE i \in Sighted'
  <2>1. i \in Results /\ i \in hits' \cup masked /\ Place(i) < cursor
    BY DEF Nodes
  <2>2. QED
    BY <1>6, <2>1
<1>9. IsFiniteSet(Results) /\ Sighted' \subseteq Results
  BY <1>6, Searched DEF Dated
<1>10. IsFiniteSet(Sighted') /\ Cardinality(Sighted \cup Nodes) <= Cardinality(Sighted')
  BY <1>7, <1>8, <1>9, FS_Subset
<1>11. Cardinality(Sighted') \in Nat /\ Cardinality(Sighted \cup Nodes) \in Nat
  BY <1>2, <1>10, FS_CardinalityType
<1>12. QED
  BY <1>2, <1>10, <1>11

(* A term that counted all its results covers them all.                     *)
LEMMA TermIsWhole ==
  ASSUME terms \in TermLists, DiscoveryTypeOK, Paging, Counted, ~slipped,
         counted + Count >= Cardinality(Results),
         hits' = hits \cup (Nodes \ masked), UNCHANGED <<updated, masked>>,
         NEW i \in terms[term]
  PROVE  Sure(i)' \/ updated[i] = 0
<1>1. /\ Sighted \cup Nodes \subseteq Results /\ IsFiniteSet(Sighted \cup Nodes)
      /\ counted + Count <= Cardinality(Sighted \cup Nodes)
      /\ Count \in Nat /\ counted \in Nat
  BY PageAdds
<1>2. IsFiniteSet(Results) /\ updated[i] \in Nat /\ Began \in Nat /\ open \in BOOLEAN
  BY Searched DEF Dated
<1>3. Cardinality(Sighted \cup Nodes) = Cardinality(Results)
  <2>1. Cardinality(Sighted \cup Nodes) <= Cardinality(Results)
    BY <1>1, <1>2, FS_Subset
  <2>2. Cardinality(Sighted \cup Nodes) \in Nat /\ Cardinality(Results) \in Nat
    BY <1>1, <1>2, FS_CardinalityType
  <2>3. QED
    BY <1>1, <2>1, <2>2
<1>4. Sighted \cup Nodes = Results
  BY <1>1, <1>2, <1>3, FS_Subset
<1>5. CASE i \in Results
  <2>1. CASE i \in Sighted
    BY <2>1 DEF Sighted, Sure
  <2>2. CASE i \in Nodes
    BY <2>2 DEF Sure
  <2>3. QED
    BY <1>4, <1>5, <2>1, <2>2
<1>6. CASE i \notin Results
  BY <1>2, <1>6 DEF Results, InWindow, Sure
<1>7. QED
  BY <1>5, <1>6

(* One page, ended well or badly.                                           *)
LEMMA PageKeepsShape ==
  ASSUME terms \in TermLists, DiscoveryTypeOK, Paging, NEW hasNext \in BOOLEAN, NEW cursor \in Nat,
         ReadPage(hasNext, cursor), broken' \in 0 .. MaxBroken
  PROVE  terms' \in TermLists /\ DiscoveryTypeOK'
<1>1. /\ UNCHANGED <<terms, open, updated, slipped, masked, stopped>>
      /\ hits' = hits \cup (Nodes \ masked)
  BY DEF ReadPage, bumpVars
<1>2. Matched' = Matched
  BY <1>1 DEF Matched
<1>3. Nodes \subseteq Matched /\ term \in DOMAIN terms
      /\ terms \in Seq(SUBSET Nat) /\ {after, counted, pages} \subseteq Nat
  BY Searched, DiscoveryAssumption DEF Nodes
<1>4. Count \in Nat
  <2>1. IsFiniteSet(Nodes)
    BY Searched, FS_Subset DEF Nodes, Dated
  <2>2. QED
    BY <2>1, FS_CardinalityType DEF Count
<1>5. /\ term' \in 1 .. Len(terms) + 1 /\ {after', pages', counted'} \subseteq Nat
      /\ complete' \in BOOLEAN
  <2>1. CASE hasNext /\ cursor # after /\ pages + 1 < PagesLimit
    <3>1. ~(cursor = after \/ pages + 1 >= PagesLimit)
      BY <1>3, <2>1, DiscoveryAssumption
    <3>2. after' = cursor /\ pages' = pages + 1 /\ counted' = counted + Count
          /\ UNCHANGED <<term, complete>>
      BY <2>1, <3>1, Zenon DEF ReadPage
    <3>3. QED
      BY <1>3, <1>4, <3>2 DEF DiscoveryTypeOK
  <2>2. CASE ~hasNext /\ EndTerm(TRUE, Cardinality(Results))
    BY <1>3, <2>2 DEF EndTerm, DiscoveryTypeOK
  <2>3. CASE EndTerm(FALSE, Cardinality(Results))
    BY <1>3, <2>3 DEF EndTerm, DiscoveryTypeOK
  <2>4. QED
    BY <2>1, <2>2, <2>3 DEF ReadPage
<1>6. hits' \subseteq Matched \ masked
  BY <1>1, <1>3 DEF DiscoveryTypeOK
<1>7. QED
  BY <1>1, <1>2, <1>5, <1>6 DEF DiscoveryTypeOK

LEMMA PageKeeps ==
  ASSUME DiscoveryInv, Paging, NEW hasNext \in BOOLEAN, NEW cursor \in Nat,
         ReadPage(hasNext, cursor), broken' \in 0 .. MaxBroken,
         after <= cursor,
         cursor # after /\ hasNext => \A i \in Nodes : Place(i) < cursor
  PROVE  DiscoveryInv'
<1>1. terms \in TermLists /\ DiscoveryTypeOK /\ Counted /\ Finished
  BY DEF DiscoveryInv
<1>2. terms' \in TermLists /\ DiscoveryTypeOK'
  BY <1>1, PageKeepsShape
<1>3. /\ UNCHANGED <<terms, open, updated, slipped, masked, stopped>>
      /\ hits' = hits \cup (Nodes \ masked)
  BY DEF ReadPage, bumpVars
<1>4. \A k \in DOMAIN terms : \A i \in terms[k] :
        Sure(i) \/ updated[i] = 0 => Sure(i)' \/ updated[i] = 0
  BY <1>3 DEF Sure
<1>5. CASE hasNext /\ cursor # after /\ pages + 1 < PagesLimit
  <2>1. after' = cursor /\ counted' = counted + Count /\ UNCHANGED <<term, complete>>
    <3>1. ~(cursor = after \/ pages + 1 >= PagesLimit)
      BY <1>1, <1>5, Searched, DiscoveryAssumption
    <3>2. QED
      BY <1>5, <3>1, Zenon DEF ReadPage
  <2>2. Counted'
    BY <1>1, <1>3, <1>5, <2>1, PageGoesOn
  <2>3. Finished'
    BY <1>1, <1>3, <1>4, <2>1 DEF Finished
  <2>4. QED
    BY <1>2, <2>2, <2>3 DEF DiscoveryInv
<1>6. ASSUME NEW ended \in BOOLEAN, EndTerm(ended, Cardinality(Results))
      PROVE  DiscoveryInv'
  <2>1. /\ complete' = (complete /\ ended /\ counted + Count >= Cardinality(Results))
        /\ term' = term + 1 /\ after' = 0 /\ counted' = 0
    BY <1>6 DEF EndTerm
  <2>2. Counted'
    <3>1. SUFFICES ASSUME Paging' PROVE 0 <= Cardinality(Sighted')
      BY <2>1 DEF Counted
    <3>2. IsFiniteSet(Results')
      <4>1. Results' \subseteq terms'[term'] /\ term' \in DOMAIN terms'
        BY <1>2, <3>1, DiscoveryAssumption DEF Results, Paging, DiscoveryTypeOK
      <4>2. IsFiniteSet(terms'[term'])
        BY <1>2, <4>1, DiscoveryAssumption
      <4>3. QED
        BY <4>1, <4>2, FS_Subset
    <3>3. IsFiniteSet(Sighted')
      BY <3>2, FS_Subset DEF Sighted
    <3>4. QED
      BY <3>3, FS_CardinalityType
  <2>3. Finished'
    <3>1. SUFFICES ASSUME complete', ~slipped', NEW k \in DOMAIN terms, k < term + 1,
                          NEW i \in terms[k]
                   PROVE  Sure(i)' \/ updated[i] = 0
      BY <1>3, <2>1 DEF Finished
    <3>2. k \in Nat /\ term \in Nat
      BY <1>1, DiscoveryAssumption DEF DiscoveryTypeOK
    <3>3. CASE k = term
      BY <1>1, <1>3, <2>1, <3>1, <3>3, TermIsWhole
    <3>4. CASE k < term
      BY <1>1, <1>3, <1>4, <2>1, <3>1, <3>4 DEF Finished
    <3>5. QED
      BY <3>1, <3>2, <3>3, <3>4
  <2>4. QED
    BY <1>2, <2>2, <2>3 DEF DiscoveryInv
<1>7. QED
  BY <1>5, <1>6 DEF ReadPage

LEMMA PageArrivesKeeps ==
  ASSUME DiscoveryInv, PageArrives
  PROVE  DiscoveryInv'
<1>1. terms \in TermLists /\ DiscoveryTypeOK /\ Paging
  BY DEF DiscoveryInv, PageArrives
<1>2. IsFiniteSet(Nodes) /\ Dated(updated, Results) /\ after \in Nat
  BY <1>1, Searched, FS_Subset DEF Nodes, Dated
<1>3. Count \in Nat
  BY <1>2, FS_CardinalityType DEF Count
<1>4. ASSUME NEW i \in Nodes PROVE Place(i) < after + Count
  <2> DEFINE b == Least(after + PageSize, SearchCap)
  <2>1. b \in Nat
    BY <1>2, DiscoveryAssumption DEF Least
  <2>2. /\ i \in Results /\ after <= Rank(updated, Results, i) /\ Rank(updated, Results, i) < b
        /\ Nodes = {j \in Results : after <= Rank(updated, Results, j)
                                   /\ Rank(updated, Results, j) < b}
    BY Ranked DEF Nodes
  <2> HIDE DEF b
  <2>3. Rank(updated, Results, i) < after + Count
    BY <1>2, <2>1, <2>2, PageIsFull DEF Count
  <2>4. QED
    BY <2>3, Ranked
<1>5. broken' \in 0 .. MaxBroken
  BY <1>1 DEF PageArrives, DiscoveryTypeOK
<1>6. PICK hasNext \in BOOLEAN : ReadPage(hasNext, after + Count)
  <2>1. (after + Count < Served) \in BOOLEAN
    OBVIOUS
  <2>2. QED
    BY <2>1, Zenon DEF PageArrives
<1>7. after + Count \in Nat /\ after <= after + Count
  BY <1>2, <1>3
<1>8. QED
  BY <1>1, <1>4, <1>5, <1>6, <1>7, PageKeeps

LEMMA BrokenPageKeeps ==
  ASSUME DiscoveryInv, BrokenPageArrives
  PROVE  DiscoveryInv'
<1>1. terms \in TermLists /\ DiscoveryTypeOK /\ Paging
  BY DEF DiscoveryInv, BrokenPageArrives
<1>2. broken' \in 0 .. MaxBroken
  BY <1>1, DiscoveryAssumption DEF BrokenPageArrives, DiscoveryTypeOK
<1>3. after \in Nat /\ PageSize \in Nat /\ SearchCap \in Nat
  BY <1>1, Searched, DiscoveryAssumption
<1>4. PICK c \in {after, after + PageSize} : ReadPage(TRUE, c)
  BY DEF BrokenPageArrives
<1>5. c # after => \A i \in Nodes : Place(i) < c
  <2>1. SUFFICES ASSUME c = after + PageSize, NEW i \in Nodes PROVE Place(i) < c
    BY <1>4
  <2>2. Place(i) \in Nat /\ Place(i) < Least(after + PageSize, SearchCap)
    BY <1>1, Searched, Ranked, RankIsNat DEF Nodes
  <2>3. QED
    BY <1>3, <2>1, <2>2 DEF Least
<1>6. c \in Nat /\ after <= c
  BY <1>3, <1>4
<1>7. QED
  BY <1>1, <1>2, <1>4, <1>5, <1>6, PageKeeps

LEMMA ChangeKeeps ==
  ASSUME DiscoveryInv, NEW i \in Matched, Changes(i)
  PROVE  DiscoveryInv'
<1>1. terms \in TermLists /\ DiscoveryTypeOK /\ Paging /\ Counted /\ Finished
  BY DEF DiscoveryInv, Changes
<1>2. /\ UNCHANGED <<terms, open, masked, term, after, pages, counted, hits, complete,
                     stopped, broken>>
      /\ slipped \in BOOLEAN /\ Began \in Nat /\ MaxBumps \in Nat
      /\ {after, counted} \subseteq Nat
  BY <1>1, DiscoveryAssumption DEF Changes, DiscoveryTypeOK
<1>3. PICK t \in 0 .. Began + MaxBumps : Becomes(i, t) /\ (t = 0 \/ t > Began)
  BY <1>2 DEF Changes
<1>4. updated' \in [Matched -> 0 .. Began + MaxBumps] /\ slipped' \in BOOLEAN
      /\ (slipped => slipped')
      /\ updated'[i] = t /\ \A j \in Matched \ {i} : updated'[j] = updated[j]
  <2>1. updated' = [updated EXCEPT ![i] = t] /\ updated \in [Matched -> 0 .. Began + MaxBumps]
    BY <1>1, <1>3 DEF Becomes, DiscoveryTypeOK
  <2>2. slipped' \in BOOLEAN /\ (slipped => slipped')
    BY <1>2, <1>3 DEF Becomes
  <2>3. QED
    BY <1>3, <2>1, <2>2
<1>5. DiscoveryTypeOK' /\ terms' \in TermLists
  <2>1. Matched' = Matched
    BY <1>2 DEF Matched
  <2>2. QED
    BY <1>1, <1>2, <1>4, <2>1 DEF DiscoveryTypeOK
<1>6. Counted'
  <2>1. SUFFICES ASSUME ~slipped' PROVE counted <= Cardinality(Sighted')
    BY <1>2 DEF Counted
  <2>2. counted <= Cardinality(Sighted)
    BY <1>1, <1>4, <2>1 DEF Counted
  <2>3. Cardinality(Sighted) <= Cardinality(Sighted')
    BY <1>1, <2>1, SightedStays
  <2>4. Cardinality(Sighted) \in Nat /\ Cardinality(Sighted') \in Nat
    <3>1. IsFiniteSet(Results) /\ IsFiniteSet(terms[term])
      BY <1>1, Searched DEF Dated
    <3>2. Results' \subseteq terms[term]
      BY <1>2 DEF Results
    <3>3. IsFiniteSet(Sighted) /\ IsFiniteSet(Sighted')
      <4>1. Sighted \subseteq Results /\ Sighted' \subseteq Results'
        BY DEF Sighted
      <4>2. QED
        BY <3>1, <3>2, <4>1, FS_Subset
    <3>4. QED
      BY <3>3, FS_CardinalityType
  <2>5. QED
    BY <1>2, <2>2, <2>3, <2>4
<1>7. Finished'
  <2>1. SUFFICES ASSUME complete, ~slipped, NEW k \in DOMAIN terms, k < term,
                        NEW j \in terms[k]
                 PROVE  Sure(j)' \/ updated'[j] = 0
    BY <1>2, <1>4 DEF Finished
  <2>2. j \in Matched
    BY DEF Matched
  <2>3. Sure(j) \/ updated[j] = 0
    BY <1>1, <2>1 DEF Finished
  <2>4. CASE j = i
    BY <1>3, <1>4, <2>4 DEF Sure
  <2>5. CASE j # i
    BY <1>2, <1>4, <2>2, <2>3, <2>5 DEF Sure
  <2>6. QED
    BY <2>4, <2>5
<1>8. QED
  BY <1>5, <1>6, <1>7 DEF DiscoveryInv

LEMMA DiscoverySteps ==
  ASSUME DiscoveryInv, [DiscoveryNext]_discoveryVars
  PROVE  DiscoveryInv'
<1>1. CASE PageArrives
  BY <1>1, PageArrivesKeeps
<1>2. CASE BrokenPageArrives
  BY <1>2, BrokenPageKeeps
<1>3. CASE PageFails
  <2>1. /\ UNCHANGED <<terms, open, updated, slipped, masked, term, after, pages, counted,
                       hits, complete, broken>>
        /\ stopped' = TRUE
    BY <1>3 DEF PageFails, bumpVars
  <2>2. Matched' = Matched
    BY <2>1 DEF Matched
  <2>3. DiscoveryTypeOK'
    BY <2>1, <2>2 DEF DiscoveryInv, DiscoveryTypeOK
  <2>4. Counted'
    BY <2>1 DEF Counted, Paging
  <2>5. Finished'
    BY <2>1 DEF DiscoveryInv, Finished, Sure
  <2>6. QED
    BY <2>1, <2>3, <2>4, <2>5 DEF DiscoveryInv
<1>4. CASE \E i \in Matched : Changes(i)
  BY <1>4, ChangeKeeps
<1>5. CASE UNCHANGED discoveryVars
  <2>1. UNCHANGED <<terms, open, updated, slipped, masked, term, after, pages, counted,
                    hits, complete, broken, stopped>>
    BY <1>5 DEF discoveryVars
  <2>2. Matched' = Matched
    BY <2>1 DEF Matched
  <2>3. DiscoveryTypeOK'
    BY <2>1, <2>2 DEF DiscoveryInv, DiscoveryTypeOK
  <2>4. Results' = Results
    BY <2>1 DEF Results, InWindow
  <2>5. Sighted' = Sighted
    BY <2>1, <2>4, Ranked DEF Sighted, Sure
  <2>6. Counted'
    BY <2>1, <2>5 DEF DiscoveryInv, Counted, Paging
  <2>7. Finished'
    BY <2>1 DEF DiscoveryInv, Finished, Sure
  <2>8. QED
    BY <2>1, <2>3, <2>6, <2>7 DEF DiscoveryInv
<1>6. QED
  BY <1>1, <1>2, <1>3, <1>4, <1>5 DEF DiscoveryNext

LEMMA DiscoveryStarts ==
  ASSUME DiscoveryInit
  PROVE  DiscoveryInv
<1>1. /\ terms \in TermLists /\ open \in BOOLEAN /\ updated \in [Matched -> 1 .. Began]
      /\ masked \subseteq Matched /\ term = 1 /\ after = 0 /\ pages = 0 /\ counted = 0
      /\ hits = {} /\ complete = TRUE /\ stopped = FALSE /\ slipped = FALSE /\ broken = 0
  BY DEF DiscoveryInit
<1>2. /\ terms \in Seq(SUBSET Nat) /\ Len(terms) \in Nat /\ DOMAIN terms = 1 .. Len(terms)
      /\ Began \in Nat /\ MaxBumps \in Nat /\ MaxBroken \in Nat
  BY <1>1, DiscoveryAssumption
<1>3. DiscoveryTypeOK
  <2>1. updated \in [Matched -> 0 .. Began + MaxBumps]
    BY <1>1, <1>2
  <2>2. term \in 1 .. Len(terms) + 1 /\ broken \in 0 .. MaxBroken
    BY <1>1, <1>2
  <2>3. hits \subseteq Matched \ masked /\ {after, pages, counted} \subseteq Nat
    BY <1>1
  <2>4. {open, complete, stopped, slipped} \subseteq BOOLEAN
    BY <1>1
  <2>5. QED
    BY <1>1, <2>1, <2>2, <2>3, <2>4 DEF DiscoveryTypeOK
<1>4. Counted
  <2>1. SUFFICES ASSUME Paging PROVE 0 <= Cardinality(Sighted)
    BY <1>1 DEF Counted
  <2>2. IsFiniteSet(Results)
    BY <1>1, <1>3, <2>1, Searched DEF Dated
  <2>3. IsFiniteSet(Sighted)
    BY <2>2, FS_Subset DEF Sighted
  <2>4. QED
    BY <2>3, FS_CardinalityType
<1>5. Finished
  BY <1>1, <1>2 DEF Finished
<1>6. QED
  BY <1>1, <1>3, <1>4, <1>5 DEF DiscoveryInv

(* Every reachable state of a discovery has the shape DiscoveryTypeOK        *)
(* states: hits are of its terms and not masked, and the term is one of them *)
(* or past the last (sync.rs StreamCtx::discover).                           *)
THEOREM DiscoveryTyped == DiscoverySpec => []DiscoveryTypeOK
<1>1. DiscoveryInv => DiscoveryTypeOK
  BY DEF DiscoveryInv
<1>2. QED
  BY <1>1, DiscoveryStarts, DiscoverySteps, PTL DEF DiscoverySpec

(* A discovery that calls itself complete has every item its terms match,   *)
(* but those updated since it began and those gone: for any terms, pages,   *)
(* caps, masked items and servers that break off, as long as no departure   *)
(* pulled an item under the cursor (sync.rs StreamCtx::discover).           *)
THEOREM DiscoveryIsComplete == DiscoverySpec => []CompleteMissesNothing
<1>1. DiscoveryInv => CompleteMissesNothing
  <2>1. SUFFICES ASSUME DiscoveryInv, term > Len(terms), complete, ~slipped,
                        NEW i \in Matched, i \notin masked
                 PROVE  i \in hits \/ updated[i] > Began \/ updated[i] = 0
    BY DEF CompleteMissesNothing
  <2>2. PICK k \in DOMAIN terms : i \in terms[k]
    BY DEF Matched
  <2>3. terms \in Seq(SUBSET Nat) /\ term \in 1 .. Len(terms) + 1 /\ Finished
    BY <2>1, DiscoveryAssumption DEF DiscoveryInv, DiscoveryTypeOK
  <2>4. k < term
    BY <2>1, <2>2, <2>3
  <2>5. QED
    BY <2>1, <2>2, <2>3, <2>4 DEF Finished, Sure
<1>2. QED
  BY <1>1, DiscoveryStarts, DiscoverySteps, PTL DEF DiscoverySpec

-----------------------------------------------------------------------------
(* What the worker and the channel hold.                                    *)
Notes == [stamp : Nat, text : Nat]
NoteMaps == UNION {[S -> Notes] : S \in SUBSET Comments}
Shapes == [total : Nat \ {0}, nodes : NoteMaps]
Walked == UNION {[T -> Shapes] : T \in SUBSET ThreadIds}
Bundles == [threads : Walked, complete : BOOLEAN, rest : BOOLEAN, refresh : BOOLEAN,
            quiet : BOOLEAN]

Started == {Owner[c] : c \in Posted}

Held(b) == {c \in Comments : \E t \in DOMAIN b.threads : c \in DOMAIN b.threads[t].nodes}

Shaped ==
  /\ stamps \in [Comments -> Seq(Nat)] /\ \A c \in Comments : Len(stamps[c]) <= MaxEdits + 1
  /\ there \subseteq Posted
  /\ fetched \in Walked /\ todo \subseteq DOMAIN fetched /\ baseline \in NoteMaps
  /\ bundles \in Seq(Bundles) /\ Len(bundles) <= MaxLag + 1
  /\ rows \in [Comments -> [stamp : Nat, text : Nat, live : BOOLEAN]]
  /\ threadRows \in [ThreadIds -> {"none", "live", "deleted"}]
  /\ prRow \in {"none", "truncated", "whole"}
  /\ walk \in {"idle", "full", "skeleton"} /\ paging \in {"more", "end", "stopped"}
  /\ walk # "skeleton" => todo = {}
  /\ walk = "idle" => paging = "end"
  /\ walk # "idle" => Len(bundles) <= MaxLag
  /\ quiet \in BOOLEAN /\ landed \in BOOLEAN

(* A text and the edit time it was written at.                              *)
Noted(c, n) == n.text \in 1 .. Len(stamps[c]) /\ stamps[c][n.text] = n.stamp

(* Whatever has a text has it under its own edit time.                      *)
Honest ==
  /\ \A c \in Comments : /\ rows[c].text # 0 => Noted(c, rows[c])
                         /\ rows[c].live => rows[c].text # 0
  /\ \A c \in DOMAIN baseline : Noted(c, baseline[c])
  /\ \A t \in DOMAIN fetched : \A c \in DOMAIN fetched[t].nodes :
       Owner[c] = t /\ (t \notin todo => Noted(c, fetched[t].nodes[c]))
  /\ \A i \in DOMAIN bundles : \A t \in DOMAIN bundles[i].threads :
       \A c \in DOMAIN bundles[i].threads[t].nodes :
         Owner[c] = t /\ Noted(c, bundles[i].threads[t].nodes[c])
  /\ \A t \in ThreadIds : threadRows[t] # "none" => t \in Started
  /\ DOMAIN fetched \subseteq Started
  /\ \A i \in DOMAIN bundles : DOMAIN bundles[i].threads \subseteq Started

(* What is marked deleted is gone.                                          *)
Deleted ==
  /\ \A c \in Comments : rows[c].text # 0 /\ ~rows[c].live => c \notin there
  /\ \A t \in ThreadIds : threadRows[t] = "deleted" => t \notin ThreadsThere

(* The comments and threads that are live once the first j - 1 bundles are  *)
(* applied, but for what they sweep.                                        *)
Live(c, j) == rows[c].live \/ \E i \in DOMAIN bundles : i < j /\ c \in Held(bundles[i])
LiveThread(t, j) ==
  threadRows[t] = "live" \/ \E i \in DOMAIN bundles : i < j /\ t \in DOMAIN bundles[i].threads

(* A witness is worth as much when it is applied as when it was given: what *)
(* will be live then and is not in the bundle is gone.                      *)
Licensed ==
  \A j \in DOMAIN bundles : bundles[j].complete =>
    /\ \A c \in Comments : Live(c, j) => c \in Held(bundles[j]) \/ c \notin there
    /\ \A t \in ThreadIds :
         LiveThread(t, j) => t \in DOMAIN bundles[j].threads \/ t \notin ThreadsThere

(* The walk has not come to t.                                              *)
Unpassed(t) ==
  /\ t \notin DOMAIN fetched
  /\ paging = "stopped" \/ (paging = "more" /\ \A f \in DOMAIN fetched : f < t)

Gathered(c) ==
  /\ Owner[c] \in DOMAIN fetched
  /\ Covered(fetched[Owner[c]]) => c \in DOMAIN fetched[Owner[c]].nodes

(* The walk passes nothing over that is live or will be.                    *)
Reached ==
  walk # "idle" =>
    /\ \A c \in Comments :
         Live(c, Len(bundles) + 1) => c \notin there \/ Gathered(c) \/ Unpassed(Owner[c])
    /\ \A t \in ThreadIds :
         LiveThread(t, Len(bundles) + 1) =>
           t \notin ThreadsThere \/ t \in DOMAIN fetched \/ Unpassed(t)

(* A thread as it is, or less of it.                                        *)
Exact(t, th) ==
  /\ t \in ThreadsThere /\ th.total = Cardinality(In(t)) /\ DOMAIN th.nodes \subseteq In(t)
  /\ \A c \in DOMAIN th.nodes : th.nodes[c].stamp = LastOf(stamps[c])

(* While nothing changes, what was fetched is what there is.                *)
Still ==
  /\ walk # "idle" /\ quiet =>
       /\ \A t \in DOMAIN fetched : Exact(t, fetched[t])
       /\ \A t \in ThreadsThere : t \in DOMAIN fetched \/ Unpassed(t)
  /\ \A j \in DOMAIN bundles : bundles[j].complete /\ bundles[j].quiet =>
       /\ DOMAIN bundles[j].threads = ThreadsThere
       /\ \A t \in ThreadsThere : /\ Exact(t, bundles[j].threads[t])
                                  /\ DOMAIN bundles[j].threads[t].nodes = In(t)

ThreadsInv == /\ Shaped /\ Honest /\ Deleted /\ Licensed /\ Reached /\ Still
              /\ QuietThreadsAreExact

-----------------------------------------------------------------------------
(* The model's operators.                                                   *)

LEMMA Numbers ==
  /\ MaxEdits \in Nat /\ MaxLag \in Nat /\ MaxTroubles \in Nat
  /\ {ThreadPage, NestedFirst, Nested} \subseteq Nat \ {0}
  /\ Comments \subseteq Nat /\ IsFiniteSet(Comments) /\ ThreadIds \subseteq Nat
  /\ \A c \in Comments : Owner[c] \in ThreadIds
BY ThreadsAssumption DEF ThreadIds, Comments, Range

(* Maps of notes and of threads.                                            *)
LEMMA NoMap == <<>> \in NoteMaps /\ <<>> \in Walked /\ DOMAIN <<>> = {}
<1>1. \A S : <<>> \in [{} -> S]
  <2>1. SUFFICES ASSUME NEW S PROVE <<>> \in [{} -> S]
    OBVIOUS
  <2>2. <<>> \in Seq(S) /\ Len(<<>>) = 0
    BY EmptySeq
  <2>3. <<>> \in [1 .. Len(<<>>) -> S]
    BY <2>2, LenProperties
  <2>4. 1 .. Len(<<>>) = {}
    BY <2>2
  <2>5. QED
    BY <2>3, <2>4
<1>2. QED
  BY <1>1 DEF NoteMaps, Walked

LEMMA MapsOfNotes ==
  /\ \A S \in SUBSET Comments : \A f \in [S -> Notes] : f \in NoteMaps
  /\ \A f \in NoteMaps : /\ DOMAIN f \subseteq Comments /\ f \in [DOMAIN f -> Notes]
                      /\ IsFiniteSet(DOMAIN f)
<1>1. ASSUME NEW f \in NoteMaps
      PROVE  DOMAIN f \subseteq Comments /\ f \in [DOMAIN f -> Notes] /\ IsFiniteSet(DOMAIN f)
  <2>1. PICK S \in SUBSET Comments : f \in [S -> Notes]
    BY DEF NoteMaps
  <2>2. IsFiniteSet(S)
    BY Numbers, FS_Subset
  <2>3. QED
    BY <2>1, <2>2
<1>2. QED
  BY <1>1 DEF NoteMaps

LEMMA MapsOfThreads ==
  /\ \A T \in SUBSET ThreadIds : \A f \in [T -> Shapes] : f \in Walked
  /\ \A f \in Walked : DOMAIN f \subseteq ThreadIds /\ f \in [DOMAIN f -> Shapes]
<1>1. ASSUME NEW f \in Walked
      PROVE  DOMAIN f \subseteq ThreadIds /\ f \in [DOMAIN f -> Shapes]
  <2>1. PICK T \in SUBSET ThreadIds : f \in [T -> Shapes]
    BY DEF Walked
  <2>2. QED
    BY <2>1
<1>2. QED
  BY <1>1 DEF Walked

(* A posted comment has a last edit time.                                   *)
LEMMA LastEdit ==
  ASSUME stamps \in [Comments -> Seq(Nat)], NEW c \in Posted
  PROVE  Len(stamps[c]) \in Nat \ {0} /\ LastOf(stamps[c]) \in Nat
<1>1. stamps[c] \in Seq(Nat) /\ stamps[c] # <<>>
  BY DEF Posted
<1>2. Len(stamps[c]) \in Nat \ {0}
  BY <1>1, EmptySeq, LenProperties
<1>3. QED
  BY <1>1, <1>2, ElementOfSeq DEF LastOf

LEMMA Inside ==
  ASSUME there \subseteq Posted, NEW t
  PROVE  /\ In(t) \subseteq Comments /\ In(t) \subseteq Posted /\ IsFiniteSet(In(t))
         /\ \A c \in In(t) : Owner[c] = t /\ c \in there
         /\ Cardinality(In(t)) \in Nat
         /\ t \in ThreadsThere => In(t) # {} /\ Cardinality(In(t)) # 0
<1>1. In(t) \subseteq Comments /\ In(t) \subseteq Posted /\ \A c \in In(t) : Owner[c] = t /\ c \in there
  BY DEF In, Posted
<1>2. IsFiniteSet(In(t)) /\ Cardinality(In(t)) \in Nat
  BY <1>1, Numbers, FS_Subset, FS_CardinalityType
<1>3. t \in ThreadsThere => In(t) # {}
  BY DEF ThreadsThere, In
<1>4. QED
  BY <1>1, <1>2, <1>3, FS_EmptySet

(* Of a thread of which no more is known than there is, a covered one is    *)
(* known whole.                                                             *)
LEMMA CoveredIsWhole ==
  ASSUME there \subseteq Posted, NEW t, NEW th, th.total = Cardinality(In(t)),
         DOMAIN th.nodes \subseteq In(t), Covered(th)
  PROVE  DOMAIN th.nodes = In(t)
<1>1. IsFiniteSet(In(t)) /\ Cardinality(In(t)) \in Nat
  BY Inside
<1>2. Cardinality(DOMAIN th.nodes) <= Cardinality(In(t)) /\ IsFiniteSet(DOMAIN th.nodes)
  BY <1>1, FS_Subset
<1>3. Cardinality(DOMAIN th.nodes) \in Nat
  BY <1>2, FS_CardinalityType
<1>4. Cardinality(DOMAIN th.nodes) = Cardinality(In(t))
  BY <1>1, <1>2, <1>3 DEF Covered
<1>5. QED
  BY <1>1, <1>4, FS_Subset

(* What a document shows of a thread.                                       *)
LEMMA ShownIs ==
  ASSUME stamps \in [Comments -> Seq(Nat)], there \subseteq Posted,
         NEW t \in ThreadsThere, NEW n, NEW bodies \in BOOLEAN
  PROVE  /\ Shown(t, n, bodies) \in Shapes /\ Exact(t, Shown(t, n, bodies))
         /\ \A c \in DOMAIN Shown(t, n, bodies).nodes :
              Owner[c] = t /\ (bodies => Noted(c, Shown(t, n, bodies).nodes[c]))
<1> DEFINE L == Lowest(In(t), n)
           f == [c \in L |-> [stamp |-> LastOf(stamps[c]),
                              text |-> IF bodies THEN Len(stamps[c]) ELSE 0]]
<1>1. L \subseteq In(t)
  BY DEF Lowest
<1>2. /\ In(t) \subseteq Comments /\ In(t) \subseteq Posted /\ Cardinality(In(t)) \in Nat \ {0}
      /\ \A c \in In(t) : Owner[c] = t
  BY Inside
<1>3. \A c \in L : /\ Len(stamps[c]) \in Nat \ {0} /\ LastOf(stamps[c]) \in Nat
  BY <1>1, <1>2, LastEdit
<1>4. Shown(t, n, bodies) = [total |-> Cardinality(In(t)), nodes |-> f]
  BY DEF Shown
<1> HIDE DEF L
<1>5. f \in [L -> Notes] /\ L \subseteq Comments
  BY <1>1, <1>2, <1>3 DEF Notes
<1>6. f \in NoteMaps
  BY <1>5, MapsOfNotes
<1>7. DOMAIN f = L /\ \A c \in L : /\ f[c].stamp = LastOf(stamps[c])
                                  /\ f[c].text = IF bodies THEN Len(stamps[c]) ELSE 0
  OBVIOUS
<1> HIDE DEF f
<1>8. Shown(t, n, bodies) \in Shapes
  BY <1>2, <1>4, <1>6 DEF Shapes
<1>9. Shown(t, n, bodies).nodes = f /\ Shown(t, n, bodies).total = Cardinality(In(t))
  BY <1>4
<1>10. Exact(t, Shown(t, n, bodies))
  BY <1>1, <1>7, <1>9 DEF Exact
<1>11. \A c \in L : bodies => Noted(c, f[c])
  BY <1>3, <1>7 DEF Noted, LastOf
<1>12. QED
  BY <1>1, <1>2, <1>7, <1>8, <1>9, <1>10, <1>11

-----------------------------------------------------------------------------
(* GitHub: texts are only added, and what is gone stays gone.               *)
Grows ==
  /\ stamps' \in [Comments -> Seq(Nat)] /\ \A c \in Comments : Len(stamps'[c]) <= MaxEdits + 1
  /\ there' \subseteq Posted'
  /\ \A c \in Comments : /\ Len(stamps[c]) <= Len(stamps'[c])
                         /\ \A i \in 1 .. Len(stamps[c]) : stamps'[c][i] = stamps[c][i]
  /\ \A c \in Posted : c \in Posted' /\ (c \in there' => c \in there)
  /\ \A t \in Started : t \in ThreadsThere' => t \in ThreadsThere

LEMMA PostGrows ==
  ASSUME Shaped, NEW c \in Comments, Post(c)
  PROVE  Grows
<1>1. /\ stamps' = [stamps EXCEPT ![c] = <<0>>] /\ there' = there \cup {c}
      /\ \A d \in Posted : d < c
      /\ In(Owner[c]) # {} \/ \A d \in Posted : Owner[d] # Owner[c]
  BY DEF Post
<1>2. stamps \in [Comments -> Seq(Nat)] /\ there \subseteq Posted /\ Comments \subseteq Nat
      /\ MaxEdits \in Nat /\ \A d \in Comments : Len(stamps[d]) <= MaxEdits + 1
  BY Numbers DEF Shaped
<1>3. c \notin Posted /\ Len(stamps[c]) = 0
  <2>1. c \notin Posted
    BY <1>1, <1>2
  <2>2. stamps[c] = <<>>
    BY <2>1 DEF Posted
  <2>3. QED
    BY <2>1, <2>2
<1>4. <<0>> \in Seq(Nat) /\ Len(<<0>>) = 1 /\ <<0>> # <<>>
  OBVIOUS
<1>5. stamps'[c] = <<0>> /\ \A d \in Comments \ {c} : stamps'[d] = stamps[d]
  BY <1>1, <1>2
<1>6. stamps' \in [Comments -> Seq(Nat)]
  BY <1>1, <1>2, <1>4
<1>7. Posted' = Posted \cup {c}
  BY <1>3, <1>4, <1>5 DEF Posted
<1>8. ASSUME NEW d \in Comments PROVE Len(stamps'[d]) <= MaxEdits + 1
  <2>1. CASE d = c
    <3>1. Len(stamps'[d]) = 1
      BY <1>4, <1>5, <2>1
    <3>2. MaxEdits \in Nat
      BY <1>2
    <3>3. QED
      BY <3>1, <3>2
  <2>2. CASE d # c
    BY <1>2, <1>5, <2>2
  <2>3. QED
    BY <2>1, <2>2
<1>9. ASSUME NEW d \in Comments
      PROVE  /\ Len(stamps[d]) <= Len(stamps'[d])
             /\ \A i \in 1 .. Len(stamps[d]) : stamps'[d][i] = stamps[d][i]
  <2>1. Len(stamps[d]) \in Nat
    BY <1>2, LenProperties
  <2>2. QED
    BY <1>3, <1>4, <1>5, <2>1
<1>10. ASSUME NEW t \in Started, t \in ThreadsThere' PROVE t \in ThreadsThere
  <2>1. PICK d \in there' : Owner[d] = t
    BY <1>10 DEF ThreadsThere
  <2>2. CASE d = c
    BY <1>1, <1>10, <2>1, <2>2 DEF Started, ThreadsThere, In
  <2>3. CASE d # c
    BY <1>1, <2>1, <2>3 DEF ThreadsThere
  <2>4. QED
    BY <2>2, <2>3
<1>11. QED
  BY <1>1, <1>2, <1>3, <1>6, <1>7, <1>8, <1>9, <1>10 DEF Grows

(* The bound on edits bounds the texts of each comment.                     *)
LEMMA RoomToEdit ==
  ASSUME NEW c \in Comments, Cardinality(Edits) < MaxEdits, Len(stamps[c]) \in Nat
  PROVE  Len(stamps[c]) <= MaxEdits
<1> DEFINE E == Comments \X (2 .. MaxEdits + 1)
           F == {c} \X (2 .. MaxEdits + 1)
<1>1. SUFFICES ASSUME Len(stamps[c]) >= MaxEdits + 1 PROVE FALSE
  BY Numbers
<1>2. IsFiniteSet(2 .. MaxEdits + 1) /\ Cardinality(2 .. MaxEdits + 1) = MaxEdits
  BY Numbers, FS_Interval
<1>3. IsFiniteSet({c}) /\ Cardinality({c}) = 1
  BY FS_Singleton
<1>4. IsFiniteSet(F) /\ Cardinality(F) = Cardinality({c}) * Cardinality(2 .. MaxEdits + 1)
  BY <1>2, <1>3, FS_Product
<1>5. Cardinality(F) = MaxEdits
  BY <1>2, <1>3, <1>4, Numbers
<1>6. IsFiniteSet(E)
  BY <1>2, Numbers, FS_Product
<1>7. F \subseteq Edits /\ Edits \subseteq E
  <2>1. ASSUME NEW e \in F PROVE e \in Edits
    <3>1. e \in E /\ e[1] = c /\ e[2] \in 2 .. MaxEdits + 1
      OBVIOUS
    <3>2. e[2] <= Len(stamps[e[1]])
      BY <1>1, <3>1, Numbers
    <3>3. QED
      BY <3>1, <3>2 DEF Edits
  <2>2. QED
    BY <2>1 DEF Edits
<1>8. IsFiniteSet(Edits) /\ Cardinality(F) <= Cardinality(Edits)
  BY <1>6, <1>7, FS_Subset
<1>9. Cardinality(Edits) \in Nat
  BY <1>8, FS_CardinalityType
<1>10. QED
  BY <1>5, <1>8, <1>9, Numbers

LEMMA EditGrows ==
  ASSUME Shaped, NEW c \in Comments, NEW sameSecond \in BOOLEAN, Edit(c, sameSecond)
  PROVE  Grows
<1>1. PICK at : /\ at = IF sameSecond THEN LastOf(stamps[c]) ELSE LastOf(stamps[c]) + 1
                /\ stamps' = [stamps EXCEPT ![c] = Append(stamps[c], at)]
  BY DEF Edit
<1>2. c \in there /\ there' = there /\ Cardinality(Edits) < MaxEdits
  BY DEF Edit
<1>3. stamps \in [Comments -> Seq(Nat)] /\ there \subseteq Posted /\ MaxEdits \in Nat
      /\ \A d \in Comments : Len(stamps[d]) <= MaxEdits + 1
  BY Numbers DEF Shaped
<1>4. Len(stamps[c]) \in Nat \ {0} /\ LastOf(stamps[c]) \in Nat
  BY <1>2, <1>3, LastEdit
<1>5. at \in Nat
  BY <1>1, <1>4
<1>6. Len(stamps[c]) <= MaxEdits
  BY <1>2, <1>4, RoomToEdit
<1>7. /\ Append(stamps[c], at) \in Seq(Nat) /\ Len(Append(stamps[c], at)) = Len(stamps[c]) + 1
      /\ \A i \in 1 .. Len(stamps[c]) : Append(stamps[c], at)[i] = stamps[c][i]
  BY <1>3, <1>5, AppendProperties
<1>8. stamps'[c] = Append(stamps[c], at) /\ \A d \in Comments \ {c} : stamps'[d] = stamps[d]
  BY <1>1, <1>3
<1>9. stamps' \in [Comments -> Seq(Nat)]
  BY <1>1, <1>3, <1>7
<1>10. stamps'[c] # <<>>
  BY <1>4, <1>7, <1>8
<1>11. Posted' = Posted
  <2>1. c \in Posted
    BY <1>2, <1>3
  <2>2. QED
    BY <1>8, <1>10, <2>1 DEF Posted
<1>12. \A d \in Comments : Len(stamps'[d]) <= MaxEdits + 1
  BY <1>3, <1>6, <1>4, <1>7, <1>8
<1>13. ASSUME NEW d \in Comments
       PROVE  /\ Len(stamps[d]) <= Len(stamps'[d])
              /\ \A i \in 1 .. Len(stamps[d]) : stamps'[d][i] = stamps[d][i]
  <2>1. Len(stamps[d]) \in Nat
    BY <1>3, LenProperties
  <2>2. CASE d = c
    BY <1>7, <1>8, <2>1, <2>2
  <2>3. CASE d # c
    <3>1. stamps'[d] = stamps[d]
      BY <1>8, <2>3
    <3>2. QED
      BY <2>1, <3>1
  <2>4. QED
    BY <2>2, <2>3
<1>14. ThreadsThere' = ThreadsThere
  BY <1>2 DEF ThreadsThere
<1>15. QED
  BY <1>2, <1>3, <1>9, <1>11, <1>12, <1>13, <1>14 DEF Grows

LEMMA RemoveGrows ==
  ASSUME Shaped, NEW c \in Comments, RemoveComment(c)
  PROVE  Grows
<1>1. there' = there \ {c} /\ stamps' = stamps
  BY DEF RemoveComment
<1>2. stamps \in [Comments -> Seq(Nat)] /\ there \subseteq Posted
      /\ \A d \in Comments : Len(stamps[d]) <= MaxEdits + 1
  BY DEF Shaped
<1>3. Posted' = Posted
  BY <1>1 DEF Posted
<1>4. \A d \in Comments : Len(stamps[d]) <= Len(stamps'[d])
  BY <1>1, <1>2, LenProperties
<1>5. \A t : t \in ThreadsThere' => t \in ThreadsThere
  BY <1>1 DEF ThreadsThere
<1>6. QED
  BY <1>1, <1>2, <1>3, <1>4, <1>5 DEF Grows

(* A text stays the text of its edit time.                                  *)
LEMMA NotesStay ==
  ASSUME stamps \in [Comments -> Seq(Nat)], Grows, NEW c \in Comments, NEW n, Noted(c, n)
  PROVE  Noted(c, n)'
<1>1. Len(stamps[c]) \in Nat /\ Len(stamps'[c]) \in Nat
  BY LenProperties DEF Grows
<1>2. QED
  BY <1>1 DEF Grows, Noted

LEMMA UpstreamSteps ==
  ASSUME ThreadsInv, Grows, Upstream
  PROVE  ThreadsInv'
<1>1. /\ Shaped /\ Honest /\ Deleted /\ Licensed /\ Reached /\ Still
      /\ stamps \in [Comments -> Seq(Nat)]
  BY DEF ThreadsInv, Shaped
<1>2. /\ UNCHANGED <<rows, threadRows, prRow, walk, fetched, todo, paging, baseline>>
      /\ quiet' = FALSE /\ landed' = FALSE
      /\ bundles' = [i \in DOMAIN bundles |-> [bundles[i] EXCEPT !.quiet = FALSE]]
  BY DEF Upstream, stored, hydration
<1>3. bundles \in Seq(Bundles) /\ Len(bundles) \in Nat /\ DOMAIN bundles = 1 .. Len(bundles)
  BY <1>1, LenProperties DEF Shaped
<1>4. /\ DOMAIN bundles' = DOMAIN bundles
      /\ \A i \in DOMAIN bundles : /\ bundles'[i] \in Bundles
                                   /\ bundles'[i].threads = bundles[i].threads
                                   /\ bundles'[i].complete = bundles[i].complete
                                   /\ bundles'[i].quiet = FALSE
  <2>1. ASSUME NEW i \in DOMAIN bundles
        PROVE  [bundles[i] EXCEPT !.quiet = FALSE] \in Bundles
    <3>1. bundles[i] \in Bundles
      BY <1>3, ElementOfSeq
    <3>2. QED
      BY <3>1 DEF Bundles
  <2>2. ASSUME NEW i \in DOMAIN bundles
        PROVE  LET b == [bundles[i] EXCEPT !.quiet = FALSE]
               IN /\ b.threads = bundles[i].threads /\ b.complete = bundles[i].complete
                  /\ b.quiet = FALSE
    <3>1. bundles[i] \in Bundles
      BY <1>3, ElementOfSeq
    <3>2. QED
      BY <3>1 DEF Bundles
  <2>3. DOMAIN bundles' = DOMAIN bundles
        /\ \A i \in DOMAIN bundles : bundles'[i] = [bundles[i] EXCEPT !.quiet = FALSE]
    BY <1>2
  <2>4. QED
    BY <2>1, <2>2, <2>3
<1>5. bundles' \in Seq(Bundles) /\ Len(bundles') = Len(bundles)
  <2>1. bundles' \in [1 .. Len(bundles) -> Bundles]
    BY <1>2, <1>3, <1>4
  <2>2. bundles' \in Seq(Bundles)
    BY <1>3, <2>1, IsASeq
  <2>3. DOMAIN bundles' = 1 .. Len(bundles')  /\ Len(bundles') \in Nat
    BY <2>2, LenProperties
  <2>4. QED
    BY <1>3, <1>4, <2>2, <2>3
<1>6. Shaped'
  BY <1>1, <1>2, <1>4, <1>5 DEF Shaped, Grows
<1>7. \A c \in Comments : \A n : Noted(c, n) => Noted(c, n)'
  BY <1>1, NotesStay
<1>8. Started \subseteq Started'
  BY DEF Started, Grows
<1>9. \A i \in DOMAIN bundles : \A t \in DOMAIN bundles[i].threads :
        \A c \in DOMAIN bundles[i].threads[t].nodes : c \in Comments
  <2>1. SUFFICES ASSUME NEW i \in DOMAIN bundles, NEW t \in DOMAIN bundles[i].threads
                 PROVE  DOMAIN bundles[i].threads[t].nodes \subseteq Comments
    OBVIOUS
  <2>2. bundles[i].threads \in Walked
    <3>1. bundles[i] \in Bundles
      BY <1>3, ElementOfSeq
    <3>2. QED
      BY <3>1 DEF Bundles
  <2>3. bundles[i].threads[t] \in Shapes
    BY <2>2, MapsOfThreads
  <2>4. QED
    BY <2>3, MapsOfNotes DEF Shapes
<1>10. (DOMAIN baseline \subseteq Comments) /\ \A t \in DOMAIN fetched : DOMAIN fetched[t].nodes \subseteq Comments
  <2>1. SUFFICES ASSUME NEW t \in DOMAIN fetched PROVE DOMAIN fetched[t].nodes \subseteq Comments
    BY <1>1, MapsOfNotes DEF Shaped
  <2>2. fetched[t] \in Shapes
    BY <1>1, MapsOfThreads DEF Shaped
  <2>3. QED
    BY <2>2, MapsOfNotes DEF Shapes
<1>11. Honest'
  <2>1. (\A c \in Comments : /\ rows[c].text # 0 => Noted(c, rows[c])
                             /\ rows[c].live => rows[c].text # 0)'
    BY <1>1, <1>2, <1>7 DEF Honest, Noted
  <2>2. (\A c \in DOMAIN baseline : Noted(c, baseline[c]))'
    BY <1>1, <1>2, <1>7, <1>10 DEF Honest, Noted
  <2>3. (\A t \in DOMAIN fetched : \A c \in DOMAIN fetched[t].nodes :
           Owner[c] = t /\ (t \notin todo => Noted(c, fetched[t].nodes[c])))'
    BY <1>1, <1>2, <1>7, <1>10 DEF Honest, Noted
  <2>4. (\A i \in DOMAIN bundles : \A t \in DOMAIN bundles[i].threads :
           \A c \in DOMAIN bundles[i].threads[t].nodes :
             Owner[c] = t /\ Noted(c, bundles[i].threads[t].nodes[c]))'
    <3>1. ASSUME NEW i \in DOMAIN bundles, NEW t \in DOMAIN bundles[i].threads,
                 NEW c \in DOMAIN bundles[i].threads[t].nodes
          PROVE  Owner[c] = t /\ Noted(c, bundles[i].threads[t].nodes[c])'
      <4>1. PICK n : n = bundles[i].threads[t].nodes[c]
        OBVIOUS
      <4>2. Owner[c] = t /\ Noted(c, n) /\ c \in Comments
        BY <1>1, <1>9, <4>1 DEF Honest
      <4>3. Noted(c, n)'
        BY <1>7, <4>2
      <4>4. bundles'[i].threads[t].nodes[c] = n
        BY <1>4, <4>1
      <4>5. QED
        BY <4>2, <4>3, <4>4 DEF Noted
    <3>2. /\ DOMAIN bundles' = DOMAIN bundles
          /\ \A i \in DOMAIN bundles : bundles'[i].threads = bundles[i].threads
      BY <1>4
    <3>3. QED
      BY <3>1, <3>2
  <2>5. /\ \A t \in ThreadIds : threadRows'[t] # "none" => t \in Started'
        /\ DOMAIN fetched' \subseteq Started'
        /\ \A i \in DOMAIN bundles' : DOMAIN bundles'[i].threads \subseteq Started'
    BY <1>1, <1>2, <1>4, <1>8 DEF Honest
  <2>6. QED
    BY <2>1, <2>2, <2>3, <2>4, <2>5 DEF Honest
<1>12. \A c \in Comments : \A n : Noted(c, n) => c \in Posted
  <2>1. SUFFICES ASSUME NEW c \in Comments, stamps[c] = <<>>, NEW n, Noted(c, n) PROVE FALSE
    BY DEF Posted
  <2>2. QED
    BY <2>1 DEF Noted
<1>13. Deleted'
  <2>1. \A c \in Comments : rows'[c].text # 0 /\ ~rows'[c].live => c \notin there'
    BY <1>1, <1>2, <1>12 DEF Honest, Deleted, Grows
  <2>2. \A t \in ThreadIds : threadRows'[t] = "deleted" => t \notin ThreadsThere'
    BY <1>1, <1>2 DEF Honest, Deleted, Grows
  <2>3. QED
    BY <2>1, <2>2 DEF Deleted
<1>14. \A i \in DOMAIN bundles : Held(bundles[i])' = Held(bundles[i])
  BY <1>4 DEF Held
<1>15. ASSUME NEW c \in Comments, NEW j PROVE Live(c, j)' <=> Live(c, j)
  BY <1>2, <1>4, <1>14 DEF Live
<1>17. ASSUME NEW t, NEW j PROVE LiveThread(t, j)' <=> LiveThread(t, j)
  BY <1>2, <1>4 DEF LiveThread
<1>18. ASSUME NEW c \in Comments, NEW j, Live(c, j) PROVE c \in there' => c \in there
  <2>1. c \in Posted
    <3>1. CASE rows[c].live
      BY <1>1, <1>12, <3>1 DEF Honest
    <3>2. ASSUME NEW i \in DOMAIN bundles, c \in Held(bundles[i]) PROVE c \in Posted
      BY <1>1, <1>12, <3>2 DEF Honest, Held
    <3>3. QED
      BY <1>18, <3>1, <3>2 DEF Live
  <2>2. QED
    BY <2>1 DEF Grows
<1>19. ASSUME NEW t \in ThreadIds, NEW j, LiveThread(t, j)
       PROVE  t \in ThreadsThere' => t \in ThreadsThere
  <2>1. t \in Started
    BY <1>1, <1>19 DEF Honest, LiveThread
  <2>2. QED
    BY <2>1 DEF Grows
<1>20. Licensed'
  <2>1. SUFFICES ASSUME NEW j \in DOMAIN bundles, bundles[j].complete
                 PROVE  /\ \A c \in Comments :
                             Live(c, j)' => c \in Held(bundles[j])' \/ c \notin there'
                        /\ \A t \in ThreadIds :
                             LiveThread(t, j)' => \/ t \in DOMAIN bundles'[j].threads
                                                  \/ t \notin ThreadsThere'
    BY <1>4 DEF Licensed
  <2>2. QED
    BY <1>1, <1>4, <1>14, <1>15, <1>17, <1>18, <1>19, <2>1 DEF Licensed
<1>21. \A t : (Unpassed(t)' <=> Unpassed(t)) /\ (\A c \in Comments : Gathered(c)' <=> Gathered(c))
  BY <1>2 DEF Unpassed, Gathered, Covered
<1>22. Reached'
  <2>1. SUFFICES ASSUME walk # "idle"
                 PROVE  /\ \A c \in Comments :
                             Live(c, Len(bundles) + 1)' =>
                               c \notin there' \/ Gathered(c)' \/ Unpassed(Owner[c])'
                        /\ \A t \in ThreadIds :
                             LiveThread(t, Len(bundles) + 1)' =>
                               t \notin ThreadsThere' \/ t \in DOMAIN fetched \/ Unpassed(t)'
    BY <1>2, <1>5 DEF Reached
  <2>2. QED
    BY <1>1, <1>5, <1>15, <1>17, <1>18, <1>19, <1>21, <2>1 DEF Reached
<1>23. Still'
  BY <1>2, <1>4 DEF Still
<1>24. QuietThreadsAreExact'
  BY <1>2 DEF QuietThreadsAreExact
<1>25. QED
  BY <1>6, <1>11, <1>13, <1>20, <1>22, <1>23, <1>24 DEF ThreadsInv

-----------------------------------------------------------------------------
(* The worker.                                                              *)
LEMMA SameUpstream ==
  ASSUME UNCHANGED upstream
  PROVE  /\ Posted' = Posted /\ Started' = Started /\ ThreadsThere' = ThreadsThere
         /\ \A c, n : Noted(c, n)' <=> Noted(c, n)
         /\ \A t : In(t)' = In(t)
         /\ \A t, th : Exact(t, th)' <=> Exact(t, th)
<1>1. stamps' = stamps /\ there' = there
  BY DEF upstream
<1>2. Posted' = Posted /\ ThreadsThere' = ThreadsThere /\ \A t : In(t)' = In(t)
  BY <1>1 DEF Posted, ThreadsThere, In
<1>3. Started' = Started
  BY <1>2 DEF Started
<1>4. \A c, n : Noted(c, n)' <=> Noted(c, n)
  BY <1>1 DEF Noted
<1>5. \A t, th : Exact(t, th)' <=> Exact(t, th)
  BY <1>1, <1>2 DEF Exact
<1>6. QED
  BY <1>2, <1>3, <1>4, <1>5

(* What a step of the hydration has to keep.                                *)
WalkShaped ==
  /\ fetched \in Walked /\ todo \subseteq DOMAIN fetched /\ baseline \in NoteMaps
  /\ walk \in {"idle", "full", "skeleton"} /\ paging \in {"more", "end", "stopped"}
  /\ walk # "skeleton" => todo = {}
  /\ walk = "idle" => paging = "end"
  /\ walk # "idle" => Len(bundles) <= MaxLag
  /\ quiet \in BOOLEAN

WalkHonest ==
  /\ \A c \in DOMAIN baseline : Noted(c, baseline[c])
  /\ \A t \in DOMAIN fetched :
       /\ t \in Started
       /\ \A c \in DOMAIN fetched[t].nodes :
            Owner[c] = t /\ (t \notin todo => Noted(c, fetched[t].nodes[c]))

WalkStill ==
  walk # "idle" /\ quiet =>
    /\ \A t \in DOMAIN fetched : Exact(t, fetched[t])
    /\ \A t \in ThreadsThere : t \in DOMAIN fetched \/ Unpassed(t)

LEMMA WalkHolds ==
  ASSUME ThreadsInv
  PROVE  WalkShaped /\ WalkHonest /\ WalkStill /\ Reached
BY DEF ThreadsInv, Shaped, Honest, Still, WalkShaped, WalkHonest, WalkStill

LEMMA WalkSteps ==
  ASSUME ThreadsInv, UNCHANGED <<upstream, stored, bundles, landed>>,
         WalkShaped', WalkHonest', WalkStill', Reached'
  PROVE  ThreadsInv'
<1>1. /\ Shaped /\ Honest /\ Deleted /\ Licensed /\ Reached /\ Still /\ QuietThreadsAreExact
      /\ UNCHANGED <<stamps, there, rows, threadRows, prRow, bundles, landed>>
  BY DEF ThreadsInv, upstream, stored
<1>2. /\ Posted' = Posted /\ Started' = Started /\ ThreadsThere' = ThreadsThere
      /\ \A c, n : Noted(c, n)' <=> Noted(c, n)
      /\ \A t : In(t)' = In(t)
      /\ \A t, th : Exact(t, th)' <=> Exact(t, th)
  BY SameUpstream
<1>3. Shaped'
  BY <1>1, <1>2 DEF Shaped, WalkShaped
<1>4. Honest'
  <2>1. (\A c \in Comments : /\ rows[c].text # 0 => Noted(c, rows[c])
                             /\ rows[c].live => rows[c].text # 0)'
    BY <1>1 DEF Honest, Noted
  <2>2. (\A i \in DOMAIN bundles : \A t \in DOMAIN bundles[i].threads :
           \A c \in DOMAIN bundles[i].threads[t].nodes :
             Owner[c] = t /\ Noted(c, bundles[i].threads[t].nodes[c]))'
    BY <1>1 DEF Honest, Noted
  <2>3. /\ (\A c \in DOMAIN baseline : Noted(c, baseline[c]))'
        /\ (\A t \in DOMAIN fetched : \A c \in DOMAIN fetched[t].nodes :
              Owner[c] = t /\ (t \notin todo => Noted(c, fetched[t].nodes[c])))'
        /\ (DOMAIN fetched \subseteq Started)'
    BY DEF WalkHonest
  <2>4. /\ \A t \in ThreadIds : threadRows'[t] # "none" => t \in Started'
        /\ \A i \in DOMAIN bundles' : DOMAIN bundles'[i].threads \subseteq Started'
    BY <1>1, <1>2 DEF Honest
  <2>5. QED
    BY <2>1, <2>2, <2>3, <2>4 DEF Honest
<1>5. Deleted'
  BY <1>1, <1>2 DEF Deleted
<1>6. Licensed'
  BY <1>1, <1>2 DEF Licensed, Live, LiveThread, Held
<1>7. Still'
  <2>1. (walk # "idle" /\ quiet =>
           /\ \A t \in DOMAIN fetched : Exact(t, fetched[t])
           /\ \A t \in ThreadsThere : t \in DOMAIN fetched \/ Unpassed(t))'
    BY DEF WalkStill
  <2>2. (\A j \in DOMAIN bundles : bundles[j].complete /\ bundles[j].quiet =>
           /\ DOMAIN bundles[j].threads = ThreadsThere
           /\ \A t \in ThreadsThere : /\ Exact(t, bundles[j].threads[t])
                                      /\ DOMAIN bundles[j].threads[t].nodes = In(t))'
    BY <1>1, <1>2 DEF Still, Exact
  <2>3. QED
    BY <2>1, <2>2 DEF Still
<1>8. QuietThreadsAreExact'
  BY <1>1, <1>2 DEF QuietThreadsAreExact
<1>9. QED
  BY <1>3, <1>4, <1>5, <1>6, <1>7, <1>8 DEF ThreadsInv

LEMMA HydrateSteps ==
  ASSUME ThreadsInv, NEW kind \in {"full", "skeleton"}, Hydrate(kind)
  PROVE  ThreadsInv'
<1>1. /\ UNCHANGED <<upstream, stored, bundles, landed>>
      /\ Len(bundles) <= MaxLag /\ quiet' = TRUE
      /\ walk' = kind /\ paging' = "more" /\ fetched' = <<>> /\ todo' = {}
  BY DEF Hydrate
<1>2. Shaped /\ Honest
  BY DEF ThreadsInv
<1>3. DOMAIN fetched' = {}
  BY <1>1, NoMap
<1>4. baseline' \in NoteMaps /\ \A c \in DOMAIN baseline' : Noted(c, baseline'[c])
  <2>1. CASE kind = "full"
    BY <2>1, NoMap DEF Hydrate
  <2>2. CASE kind # "full"
    <3> DEFINE D == {d \in Comments : rows[d].live}
    <3>1. baseline' = [c \in D |-> [stamp |-> rows[c].stamp, text |-> rows[c].text]]
      BY <2>2 DEF Hydrate
    <3>2. \A c \in D : rows[c] \in [stamp : Nat, text : Nat, live : BOOLEAN]
                       /\ Noted(c, rows[c])
      BY <1>2 DEF Shaped, Honest
    <3>3. D \in SUBSET Comments
      OBVIOUS
    <3> HIDE DEF D
    <3>4. baseline' \in [D -> Notes]
      BY <3>1, <3>2 DEF Notes
    <3>5. baseline' \in NoteMaps
      BY <3>3, <3>4, MapsOfNotes
    <3>6. ASSUME NEW c \in DOMAIN baseline' PROVE Noted(c, baseline'[c])
      <4>1. c \in D /\ baseline'[c].stamp = rows[c].stamp /\ baseline'[c].text = rows[c].text
        BY <3>1
      <4>2. QED
        BY <3>2, <4>1 DEF Noted
    <3>7. QED
      BY <3>5, <3>6
  <2>3. QED
    BY <2>1, <2>2
<1>5. WalkShaped'
  BY <1>1, <1>3, <1>4, NoMap DEF WalkShaped
<1>6. WalkHonest'
  <2>1. stamps' = stamps
    BY <1>1 DEF upstream
  <2>2. (\A c \in DOMAIN baseline : Noted(c, baseline[c]))'
    BY <1>4, <2>1 DEF Noted
  <2>3. QED
    BY <1>3, <2>2 DEF WalkHonest
<1>7. \A t : Unpassed(t)'
  BY <1>1, <1>3 DEF Unpassed
<1>8. WalkStill'
  BY <1>3, <1>7 DEF WalkStill
<1>9. Reached'
  BY <1>7 DEF Reached
<1>10. QED
  BY <1>1, <1>5, <1>6, <1>8, <1>9, WalkSteps

(* The lowest of a set are below the rest of it.                            *)
LEMMA LowestAreLow ==
  ASSUME NEW S \in SUBSET Nat, NEW n \in Nat, NEW x \in Lowest(S, n), NEW y \in S \ Lowest(S, n)
  PROVE  x < y
<1> DEFINE U(z) == {w \in S : w < z}
<1>1. SUFFICES ASSUME y < x PROVE FALSE
  <2>1. x \in Nat /\ y \in Nat /\ x # y
    BY DEF Lowest
  <2>2. QED
    BY <1>1, <2>1
<1>2. x \in S /\ x \in Nat /\ y \in Nat /\ Cardinality(U(x)) < n /\ ~(Cardinality(U(y)) < n)
  BY DEF Lowest
<1>3. U(y) \subseteq U(x) /\ U(x) \subseteq 0 .. x
  <2>1. S \subseteq Nat
    OBVIOUS
  <2>2. ASSUME NEW w \in U(y) PROVE w \in U(x)
    <3>1. w \in S /\ w \in Nat /\ w < y
      BY <2>1, <2>2
    <3>2. w < x
      BY <1>1, <1>2, <3>1
    <3>3. QED
      BY <3>1, <3>2
  <2>3. ASSUME NEW w \in U(x) PROVE w \in 0 .. x
    <3>1. w \in Nat /\ w < x
      BY <2>1, <2>3
    <3>2. QED
      BY <1>2, <3>1
  <2>4. QED
    BY <2>2, <2>3
<1>4. IsFiniteSet(0 .. x)
  BY <1>2, FS_Interval
<1>5. IsFiniteSet(U(x)) /\ IsFiniteSet(U(y)) /\ Cardinality(U(y)) <= Cardinality(U(x))
  BY <1>3, <1>4, FS_Subset
<1>6. Cardinality(U(x)) \in Nat /\ Cardinality(U(y)) \in Nat
  BY <1>5, FS_CardinalityType
<1> HIDE DEF U
<1>7. QED
  BY <1>2, <1>5, <1>6

LEMMA PageSteps ==
  ASSUME ThreadsInv, Page
  PROVE  ThreadsInv'
<1> DEFINE later == {t \in ThreadsThere : \A f \in DOMAIN fetched : f < t}
           page == Lowest(later, ThreadPage)
           n == IF fetched = <<>> THEN NestedFirst ELSE Nested
           full == walk = "full"
<1>1. /\ UNCHANGED <<upstream, stored, bundles, walk, baseline, quiet, landed>>
      /\ paging = "more"
      /\ fetched' = [t \in DOMAIN fetched \cup page |->
                       IF t \in page THEN Shown(t, n, full) ELSE fetched[t]]
      /\ todo' = (IF walk = "full" THEN {} ELSE todo \cup page)
      /\ paging' = (IF page = later THEN "end" ELSE "more")
  BY DEF Page
<1>2. WalkShaped /\ WalkHonest /\ WalkStill /\ Reached
  BY WalkHolds
<1>3. /\ stamps \in [Comments -> Seq(Nat)] /\ there \subseteq Posted
      /\ fetched \in [DOMAIN fetched -> Shapes] /\ DOMAIN fetched \subseteq ThreadIds
      /\ ThreadIds \subseteq Nat /\ ThreadPage \in Nat
  BY <1>2, MapsOfThreads, Numbers DEF ThreadsInv, Shaped, WalkShaped
<1>4. ThreadsThere \subseteq ThreadIds /\ ThreadsThere \subseteq Started
  BY <1>3, Numbers DEF ThreadsThere, Started, Posted
<1>5. /\ page \subseteq later /\ later \subseteq ThreadsThere
      /\ page \cap DOMAIN fetched = {}
      /\ \A t \in later, f \in DOMAIN fetched : f < t
      /\ \A t \in ThreadsThere : (\A f \in DOMAIN fetched : f < t) => t \in later
  <2>1. page \subseteq later /\ later \subseteq ThreadsThere
    BY DEF Lowest
  <2>2. later \cap DOMAIN fetched = {}
    BY <1>3
  <2>3. QED
    BY <2>1, <2>2
<1>6. \A t \in later \ page, f \in page : f < t
  BY <1>3, <1>4, <1>5, LowestAreLow
<1>7. full \in BOOLEAN
  OBVIOUS
<1> HIDE DEF later, page, n, full
<1>8. ASSUME NEW t \in page
      PROVE  /\ fetched'[t] = Shown(t, n, full) /\ fetched'[t] \in Shapes
             /\ Exact(t, fetched'[t])
             /\ \A c \in DOMAIN fetched'[t].nodes :
                  Owner[c] = t /\ (full => Noted(c, fetched'[t].nodes[c]))
  <2>1. fetched'[t] = Shown(t, n, full)
    BY <1>1
  <2>2. t \in ThreadsThere
    BY <1>5
  <2>3. QED
    BY <1>3, <1>7, <2>1, <2>2, ShownIs
<1>9. ASSUME NEW t \in DOMAIN fetched PROVE fetched'[t] = fetched[t] /\ t \notin page
  BY <1>1, <1>5
<1>10. DOMAIN fetched' = DOMAIN fetched \cup page
  BY <1>1
<1>11. WalkShaped'
  <2>1. fetched' \in [DOMAIN fetched \cup page -> Shapes]
    BY <1>1, <1>3, <1>8, <1>9
  <2>2. DOMAIN fetched \cup page \subseteq ThreadIds
    BY <1>3, <1>4, <1>5
  <2>3. fetched' \in Walked
    BY <2>1, <2>2, MapsOfThreads
  <2>4. todo' \subseteq DOMAIN fetched' /\ (walk # "skeleton" => todo' = {})
    <3>1. walk # "idle"
      BY <1>1, <1>2 DEF WalkShaped
    <3>2. QED
      BY <1>1, <1>2, <1>10, <3>1 DEF WalkShaped
  <2>5. QED
    BY <1>1, <1>2, <2>3, <2>4 DEF WalkShaped

<1>12. WalkHonest'
  <2>1. stamps' = stamps /\ Started' = Started /\ walk' = walk /\ baseline' = baseline
        /\ \A c, k : Noted(c, k)' <=> Noted(c, k)
    BY <1>1, SameUpstream DEF upstream
  <2>2. (\A c \in DOMAIN baseline : Noted(c, baseline[c]))'
    BY <1>2, <2>1 DEF WalkHonest, Noted
  <2>3. ASSUME NEW t \in DOMAIN fetched'
        PROVE  /\ t \in Started
               /\ \A c \in DOMAIN fetched'[t].nodes :
                    Owner[c] = t /\ (t \notin todo' => Noted(c, fetched'[t].nodes[c]))
    <3>1. CASE t \in page
      <4>1. t \notin todo' => full
        BY <1>1, <1>2, <3>1 DEF WalkShaped, full
      <4>2. QED
        BY <1>4, <1>5, <1>8, <3>1, <4>1
    <3>2. CASE t \notin page
      <4>1. t \in DOMAIN fetched /\ fetched'[t] = fetched[t]
        BY <1>9, <1>10, <3>2
      <4>2. t \notin todo' => t \notin todo
        BY <1>1, <1>2 DEF WalkShaped
      <4>3. QED
        BY <1>2, <4>1, <4>2 DEF WalkHonest
    <3>3. QED
      BY <3>1, <3>2
  <2>4. QED
    BY <2>1, <2>2, <2>3 DEF WalkHonest, Noted
<1>13. \A t \in ThreadsThere : Unpassed(t) => t \in page \/ Unpassed(t)'
  <2>1. SUFFICES ASSUME NEW t \in ThreadsThere, Unpassed(t), t \notin page PROVE Unpassed(t)'
    OBVIOUS
  <2>2. t \in later /\ t \notin DOMAIN fetched'
    BY <1>1, <1>5, <1>10, <2>1 DEF Unpassed
  <2>3. paging' = "more"
    BY <1>1, <2>1, <2>2
  <2>4. \A f \in DOMAIN fetched' : f < t
    BY <1>5, <1>6, <1>10, <2>1, <2>2
  <2>5. QED
    BY <2>2, <2>3, <2>4 DEF Unpassed
<1>14. WalkStill'
  <2>1. SUFFICES ASSUME walk # "idle", quiet
                 PROVE  /\ \A t \in DOMAIN fetched' : Exact(t, fetched'[t])
                        /\ \A t \in ThreadsThere : t \in DOMAIN fetched' \/ Unpassed(t)'
    <3>1. walk' = walk /\ quiet' = quiet /\ ThreadsThere' = ThreadsThere
          /\ \A t, th : Exact(t, th)' <=> Exact(t, th)
      BY <1>1, SameUpstream
    <3>2. stamps' = stamps /\ \A t : In(t)' = In(t)
      BY <1>1, SameUpstream DEF upstream
    <3>3. QED
      BY <2>1, <3>1, <3>2 DEF WalkStill, Exact
  <2>2. ASSUME NEW t \in DOMAIN fetched' PROVE Exact(t, fetched'[t])
    <3>1. CASE t \in page
      BY <1>8, <3>1
    <3>2. CASE t \notin page
      BY <1>2, <1>9, <1>10, <2>1, <3>2 DEF WalkStill
    <3>3. QED
      BY <3>1, <3>2
  <2>3. ASSUME NEW t \in ThreadsThere PROVE t \in DOMAIN fetched' \/ Unpassed(t)'
    BY <1>2, <1>10, <1>13, <2>1 DEF WalkStill
  <2>4. QED
    BY <2>2, <2>3
<1>15. Reached'
  <2>1. /\ walk' = walk /\ bundles' = bundles /\ there' = there /\ rows' = rows
        /\ threadRows' = threadRows /\ ThreadsThere' = ThreadsThere
    BY <1>1, SameUpstream DEF upstream, stored
  <2>2. /\ \A c, j : Live(c, j)' <=> Live(c, j)
        /\ \A t, j : LiveThread(t, j)' <=> LiveThread(t, j)
    BY <2>1 DEF Live, LiveThread, Held
  <2>3. ASSUME NEW c \in there, Owner[c] \in DOMAIN fetched, Gathered(c) PROVE Gathered(c)'
    BY <1>9, <1>10, <2>3 DEF Gathered, Covered
  <2>4. ASSUME NEW c \in there, Owner[c] \in page PROVE Gathered(c)'
    <3>1. PICK th : th = fetched'[Owner[c]]
      OBVIOUS
    <3>2. Exact(Owner[c], th) /\ c \in In(Owner[c])
      BY <1>8, <2>4, <3>1 DEF In
    <3>3. Covered(th) => c \in DOMAIN th.nodes
      BY <1>3, <3>2, CoveredIsWhole DEF Exact
    <3>4. QED
      BY <1>10, <2>4, <3>1, <3>3 DEF Gathered, Covered
  <2>5. SUFFICES ASSUME walk # "idle"
                 PROVE  /\ \A c \in Comments :
                             Live(c, Len(bundles) + 1) =>
                               c \notin there \/ Gathered(c)' \/ Unpassed(Owner[c])'
                        /\ \A t \in ThreadIds :
                             LiveThread(t, Len(bundles) + 1) =>
                               t \notin ThreadsThere \/ t \in DOMAIN fetched' \/ Unpassed(t)'
    <3>1. Len(bundles') = Len(bundles)
      BY <2>1
    <3>2. QED
      BY <2>1, <2>2, <2>5, <3>1 DEF Reached
  <2>6. ASSUME NEW c \in Comments, Live(c, Len(bundles) + 1), c \in there
        PROVE  Gathered(c)' \/ Unpassed(Owner[c])'
    <3>1. Gathered(c) \/ Unpassed(Owner[c])
      BY <1>2, <2>5, <2>6 DEF Reached
    <3>2. Owner[c] \in ThreadsThere
      BY <2>6 DEF ThreadsThere
    <3>3. Gathered(c) => Owner[c] \in DOMAIN fetched
      BY DEF Gathered
    <3>4. QED
      BY <1>13, <2>3, <2>4, <2>6, <3>1, <3>2, <3>3
  <2>7. ASSUME NEW t \in ThreadIds, LiveThread(t, Len(bundles) + 1), t \in ThreadsThere
        PROVE  t \in DOMAIN fetched' \/ Unpassed(t)'
    BY <1>2, <1>10, <1>13, <2>5, <2>7 DEF Reached
  <2>8. QED
    BY <2>6, <2>7
<1>16. UNCHANGED <<upstream, stored, bundles, landed>>
  BY <1>1
<1>17. QED
  BY <1>11, <1>12, <1>14, <1>15, <1>16, WalkSteps

LEMMA StopPagingSteps ==
  ASSUME ThreadsInv, StopPaging
  PROVE  ThreadsInv'
<1>1. /\ UNCHANGED <<upstream, stored, bundles, walk, fetched, todo, baseline, quiet, landed>>
      /\ paging = "more" /\ paging' = "stopped"
  BY DEF StopPaging
<1>2. WalkShaped /\ WalkHonest /\ WalkStill /\ Reached
  BY WalkHolds
<1>3. /\ ThreadsThere' = ThreadsThere /\ Started' = Started
      /\ stamps' = stamps /\ there' = there /\ rows' = rows /\ threadRows' = threadRows
      /\ \A t, th : Exact(t, th)' <=> Exact(t, th)
      /\ \A t : In(t)' = In(t)
  BY <1>1, SameUpstream DEF upstream, stored
<1>4. \A t : Unpassed(t) => Unpassed(t)'
  BY <1>1 DEF Unpassed
<1>5. WalkShaped'
  BY <1>1, <1>2 DEF WalkShaped
<1>6. WalkHonest'
  BY <1>1, <1>2, <1>3 DEF WalkHonest, Noted
<1>7. WalkStill'
  BY <1>1, <1>2, <1>3, <1>4 DEF WalkStill, Exact
<1>8. Reached'
  BY <1>1, <1>2, <1>3, <1>4 DEF Reached, Live, LiveThread, Held, Gathered, Covered
<1>9. QED
  BY <1>1, <1>5, <1>6, <1>7, <1>8, WalkSteps

LEMMA IdleHolds ==
  ASSUME Shaped, quiet' = quiet, Idle
  PROVE  WalkShaped' /\ WalkHonest' /\ WalkStill' /\ Reached'
<1>1. /\ walk' = "idle" /\ fetched' = <<>> /\ todo' = {} /\ paging' = "end" /\ baseline' = <<>>
      /\ quiet' \in BOOLEAN /\ DOMAIN <<>> = {}
  BY NoMap DEF Idle, Shaped
<1>2. WalkShaped'
  BY <1>1, NoMap DEF WalkShaped
<1>3. WalkHonest'
  BY <1>1 DEF WalkHonest
<1>4. WalkStill' /\ Reached'
  BY <1>1 DEF WalkStill, Reached
<1>5. QED
  BY <1>2, <1>3, <1>4

LEMMA AbandonSteps ==
  ASSUME ThreadsInv, Abandon
  PROVE  ThreadsInv'
<1>1. UNCHANGED <<upstream, stored, bundles, quiet, landed>> /\ Idle /\ Shaped
  BY DEF Abandon, ThreadsInv
<1>2. QED
  BY <1>1, IdleHolds, WalkSteps

LEMMA KillSteps ==
  ASSUME ThreadsInv, Kill
  PROVE  ThreadsInv'
<1>1. UNCHANGED <<upstream, stored, quiet, landed>> /\ Idle /\ bundles' = <<>>
  BY DEF Kill
<1>2. Shaped /\ Honest /\ Deleted /\ QuietThreadsAreExact
  BY DEF ThreadsInv
<1>3. WalkShaped' /\ WalkHonest' /\ WalkStill' /\ Reached'
  BY <1>1, <1>2, IdleHolds
<1>4. /\ stamps' = stamps /\ there' = there /\ rows' = rows /\ threadRows' = threadRows
      /\ prRow' = prRow /\ Posted' = Posted /\ Started' = Started /\ ThreadsThere' = ThreadsThere
  BY <1>1, SameUpstream DEF upstream, stored
<1>5. DOMAIN bundles' = {} /\ bundles' \in Seq(Bundles) /\ Len(bundles') = 0
  BY <1>1, NoMap
<1>6. Shaped'
  BY <1>1, <1>2, <1>3, <1>4, <1>5, Numbers DEF Shaped, WalkShaped
<1>7. Honest'
  BY <1>2, <1>3, <1>4, <1>5 DEF Honest, WalkHonest, Noted
<1>8. Deleted' /\ Licensed'
  BY <1>2, <1>4, <1>5 DEF Deleted, Licensed
<1>9. Still'
  BY <1>3, <1>5 DEF Still, WalkStill
<1>10. QuietThreadsAreExact'
  BY <1>1, <1>2, <1>4 DEF QuietThreadsAreExact
<1>11. QED
  BY <1>3, <1>6, <1>7, <1>8, <1>9, <1>10 DEF ThreadsInv

(* What a skeleton becomes: no less honest, and no wider than what is there. *)
LEMMA ResolvedIs ==
  ASSUME Shaped, WalkHonest, NEW t \in todo, NEW fails, NEW th, NEW new,
         th = fetched[t], new = Resolved(t, fails)
  PROVE  /\ new \in Shapes
         /\ \A c \in DOMAIN new.nodes : Owner[c] = t /\ Noted(c, new.nodes[c])
         /\ Exact(t, th) => Exact(t, new)
         /\ \A c \in In(t) : (Covered(th) => c \in DOMAIN th.nodes) =>
                               (Covered(new) => c \in DOMAIN new.nodes)
<1>1. /\ th \in Shapes /\ t \in DOMAIN fetched
      /\ \A c \in DOMAIN th.nodes : Owner[c] = t
      /\ \A c \in DOMAIN baseline : Noted(c, baseline[c])
      /\ baseline \in [DOMAIN baseline -> Notes]
  BY MapsOfThreads, MapsOfNotes DEF Shaped, WalkHonest
<1>2. /\ th = [total |-> th.total, nodes |-> th.nodes] /\ th.total \in Nat \ {0}
      /\ th.nodes \in [DOMAIN th.nodes -> Notes] /\ DOMAIN th.nodes \subseteq Comments
      /\ th.nodes \in NoteMaps
  BY <1>1, MapsOfNotes DEF Shapes
<1>3. CASE Resolvable(t)
  <2> DEFINE g == [c \in DOMAIN th.nodes |-> [stamp |-> th.nodes[c].stamp, text |-> baseline[c].text]]
  <2>1. new = [th EXCEPT !.nodes = g]
    BY <1>3 DEF Resolved
  <2>2. new = [total |-> th.total, nodes |-> g]
    BY <1>2, <2>1
  <2>3. \A c \in DOMAIN th.nodes :
          c \in DOMAIN baseline /\ baseline[c].stamp = th.nodes[c].stamp
    BY <1>3 DEF Resolvable
  <2>4. ASSUME NEW c \in DOMAIN th.nodes
        PROVE  /\ g[c] \in Notes /\ g[c].stamp = th.nodes[c].stamp
               /\ g[c].text = baseline[c].text
    <3>1. th.nodes[c] \in Notes /\ baseline[c] \in Notes
      BY <1>1, <1>2, <2>3
    <3>2. g[c] = [stamp |-> th.nodes[c].stamp, text |-> baseline[c].text]
      OBVIOUS
    <3>3. QED
      BY <3>1, <3>2 DEF Notes
  <2>5. DOMAIN g = DOMAIN th.nodes
    OBVIOUS
  <2>6. g \in [DOMAIN th.nodes -> Notes]
    BY <2>4
  <2> HIDE DEF g
  <2>7. g \in NoteMaps
    BY <1>2, <2>6, MapsOfNotes
  <2>8. new \in Shapes /\ new.nodes = g /\ new.total = th.total
    <3>1. PICK m : m = th.total /\ m \in Nat \ {0}
      BY <1>2
    <3>2. new = [total |-> m, nodes |-> g]
      BY <2>2, <3>1
    <3>3. new \in Shapes
      BY <2>7, <3>1, <3>2 DEF Shapes
    <3>4. new.nodes = g /\ new.total = m
      BY <3>2
    <3>5. QED
      BY <3>1, <3>3, <3>4
  <2>9. ASSUME NEW c \in DOMAIN new.nodes PROVE Owner[c] = t /\ Noted(c, new.nodes[c])
    <3>1. c \in DOMAIN th.nodes
      BY <2>5, <2>8
    <3>2. Noted(c, baseline[c]) /\ g[c].stamp = baseline[c].stamp /\ g[c].text = baseline[c].text
      BY <1>1, <2>3, <2>4, <3>1
    <3>3. QED
      BY <1>1, <2>8, <3>1, <3>2 DEF Noted
  <2>10. Exact(t, th) => Exact(t, new)
    BY <2>4, <2>5, <2>8 DEF Exact
  <2>11. QED
    BY <2>5, <2>8, <2>9, <2>10 DEF Covered
<1>4. CASE ~Resolvable(t) /\ (fails \/ t \notin ThreadsThere)
  <2>1. new = [th EXCEPT !.nodes = <<>>]
    BY <1>4, Zenon DEF Resolved
  <2> DEFINE e == <<>>
  <2>2. e \in NoteMaps /\ DOMAIN e = {} /\ new = [th EXCEPT !.nodes = e]
    BY <2>1, NoMap
  <2> HIDE DEF e
  <2>8. PICK m : m = th.total /\ m \in Nat \ {0}
    BY <1>2
  <2>9. new = [total |-> m, nodes |-> e]
    BY <1>2, <2>2, <2>8
  <2>3. new \in Shapes
    BY <2>2, <2>8, <2>9 DEF Shapes
  <2>4. new.total = m /\ DOMAIN new.nodes = {}
    BY <2>2, <2>9
  <2>5. ~Covered(new)
    <3>1. Cardinality(DOMAIN new.nodes) = 0
      BY <2>4, FS_EmptySet
    <3>2. QED
      BY <2>4, <2>8, <3>1 DEF Covered
  <2>6. Exact(t, th) => Exact(t, new)
    BY <2>4, <2>8 DEF Exact
  <2>7. QED
    BY <2>3, <2>4, <2>5, <2>6
<1>5. CASE ~Resolvable(t) /\ ~(fails \/ t \notin ThreadsThere)
  <2>1. new = Shown(t, Nested, TRUE)
    BY <1>5, Zenon DEF Resolved
  <2>2. t \in ThreadsThere /\ stamps \in [Comments -> Seq(Nat)] /\ there \subseteq Posted
    BY <1>5 DEF Shaped
  <2>3. /\ new \in Shapes /\ Exact(t, new)
        /\ \A c \in DOMAIN new.nodes : Owner[c] = t /\ Noted(c, new.nodes[c])
    BY <2>1, <2>2, ShownIs
  <2>4. Covered(new) => DOMAIN new.nodes = In(t)
    BY <2>2, <2>3, CoveredIsWhole DEF Exact
  <2>5. QED
    BY <2>3, <2>4
<1>6. QED
  BY <1>3, <1>4, <1>5

LEMMA ResolveSteps ==
  ASSUME ThreadsInv, NEW t \in ThreadIds, NEW fails \in BOOLEAN, Resolve(t, fails)
  PROVE  ThreadsInv'
<1> DEFINE new == Resolved(t, fails)
<1>1. fetched' = [fetched EXCEPT ![t] = new]
  BY DEF Resolve
<1> HIDE DEF new
<1>2. /\ UNCHANGED <<upstream, stored, bundles, walk, paging, baseline, quiet, landed>>
      /\ t \in todo /\ todo' = todo \ {t}
  BY DEF Resolve
<1>3. Shaped /\ WalkShaped /\ WalkHonest /\ WalkStill /\ Reached
  BY WalkHolds DEF ThreadsInv
<1>4. /\ new \in Shapes
      /\ \A c \in DOMAIN new.nodes : Owner[c] = t /\ Noted(c, new.nodes[c])
      /\ Exact(t, fetched[t]) => Exact(t, new)
      /\ \A c \in In(t) : (Covered(fetched[t]) => c \in DOMAIN fetched[t].nodes) =>
                            (Covered(new) => c \in DOMAIN new.nodes)
  BY <1>2, <1>3, ResolvedIs DEF new
<1>5. /\ t \in DOMAIN fetched /\ fetched \in [DOMAIN fetched -> Shapes]
      /\ DOMAIN fetched \subseteq ThreadIds
  BY <1>2, <1>3, MapsOfThreads DEF WalkShaped
<1>6. /\ DOMAIN fetched' = DOMAIN fetched /\ fetched'[t] = new
      /\ \A u \in DOMAIN fetched \ {t} : fetched'[u] = fetched[u]
      /\ fetched' \in [DOMAIN fetched -> Shapes]
  BY <1>1, <1>4, <1>5
<1>7. fetched' \in Walked
  BY <1>5, <1>6, MapsOfThreads
<1>8. /\ ThreadsThere' = ThreadsThere /\ Started' = Started
      /\ stamps' = stamps /\ there' = there /\ rows' = rows /\ threadRows' = threadRows
      /\ \A u, th : Exact(u, th)' <=> Exact(u, th)
      /\ \A u : In(u)' = In(u)
      /\ walk' = walk /\ paging' = paging /\ quiet' = quiet /\ bundles' = bundles
      /\ baseline' = baseline
  BY <1>2, SameUpstream DEF upstream, stored
<1>9. \A u : Unpassed(u)' <=> Unpassed(u)
  BY <1>6, <1>8 DEF Unpassed
<1>10. WalkShaped'
  BY <1>2, <1>3, <1>6, <1>7, <1>8 DEF WalkShaped
<1>11. WalkHonest'
  <2>1. (\A c \in DOMAIN baseline : Noted(c, baseline[c]))'
    BY <1>3, <1>8 DEF WalkHonest, Noted
  <2>2. ASSUME NEW u \in DOMAIN fetched
        PROVE  /\ u \in Started
               /\ \A c \in DOMAIN fetched'[u].nodes :
                    Owner[c] = u /\ (u \notin todo' => Noted(c, fetched'[u].nodes[c]))
    <3>1. CASE u = t
      BY <1>3, <1>4, <1>6, <3>1 DEF WalkHonest
    <3>2. CASE u # t
      BY <1>2, <1>3, <1>6, <2>2, <3>2 DEF WalkHonest
    <3>3. QED
      BY <3>1, <3>2
  <2>3. QED
    BY <1>6, <1>8, <2>1, <2>2 DEF WalkHonest, Noted
<1>12. WalkStill'
  <2>1. ASSUME walk # "idle", quiet, NEW u \in DOMAIN fetched PROVE Exact(u, fetched'[u])
    <3>1. Exact(u, fetched[u])
      BY <1>3, <2>1 DEF WalkStill
    <3>2. QED
      BY <1>4, <1>6, <3>1
  <2>2. QED
    BY <1>3, <1>6, <1>8, <1>9, <2>1 DEF WalkStill, Exact
<1>13. ASSUME NEW c \in there, Gathered(c) PROVE Gathered(c)'
  <2>1. CASE Owner[c] = t
    <3>1. c \in In(t)
      BY <2>1 DEF In
    <3>2. QED
      BY <1>4, <1>6, <1>13, <2>1, <3>1 DEF Gathered, Covered
  <2>2. CASE Owner[c] # t
    BY <1>6, <1>13, <2>2 DEF Gathered, Covered
  <2>3. QED
    BY <2>1, <2>2
<1>14. Reached'
  BY <1>3, <1>6, <1>8, <1>9, <1>13 DEF Reached, Live, LiveThread, Held
<1>15. QED
  BY <1>2, <1>10, <1>11, <1>12, <1>14, WalkSteps

LEMMA Appended ==
  ASSUME bundles \in Seq(Bundles), NEW b, bundles' = Append(bundles, b)
  PROVE  /\ Len(bundles') = Len(bundles) + 1 /\ Len(bundles) \in Nat
         /\ DOMAIN bundles = 1 .. Len(bundles) /\ DOMAIN bundles' = 1 .. Len(bundles) + 1
         /\ \A i \in 1 .. Len(bundles) : bundles'[i] = bundles[i]
         /\ bundles'[Len(bundles) + 1] = b
BY AppendProperties, LenProperties

LEMMA FinishSteps ==
  ASSUME ThreadsInv, NEW rest \in BOOLEAN, Finish(rest)
  PROVE  ThreadsInv'
<1> DEFINE b == [threads |-> fetched, complete |-> Complete, rest |-> rest,
                 refresh |-> walk = "skeleton", quiet |-> quiet]
           n == Len(bundles)
<1>1. /\ UNCHANGED <<upstream, stored, quiet, landed>> /\ Idle
      /\ walk # "idle" /\ paging # "more" /\ todo = {}
      /\ bundles' = Append(bundles, b)
  BY DEF Finish
<1>2. /\ Shaped /\ Honest /\ Deleted /\ Licensed /\ Reached /\ Still /\ QuietThreadsAreExact
      /\ WalkStill /\ WalkHonest
  BY WalkHolds DEF ThreadsInv
<1>3. WalkShaped' /\ WalkHonest' /\ WalkStill' /\ Reached'
  BY <1>1, <1>2, IdleHolds
<1>4. /\ stamps' = stamps /\ there' = there /\ rows' = rows /\ threadRows' = threadRows
      /\ prRow' = prRow /\ Posted' = Posted /\ Started' = Started /\ ThreadsThere' = ThreadsThere
      /\ \A t, th : Exact(t, th)' <=> Exact(t, th)
      /\ \A t : In(t)' = In(t)
  BY <1>1, SameUpstream DEF upstream, stored
<1>5. /\ b.threads = fetched /\ b.complete = Complete /\ b.quiet = quiet
      /\ Complete \in BOOLEAN
  BY DEF Complete
<1>6. b \in Bundles
  BY <1>2, <1>5 DEF Bundles, Shaped
<1> HIDE DEF b
<1>7. /\ Len(bundles') = n + 1 /\ n \in Nat
      /\ DOMAIN bundles = 1 .. n /\ DOMAIN bundles' = 1 .. n + 1
      /\ \A i \in 1 .. n : bundles'[i] = bundles[i]
      /\ bundles'[n + 1] = b
      /\ bundles' \in Seq(Bundles)
  BY <1>1, <1>2, <1>6, Appended, AppendProperties DEF Shaped
<1>8. n <= MaxLag /\ MaxLag \in Nat
  BY <1>1, <1>2, Numbers DEF Shaped
<1> HIDE DEF n
<1>9. Shaped'
  <2>1. Len(bundles') <= MaxLag + 1
    BY <1>7, <1>8
  <2>2. (walk = "idle")'
    BY <1>1 DEF Idle
  <2>3. QED
    BY <1>1, <1>2, <1>3, <1>4, <1>7, <2>1, <2>2 DEF Shaped, WalkShaped
<1>10. Honest'
  <2>1. (\A c \in Comments : /\ rows[c].text # 0 => Noted(c, rows[c])
                             /\ rows[c].live => rows[c].text # 0)'
    BY <1>2, <1>4 DEF Honest, Noted
  <2>2. ASSUME NEW i \in DOMAIN bundles', NEW t \in DOMAIN bundles'[i].threads
        PROVE  /\ t \in Started
               /\ \A c \in DOMAIN bundles'[i].threads[t].nodes :
                    Owner[c] = t /\ Noted(c, bundles'[i].threads[t].nodes[c])
    <3>1. CASE i \in 1 .. n
      BY <1>2, <1>7, <2>2, <3>1 DEF Honest
    <3>2. CASE i = n + 1
      <4>1. bundles'[i].threads = fetched /\ t \in DOMAIN fetched
        BY <1>5, <1>7, <2>2, <3>2
      <4>2. QED
        BY <1>1, <1>2, <4>1 DEF WalkHonest
    <3>3. QED
      BY <1>7, <3>1, <3>2
  <2>3. (\A i \in DOMAIN bundles : \A t \in DOMAIN bundles[i].threads :
           \A c \in DOMAIN bundles[i].threads[t].nodes :
             Owner[c] = t /\ Noted(c, bundles[i].threads[t].nodes[c]))'
    BY <1>4, <2>2 DEF Noted
  <2>4. /\ \A t \in ThreadIds : threadRows'[t] # "none" => t \in Started'
        /\ \A i \in DOMAIN bundles' : DOMAIN bundles'[i].threads \subseteq Started'
    BY <1>2, <1>4, <2>2 DEF Honest
  <2>5. /\ (\A c \in DOMAIN baseline : Noted(c, baseline[c]))'
        /\ (\A t \in DOMAIN fetched : \A c \in DOMAIN fetched[t].nodes :
              Owner[c] = t /\ (t \notin todo => Noted(c, fetched[t].nodes[c])))'
        /\ (DOMAIN fetched \subseteq Started)'
    BY <1>3 DEF WalkHonest
  <2>6. QED
    BY <2>1, <2>3, <2>4, <2>5 DEF Honest
<1>11. Deleted'
  BY <1>2, <1>4 DEF Deleted
<1>12. \A i \in 1 .. n : Held(bundles[i])' = Held(bundles[i])
  BY <1>7 DEF Held
<1>13. ASSUME NEW j \in 1 .. n + 1
       PROVE  /\ \A c \in Comments : Live(c, j)' => Live(c, j)
              /\ \A t \in ThreadIds : LiveThread(t, j)' => LiveThread(t, j)
  <2>1. \A i \in 1 .. n + 1 : i < j => i \in 1 .. n
    BY <1>7
  <2>2. ASSUME NEW c \in Comments, Live(c, j)' PROVE Live(c, j)
    BY <1>4, <1>7, <1>12, <2>1, <2>2 DEF Live
  <2>3. ASSUME NEW t \in ThreadIds, LiveThread(t, j)' PROVE LiveThread(t, j)
    BY <1>4, <1>7, <2>1, <2>3 DEF LiveThread
  <2>4. QED
    BY <2>2, <2>3
<1>14. Complete => \A t : ~Unpassed(t)
  BY DEF Complete, Unpassed
<1>15. ASSUME Complete
       PROVE  /\ \A c \in Comments : Live(c, n + 1) => c \in Held(b) \/ c \notin there
              /\ \A t \in ThreadIds :
                   LiveThread(t, n + 1) => t \in DOMAIN b.threads \/ t \notin ThreadsThere
  <2>1. ASSUME NEW c \in Comments, Live(c, n + 1), c \in there PROVE c \in Held(b)
    <3>1. Gathered(c)
      BY <1>1, <1>2, <1>14, <1>15, <2>1 DEF Reached, n
    <3>2. Owner[c] \in DOMAIN fetched /\ c \in DOMAIN fetched[Owner[c]].nodes
      BY <1>15, <3>1 DEF Gathered, Complete
    <3>3. QED
      BY <1>5, <3>2 DEF Held
  <2>2. ASSUME NEW t \in ThreadIds, LiveThread(t, n + 1), t \in ThreadsThere
        PROVE  t \in DOMAIN b.threads
    BY <1>1, <1>2, <1>5, <1>14, <1>15, <2>2 DEF Reached, n
  <2>3. QED
    BY <2>1, <2>2
<1>16. Licensed'
  <2>1. ASSUME NEW j \in 1 .. n + 1, bundles'[j].complete
        PROVE  /\ \A c \in Comments : Live(c, j)' => c \in Held(bundles[j])' \/ c \notin there
               /\ \A t \in ThreadIds :
                    LiveThread(t, j)' => t \in DOMAIN bundles'[j].threads \/ t \notin ThreadsThere
    <3>1. CASE j \in 1 .. n
      BY <1>2, <1>7, <1>12, <1>13, <2>1, <3>1 DEF Licensed
    <3>2. CASE j = n + 1
      <4>1. Held(bundles[j])' = Held(b) /\ bundles'[j] = b /\ Complete
        BY <1>5, <1>7, <2>1, <3>2 DEF Held
      <4>2. QED
        BY <1>13, <1>15, <3>2, <4>1
    <3>3. QED
      BY <1>7, <3>1, <3>2
  <2>2. QED
    BY <1>4, <1>7, <2>1 DEF Licensed
<1>17. ASSUME Complete, quiet
       PROVE  /\ DOMAIN fetched = ThreadsThere
              /\ \A t \in ThreadsThere : /\ Exact(t, fetched[t])
                                         /\ DOMAIN fetched[t].nodes = In(t)
  <2>1. /\ \A t \in DOMAIN fetched : Exact(t, fetched[t])
        /\ \A t \in ThreadsThere : t \in DOMAIN fetched
    BY <1>1, <1>2, <1>14, <1>17 DEF WalkStill
  <2>2. DOMAIN fetched = ThreadsThere
    BY <2>1 DEF Exact
  <2>3. ASSUME NEW t \in ThreadsThere PROVE DOMAIN fetched[t].nodes = In(t)
    <3>1. Exact(t, fetched[t]) /\ Covered(fetched[t])
      BY <1>17, <2>1 DEF Complete
    <3>2. there \subseteq Posted
      BY <1>2 DEF Shaped
    <3>3. QED
      BY <3>1, <3>2, CoveredIsWhole DEF Exact
  <2>4. QED
    BY <2>1, <2>2, <2>3
<1>18. Still'
  <2>1. ASSUME NEW j \in 1 .. n + 1, bundles'[j].complete /\ bundles'[j].quiet
        PROVE  /\ DOMAIN bundles'[j].threads = ThreadsThere
               /\ \A t \in ThreadsThere : /\ Exact(t, bundles'[j].threads[t])
                                          /\ DOMAIN bundles'[j].threads[t].nodes = In(t)
    <3>1. CASE j \in 1 .. n
      BY <1>2, <1>7, <2>1, <3>1 DEF Still
    <3>2. CASE j = n + 1
      BY <1>5, <1>7, <1>17, <2>1, <3>2
    <3>3. QED
      BY <1>7, <3>1, <3>2
  <2>2. (\A j \in DOMAIN bundles : bundles[j].complete /\ bundles[j].quiet =>
           /\ DOMAIN bundles[j].threads = ThreadsThere
           /\ \A t \in ThreadsThere : /\ Exact(t, bundles[j].threads[t])
                                      /\ DOMAIN bundles[j].threads[t].nodes = In(t))'
    BY <1>4, <1>7, <2>1 DEF Exact
  <2>3. QED
    BY <1>3, <2>2 DEF Still, WalkStill
<1>19. QuietThreadsAreExact'
  BY <1>1, <1>2, <1>4 DEF QuietThreadsAreExact
<1>20. QED
  BY <1>3, <1>9, <1>10, <1>11, <1>16, <1>18, <1>19 DEF ThreadsInv

-----------------------------------------------------------------------------
(* The writer.                                                              *)
LEMMA Shifted ==
  ASSUME bundles \in Seq(Bundles), bundles # <<>>, bundles' = Tail(bundles)
  PROVE  /\ Len(bundles) \in Nat \ {0} /\ Len(bundles') = Len(bundles) - 1
         /\ bundles' \in Seq(Bundles)
         /\ DOMAIN bundles = 1 .. Len(bundles) /\ DOMAIN bundles' = 1 .. Len(bundles) - 1
         /\ \A i \in DOMAIN bundles' : i + 1 \in DOMAIN bundles /\ bundles'[i] = bundles[i + 1]
         /\ 1 \in DOMAIN bundles /\ Head(bundles) = bundles[1] /\ bundles[1] \in Bundles
<1>1. Len(bundles) \in Nat \ {0} /\ DOMAIN bundles = 1 .. Len(bundles)
  BY EmptySeq, LenProperties
<1>2. /\ bundles' \in Seq(Bundles) /\ Len(bundles') = Len(bundles) - 1
      /\ \A i \in 1 .. Len(bundles') : bundles'[i] = bundles[i + 1]
      /\ Head(bundles) = bundles[1]
  BY HeadTailProperties
<1>3. DOMAIN bundles' = 1 .. Len(bundles')
  BY <1>2, LenProperties
<1>4. bundles[1] \in Bundles
  BY <1>1, ElementOfSeq
<1>5. QED
  BY <1>1, <1>2, <1>3, <1>4

LEMMA LandSteps ==
  ASSUME ThreadsInv, Land
  PROVE  ThreadsInv'
<1> DEFINE b == Head(bundles)
           held == Held(b)
           goneRows == Gone(b, {c \in Comments : rows[c].live}, held)
           goneThreads == Gone(b, {t \in ThreadIds : threadRows[t] = "live"}, DOMAIN b.threads)
           n == Len(bundles)
<1>1. /\ UNCHANGED <<upstream, hydration, quiet, troubles>>
      /\ bundles # <<>> /\ bundles' = Tail(bundles)
      /\ prRow' = PrRowAfter(b) /\ landed' = (b.complete /\ b.quiet)
  BY DEF Land
<1>2. rows' = [c \in Comments |->
                 IF c \in held
                 THEN [stamp |-> b.threads[Owner[c]].nodes[c].stamp,
                       text |-> b.threads[Owner[c]].nodes[c].text, live |-> TRUE]
                 ELSE [rows[c] EXCEPT !.live = rows[c].live /\ c \notin goneRows]]
  BY DEF Land, Held
<1>3. threadRows' = [t \in ThreadIds |->
                       IF t \in DOMAIN b.threads THEN "live"
                       ELSE IF t \in goneThreads THEN "deleted" ELSE threadRows[t]]
  BY DEF Land, Held
<1>4. /\ Shaped /\ Honest /\ Deleted /\ Licensed /\ Reached /\ Still
  BY DEF ThreadsInv
<1>5. /\ n \in Nat \ {0} /\ Len(bundles') = n - 1 /\ bundles' \in Seq(Bundles)
      /\ DOMAIN bundles = 1 .. n /\ DOMAIN bundles' = 1 .. n - 1
      /\ \A i \in DOMAIN bundles' : i + 1 \in DOMAIN bundles /\ bundles'[i] = bundles[i + 1]
      /\ 1 \in DOMAIN bundles /\ b = bundles[1] /\ b \in Bundles
  BY <1>1, <1>4, Shifted DEF Shaped
<1>6. /\ stamps' = stamps /\ there' = there /\ Posted' = Posted /\ Started' = Started
      /\ ThreadsThere' = ThreadsThere
      /\ \A c, k : Noted(c, k)' <=> Noted(c, k)
      /\ \A t, th : Exact(t, th)' <=> Exact(t, th)
      /\ \A t : In(t)' = In(t)
      /\ walk' = walk /\ fetched' = fetched /\ todo' = todo /\ paging' = paging
      /\ baseline' = baseline /\ quiet' = quiet
  BY <1>1, SameUpstream DEF upstream, hydration
<1>7. /\ b.threads \in Walked /\ b.complete \in BOOLEAN /\ b.quiet \in BOOLEAN
  BY <1>5 DEF Bundles
<1>8. ASSUME NEW c \in held
      PROVE  /\ c \in Comments /\ Owner[c] \in DOMAIN b.threads
             /\ c \in DOMAIN b.threads[Owner[c]].nodes
             /\ Noted(c, b.threads[Owner[c]].nodes[c])
             /\ b.threads[Owner[c]].nodes[c] \in Notes
  <2>1. PICK t \in DOMAIN b.threads : c \in DOMAIN b.threads[t].nodes
    BY <1>8 DEF Held
  <2>2. c \in Comments /\ Owner[c] = t /\ Noted(c, b.threads[t].nodes[c])
    BY <1>4, <1>5, <1>8, <2>1 DEF Honest, Held
  <2>3. b.threads[t] \in Shapes
    BY <1>7, <2>1, MapsOfThreads
  <2>4. b.threads[t].nodes \in NoteMaps
    BY <2>3 DEF Shapes
  <2>5. b.threads[t].nodes[c] \in Notes
    BY <2>1, <2>4, MapsOfNotes
  <2>6. QED
    BY <2>1, <2>2, <2>5
<1>9. /\ goneRows = IF b.complete THEN {c \in Comments : rows[c].live} \ held ELSE {}
      /\ goneThreads = IF b.complete
                       THEN {t \in ThreadIds : threadRows[t] = "live"} \ DOMAIN b.threads ELSE {}
  BY DEF Gone
<1>10. ASSUME NEW c \in goneRows PROVE c \notin there
  <2>1. b.complete /\ c \in Comments /\ rows[c].live /\ c \notin held
    BY <1>9
  <2>2. Live(c, 1)
    BY <2>1 DEF Live
  <2>3. QED
    BY <1>4, <1>5, <2>1, <2>2 DEF Licensed
<1>11. ASSUME NEW t \in goneThreads PROVE t \notin ThreadsThere
  <2>1. b.complete /\ t \in ThreadIds /\ threadRows[t] = "live" /\ t \notin DOMAIN b.threads
    BY <1>9
  <2>2. LiveThread(t, 1)
    BY <2>1 DEF LiveThread
  <2>3. QED
    BY <1>4, <1>5, <2>1, <2>2 DEF Licensed
<1> HIDE DEF goneRows, goneThreads, held, b, n
<1>12. ASSUME NEW c \in held
       PROVE  /\ rows'[c].stamp = b.threads[Owner[c]].nodes[c].stamp
              /\ rows'[c].text = b.threads[Owner[c]].nodes[c].text
              /\ rows'[c].live = TRUE
              /\ rows'[c] \in [stamp : Nat, text : Nat, live : BOOLEAN]
              /\ Noted(c, rows'[c])
  <2>1. PICK k : k = b.threads[Owner[c]].nodes[c]
    OBVIOUS
  <2>2. rows'[c] = [stamp |-> k.stamp, text |-> k.text, live |-> TRUE]
    BY <1>2, <1>8, <2>1
  <2>3. k.stamp \in Nat /\ k.text \in Nat /\ Noted(c, k)
    BY <1>8, <2>1 DEF Notes
  <2>4. rows'[c].stamp = k.stamp /\ rows'[c].text = k.text /\ rows'[c].live = TRUE
    BY <2>2
  <2>5. Noted(c, rows'[c])
    BY <2>3, <2>4 DEF Noted
  <2>6. QED
    BY <2>1, <2>2, <2>3, <2>4, <2>5
<1>13. ASSUME NEW c \in Comments, c \notin held
       PROVE  /\ rows'[c].stamp = rows[c].stamp /\ rows'[c].text = rows[c].text
              /\ rows'[c].live <=> rows[c].live /\ c \notin goneRows
              /\ rows'[c] \in [stamp : Nat, text : Nat, live : BOOLEAN]
  <2>1. PICK r : r = rows[c] /\ r \in [stamp : Nat, text : Nat, live : BOOLEAN]
    BY <1>4 DEF Shaped
  <2>2. (r.live /\ c \notin goneRows) \in BOOLEAN
    OBVIOUS
  <2>3. PICK v \in BOOLEAN : v = (r.live /\ c \notin goneRows)
    BY <2>2
  <2>4. rows'[c] = [r EXCEPT !.live = v]
    BY <1>2, <1>13, <2>1, <2>3
  <2>5. QED
    BY <2>1, <2>3, <2>4
<1>14. Shaped'
  <2>1. rows' \in [Comments -> [stamp : Nat, text : Nat, live : BOOLEAN]]
    <3>1. rows' = [c \in Comments |-> rows'[c]]
      BY <1>2
    <3>2. \A c \in Comments : rows'[c] \in [stamp : Nat, text : Nat, live : BOOLEAN]
      BY <1>12, <1>13
    <3>3. QED
      BY <3>1, <3>2
  <2>2. threadRows' \in [ThreadIds -> {"none", "live", "deleted"}]
    BY <1>3, <1>4 DEF Shaped
  <2>3. prRow' \in {"none", "truncated", "whole"}
    BY <1>1, <1>4 DEF Shaped, PrRowAfter
  <2>4. Len(bundles') <= MaxLag + 1 /\ (walk # "idle" => Len(bundles') <= MaxLag)
    <3>1. /\ n <= MaxLag + 1 /\ (walk # "idle" => n <= MaxLag) /\ MaxLag \in Nat
      BY <1>4, Numbers DEF Shaped, n
    <3>2. QED
      BY <1>5, <3>1
  <2>5. landed' \in BOOLEAN
    BY <1>1, <1>7
  <2>6. QED
    BY <1>4, <1>5, <1>6, <2>1, <2>2, <2>3, <2>4, <2>5 DEF Shaped
<1>15. Honest'
  <2>1. ASSUME NEW c \in Comments
        PROVE  /\ rows'[c].text # 0 => Noted(c, rows'[c])
               /\ rows'[c].live => rows'[c].text # 0
    <3>1. CASE c \in held
      <4>1. PICK r : r = rows'[c] /\ r.text \in 1 .. Len(stamps[c])
        BY <1>12, <3>1 DEF Noted
      <4>2. r.text # 0
        BY <4>1
      <4>3. QED
        BY <1>12, <3>1, <4>1, <4>2
    <3>2. CASE c \notin held
      <4>1. /\ rows[c].text # 0 => Noted(c, rows[c])
            /\ rows[c].live => rows[c].text # 0
        BY <1>4 DEF Honest
      <4>2. QED
        BY <1>13, <3>2, <4>1 DEF Noted
    <3>3. QED
      BY <3>1, <3>2
  <2>2. (\A c \in Comments : /\ rows[c].text # 0 => Noted(c, rows[c])
                             /\ rows[c].live => rows[c].text # 0)'
    BY <1>6, <2>1 DEF Noted
  <2>3. ASSUME NEW i \in DOMAIN bundles', NEW t \in DOMAIN bundles'[i].threads
        PROVE  /\ t \in Started
               /\ \A c \in DOMAIN bundles'[i].threads[t].nodes :
                    Owner[c] = t /\ Noted(c, bundles'[i].threads[t].nodes[c])
    <3>1. i + 1 \in DOMAIN bundles /\ bundles'[i] = bundles[i + 1]
      BY <1>5
    <3>2. QED
      BY <1>4, <2>3, <3>1 DEF Honest
  <2>4. (\A i \in DOMAIN bundles : \A t \in DOMAIN bundles[i].threads :
           \A c \in DOMAIN bundles[i].threads[t].nodes :
             Owner[c] = t /\ Noted(c, bundles[i].threads[t].nodes[c]))'
    BY <1>6, <2>3 DEF Noted
  <2>5. ASSUME NEW t \in ThreadIds, threadRows'[t] # "none" PROVE t \in Started
    <3>1. CASE t \in DOMAIN b.threads
      BY <1>4, <1>5, <3>1 DEF Honest
    <3>2. CASE t \notin DOMAIN b.threads
      <4>1. threadRows[t] # "none"
        <5>1. t \in goneThreads => threadRows[t] = "live"
          BY <1>9
        <5>2. QED
          BY <1>3, <2>5, <3>2, <5>1
      <4>2. QED
        BY <1>4, <4>1 DEF Honest
    <3>3. QED
      BY <3>1, <3>2
  <2>6. (\A c \in DOMAIN baseline : Noted(c, baseline[c]))'
    BY <1>4, <1>6 DEF Honest, Noted
  <2>7. (\A t \in DOMAIN fetched : \A c \in DOMAIN fetched[t].nodes :
           Owner[c] = t /\ (t \notin todo => Noted(c, fetched[t].nodes[c])))'
    BY <1>4, <1>6 DEF Honest, Noted
  <2>8. (DOMAIN fetched \subseteq Started)'
    BY <1>4, <1>6 DEF Honest
  <2>9. QED
    BY <1>6, <2>2, <2>3, <2>4, <2>5, <2>6, <2>7, <2>8 DEF Honest
<1>16. Deleted'
  <2>1. ASSUME NEW c \in Comments, rows'[c].text # 0, ~rows'[c].live PROVE c \notin there
    <3>1. c \notin held
      BY <1>12, <2>1
    <3>2. CASE c \in goneRows
      BY <1>10, <3>2
    <3>3. CASE c \notin goneRows
      BY <1>4, <1>13, <2>1, <3>1, <3>3 DEF Deleted
    <3>4. QED
      BY <3>2, <3>3
  <2>2. ASSUME NEW t \in ThreadIds, threadRows'[t] = "deleted" PROVE t \notin ThreadsThere
    <3>1. t \in goneThreads \/ threadRows[t] = "deleted"
      BY <1>3, <2>2
    <3>2. QED
      BY <1>4, <1>11, <3>1 DEF Deleted
  <2>3. QED
    BY <1>6, <2>1, <2>2 DEF Deleted
<1>17. \A i \in DOMAIN bundles' : Held(bundles[i])' = Held(bundles[i + 1])
  BY <1>5 DEF Held
<1>18. ASSUME NEW j \in 1 .. n
       PROVE  /\ \A c \in Comments : Live(c, j)' => Live(c, j + 1)
              /\ \A t \in ThreadIds : LiveThread(t, j)' => LiveThread(t, j + 1)
  <2>1. 1 \in DOMAIN bundles /\ 1 < j + 1 /\ Held(bundles[1]) = held
    BY <1>5, <1>18 DEF held
  <2>2. \A i \in DOMAIN bundles' : i < j => i + 1 < j + 1 /\ i + 1 \in DOMAIN bundles
    BY <1>5, <1>18
  <2>3. ASSUME NEW c \in Comments, Live(c, j)' PROVE Live(c, j + 1)
    <3>1. CASE rows'[c].live
      <4>1. c \in held \/ rows[c].live
        BY <1>13, <3>1
      <4>2. QED
        BY <2>1, <4>1 DEF Live
    <3>2. ASSUME NEW i \in DOMAIN bundles', i < j, c \in Held(bundles[i])' PROVE Live(c, j + 1)
      BY <1>17, <2>2, <3>2 DEF Live
    <3>3. QED
      BY <2>3, <3>1, <3>2 DEF Live
  <2>4. ASSUME NEW t \in ThreadIds, LiveThread(t, j)' PROVE LiveThread(t, j + 1)
    <3>1. CASE threadRows'[t] = "live"
      <4>1. t \in DOMAIN bundles[1].threads \/ threadRows[t] = "live"
        BY <1>3, <1>5, <3>1
      <4>2. QED
        BY <2>1, <4>1 DEF LiveThread
    <3>2. ASSUME NEW i \in DOMAIN bundles', i < j, t \in DOMAIN bundles'[i].threads
          PROVE  LiveThread(t, j + 1)
      BY <1>5, <2>2, <3>2 DEF LiveThread
    <3>3. QED
      BY <2>4, <3>1, <3>2 DEF LiveThread
  <2>5. QED
    BY <2>3, <2>4
<1>19. Licensed'
  <2>1. ASSUME NEW j \in DOMAIN bundles', bundles'[j].complete
        PROVE  /\ \A c \in Comments : Live(c, j)' => c \in Held(bundles[j])' \/ c \notin there
               /\ \A t \in ThreadIds :
                    LiveThread(t, j)' => t \in DOMAIN bundles'[j].threads \/ t \notin ThreadsThere
    <3>1. j + 1 \in DOMAIN bundles /\ bundles'[j] = bundles[j + 1] /\ j \in 1 .. n
      BY <1>5
    <3>2. QED
      BY <1>4, <1>17, <1>18, <2>1, <3>1 DEF Licensed
  <2>2. QED
    BY <1>6, <2>1 DEF Licensed
<1>20. Reached'
  <2>1. \A t : (Unpassed(t)' <=> Unpassed(t)) /\ (\A c : Gathered(c)' <=> Gathered(c))
    BY <1>6 DEF Unpassed, Gathered, Covered
  <2>2. PICK k : k = n /\ k \in 1 .. n /\ Len(bundles') + 1 = k
    BY <1>5
  <2>3. /\ \A c \in Comments : Live(c, k)' => Live(c, k + 1)
        /\ \A t \in ThreadIds : LiveThread(t, k)' => LiveThread(t, k + 1)
    BY <1>18, <2>2
  <2>4. /\ \A c \in Comments : Live(c, Len(bundles) + 1)' => Live(c, Len(bundles) + 1)
        /\ \A t \in ThreadIds : LiveThread(t, Len(bundles) + 1)' => LiveThread(t, Len(bundles) + 1)
    BY <2>2, <2>3 DEF Live, LiveThread, n
  <2>5. QED
    BY <1>4, <1>6, <2>1, <2>4 DEF Reached
<1>21. Still'
  <2>1. ASSUME NEW j \in DOMAIN bundles', bundles'[j].complete /\ bundles'[j].quiet
        PROVE  /\ DOMAIN bundles'[j].threads = ThreadsThere
               /\ \A t \in ThreadsThere : /\ Exact(t, bundles'[j].threads[t])
                                          /\ DOMAIN bundles'[j].threads[t].nodes = In(t)
    BY <1>4, <1>5, <2>1 DEF Still
  <2>2. (\A j \in DOMAIN bundles : bundles[j].complete /\ bundles[j].quiet =>
           /\ DOMAIN bundles[j].threads = ThreadsThere
           /\ \A t \in ThreadsThere : /\ Exact(t, bundles[j].threads[t])
                                      /\ DOMAIN bundles[j].threads[t].nodes = In(t))'
    BY <1>6, <2>1 DEF Exact
  <2>3. \A t : Unpassed(t)' <=> Unpassed(t)
    BY <1>6 DEF Unpassed
  <2>4. (walk # "idle" /\ quiet =>
           /\ \A t \in DOMAIN fetched : Exact(t, fetched[t])
           /\ \A t \in ThreadsThere : t \in DOMAIN fetched \/ Unpassed(t))'
    BY <1>4, <1>6, <2>3 DEF Still, Exact
  <2>5. QED
    BY <2>2, <2>4 DEF Still
<1>22. QuietThreadsAreExact'
  <2>1. SUFFICES ASSUME b.complete, b.quiet
                 PROVE  /\ {c \in Comments : rows'[c].live} = there
                        /\ {t \in ThreadIds : threadRows'[t] = "live"} = ThreadsThere
                        /\ \A c \in there : /\ rows'[c].stamp = LastOf(stamps[c])
                                            /\ stamps[c][rows'[c].text] = LastOf(stamps[c])
    BY <1>1, <1>6 DEF QuietThreadsAreExact
  <2>2. /\ DOMAIN b.threads = ThreadsThere
        /\ \A t \in ThreadsThere : /\ Exact(t, b.threads[t])
                                   /\ DOMAIN b.threads[t].nodes = In(t)
    BY <1>4, <1>5, <2>1 DEF Still
  <2>3. /\ there \subseteq Comments /\ ThreadsThere \subseteq ThreadIds
    BY <1>4, Numbers DEF Shaped, Posted, ThreadsThere
  <2>4. held = there
    <3>1. \A c \in held : c \in there
      BY <1>8, <2>2 DEF In
    <3>2. ASSUME NEW c \in there PROVE c \in held
      <4>1. Owner[c] \in ThreadsThere /\ c \in In(Owner[c])
        BY DEF ThreadsThere, In
      <4>2. QED
        BY <2>2, <2>3, <4>1 DEF held, Held
    <3>3. QED
      BY <3>1, <3>2
  <2>5. {c \in Comments : rows'[c].live} = there
    <3>1. \A c \in Comments \ held : rows[c].live => c \in goneRows
      BY <1>9, <2>1
    <3>2. \A c \in Comments : rows'[c].live <=> c \in held
      BY <1>12, <1>13, <3>1
    <3>3. QED
      BY <2>3, <2>4, <3>2
  <2>6. {t \in ThreadIds : threadRows'[t] = "live"} = ThreadsThere
    <3>1. \A t \in ThreadIds : threadRows[t] = "live" /\ t \notin DOMAIN b.threads => t \in goneThreads
      BY <1>9, <2>1
    <3>2. \A t \in ThreadIds : threadRows'[t] = "live" <=> t \in DOMAIN b.threads
      BY <1>3, <3>1
    <3>3. QED
      BY <2>2, <2>3, <3>2
  <2>7. ASSUME NEW c \in there
        PROVE  /\ rows'[c].stamp = LastOf(stamps[c])
               /\ stamps[c][rows'[c].text] = LastOf(stamps[c])
    <3>1. c \in held /\ Owner[c] \in ThreadsThere
      BY <2>4 DEF ThreadsThere
    <3>2. rows'[c].stamp = LastOf(stamps[c])
      BY <1>8, <1>12, <2>2, <3>1 DEF Exact
    <3>3. stamps[c][rows'[c].text] = rows'[c].stamp
      BY <1>12, <3>1 DEF Noted
    <3>4. QED
      BY <3>2, <3>3
  <2>8. QED
    BY <2>5, <2>6, <2>7
<1>23. QED
  BY <1>14, <1>15, <1>16, <1>19, <1>20, <1>21, <1>22 DEF ThreadsInv

-----------------------------------------------------------------------------
(* The theorems.                                                            *)
LEMMA ThreadsStart == ThreadsInit => ThreadsInv
<1> SUFFICES ASSUME ThreadsInit PROVE ThreadsInv
  OBVIOUS
<1>1. /\ stamps = [c \in Comments |-> <<>>] /\ there = {}
      /\ rows = [c \in Comments |-> [stamp |-> 0, text |-> 0, live |-> FALSE]]
      /\ threadRows = [t \in ThreadIds |-> "none"]
      /\ prRow = "none" /\ bundles = <<>>
      /\ walk = "idle" /\ fetched = <<>> /\ todo = {} /\ paging = "end" /\ baseline = <<>>
      /\ quiet = TRUE /\ landed = FALSE
  BY DEF ThreadsInit
<1>2. DOMAIN bundles = {} /\ DOMAIN fetched = {} /\ DOMAIN baseline = {}
  BY <1>1, NoMap
<1>3. ThreadsThere = {}
  BY <1>1 DEF ThreadsThere
<1>4. Shaped
  <2>1. stamps \in [Comments -> Seq(Nat)]
    BY <1>1
  <2>2. \A c \in Comments : Len(stamps[c]) <= MaxEdits + 1
    <3>1. \A c \in Comments : Len(stamps[c]) = 0
      BY <1>1
    <3>2. QED
      BY <3>1, Numbers
  <2>3. rows \in [Comments -> [stamp : Nat, text : Nat, live : BOOLEAN]]
    BY <1>1
  <2>4. threadRows \in [ThreadIds -> {"none", "live", "deleted"}]
    BY <1>1
  <2>5. fetched \in Walked /\ baseline \in NoteMaps
    BY <1>1, NoMap
  <2>6. bundles \in Seq(Bundles) /\ Len(bundles) <= MaxLag + 1
    BY <1>1, Numbers
  <2>7. QED
    BY <1>1, <2>1, <2>2, <2>3, <2>4, <2>5, <2>6 DEF Shaped
<1>5. Honest
  BY <1>1, <1>2 DEF Honest
<1>6. Deleted /\ Licensed /\ Reached /\ Still /\ QuietThreadsAreExact
  BY <1>1, <1>2, <1>3 DEF Deleted, Licensed, Reached, Still, QuietThreadsAreExact
<1>7. QED
  BY <1>4, <1>5, <1>6 DEF ThreadsInv

LEMMA ThreadsStutter == ThreadsInv /\ UNCHANGED threadVars => ThreadsInv'
<1> SUFFICES ASSUME ThreadsInv, UNCHANGED threadVars PROVE ThreadsInv'
  OBVIOUS
<1>1. /\ UNCHANGED <<upstream, stored, bundles, landed>>
      /\ walk' = walk /\ fetched' = fetched /\ todo' = todo /\ paging' = paging
      /\ baseline' = baseline /\ quiet' = quiet
  BY DEF threadVars, hydration
<1>2. WalkShaped /\ WalkHonest /\ WalkStill /\ Reached
  BY WalkHolds
<1>3. /\ ThreadsThere' = ThreadsThere /\ Started' = Started
      /\ stamps' = stamps /\ there' = there /\ rows' = rows /\ threadRows' = threadRows
      /\ \A t : In(t)' = In(t)
  BY <1>1, SameUpstream DEF upstream, stored
<1>4. WalkShaped' /\ WalkHonest'
  BY <1>1, <1>2, <1>3 DEF WalkShaped, WalkHonest, Noted
<1>5. WalkStill'
  BY <1>1, <1>2, <1>3 DEF WalkStill, Exact, Unpassed
<1>6. Reached'
  BY <1>1, <1>2, <1>3 DEF Reached, Live, LiveThread, Held, Gathered, Covered, Unpassed
<1>7. QED
  BY <1>1, <1>4, <1>5, <1>6, WalkSteps

LEMMA ThreadsSteps == ThreadsInv /\ [ThreadsNext]_threadVars => ThreadsInv'
<1> SUFFICES ASSUME ThreadsInv, [ThreadsNext]_threadVars PROVE ThreadsInv'
  OBVIOUS
<1>1. Shaped
  BY DEF ThreadsInv
<1>2. ASSUME NEW c \in Comments, Post(c) PROVE ThreadsInv'
  BY <1>1, <1>2, PostGrows, UpstreamSteps DEF Post
<1>3. ASSUME NEW c \in Comments, RemoveComment(c) PROVE ThreadsInv'
  BY <1>1, <1>3, RemoveGrows, UpstreamSteps DEF RemoveComment
<1>4. ASSUME NEW c \in Comments, NEW sameSecond \in BOOLEAN, Edit(c, sameSecond)
      PROVE  ThreadsInv'
  BY <1>1, <1>4, EditGrows, UpstreamSteps DEF Edit
<1>5. ASSUME NEW kind \in {"full", "skeleton"}, Hydrate(kind) PROVE ThreadsInv'
  BY <1>5, HydrateSteps
<1>6. CASE Page
  BY <1>6, PageSteps
<1>7. CASE StopPaging
  BY <1>7, StopPagingSteps
<1>8. CASE Abandon
  BY <1>8, AbandonSteps
<1>9. ASSUME NEW t \in ThreadIds, NEW fails \in BOOLEAN, Resolve(t, fails) PROVE ThreadsInv'
  BY <1>9, ResolveSteps
<1>10. ASSUME NEW rest \in BOOLEAN, Finish(rest) PROVE ThreadsInv'
  BY <1>10, FinishSteps
<1>11. CASE Land
  BY <1>11, LandSteps
<1>12. CASE Kill
  BY <1>12, KillSteps
<1>13. CASE UNCHANGED threadVars
  BY <1>13, ThreadsStutter
<1>14. QED
  BY <1>2, <1>3, <1>4, <1>5, <1>6, <1>7, <1>8, <1>9, <1>10, <1>11, <1>12, <1>13 DEF ThreadsNext

LEMMA ThreadsHold == ThreadsSpec => []ThreadsInv
BY ThreadsStart, ThreadsSteps, PTL DEF ThreadsSpec

(* The rows, the walk and the channel keep their shapes: in particular the  *)
(* channel never holds more than the lag allows and the bundle on top of it *)
(* (sync.rs, hydrate and the writer's queue).                               *)
THEOREM ThreadsTyped == ThreadsSpec => []ThreadsTypeOK
<1>1. ASSUME ThreadsInv PROVE ThreadsTypeOK
  <2>1. Shaped /\ Honest
    BY <1>1 DEF ThreadsInv
  <2>2. rows \in [Comments -> [stamp : Nat, text : 0 .. MaxEdits + 1, live : BOOLEAN]]
    <3>1. ASSUME NEW c \in Comments PROVE rows[c].text \in 0 .. MaxEdits + 1
      <4>1. PICK k : k = rows[c].text /\ k \in Nat
        BY <2>1 DEF Shaped
      <4>2. Len(stamps[c]) <= MaxEdits + 1 /\ Len(stamps[c]) \in Nat /\ MaxEdits \in Nat
        <5>1. stamps[c] \in Seq(Nat)
          BY <2>1 DEF Shaped
        <5>2. QED
          BY <2>1, <5>1, LenProperties, Numbers DEF Shaped
      <4>3. k # 0 => k \in 1 .. Len(stamps[c])
        BY <2>1, <4>1 DEF Honest, Noted
      <4>4. QED
        BY <4>1, <4>2, <4>3
    <3>2. \A c \in Comments : rows[c] \in [stamp : Nat, text : Nat, live : BOOLEAN]
      BY <2>1 DEF Shaped
    <3>3. \A c \in Comments : rows[c] \in [stamp : Nat, text : 0 .. MaxEdits + 1, live : BOOLEAN]
      BY <3>1, <3>2
    <3>4. rows = [c \in Comments |-> rows[c]]
      BY <2>1 DEF Shaped
    <3>5. QED
      BY <3>3, <3>4
  <2>3. DOMAIN fetched \subseteq ThreadIds /\ DOMAIN baseline \subseteq Comments
    BY <2>1, MapsOfThreads, MapsOfNotes DEF Shaped
  <2>4. QED
    BY <2>1, <2>2, <2>3 DEF Shaped, ThreadsTypeOK
<1>2. QED
  BY <1>1, ThreadsHold, PTL

(* A sweep never deletes a comment or a thread that still exists, and an    *)
(* archived body always stands under the edit time it was written at,       *)
(* however the walk, the queue and GitHub's edits interleave (refresh_one,  *)
(* apply_bundle).                                                           *)
THEOREM ThreadRowsTrue == ThreadsSpec => []ThreadRowsAreTrue
<1>1. ASSUME ThreadsInv PROVE ThreadRowsAreTrue
  <2>1. Shaped /\ Honest /\ Deleted
    BY <1>1 DEF ThreadsInv
  <2>2. ASSUME NEW c \in Comments, rows[c].text # 0
        PROVE  /\ rows[c].text <= Len(stamps[c]) /\ stamps[c][rows[c].text] = rows[c].stamp
               /\ ~rows[c].live => c \notin there
    <3>1. PICK k : k = rows[c].text /\ k \in 1 .. Len(stamps[c]) /\ stamps[c][k] = rows[c].stamp
      BY <2>1, <2>2 DEF Honest, Noted
    <3>2. Len(stamps[c]) \in Nat
      BY <2>1, LenProperties DEF Shaped
    <3>3. QED
      BY <2>1, <2>2, <3>1, <3>2 DEF Deleted
  <2>3. QED
    BY <2>1, <2>2 DEF Honest, Deleted, ThreadRowsAreTrue
<1>2. QED
  BY <1>1, ThreadsHold, PTL

(* A complete hydration that nothing disturbed leaves the archive equal to  *)
(* the review threads as they are, whatever the pages' sizes, the lag of    *)
(* the writer and the bundles before it.                                    *)
THEOREM QuietThreadsExact == ThreadsSpec => []QuietThreadsAreExact
<1>1. ThreadsInv => QuietThreadsAreExact
  BY DEF ThreadsInv
<1>2. QED
  BY <1>1, ThreadsHold, PTL
=============================================================================
