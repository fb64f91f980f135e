---------------------------- MODULE Refs_proofs ----------------------------
(***************************************************************************)
(* The scan of refs.rs finds what the grammar of its module doc defines,   *)
(* in a text of any length.  Scan is a recursive function: what it is at   *)
(* every position is proved downwards, from the end of the text.           *)
(***************************************************************************)
EXTENDS Refs, SequenceTheorems, WellFoundedInduction, TLAPS

Texts == Seq(STRING)

-----------------------------------------------------------------------------
(* Least elements, and descent.                                            *)

\* A set of numbers has a least one, and Min is it.
LEMMA MinIs ==
  ASSUME NEW T \in SUBSET Nat, T # {}
  PROVE  Min(T) \in T /\ \A y \in T : Min(T) <= y
<1> DEFINE R == {ss \in Nat \X Nat : ss[1] < ss[2]}
<1>1. IsWellFoundedOn(R, Nat)
  BY NatLessThanWellFounded, Zenon DEF OpToRel
<1> HIDE DEF R
<1>2. PICK x \in T : \A y \in T : <<y, x>> \notin R
  BY <1>1, WFMin
<1>3. ASSUME NEW y \in T PROVE x <= y
  <2>1. x \in Nat /\ y \in Nat
    OBVIOUS
  <2>2. y < x => <<y, x>> \in R
    BY <2>1 DEF R
  <2>3. QED
    BY <1>2, <2>1, <2>2
<1>4. QED
  BY <1>3 DEF Min

\* What holds at a position when it holds at every later one holds at each.
LEMMA Downward ==
  ASSUME NEW n \in Nat, NEW S,
         \A i \in 1 .. n : (\A j \in (i + 1) .. n : j \in S) => i \in S
  PROVE  \A i \in 1 .. n : i \in S
<1> SUFFICES ASSUME NEW i \in 1 .. n, i \notin S
             PROVE  FALSE
  OBVIOUS
<1> DEFINE T == {n - k : k \in {k \in 1 .. n : k \notin S}}
<1>1. T \in SUBSET Nat /\ T # {}
  OBVIOUS
<1>2. Min(T) \in T /\ \A y \in T : Min(T) <= y
  BY <1>1, MinIs
<1>3. PICK k \in 1 .. n : k \notin S /\ Min(T) = n - k
  BY <1>2
<1>4. ASSUME NEW j \in (k + 1) .. n PROVE j \in S
  <2>1. j \notin S => n - j \in T
    OBVIOUS
  <2>2. j \notin S => n - k <= n - j
    BY <1>2, <1>3, <2>1, Zenon
  <2>3. QED
    BY <2>2
<1>5. QED
  BY <1>3, <1>4

-----------------------------------------------------------------------------
(* Runs of tokens.                                                         *)

LEMMA RunEndIs ==
  ASSUME NEW b \in Texts, NEW i \in 1 .. Len(b) + 1, NEW S, "end" \notin S
  PROVE  /\ RunEnd(b, i, S) \in i .. Len(b) + 1
         /\ At(b, RunEnd(b, i, S)) \notin S
         /\ \A k \in i .. RunEnd(b, i, S) - 1 : b[k] \in S
<1> DEFINE T == {j \in i .. Len(b) + 1 : At(b, j) \notin S}
           e == RunEnd(b, i, S)
<1>1. Len(b) \in Nat
  BY DEF Texts
<1>2. T \in SUBSET Nat
  BY <1>1
<1>3. Len(b) + 1 \in T
  BY <1>1 DEF At
<1>4. e \in T /\ \A y \in T : e <= y
  BY <1>2, <1>3, MinIs DEF RunEnd
<1>5. ASSUME NEW k \in i .. e - 1 PROVE b[k] \in S
  <2>1. k \in 1 .. Len(b) /\ k \in i .. Len(b) + 1 /\ k < e
    BY <1>1, <1>4
  <2>2. k \notin T
    BY <1>1, <1>4, <2>1
  <2>3. QED
    BY <2>1, <2>2 DEF At
<1>6. QED
  BY <1>4, <1>5

LEMMA RunEndUnique ==
  ASSUME NEW b \in Texts, NEW i \in 1 .. Len(b) + 1, NEW S, "end" \notin S,
         NEW j \in i .. Len(b) + 1, At(b, j) \notin S, \A k \in i .. j - 1 : b[k] \in S
  PROVE  RunEnd(b, i, S) = j
<1> DEFINE e == RunEnd(b, i, S)
<1>1. Len(b) \in Nat
  BY DEF Texts
<1>2. e \in i .. Len(b) + 1 /\ At(b, e) \notin S /\ \A k \in i .. e - 1 : b[k] \in S
  BY RunEndIs
<1> HIDE DEF e
<1>3. ~(e < j)
  BY <1>1, <1>2 DEF At
<1>4. ~(j < e)
  BY <1>1, <1>2 DEF At
<1>5. QED
  BY <1>1, <1>2, <1>3, <1>4 DEF e

-----------------------------------------------------------------------------
(* Numbers.                                                                *)

LEMMA SliceIs ==
  ASSUME NEW b \in Texts, NEW i \in 1 .. Len(b) + 1, NEW j \in i .. Len(b) + 1
  PROVE  /\ SubSeq(b, i, j - 1) \in Texts
         /\ Len(SubSeq(b, i, j - 1)) = j - i
         /\ DOMAIN SubSeq(b, i, j - 1) = 1 .. (j - i)
         /\ \A k \in 1 .. (j - i) : SubSeq(b, i, j - 1)[k] = b[i + k - 1]
<1>1. Len(b) \in Nat /\ \A k \in 1 .. Len(b) : b[k] \in STRING
  BY DEF Texts
<1>2. \A k \in i .. (j - 1) : b[k] \in STRING
  BY <1>1
<1>3. i \in Int /\ j - 1 \in Int
  BY <1>1
<1> DEFINE s == SubSeq(b, i, j - 1)
<1>4. /\ s \in Seq(STRING)
      /\ Len(s) = IF i <= j - 1 THEN (j - 1) - i + 1 ELSE 0
      /\ \A k \in 1 .. (j - 1) - i + 1 : s[k] = b[i + k - 1]
  BY <1>2, <1>3, SubSeqProperties
<1>5. QED
  BY <1>1, <1>4 DEF Texts

\* A run of digits has a value when one of them is not zero.
LEMMA ValueIsSome ==
  ASSUME NEW run \in Texts
  PROVE  Value(run) # <<>> <=> \E k \in 1 .. Len(run) : run[k] # "0"
<1> DEFINE firsts == {k \in DOMAIN run : run[k] # "0"}
<1>1. Len(run) \in Nat /\ DOMAIN run = 1 .. Len(run)
  BY DEF Texts
<1>2. CASE firsts = {}
  BY <1>1, <1>2 DEF Value
<1>3. CASE firsts # {}
  <2>1. firsts \in SUBSET Nat
    BY <1>1
  <2>2. Min(firsts) \in firsts
    BY <1>3, <2>1, MinIs
  <2>3. Min(firsts) \in 1 .. Len(run) /\ run[Min(firsts)] # "0"
    BY <1>1, <2>2
  <2>4. Value(run) = SubSeq(run, Min(firsts), Len(run))
    BY <1>3 DEF Value
  <2> HIDE DEF firsts
  <2>5. Len(SubSeq(run, Min(firsts), Len(run) + 1 - 1)) = Len(run) + 1 - Min(firsts)
    BY <1>1, <2>3, SliceIs
  <2>6. Len(Value(run)) # 0
    BY <1>1, <2>3, <2>4, <2>5
  <2>7. QED
    BY <2>3, <2>6
<1>4. QED
  BY <1>2, <1>3

\* number_at finds the number of the grammar.
LEMMA NumberAtIs ==
  ASSUME NEW b \in Texts, NEW i \in 1 .. Len(b) + 1, NEW n
  PROVE  n \in NumberAt(b, i) <=>
           \E e \in i .. Len(b) + 1 :
             IsNumber(b, i, e) /\ n = [number |-> Value(SubSeq(b, i, e - 1)), end |-> e]
<1> DEFINE e0 == RunEnd(b, i, Digits)
           run == SubSeq(b, i, e0 - 1)
           n0 == [number |-> Value(run), end |-> e0]
<1>1. Len(b) \in Nat
  BY DEF Texts
<1>2. "end" \notin Digits
  BY DEF Digits
<1>3. e0 \in i .. Len(b) + 1 /\ At(b, e0) \notin Digits /\ \A k \in i .. e0 - 1 : b[k] \in Digits
  BY <1>2, RunEndIs
<1>4. ASSUME NEW e \in i .. Len(b) + 1, IsNumber(b, i, e) PROVE e = e0
  <2>1. At(b, e) \notin Digits /\ \A k \in i .. e - 1 : b[k] \in Digits
    BY <1>4 DEF IsNumber, Words
  <2>2. QED
    BY <1>2, <2>1, RunEndUnique
<1> HIDE DEF e0
<1>5. /\ run \in Texts /\ Len(run) = e0 - i /\ DOMAIN run = 1 .. (e0 - i)
      /\ \A k \in 1 .. (e0 - i) : run[k] = b[i + k - 1]
  BY <1>3, SliceIs
<1>6. Value(run) # <<>> <=> \E k \in 1 .. Len(run) : run[k] # "0"
  BY <1>5, ValueIsSome
<1>7. Value(run) # <<>> <=> \E k \in i .. (e0 - 1) : b[k] # "0"
  <2>1. ASSUME NEW k \in 1 .. Len(run), run[k] # "0" PROVE \E m \in i .. (e0 - 1) : b[m] # "0"
    <3>1. i + k - 1 \in i .. (e0 - 1) /\ b[i + k - 1] # "0"
      BY <1>1, <1>3, <1>5, <2>1
    <3>2. QED
      BY <3>1
  <2>2. ASSUME NEW m \in i .. (e0 - 1), b[m] # "0" PROVE \E k \in 1 .. Len(run) : run[k] # "0"
    <3>1. m - i + 1 \in 1 .. Len(run) /\ run[m - i + 1] = b[m]
      <4>1. m - i + 1 \in 1 .. (e0 - i) /\ i + (m - i + 1) - 1 = m
        BY <1>1, <1>3
      <4>2. QED
        BY <1>5, <4>1
    <3>2. QED
      BY <2>2, <3>1
  <2>3. QED
    BY <1>6, <2>1, <2>2
<1>8. (\A k \in DOMAIN run : run[k] # "huge") <=> \A m \in i .. (e0 - 1) : b[m] # "huge"
  <2>1. ASSUME \A k \in DOMAIN run : run[k] # "huge", NEW m \in i .. (e0 - 1) PROVE b[m] # "huge"
    <3>1. m - i + 1 \in 1 .. (e0 - i) /\ i + (m - i + 1) - 1 = m
      BY <1>1, <1>3
    <3>2. QED
      BY <1>5, <2>1, <3>1
  <2>2. ASSUME \A m \in i .. (e0 - 1) : b[m] # "huge", NEW k \in DOMAIN run PROVE run[k] # "huge"
    <3>1. i + k - 1 \in i .. (e0 - 1) /\ run[k] = b[i + k - 1]
      BY <1>1, <1>3, <1>5
    <3>2. QED
      BY <2>2, <3>1
  <2>3. QED
    BY <2>1, <2>2
<1>9. n \in NumberAt(b, i) <=> n = n0 /\ At(b, e0) \notin Words
        /\ Value(run) # <<>> /\ \A k \in DOMAIN run : run[k] # "huge"
  <2>1. NumberAt(b, i) = {x \in {n0} : At(b, e0) \notin Words
          /\ x.number # <<>> /\ \A k \in DOMAIN run : run[k] # "huge"}
    BY DEF NumberAt, e0
  <2>2. n0.number = Value(run)
    OBVIOUS
  <2> HIDE DEF n0, run
  <2>3. QED
    BY <2>1, <2>2
<1>10. IsNumber(b, i, e0) <=>
         /\ At(b, e0) \notin Words /\ Value(run) # <<>> /\ \A k \in DOMAIN run : run[k] # "huge"
  <2>1. (\E k \in i .. (e0 - 1) : b[k] # "0") => i < e0
    BY <1>1, <1>3
  <2>2. QED
    BY <1>3, <1>7, <1>8, <2>1 DEF IsNumber
<1>11. QED
  BY <1>3, <1>4, <1>9, <1>10

-----------------------------------------------------------------------------
(* Targets.                                                                *)

\* A target of the grammar from p to e - 1, its # at h.
IsTarget(b, p, h, e) ==
  /\ h \in p .. Len(b) /\ b[h] = "#"
  /\ Repos(b, p, h) # {}
  /\ e \in (h + 1) .. Len(b) + 1 /\ IsNumber(b, h + 1, e)

TargetOf(b, p, h, e) ==
  [repo |-> IF p = h THEN Here ELSE SubSeq(b, p, h - 1),
   number |-> Value(SubSeq(b, h + 1, e - 1)),
   end |-> e]

\* A repository that is written out: a slash between two names.
LEMMA ReposIs ==
  ASSUME NEW b, NEW p \in Nat, NEW h \in Nat
  PROVE  /\ p = h => Repos(b, p, h) = {Here}
         /\ p # h => /\ Repos(b, p, h) # {} <=>
                          \E s \in (p + 1) .. (h - 2) :
                             b[s] = "/" /\ \A k \in (p .. (h - 1)) \ {s} : b[k] \in RepoSeg
                     /\ \A r : r \in Repos(b, p, h) <=>
                          Repos(b, p, h) # {} /\ r = SubSeq(b, p, h - 1)
<1>1. CASE p = h
  BY <1>1 DEF Repos
<1>2. CASE p # h
  <2> DEFINE G == {s \in (p + 1) .. (h - 2) :
                     b[s] = "/" /\ \A k \in (p .. (h - 1)) \ {s} : b[k] \in RepoSeg}
  <2>1. Repos(b, p, h) = {SubSeq(b, p, h - 1) : s \in G}
    BY <1>2 DEF Repos
  <2>2. G # {} <=> \E s \in (p + 1) .. (h - 2) :
                     b[s] = "/" /\ \A k \in (p .. (h - 1)) \ {s} : b[k] \in RepoSeg
    OBVIOUS
  <2> HIDE DEF G
  <2>3. QED
    BY <1>2, <2>1, <2>2
<1>3. QED
  BY <1>1, <1>2

LEMMA NumbersAtHash ==
  ASSUME NEW b \in Texts, NEW h \in 1 .. Len(b), NEW r, NEW t
  PROVE  t \in {Target(r, n) : n \in NumberAt(b, h + 1)} <=>
           \E e \in (h + 1) .. Len(b) + 1 :
             /\ IsNumber(b, h + 1, e)
             /\ t = [repo |-> r, number |-> Value(SubSeq(b, h + 1, e - 1)), end |-> e]
<1>1. Len(b) \in Nat
  BY DEF Texts
<1>2. h + 1 \in 1 .. Len(b) + 1
  BY <1>1
<1>3. \A n : n \in NumberAt(b, h + 1) <=>
         \E e \in (h + 1) .. Len(b) + 1 : IsNumber(b, h + 1, e)
           /\ n = [number |-> Value(SubSeq(b, h + 1, (e - 1))), end |-> e]
  BY <1>2, NumberAtIs
<1>4. \A e : Target(r, [number |-> Value(SubSeq(b, h + 1, (e - 1))), end |-> e])
         = [repo |-> r, number |-> Value(SubSeq(b, h + 1, e - 1)), end |-> e]
  BY DEF Target
<1>5. ASSUME NEW n \in NumberAt(b, h + 1), t = Target(r, n)
      PROVE  \E e \in (h + 1) .. Len(b) + 1 :
               /\ IsNumber(b, h + 1, e)
               /\ t = [repo |-> r, number |-> Value(SubSeq(b, h + 1, e - 1)), end |-> e]
  <2>1. PICK e \in (h + 1) .. Len(b) + 1 : IsNumber(b, h + 1, e)
          /\ n = [number |-> Value(SubSeq(b, h + 1, (e - 1))), end |-> e]
    BY <1>3
  <2>2. QED
    BY <1>4, <1>5, <2>1
<1>6. ASSUME NEW e \in (h + 1) .. Len(b) + 1, IsNumber(b, h + 1, e),
             t = [repo |-> r, number |-> Value(SubSeq(b, h + 1, e - 1)), end |-> e]
      PROVE  \E n \in NumberAt(b, h + 1) : t = Target(r, n)
  <2>1. [number |-> Value(SubSeq(b, h + 1, (e - 1))), end |-> e] \in NumberAt(b, h + 1)
    BY <1>3, <1>6
  <2>2. QED
    BY <1>4, <1>6, <2>1
<1>7. QED
  BY <1>5, <1>6

\* target_at finds the target of the grammar.
LEMMA TargetAtIs ==
  ASSUME NEW b \in Texts, NEW p \in 1 .. Len(b) + 1, NEW t
  PROVE  t \in TargetAt(b, p) <=> \E h, e : IsTarget(b, p, h, e) /\ t = TargetOf(b, p, h, e)
<1> DEFINE slash == RunEnd(b, p, RepoSeg)
           hash == RunEnd(b, slash + 1, RepoSeg)
<1>1. Len(b) \in Nat
  BY DEF Texts
<1>2. "end" \notin RepoSeg /\ "/" \notin RepoSeg /\ "#" \notin RepoSeg
  BY DEF RepoSeg, Words, Digits
<1>3. /\ slash \in p .. Len(b) + 1 /\ At(b, slash) \notin RepoSeg
      /\ \A k \in p .. slash - 1 : b[k] \in RepoSeg
  BY <1>2, RunEndIs
<1>4. At(b, p) = "#" <=> p <= Len(b) /\ b[p] = "#"
  BY <1>1 DEF At
<1>5. ASSUME NEW h, NEW e, IsTarget(b, p, h, e), p = h
      PROVE  At(b, p) = "#"
  BY <1>4, <1>5 DEF IsTarget
<1>6. ASSUME NEW h, NEW e, IsTarget(b, p, h, e), p # h
      PROVE  /\ At(b, p) # "#" /\ slash # p /\ At(b, slash) = "/"
             /\ hash # slash + 1 /\ At(b, hash) = "#" /\ h = hash
  <2>1. h \in p .. Len(b) /\ b[h] = "#" /\ p \in Nat /\ h \in Nat
    BY <1>1, <1>6 DEF IsTarget
  <2>2. PICK s \in (p + 1) .. (h - 2) :
          b[s] = "/" /\ \A k \in (p .. (h - 1)) \ {s} : b[k] \in RepoSeg
    BY <1>6, <2>1, ReposIs DEF IsTarget
  <2>3. s \in p .. Len(b) + 1 /\ At(b, s) = "/" /\ s \in 1 .. Len(b) /\ s \in Nat
    BY <1>1, <2>1, <2>2 DEF At
  <2>4. \A k \in p .. s - 1 : b[k] \in RepoSeg
    BY <2>1, <2>2
  <2>5. slash = s
    BY <1>2, <2>3, <2>4, RunEndUnique
  <2>6. s + 1 \in 1 .. Len(b) + 1 /\ h \in (s + 1) .. Len(b) + 1 /\ At(b, h) = "#"
    BY <1>1, <2>1, <2>2, <2>3 DEF At
  <2>7. \A k \in (s + 1) .. h - 1 : b[k] \in RepoSeg
    BY <2>1, <2>2, <2>3
  <2>8. RunEnd(b, s + 1, RepoSeg) = h
    BY <1>2, <2>6, <2>7, RunEndUnique
  <2>9. b[p] \in RepoSeg /\ p # s /\ h # s + 1
    BY <2>1, <2>2, <2>4
  <2>10. QED
    BY <1>2, <1>4, <2>3, <2>5, <2>6, <2>8, <2>9
<1>7. ASSUME At(b, p) = "#" PROVE p \in 1 .. Len(b) /\ b[p] = "#" /\ Repos(b, p, p) = {Here}
  BY <1>1, <1>4, <1>7, ReposIs
<1>8. ASSUME slash # p, At(b, slash) = "/", hash # slash + 1, At(b, hash) = "#"
      PROVE  /\ hash \in p .. Len(b) /\ hash \in 1 .. Len(b) /\ b[hash] = "#" /\ p # hash
             /\ Repos(b, p, hash) # {}
  <2>1. slash \in 1 .. Len(b) /\ b[slash] = "/" /\ slash + 1 \in 1 .. Len(b) + 1
    BY <1>1, <1>8 DEF At
  <2>2. /\ hash \in (slash + 1) .. Len(b) + 1
        /\ \A k \in (slash + 1) .. hash - 1 : b[k] \in RepoSeg
    BY <1>2, <2>1, RunEndIs
  <2>3. hash \in 1 .. Len(b) /\ b[hash] = "#"
    BY <1>8 DEF At
  <2> HIDE DEF hash, slash
  <2>4. slash \in (p + 1) .. (hash - 2)
    BY <1>1, <1>3, <1>8, <2>1, <2>2, <2>3
  <2>5. \A k \in (p .. (hash - 1)) \ {slash} : b[k] \in RepoSeg
    BY <1>1, <1>3, <2>1, <2>2, <2>3
  <2>6. p # hash /\ p \in Nat /\ hash \in Nat /\ hash \in p .. Len(b)
    BY <1>1, <2>3, <2>4
  <2>7. QED
    BY <2>1, <2>3, <2>4, <2>5, <2>6, ReposIs
<1> HIDE DEF hash, slash
<1>9. CASE At(b, p) = "#"
  <2>1. TargetAt(b, p) = {Target(Here, n) : n \in NumberAt(b, p + 1)}
    BY <1>9 DEF TargetAt
  <2>2. p \in 1 .. Len(b) /\ b[p] = "#" /\ Repos(b, p, p) # {}
    BY <1>7, <1>9
  <2>3. t \in TargetAt(b, p) <=> \E e \in (p + 1) .. Len(b) + 1 :
          IsNumber(b, p + 1, e) /\ t = TargetOf(b, p, p, e)
    BY <2>1, <2>2, NumbersAtHash DEF TargetOf
  <2>4. \A e : IsTarget(b, p, p, e) <=> e \in (p + 1) .. Len(b) + 1 /\ IsNumber(b, p + 1, e)
    BY <1>1, <2>2 DEF IsTarget
  <2>5. \A h, e : IsTarget(b, p, h, e) => h = p
    BY <1>6, <1>9
  <2>6. QED
    BY <2>3, <2>4, <2>5
<1>10. CASE At(b, p) # "#" /\ (slash = p \/ At(b, slash) # "/" \/ hash = slash + 1 \/ At(b, hash) # "#")
  <2>1. TargetAt(b, p) = {}
    BY <1>10 DEF TargetAt, hash, slash
  <2>2. \A h, e : ~IsTarget(b, p, h, e)
    BY <1>5, <1>6, <1>10
  <2>3. QED
    BY <2>1, <2>2
<1>11. CASE /\ At(b, p) # "#"
            /\ slash # p /\ At(b, slash) = "/" /\ hash # slash + 1 /\ At(b, hash) = "#"
  <2>1. TargetAt(b, p) = {Target(SubSeq(b, p, hash - 1), n) : n \in NumberAt(b, hash + 1)}
    BY <1>11 DEF TargetAt, hash, slash
  <2>2. hash \in 1 .. Len(b) /\ hash \in p .. Len(b) /\ b[hash] = "#" /\ p # hash
        /\ Repos(b, p, hash) # {}
    BY <1>8, <1>11
  <2>3. t \in TargetAt(b, p) <=> \E e \in (hash + 1) .. Len(b) + 1 :
          IsNumber(b, hash + 1, e) /\ t = TargetOf(b, p, hash, e)
    <3> DEFINE name == SubSeq(b, p, hash - 1)
    <3>1. \A e : TargetOf(b, p, hash, e) =
               [repo |-> name, number |-> Value(SubSeq(b, hash + 1, e - 1)), end |-> e]
      BY <2>2 DEF TargetOf
    <3>2. TargetAt(b, p) = {Target(name, n) : n \in NumberAt(b, hash + 1)}
      BY <2>1
    <3> HIDE DEF name
    <3>3. t \in {Target(name, n) : n \in NumberAt(b, hash + 1)} <=>
            \E e \in (hash + 1) .. Len(b) + 1 :
              /\ IsNumber(b, hash + 1, e)
              /\ t = [repo |-> name, number |-> Value(SubSeq(b, hash + 1, e - 1)), end |-> e]
      BY <2>2, NumbersAtHash
    <3>4. QED
      BY <3>1, <3>2, <3>3, Zenon
  <2>4. \A e : IsTarget(b, p, hash, e) <=> e \in (hash + 1) .. Len(b) + 1 /\ IsNumber(b, hash + 1, e)
    BY <2>2 DEF IsTarget
  <2>5. \A h, e : IsTarget(b, p, h, e) => h = hash
    BY <1>5, <1>6, <1>11
  <2>6. QED
    BY <2>3, <2>4, <2>5
<1>12. QED
  BY <1>9, <1>10, <1>11

\* What the tokens of a target are.
LEMMA TargetTokens ==
  ASSUME NEW b \in Texts, NEW p \in 1 .. Len(b) + 1, NEW h, NEW e, IsTarget(b, p, h, e)
  PROVE  /\ h \in p .. Len(b) /\ b[h] = "#"
         /\ e \in (h + 1) .. Len(b) + 1 /\ At(b, e) \notin Words
         /\ \A k \in (h + 1) .. (e - 1) : b[k] \in Digits
         /\ \A k \in p .. (h - 1) : b[k] \in RepoSeg \cup {"/"}
         /\ p # h => \E s \in (p + 1) .. (h - 2) :
                       b[s] = "/" /\ \A k \in (p .. (h - 1)) \ {s} : b[k] \in RepoSeg
<1>1. Len(b) \in Nat
  BY DEF Texts
<1>2. h \in p .. Len(b) /\ b[h] = "#" /\ e \in (h + 1) .. Len(b) + 1 /\ p \in Nat /\ h \in Nat
  BY <1>1 DEF IsTarget
<1>3. At(b, e) \notin Words /\ \A k \in (h + 1) .. (e - 1) : b[k] \in Digits
  BY DEF IsTarget, IsNumber
<1>4. CASE p = h
  BY <1>2, <1>3, <1>4
<1>5. CASE p # h
  <2>1. PICK s \in (p + 1) .. (h - 2) :
          b[s] = "/" /\ \A k \in (p .. (h - 1)) \ {s} : b[k] \in RepoSeg
    BY <1>2, <1>5, ReposIs DEF IsTarget
  <2>2. \A k \in p .. (h - 1) : b[k] \in RepoSeg \cup {"/"}
    BY <2>1
  <2>3. QED
    BY <1>2, <1>3, <2>1, <2>2
<1>6. QED
  BY <1>4, <1>5

\* A target starts with a # or the first token of an owner.
LEMMA TargetStarts ==
  ASSUME NEW b \in Texts, NEW p \in 1 .. Len(b) + 1, NEW t \in TargetAt(b, p)
  PROVE  p \in 1 .. Len(b) /\ b[p] \in RepoSeg \cup {"#"}
<1>1. Len(b) \in Nat
  BY DEF Texts
<1>2. PICK h, e : IsTarget(b, p, h, e)
  BY TargetAtIs
<1>3. /\ h \in p .. Len(b) /\ b[h] = "#"
      /\ p # h => \E s \in (p + 1) .. (h - 2) :
                    b[s] = "/" /\ \A k \in (p .. (h - 1)) \ {s} : b[k] \in RepoSeg
  BY <1>2, TargetTokens
<1>4. CASE p = h
  BY <1>1, <1>3, <1>4
<1>5. CASE p # h
  <2>1. PICK s \in (p + 1) .. (h - 2) : \A k \in (p .. (h - 1)) \ {s} : b[k] \in RepoSeg
    BY <1>3, <1>5
  <2>2. p \in (p .. (h - 1)) \ {s}
    BY <1>1, <1>3, <2>1
  <2>3. QED
    BY <1>1, <1>3, <2>1, <2>2
<1>6. QED
  BY <1>4, <1>5

\* The references of the grammar at p: a kind and a target.
LEMMA RefsAtIs ==
  ASSUME NEW b \in Texts, NEW p \in 1 .. Len(b), NEW r
  PROVE  r \in RefsAt(b, p) <=>
           \E k \in KindsAt(b, p), t \in TargetAt(b, p) :
             r = [kind |-> k, repo |-> t.repo, number |-> t.number]
<1>1. Len(b) \in Nat /\ p \in 1 .. Len(b) + 1 /\ p \in Nat
  BY DEF Texts
<1>2. \A h \in p .. Len(b) : \A n : n \in Numbers(b, h + 1) <=>
         \E e \in (h + 1) .. Len(b) + 1 : IsNumber(b, h + 1, e) /\ n = Value(SubSeq(b, h + 1, e - 1))
  BY DEF Numbers
<1>3. \A h \in p .. Len(b) : \A name : name \in Repos(b, p, h) <=>
         Repos(b, p, h) # {} /\ name = IF p = h THEN Here ELSE SubSeq(b, p, h - 1)
  <2> SUFFICES ASSUME NEW h \in p .. Len(b), NEW name
               PROVE  name \in Repos(b, p, h) <=>
                        /\ Repos(b, p, h) # {}
                        /\ name = IF p = h THEN Here ELSE SubSeq(b, p, h - 1)
    OBVIOUS
  <2>1. h \in Nat
    BY <1>1
  <2>2. CASE p = h
    BY <2>1, <2>2, ReposIs
  <2>3. CASE p # h
    <3>1. \A x : x \in Repos(b, p, h) <=> Repos(b, p, h) # {} /\ x = SubSeq(b, p, h - 1)
      BY <1>1, <2>1, <2>3, ReposIs
    <3>2. QED
      BY <2>3, <3>1
  <2>4. QED
    BY <2>2, <2>3
<1>4. ASSUME NEW h \in p .. Len(b), b[h] = "#",
             NEW k \in KindsAt(b, p), NEW name \in Repos(b, p, h), NEW n \in Numbers(b, h + 1),
             r = [kind |-> k, repo |-> name, number |-> n]
      PROVE  \E t \in TargetAt(b, p) : r = [kind |-> k, repo |-> t.repo, number |-> t.number]
  <2>1. PICK e \in (h + 1) .. Len(b) + 1 : IsNumber(b, h + 1, e) /\ n = Value(SubSeq(b, h + 1, e - 1))
    BY <1>2
  <2>2. IsTarget(b, p, h, e)
    BY <1>4, <2>1 DEF IsTarget
  <2>3. TargetOf(b, p, h, e) \in TargetAt(b, p)
    BY <1>1, <2>2, TargetAtIs
  <2>4. TargetOf(b, p, h, e).repo = name /\ TargetOf(b, p, h, e).number = n
    BY <1>3, <2>1 DEF TargetOf
  <2>5. QED
    BY <1>4, <2>3, <2>4
<1>5. ASSUME NEW k \in KindsAt(b, p), NEW t \in TargetAt(b, p),
             r = [kind |-> k, repo |-> t.repo, number |-> t.number]
      PROVE  \E h \in p .. Len(b) : b[h] = "#" /\
               \E name \in Repos(b, p, h), n \in Numbers(b, h + 1) :
                  r = [kind |-> k, repo |-> name, number |-> n]
  <2>1. PICK h, e : IsTarget(b, p, h, e) /\ t = TargetOf(b, p, h, e)
    BY <1>1, TargetAtIs
  <2>2. h \in p .. Len(b) /\ b[h] = "#" /\ Repos(b, p, h) # {}
        /\ e \in (h + 1) .. Len(b) + 1 /\ IsNumber(b, h + 1, e)
    BY <2>1 DEF IsTarget
  <2>3. t.repo \in Repos(b, p, h) /\ t.number \in Numbers(b, h + 1)
    BY <1>2, <1>3, <2>1, <2>2 DEF TargetOf
  <2>4. QED
    BY <1>5, <2>2, <2>3
<1>6. r \in RefsAt(b, p) <=>
        \E h \in p .. Len(b) : b[h] = "#" /\
          \E k \in KindsAt(b, p), name \in Repos(b, p, h), n \in Numbers(b, h + 1) :
             r = [kind |-> k, repo |-> name, number |-> n]
  BY DEF RefsAt
<1>7. QED
  BY <1>4, <1>5, <1>6

-----------------------------------------------------------------------------
(* Keywords.                                                               *)

Keywords == {"fixes", "blocks", "depends", "blocked"}

\* A keyword of the grammar at i, before a target that starts at p.
Phrase(b, i, p, kind) ==
  /\ i \in 1 .. (p - 2) /\ IsWordOf(b, i, i + 1)
  /\ \/ b[i] \in DOMAIN Single /\ kind = Single[b[i]] /\ Separates(b, i + 1, p)
     \/ /\ b[i] \in DOMAIN Pair /\ kind = Pair[b[i]].kind
        /\ \E j \in 3 .. (p - 2) :
             /\ i + 1 < j /\ \A k \in (i + 1) .. (j - 1) : b[k] = Space
             /\ b[j] = Pair[b[i]].second /\ IsWordOf(b, j, j + 1) /\ Separates(b, j + 1, p)

LEMMA KindBeforeIs ==
  ASSUME NEW b, NEW p, NEW kind
  PROVE  kind \in KindBefore(b, p) <=> \E i : Phrase(b, i, p, kind)
BY DEF KindBefore, Phrase

LEMMA KeywordTables ==
  /\ DOMAIN Single = {"fixes", "blocks"} /\ DOMAIN Pair = {"depends", "blocked"}
  /\ \A w \in DOMAIN Pair : Pair[w].second \in {"on", "by"}
  /\ DOMAIN Single \cup DOMAIN Pair = Keywords
  /\ Keywords \subseteq Words /\ "on" \in Words /\ "by" \in Words
  /\ Keywords \cap Digits = {} /\ Words \subseteq RepoSeg
BY DEF Single, Pair, Keywords, Words, Digits, RepoSeg

LEMMA SpaceIs == Space \notin RepoSeg \cup {":", "#", "/", "end"}
<1>1. /\ Space # "7" /\ Space # "0" /\ Space # "huge" /\ Space # "fixes" /\ Space # "blocks"
      /\ Space # "depends" /\ Space # "on" /\ Space # "blocked" /\ Space # "by" /\ Space # "app"
      /\ Space # "-" /\ Space # "." /\ Space # ":" /\ Space # "#" /\ Space # "/" /\ Space # "end"
  BY Zenon DEF Space
<1>2. QED
  BY <1>1 DEF RepoSeg, Words, Digits

\* A word of one token.
LEMMA WordAtIs ==
  ASSUME NEW b \in Texts, NEW i \in 1 .. Len(b) + 1
  PROVE  /\ Len(WordAt(b, i)) = 1 <=>
               i <= Len(b) /\ b[i] \in Words /\ At(b, i + 1) \notin Words
         /\ Len(WordAt(b, i)) = 1 =>
               /\ WordAt(b, i) = <<b[i]>> /\ WordAt(b, i)[1] = b[i]
               /\ RunEnd(b, i, Words) = i + 1
<1> DEFINE e == RunEnd(b, i, Words)
<1>1. Len(b) \in Nat
  BY DEF Texts
<1>2. "end" \notin Words
  BY DEF Words, Digits
<1>3. e \in i .. Len(b) + 1 /\ At(b, e) \notin Words /\ \A k \in i .. e - 1 : b[k] \in Words
  BY <1>2, RunEndIs
<1>4. ASSUME i <= Len(b), b[i] \in Words, At(b, i + 1) \notin Words
      PROVE  e = i + 1
  <2>1. i + 1 \in i .. Len(b) + 1 /\ \A k \in i .. (i + 1) - 1 : b[k] \in Words
    BY <1>1, <1>4
  <2>2. QED
    BY <1>2, <1>4, <2>1, RunEndUnique
<1> HIDE DEF e
<1>5. /\ SubSeq(b, i, e - 1) \in Texts /\ Len(SubSeq(b, i, e - 1)) = e - i
      /\ \A k \in 1 .. (e - i) : SubSeq(b, i, e - 1)[k] = b[i + k - 1]
  BY <1>3, SliceIs
<1>6. WordAt(b, i) = SubSeq(b, i, e - 1)
  BY DEF WordAt, e
<1>7. Len(WordAt(b, i)) = 1 <=> e = i + 1
  BY <1>1, <1>3, <1>5, <1>6
<1>8. ASSUME e = i + 1
      PROVE  /\ i <= Len(b) /\ b[i] \in Words /\ At(b, i + 1) \notin Words
             /\ WordAt(b, i) = <<b[i]>> /\ WordAt(b, i)[1] = b[i]
  <2>1. i <= Len(b) /\ b[i] \in Words /\ At(b, i + 1) \notin Words
    BY <1>1, <1>3, <1>8
  <2>2. WordAt(b, i) \in Texts /\ Len(WordAt(b, i)) = 1 /\ WordAt(b, i)[1] = b[i]
    BY <1>1, <1>5, <1>6, <1>8
  <2>3. b[i] \in STRING
    BY <1>1, <2>1 DEF Texts
  <2>4. WordAt(b, i) = <<b[i]>>
    BY <2>2, <2>3 DEF Texts
  <2>5. QED
    BY <2>1, <2>2, <2>4
<1>9. QED
  BY <1>4, <1>7, <1>8 DEF e

LEMMA KeywordIs ==
  ASSUME NEW b \in Texts, NEW i \in 1 .. Len(b), AtBoundary(b, i)
  PROVE  /\ IsKeyword(WordAt(b, i)) <=> b[i] \in Keywords /\ IsWordOf(b, i, i + 1)
         /\ IsKeyword(WordAt(b, i)) => WordAt(b, i)[1] = b[i] /\ RunEnd(b, i, Words) = i + 1
<1>1. Len(b) \in Nat /\ i \in 1 .. Len(b) + 1
  BY DEF Texts
<1>2. IsKeyword(WordAt(b, i)) <=> Len(WordAt(b, i)) = 1 /\ WordAt(b, i)[1] \in Keywords
  BY KeywordTables DEF IsKeyword
<1>3. IsWordOf(b, i, i + 1) <=> At(b, i + 1) \notin Words /\ b[i] \in Words
  BY <1>1 DEF IsWordOf
<1>4. QED
  BY <1>1, <1>2, <1>3, WordAtIs, KeywordTables

\* bind_target passes the separator of the grammar.
LEMMA BindTargetIs ==
  ASSUME NEW b \in Texts, NEW i \in 1 .. Len(b) + 1, NEW t
  PROVE  t \in BindTarget(b, i) <=>
           \E p \in (i + 1) .. Len(b) : Separates(b, i, p) /\ t \in TargetAt(b, p)
<1> DEFINE from == IF At(b, i) = ":" THEN i + 1 ELSE i
           to == RunEnd(b, from, {Space})
<1>1. Len(b) \in Nat
  BY DEF Texts
<1>2. from \in i .. Len(b) + 1 /\ from \in 1 .. Len(b) + 1
  BY <1>1 DEF At
<1>3. from = i + 1 <=> i <= Len(b) /\ b[i] = ":"
  BY <1>1 DEF At
<1>4. from = i \/ from = i + 1
  OBVIOUS
<1> HIDE DEF from
<1>5. to \in from .. Len(b) + 1 /\ At(b, to) # Space /\ \A k \in from .. to - 1 : b[k] = Space
  BY <1>2, RunEndIs, SpaceIs
<1> HIDE DEF to
<1>6. t \in BindTarget(b, i) <=> to # i /\ t \in TargetAt(b, to)
  BY DEF BindTarget, from, to
<1>7. ASSUME to # i, t \in TargetAt(b, to)
      PROVE  to \in (i + 1) .. Len(b) /\ Separates(b, i, to)
  <2>1. to \in 1 .. Len(b) + 1
    BY <1>1, <1>2, <1>5
  <2>2. to \in 1 .. Len(b)
    BY <1>7, <2>1, TargetStarts
  <2>3. i < to
    BY <1>1, <1>2, <1>5, <1>7
  <2>4. b[i] \in {":", Space} /\ \A k \in (i + 1) .. (to - 1) : b[k] = Space
    BY <1>1, <1>2, <1>3, <1>4, <1>5, <2>2, <2>3
  <2>5. QED
    BY <1>1, <2>2, <2>3, <2>4 DEF Separates
<1>8. ASSUME NEW p \in (i + 1) .. Len(b), Separates(b, i, p), t \in TargetAt(b, p)
      PROVE  to = p
  <2>1. p \in 1 .. Len(b) + 1 /\ p \in 1 .. Len(b)
    BY <1>1
  <2>2. b[p] \in RepoSeg \cup {"#"}
    BY <1>8, <2>1, TargetStarts
  <2>3. At(b, p) # Space
    BY <2>1, <2>2, SpaceIs DEF At
  <2>4. p \in from .. Len(b) + 1
    BY <1>1, <1>2, <1>4
  <2>5. \A k \in from .. p - 1 : b[k] = Space
    BY <1>1, <1>3, <1>4, <1>8 DEF Separates
  <2>6. RunEnd(b, from, {Space}) = p
    <3>1. "end" \notin {Space} /\ At(b, p) \notin {Space} /\ \A k \in from .. p - 1 : b[k] \in {Space}
      BY <2>3, <2>5, SpaceIs
    <3>2. QED
      BY <1>2, <2>4, <3>1, RunEndUnique
  <2>7. QED
    BY <2>6 DEF to
<1>9. QED
  <2>1. ASSUME NEW p \in (i + 1) .. Len(b), Separates(b, i, p), t \in TargetAt(b, p)
        PROVE  to # i /\ t \in TargetAt(b, to)
    BY <1>1, <1>8, <2>1
  <2>2. QED
    BY <1>6, <1>7, <2>1

\* second_word passes spaces and the word of the grammar.
LEMMA SecondWordIs ==
  ASSUME NEW b \in Texts, NEW i \in 1 .. Len(b) + 1, NEW w \in Words, NEW end
  PROVE  end \in SecondWord(b, i, w) <=>
           \E j \in (i + 1) .. Len(b) :
             /\ \A k \in i .. (j - 1) : b[k] = Space
             /\ b[j] = w /\ IsWordOf(b, j, j + 1) /\ end = j + 1
<1> DEFINE from == RunEnd(b, i, {Space})
<1>1. Len(b) \in Nat
  BY DEF Texts
<1>2. from \in i .. Len(b) + 1 /\ At(b, from) # Space /\ \A k \in i .. from - 1 : b[k] = Space
  BY RunEndIs, SpaceIs
<1>3. from \in 1 .. Len(b) + 1
  BY <1>1, <1>2
<1>4. Space \notin Words
  BY SpaceIs DEF RepoSeg
<1>5. ASSUME NEW j \in (i + 1) .. Len(b), \A k \in i .. (j - 1) : b[k] = Space, b[j] = w
      PROVE  j = from
  <2>1. j \in i .. Len(b) + 1 /\ At(b, j) \notin {Space} /\ \A k \in i .. j - 1 : b[k] \in {Space}
    BY <1>1, <1>4, <1>5 DEF At
  <2>2. QED
    BY <2>1, RunEndUnique, SpaceIs
<1> HIDE DEF from
<1>6. end \in SecondWord(b, i, w) <=>
        end = RunEnd(b, from, Words) /\ from > i /\ WordAt(b, from) = <<w>>
  BY DEF SecondWord, from
<1>7. ASSUME from > i, WordAt(b, from) = <<w>>
      PROVE  /\ from \in (i + 1) .. Len(b) /\ b[from] = w /\ IsWordOf(b, from, from + 1)
             /\ RunEnd(b, from, Words) = from + 1
  <2>1. Len(WordAt(b, from)) = 1 /\ WordAt(b, from)[1] = w
    BY <1>7
  <2>2. from <= Len(b) /\ b[from] \in Words /\ At(b, from + 1) \notin Words
        /\ b[from] = w /\ RunEnd(b, from, Words) = from + 1
    BY <1>3, <2>1, WordAtIs
  <2>3. b[from - 1] = Space /\ from # 1
    BY <1>1, <1>2, <1>7
  <2>4. AtBoundary(b, from)
    BY <1>4, <2>3 DEF AtBoundary
  <2>5. IsWordOf(b, from, from + 1)
    BY <1>1, <1>3, <2>2, <2>4 DEF IsWordOf
  <2>6. QED
    BY <1>1, <1>2, <1>7, <2>2, <2>5
<1>8. ASSUME NEW j \in (i + 1) .. Len(b), j = from, b[j] = w, IsWordOf(b, j, j + 1)
      PROVE  from > i /\ WordAt(b, from) = <<w>> /\ RunEnd(b, from, Words) = j + 1
  <2>1. At(b, j + 1) \notin Words
    BY <1>8 DEF IsWordOf
  <2>2. Len(WordAt(b, from)) = 1
    BY <1>1, <1>3, <1>8, <2>1, WordAtIs
  <2>3. QED
    BY <1>1, <1>3, <1>8, <2>2, WordAtIs
<1>9. QED
  BY <1>2, <1>5, <1>6, <1>7, <1>8

KeywordAt(b, i) == b[i] \in Keywords /\ IsWordOf(b, i, i + 1)

\* What a keyword binds is the adjacent target of the grammar.
LEMMA BoundIs ==
  ASSUME NEW b \in Texts, NEW i \in 1 .. Len(b), KeywordAt(b, i), NEW f
  PROVE  f \in Bound(b, i) <=>
           \E p \in 1 .. Len(b) : \E kind : \E t \in TargetAt(b, p) :
             Phrase(b, i, p, kind) /\ f = [kind |-> kind, target |-> t]
<1> DEFINE w == b[i]
<1>1. Len(b) \in Nat /\ i + 1 \in 1 .. Len(b) + 1
  BY DEF Texts
<1>2. AtBoundary(b, i) /\ IsWordOf(b, i, i + 1) /\ w \in DOMAIN Single \cup DOMAIN Pair
  BY KeywordTables DEF KeywordAt, IsWordOf
<1>3. WordAt(b, i)[1] = w /\ RunEnd(b, i, Words) = i + 1
  BY <1>2, KeywordIs DEF KeywordAt
<1>4. CASE w \in DOMAIN Single
  <2>1. Bound(b, i) = {[kind |-> Single[w], target |-> t] : t \in BindTarget(b, i + 1)}
    BY <1>3, <1>4 DEF Bound
  <2>2. w \notin DOMAIN Pair
    BY <1>4, KeywordTables
  <2>3. \A t : t \in BindTarget(b, i + 1) <=>
           \E p \in (i + 2) .. Len(b) : Separates(b, i + 1, p) /\ t \in TargetAt(b, p)
    <3>1. \A t : t \in BindTarget(b, i + 1) <=>
             \E p \in ((i + 1) + 1) .. Len(b) : Separates(b, i + 1, p) /\ t \in TargetAt(b, p)
      BY <1>1, BindTargetIs
    <3>2. (i + 1) + 1 = i + 2
      BY <1>1
    <3>3. QED
      BY <3>1, <3>2
  <2>4. \A p \in 1 .. Len(b) : \A kind : Phrase(b, i, p, kind) <=>
           p \in (i + 2) .. Len(b) /\ kind = Single[w] /\ Separates(b, i + 1, p)
    BY <1>1, <1>2, <1>4, <2>2 DEF Phrase
  <2>5. \A p \in (i + 2) .. Len(b) : p \in 1 .. Len(b)
    BY <1>1
  <2>6. QED
    BY <2>1, <2>3, <2>4, <2>5
<1>5. CASE w \in DOMAIN Pair
  <2> DEFINE second == Pair[w].second
             kind0 == Pair[w].kind
  <2>1. w \notin DOMAIN Single /\ second \in Words
    BY <1>5, KeywordTables
  <2>2. \A g : g \in Bound(b, i) <=> \E after \in SecondWord(b, i + 1, second) :
           \E t \in BindTarget(b, after) : g = [kind |-> kind0, target |-> t]
    BY <1>3, <2>1 DEF Bound
  <2> HIDE DEF second, kind0
  <2>3. ASSUME NEW after \in SecondWord(b, i + 1, second), NEW t \in BindTarget(b, after),
               f = [kind |-> kind0, target |-> t]
        PROVE  \E p \in 1 .. Len(b) : t \in TargetAt(b, p) /\ Phrase(b, i, p, kind0)
    <3>1. PICK j \in ((i + 1) + 1) .. Len(b) :
            /\ \A k \in (i + 1) .. (j - 1) : b[k] = Space
            /\ b[j] = second /\ IsWordOf(b, j, j + 1) /\ after = j + 1
      BY <1>1, <2>1, SecondWordIs
    <3>2. j + 1 \in 1 .. Len(b) + 1
      BY <1>1
    <3>3. PICK p \in ((j + 1) + 1) .. Len(b) : Separates(b, j + 1, p) /\ t \in TargetAt(b, p)
      BY <3>1, <3>2, BindTargetIs
    <3>4. i \in 1 .. (p - 2) /\ j \in 3 .. (p - 2) /\ i + 1 < j /\ p \in 1 .. Len(b)
      BY <1>1, <3>1, <3>3
    <3>5. Phrase(b, i, p, kind0)
      BY <1>2, <1>5, <3>1, <3>3, <3>4 DEF Phrase, second, kind0
    <3>6. QED
      BY <3>3, <3>4, <3>5
  <2>4. ASSUME NEW p \in 1 .. Len(b), NEW kind, NEW t \in TargetAt(b, p), Phrase(b, i, p, kind)
        PROVE  kind = kind0 /\ \E after \in SecondWord(b, i + 1, second) : t \in BindTarget(b, after)
    <3>1. PICK j \in 3 .. (p - 2) :
             /\ i + 1 < j /\ \A k \in (i + 1) .. (j - 1) : b[k] = Space
             /\ b[j] = second /\ IsWordOf(b, j, j + 1) /\ Separates(b, j + 1, p)
      BY <2>1, <2>4 DEF Phrase, second
    <3>2. kind = kind0
      BY <2>1, <2>4 DEF Phrase, kind0
    <3>3. j \in ((i + 1) + 1) .. Len(b) /\ j + 1 \in 1 .. Len(b) + 1 /\ p \in ((j + 1) + 1) .. Len(b)
      BY <1>1, <3>1
    <3>4. j + 1 \in SecondWord(b, i + 1, second)
      BY <1>1, <2>1, <3>1, <3>3, SecondWordIs
    <3>5. t \in BindTarget(b, j + 1)
      BY <3>1, <3>3, BindTargetIs
    <3>6. QED
      BY <3>2, <3>4, <3>5
  <2>5. QED
    BY <2>2, <2>3, <2>4
<1>6. QED
  BY <1>2, <1>4, <1>5

\* What the scan finds at i: a phrase that starts there, or a mention.
LEMMA FoundAtIs ==
  ASSUME NEW b \in Texts, NEW i \in 1 .. Len(b), NEW f
  PROVE  f \in FoundAt(b, i) <=>
           \/ \E p \in 1 .. Len(b) : \E kind : \E t \in TargetAt(b, p) :
                Phrase(b, i, p, kind) /\ f = [kind |-> kind, target |-> t]
           \/ /\ AtBoundary(b, i) /\ ~KeywordAt(b, i) /\ b[i] \in Words \cup {"#"}
              /\ \E t \in TargetAt(b, i) : f = [kind |-> "mentions", target |-> t]
<1>1. \A p, kind : Phrase(b, i, p, kind) => KeywordAt(b, i)
  BY KeywordTables DEF Phrase, KeywordAt
<1>2. KeywordAt(b, i) => AtBoundary(b, i) /\ b[i] \in Words
  BY KeywordTables DEF KeywordAt, IsWordOf
<1>3. AtBoundary(b, i) => (IsKeyword(WordAt(b, i)) <=> KeywordAt(b, i))
  BY KeywordIs DEF KeywordAt
<1>4. CASE KeywordAt(b, i)
  <2>1. FoundAt(b, i) = Bound(b, i)
    BY <1>2, <1>3, <1>4 DEF FoundAt
  <2>2. f \in Bound(b, i) <=>
           \E p \in 1 .. Len(b) : \E kind : \E t \in TargetAt(b, p) :
             Phrase(b, i, p, kind) /\ f = [kind |-> kind, target |-> t]
    BY <1>4, BoundIs
  <2>3. QED
    BY <1>4, <2>1, <2>2
<1>5. CASE ~KeywordAt(b, i)
  <2>1. f \in FoundAt(b, i) <=>
          /\ AtBoundary(b, i) /\ b[i] \in Words \cup {"#"}
          /\ \E t \in TargetAt(b, i) : f = [kind |-> "mentions", target |-> t]
    BY <1>3, <1>5 DEF FoundAt
  <2>2. QED
    BY <1>1, <1>5, <2>1
<1>6. QED
  BY <1>4, <1>5

-----------------------------------------------------------------------------
(* What the scan passes over.                                              *)

Separators == {":", Space}

\* Between a keyword and its target stand separators, and the second word.
LEMMA PhraseTokens ==
  ASSUME NEW b \in Texts, NEW p \in 1 .. Len(b), NEW i, NEW kind, Phrase(b, i, p, kind)
  PROVE  /\ i \in 1 .. (p - 2) /\ KeywordAt(b, i) /\ AtBoundary(b, i)
         /\ b[i + 1] \in Separators /\ b[p - 1] \in Separators
         /\ \A k \in (i + 1) .. (p - 1) :
              \/ b[k] \in Separators
              \/ b[k] \in {"on", "by"} /\ b[k + 1] \in Separators /\ k + 1 \in 1 .. (p - 1)
<1>1. Len(b) \in Nat /\ i \in 1 .. (p - 2) /\ IsWordOf(b, i, i + 1) /\ AtBoundary(b, i)
  BY DEF Texts, Phrase, IsWordOf
<1>2. KeywordAt(b, i)
  BY KeywordTables DEF Phrase, KeywordAt
<1>3. ASSUME NEW m \in Nat, Separates(b, m, p)
      PROVE  m < p /\ b[m] \in Separators /\ b[p - 1] \in Separators
             /\ \A k \in m .. (p - 1) : b[k] \in Separators
  <2>1. m < p /\ b[m] \in Separators /\ \A k \in (m + 1) .. (p - 1) : b[k] \in Separators
    BY <1>3 DEF Separates, Separators
  <2>2. \A k \in m .. (p - 1) : b[k] \in Separators
    BY <2>1
  <2>3. p - 1 \in m .. (p - 1)
    BY <2>1
  <2>4. QED
    BY <2>1, <2>2, <2>3
<1>4. CASE Separates(b, i + 1, p)
  BY <1>1, <1>2, <1>3, <1>4
<1>5. CASE ~Separates(b, i + 1, p)
  <2>1. b[i] \in DOMAIN Pair
    BY <1>5 DEF Phrase
  <2>2. PICK j \in 3 .. (p - 2) :
           /\ i + 1 < j /\ \A k \in (i + 1) .. (j - 1) : b[k] = Space
           /\ b[j] = Pair[b[i]].second /\ Separates(b, j + 1, p)
    BY <1>5 DEF Phrase
  <2>3. b[j] \in {"on", "by"}
    BY <2>1, <2>2, KeywordTables
  <2>4. b[j + 1] \in Separators /\ b[p - 1] \in Separators
        /\ \A k \in (j + 1) .. (p - 1) : b[k] \in Separators
    BY <1>3, <2>2
  <2>5. \A k \in (i + 1) .. (j - 1) : b[k] \in Separators
    BY <2>2 DEF Separators
  <2>6. b[i + 1] \in Separators
    BY <1>1, <2>2, <2>5
  <2>7. \A k \in (i + 1) .. (p - 1) :
          \/ b[k] \in Separators
          \/ b[k] \in {"on", "by"} /\ b[k + 1] \in Separators /\ k + 1 \in 1 .. (p - 1)
    BY <1>1, <2>2, <2>3, <2>4, <2>5
  <2>8. QED
    BY <1>1, <1>2, <2>4, <2>6, <2>7
<1>6. QED
  BY <1>4, <1>5

\* A keyword binds one target.
LEMMA PhraseUnique ==
  ASSUME NEW b \in Texts, NEW p \in 1 .. Len(b), NEW q \in 1 .. Len(b), NEW i, NEW k1, NEW k2,
         Phrase(b, i, p, k1), Phrase(b, i, q, k2), TargetAt(b, p) # {}, TargetAt(b, q) # {}
  PROVE  p = q
<1>1. Len(b) \in Nat /\ p \in 1 .. Len(b) + 1 /\ q \in 1 .. Len(b) + 1 /\ i \in Nat
  BY DEF Texts, Phrase
<1>2. b[p] # Space /\ b[q] # Space
  BY <1>1, TargetStarts, SpaceIs
<1>3. ASSUME NEW m \in Nat, Separates(b, m, p), Separates(b, m, q)
      PROVE  p = q
  <2>1. ~(p < q)
    BY <1>1, <1>2, <1>3 DEF Separates
  <2>2. ~(q < p)
    BY <1>1, <1>2, <1>3 DEF Separates
  <2>3. QED
    BY <2>1, <2>2
<1>4. CASE b[i] \in DOMAIN Single
  <2>1. b[i] \notin DOMAIN Pair
    BY <1>4, KeywordTables
  <2>2. Separates(b, i + 1, p) /\ Separates(b, i + 1, q)
    BY <2>1 DEF Phrase
  <2>3. QED
    BY <1>1, <1>3, <2>2
<1>5. CASE b[i] \in DOMAIN Pair
  <2>1. b[i] \notin DOMAIN Single
    BY <1>5, KeywordTables
  <2>2. PICK j \in 3 .. (p - 2) :
           /\ i + 1 < j /\ \A k \in (i + 1) .. (j - 1) : b[k] = Space
           /\ b[j] = Pair[b[i]].second /\ Separates(b, j + 1, p)
    BY <2>1 DEF Phrase
  <2>3. PICK m \in 3 .. (q - 2) :
           /\ i + 1 < m /\ \A k \in (i + 1) .. (m - 1) : b[k] = Space
           /\ b[m] = Pair[b[i]].second /\ Separates(b, m + 1, q)
    BY <2>1 DEF Phrase
  <2>4. b[j] # Space /\ b[m] # Space
    <3>1. b[j] \in Words /\ b[m] \in Words
      BY <1>5, <2>2, <2>3, KeywordTables
    <3>2. QED
      BY <3>1, SpaceIs DEF RepoSeg
  <2>5. ~(j < m) /\ ~(m < j)
    BY <1>1, <2>2, <2>3, <2>4
  <2>6. j = m /\ j + 1 \in Nat
    BY <2>5
  <2>7. QED
    BY <1>3, <2>2, <2>3, <2>6
<1>6. QED
  BY <1>4, <1>5, KeywordTables DEF Phrase

\* What the scan found at i, and where the next position is.
Past(b, i, p, h, e) ==
  /\ p \in 1 .. Len(b) /\ IsTarget(b, p, h, e)
  /\ \/ p = i /\ ~KeywordAt(b, i)
     \/ \E kind : Phrase(b, i, p, kind)

LEMMA OnwardIs ==
  ASSUME NEW b \in Texts, NEW i \in 1 .. Len(b)
  PROVE  /\ Onward(b, i) \in (i + 1) .. Len(b) + 1
         /\ \/ \E p, h : Past(b, i, p, h, Onward(b, i))
            \/ FoundAt(b, i) = {} /\ \A k \in i .. Onward(b, i) - 1 : b[k] \in Words
            \/ FoundAt(b, i) = {} /\ Onward(b, i) = i + 1
<1>1. Len(b) \in Nat /\ i \in 1 .. Len(b) + 1
  BY DEF Texts
<1>2. CASE FoundAt(b, i) # {}
  <2>1. PICK f \in FoundAt(b, i) : Onward(b, i) = f.target.end
    BY <1>2 DEF Onward
  <2>2. PICK p \in 1 .. Len(b) : \E kind : \E t \in TargetAt(b, p) :
          /\ f = [kind |-> kind, target |-> t]
          /\ (p = i /\ ~KeywordAt(b, i)) \/ Phrase(b, i, p, kind)
    BY FoundAtIs
  <2> PICK kind, t : /\ t \in TargetAt(b, p)
                     /\ f = [kind |-> kind, target |-> t]
                     /\ (p = i /\ ~KeywordAt(b, i)) \/ Phrase(b, i, p, kind)
    BY <2>2
  <2>3. p \in 1 .. Len(b) + 1
    BY <1>1
  <2>4. PICK h, e : IsTarget(b, p, h, e) /\ t = TargetOf(b, p, h, e)
    BY <2>2, <2>3, TargetAtIs
  <2>5. Onward(b, i) = e
    BY <2>1, <2>2, <2>4 DEF TargetOf
  <2>6. Past(b, i, p, h, Onward(b, i))
    BY <2>2, <2>4, <2>5 DEF Past
  <2>7. h \in p .. Len(b) /\ e \in (h + 1) .. Len(b) + 1
    BY <2>3, <2>4, TargetTokens
  <2>8. p = i \/ i \in 1 .. (p - 2)
    BY <2>2 DEF Phrase
  <2>9. e \in (i + 1) .. Len(b) + 1
    BY <1>1, <2>7, <2>8
  <2>10. QED
    BY <2>5, <2>6, <2>9
<1>3. CASE FoundAt(b, i) = {} /\ AtBoundary(b, i) /\ b[i] \in Words
  <2>1. "end" \notin Words
    BY DEF Words, Digits
  <2>2. Onward(b, i) = RunEnd(b, i, Words)
    BY <1>3 DEF Onward
  <2>3. /\ Onward(b, i) \in i .. Len(b) + 1 /\ At(b, Onward(b, i)) \notin Words
        /\ \A k \in i .. Onward(b, i) - 1 : b[k] \in Words
    BY <1>1, <2>1, <2>2, RunEndIs
  <2>4. Onward(b, i) # i
    BY <1>3, <2>3 DEF At
  <2>5. QED
    BY <1>1, <1>3, <2>3, <2>4
<1>4. CASE FoundAt(b, i) = {} /\ ~(AtBoundary(b, i) /\ b[i] \in Words)
  BY <1>1, <1>4 DEF Onward
<1>5. QED
  BY <1>2, <1>3, <1>4

\* No keyword stands, before a separator, inside what was found.
LEMMA NoKeywordInside ==
  ASSUME NEW b \in Texts, NEW i \in 1 .. Len(b), NEW p, NEW h, NEW e, Past(b, i, p, h, e),
         NEW k \in (i + 1) .. (e - 1), b[k] \in Keywords
  PROVE  b[k + 1] \notin Separators
<1>1. Len(b) \in Nat /\ p \in 1 .. Len(b) /\ p \in 1 .. Len(b) + 1 /\ IsTarget(b, p, h, e)
  BY DEF Texts, Past
<1>2. /\ h \in p .. Len(b) /\ b[h] = "#" /\ e \in (h + 1) .. Len(b) + 1
      /\ \A m \in (h + 1) .. (e - 1) : b[m] \in Digits
      /\ \A m \in p .. (h - 1) : b[m] \in RepoSeg \cup {"/"}
  BY <1>1, TargetTokens
<1>3. Separators \cap (RepoSeg \cup {"/", "#"}) = {} /\ Separators \cap Keywords = {}
  <2>1. ":" \notin RepoSeg \cup {"/", "#"} /\ ":" \notin Keywords
    BY DEF RepoSeg, Words, Digits, Keywords
  <2>2. Space \notin RepoSeg \cup {"/", "#"} /\ Space \notin Keywords
    BY SpaceIs, KeywordTables
  <2>3. QED
    BY <2>1, <2>2 DEF Separators
<1>4. k >= p
  <2> SUFFICES ASSUME k < p PROVE FALSE
    BY <1>1
  <2>1. PICK kind : Phrase(b, i, p, kind)
    BY <1>1 DEF Past
  <2>2. b[k] \in Separators \/ b[k] \in {"on", "by"}
    BY <1>1, <2>1, PhraseTokens
  <2>3. QED
    BY <1>3, <2>2 DEF Keywords
<1>5. k < h
  <2>1. "#" \notin Keywords /\ Keywords \cap Digits = {}
    BY DEF Keywords, Digits
  <2>2. QED
    BY <1>1, <1>2, <2>1
<1>6. b[k + 1] \in RepoSeg \cup {"/", "#"}
  <2>1. CASE k + 1 = h
    BY <1>2, <2>1
  <2>2. CASE k + 1 # h
    BY <1>1, <1>2, <1>4, <1>5, <2>2
  <2>3. QED
    BY <2>1, <2>2
<1>7. QED
  BY <1>3, <1>6

\* The scan passes over no phrase.
LEMMA NoPhraseSkipped ==
  ASSUME NEW b \in Texts, NEW i \in 1 .. Len(b), NEW k \in (i + 1) .. (Onward(b, i) - 1),
         NEW p \in 1 .. Len(b), NEW kind, Phrase(b, k, p, kind)
  PROVE  FALSE
<1>1. Len(b) \in Nat /\ KeywordAt(b, k) /\ AtBoundary(b, k) /\ b[k + 1] \in Separators
  BY PhraseTokens DEF Texts
<1>2. Onward(b, i) \in (i + 1) .. Len(b) + 1
  BY OnwardIs
<1>3. ASSUME NEW q, NEW h, Past(b, i, q, h, Onward(b, i)) PROVE FALSE
  BY <1>1, <1>3, NoKeywordInside DEF KeywordAt
<1>4. ASSUME \A m \in i .. Onward(b, i) - 1 : b[m] \in Words PROVE FALSE
  <2>1. b[k - 1] \in Words /\ k # 1
    BY <1>1, <1>2, <1>4
  <2>2. QED
    BY <1>1, <2>1 DEF AtBoundary
<1>5. ~(Onward(b, i) = i + 1)
  BY <1>1
<1>6. QED
  BY <1>3, <1>4, <1>5, OnwardIs

\* No target that a passed keyword binds is still ahead.
Clean(b, i) ==
  \A k \in 1 .. Len(b), p \in 1 .. Len(b) : \A kind :
    Phrase(b, k, p, kind) /\ k < i /\ i <= p => TargetAt(b, p) = {}

LEMMA CleanStays ==
  ASSUME NEW b \in Texts, NEW i \in 1 .. Len(b), Clean(b, i)
  PROVE  Clean(b, Onward(b, i))
<1> DEFINE o == Onward(b, i)
<1> SUFFICES ASSUME NEW k \in 1 .. Len(b), NEW p \in 1 .. Len(b), NEW kind,
                    Phrase(b, k, p, kind), k < o, o <= p, TargetAt(b, p) # {}
             PROVE  FALSE
  BY DEF Clean
<1>1. Len(b) \in Nat /\ o \in (i + 1) .. Len(b) + 1
  BY OnwardIs DEF Texts
<1> HIDE DEF o
<1>2. ~(k < i)
  BY <1>1 DEF Clean
<1>3. ~(k > i)
  <2> SUFFICES ASSUME k > i PROVE FALSE
    OBVIOUS
  <2>1. k \in (i + 1) .. (o - 1)
    BY <1>1
  <2>2. QED
    BY <2>1, NoPhraseSkipped DEF o
<1>4. k = i
  BY <1>1, <1>2, <1>3
<1>5. PICK t : t \in TargetAt(b, p)
  OBVIOUS
<1>6. [kind |-> kind, target |-> t] \in FoundAt(b, i)
  BY <1>4, <1>5, FoundAtIs
<1>7. PICK q, h : Past(b, i, q, h, o)
  <2>1. QED
    BY <1>6, OnwardIs DEF o
<1>8. q \in 1 .. Len(b) /\ q \in 1 .. Len(b) + 1 /\ IsTarget(b, q, h, o) /\ KeywordAt(b, i)
  BY <1>1, <1>4, <1>7, PhraseTokens DEF Past
<1>9. PICK kd : Phrase(b, i, q, kd)
  BY <1>7, <1>8 DEF Past
<1>10. TargetAt(b, q) # {}
  BY <1>8, TargetAtIs
<1>11. p = q
  BY <1>4, <1>8, <1>9, <1>10, PhraseUnique
<1>12. o > q
  BY <1>1, <1>8, TargetTokens
<1>13. QED
  BY <1>1, <1>11, <1>12

-----------------------------------------------------------------------------
(* The scan, unfolded.                                                     *)

\* What the scan is at i, when it is g further on.
ScanStep(b, g, i) ==
  IF i > Len(b) THEN {} ELSE {Ref(f) : f \in FoundAt(b, i)} \cup g[Onward(b, i)]

LEMMA ScanExists ==
  ASSUME NEW b \in Texts
  PROVE  \E g : g = [i \in 1 .. Len(b) + 1 |-> ScanStep(b, g, i)]
<1> DEFINE n == Len(b) + 1
           S == {m \in 1 .. n : \E g : \A i \in m .. n : g[i] = ScanStep(b, g, i)}
<1>1. Len(b) \in Nat /\ n \in Nat /\ n = Len(b) + 1
  BY DEF Texts
<1> HIDE DEF n
<1>2. ASSUME NEW m \in 1 .. n, \A j \in (m + 1) .. n : j \in S PROVE m \in S
  <2>1. CASE m = n
    <3> DEFINE g == [i \in m .. n |-> {}]
    <3>1. \A i \in m .. n : g[i] = ScanStep(b, g, i)
      BY <1>1, <2>1 DEF ScanStep
    <3>2. QED
      BY <3>1
  <2>2. CASE m # n
    <3>1. m + 1 \in (m + 1) .. n
      BY <1>1, <2>2
    <3>2. PICK g1 : \A i \in (m + 1) .. n : g1[i] = ScanStep(b, g1, i)
      BY <1>2, <3>1
    <3> DEFINE g == [i \in m .. n |-> IF i = m THEN ScanStep(b, g1, i) ELSE g1[i]]
    <3>3. ASSUME NEW i \in m .. n PROVE g[i] = ScanStep(b, g1, i)
      BY <1>1, <3>2
    <3>4. ASSUME NEW i \in m .. n PROVE ScanStep(b, g1, i) = ScanStep(b, g, i)
      <4>1. CASE i > Len(b)
        BY <4>1 DEF ScanStep
      <4>2. CASE ~(i > Len(b))
        <5>1. i \in 1 .. Len(b)
          BY <1>1, <4>2
        <5>2. Onward(b, i) \in (i + 1) .. n
          BY <1>1, <5>1, OnwardIs
        <5>3. Onward(b, i) \in m .. n /\ Onward(b, i) # m
          BY <1>1, <5>2
        <5>4. g[Onward(b, i)] = g1[Onward(b, i)]
          BY <5>3
        <5> HIDE DEF g
        <5>5. QED
          BY <5>4 DEF ScanStep
      <4>3. QED
        BY <4>1, <4>2
    <3> HIDE DEF g
    <3>5. \A i \in m .. n : g[i] = ScanStep(b, g, i)
      BY <3>3, <3>4
    <3>6. QED
      BY <3>5
  <2>3. QED
    BY <2>1, <2>2
<1>3. 1 \in S
  <2> HIDE DEF S
  <2>1. \A i \in 1 .. n : i \in S
    BY <1>1, <1>2, Downward
  <2>2. QED
    BY <1>1, <2>1
<1>4. PICK g : \A i \in 1 .. n : g[i] = ScanStep(b, g, i)
  BY <1>3
<1> DEFINE f == [i \in 1 .. n |-> g[i]]
<1>5. ASSUME NEW i \in 1 .. n PROVE g[i] = ScanStep(b, f, i)
  <2>1. CASE i > Len(b)
    BY <1>4, <2>1 DEF ScanStep
  <2>2. CASE ~(i > Len(b))
    <3>1. i \in 1 .. Len(b)
      BY <1>1, <2>2
    <3>2. Onward(b, i) \in 1 .. n
      BY <1>1, <3>1, OnwardIs
    <3>3. f[Onward(b, i)] = g[Onward(b, i)]
      BY <3>2
    <3> HIDE DEF f
    <3>4. ScanStep(b, g, i) = ScanStep(b, f, i)
      BY <3>3 DEF ScanStep
    <3>5. QED
      BY <1>4, <3>4
  <2>3. QED
    BY <2>1, <2>2
<1>6. f = [i \in 1 .. n |-> ScanStep(b, f, i)]
  BY <1>5
<1>7. QED
  BY <1>6 DEF n

LEMMA ScanIs ==
  ASSUME NEW b \in Texts, NEW i \in 1 .. Len(b)
  PROVE  Scan(b)[i] = {Ref(f) : f \in FoundAt(b, i)} \cup Scan(b)[Onward(b, i)]
<1>1. Len(b) \in Nat /\ i \in 1 .. Len(b) + 1 /\ ~(i > Len(b))
  BY DEF Texts
<1>2. PICK g : g = [k \in 1 .. Len(b) + 1 |-> ScanStep(b, g, k)]
  BY ScanExists
<1>3. Scan(b) = [k \in 1 .. Len(b) + 1 |->
        IF k > Len(b) THEN {} ELSE {Ref(f) : f \in FoundAt(b, k)} \cup Scan(b)[Onward(b, k)]]
  BY <1>2 DEF Scan, ScanStep
<1>4. QED
  BY <1>1, <1>3

LEMMA ScanEnds ==
  ASSUME NEW b \in Texts
  PROVE  Scan(b)[Len(b) + 1] = {}
<1>1. Len(b) \in Nat /\ Len(b) + 1 \in 1 .. Len(b) + 1 /\ Len(b) + 1 > Len(b)
  BY DEF Texts
<1>2. PICK g : g = [k \in 1 .. Len(b) + 1 |-> ScanStep(b, g, k)]
  BY ScanExists
<1>3. Scan(b) = [k \in 1 .. Len(b) + 1 |->
        IF k > Len(b) THEN {} ELSE {Ref(f) : f \in FoundAt(b, k)} \cup Scan(b)[Onward(b, k)]]
  BY <1>2 DEF Scan, ScanStep
<1>4. QED
  BY <1>1, <1>3

-----------------------------------------------------------------------------
(* Nothing else is found.                                                  *)

Referenced(b, r) == \E p \in 1 .. Len(b) : AtBoundary(b, p) /\ r \in RefsAt(b, p)

\* At a clean position, what the scan finds is a reference of the grammar.
LEMMA FoundIsReferenced ==
  ASSUME NEW b \in Texts, NEW i \in 1 .. Len(b), Clean(b, i), NEW f \in FoundAt(b, i)
  PROVE  Referenced(b, Ref(f))
<1>1. Len(b) \in Nat
  BY DEF Texts
<1>2. CASE \E p \in 1 .. Len(b) : \E kind : \E t \in TargetAt(b, p) :
             Phrase(b, i, p, kind) /\ f = [kind |-> kind, target |-> t]
  <2>1. PICK p \in 1 .. Len(b) : \E kind : \E t \in TargetAt(b, p) :
               Phrase(b, i, p, kind) /\ f = [kind |-> kind, target |-> t]
    BY <1>2
  <2>2. PICK kind, t : /\ t \in TargetAt(b, p) /\ Phrase(b, i, p, kind)
                       /\ f = [kind |-> kind, target |-> t]
    BY <2>1
  <2>3. b[p - 1] \in Separators
    BY <2>2, PhraseTokens
  <2>4. AtBoundary(b, p)
    <3>1. ":" \notin Words /\ Space \notin Words
      BY SpaceIs DEF RepoSeg, Words, Digits
    <3>2. QED
      BY <2>3, <3>1 DEF AtBoundary, Separators
  <2>5. kind \in KindsAt(b, p)
    BY <2>2, KindBeforeIs DEF KindsAt
  <2>6. Ref(f) = [kind |-> kind, repo |-> t.repo, number |-> t.number]
    BY <2>2 DEF Ref
  <2>7. Ref(f) \in RefsAt(b, p)
    BY <2>2, <2>5, <2>6, RefsAtIs
  <2>8. QED
    BY <2>4, <2>7 DEF Referenced
<1>3. CASE AtBoundary(b, i) /\ \E t \in TargetAt(b, i) : f = [kind |-> "mentions", target |-> t]
  <2>1. PICK t \in TargetAt(b, i) : f = [kind |-> "mentions", target |-> t]
    BY <1>3
  <2>2. ASSUME NEW kind \in KindBefore(b, i) PROVE FALSE
    <3>1. PICK k : Phrase(b, k, i, kind)
      BY <2>2, KindBeforeIs
    <3>2. k \in 1 .. Len(b) /\ k < i
      BY <1>1, <3>1 DEF Phrase
    <3>3. QED
      BY <1>1, <2>1, <3>1, <3>2 DEF Clean
  <2>3. "mentions" \in KindsAt(b, i)
    BY <2>2 DEF KindsAt
  <2>4. Ref(f) = [kind |-> "mentions", repo |-> t.repo, number |-> t.number]
    BY <2>1 DEF Ref
  <2>5. Ref(f) \in RefsAt(b, i)
    BY <2>1, <2>3, <2>4, RefsAtIs
  <2>6. QED
    BY <1>3, <2>5 DEF Referenced
<1>4. QED
  BY <1>2, <1>3, FoundAtIs

LEMMA ScanIsSound ==
  ASSUME NEW b \in Texts, NEW r \in Extract(b)
  PROVE  Referenced(b, r)
<1> DEFINE n == Len(b) + 1
           S == {i \in 1 .. n : Clean(b, i) => \A x \in Scan(b)[i] : Referenced(b, x)}
<1>1. Len(b) \in Nat /\ n \in Nat /\ 1 \in 1 .. n
  BY DEF Texts
<1>2. ASSUME NEW i \in 1 .. n, \A j \in (i + 1) .. n : j \in S PROVE i \in S
  <2> SUFFICES ASSUME Clean(b, i), NEW x \in Scan(b)[i]
               PROVE  Referenced(b, x)
    OBVIOUS
  <2>1. CASE i = n
    BY <2>1, ScanEnds
  <2>2. CASE i # n
    <3>1. i \in 1 .. Len(b)
      BY <1>1, <2>2
    <3>2. Onward(b, i) \in (i + 1) .. n /\ Clean(b, Onward(b, i))
      BY <3>1, OnwardIs, CleanStays
    <3>3. \A y \in Scan(b)[Onward(b, i)] : Referenced(b, y)
      BY <1>2, <3>2
    <3>4. \A f \in FoundAt(b, i) : Referenced(b, Ref(f))
      BY <3>1, FoundIsReferenced
    <3>5. x \in {Ref(f) : f \in FoundAt(b, i)} \cup Scan(b)[Onward(b, i)]
      BY <3>1, ScanIs
    <3>6. QED
      BY <3>3, <3>4, <3>5
  <2>3. QED
    BY <2>1, <2>2
<1>3. 1 \in S
  <2> HIDE DEF S, n
  <2>1. QED
    BY <1>1, <1>2, Downward
<1>4. Clean(b, 1)
  BY DEF Clean
<1>5. QED
  BY <1>3, <1>4 DEF Extract

-----------------------------------------------------------------------------
(* Everything is found.                                                    *)

\* The scan passes over no mention of the grammar.
LEMMA NoMentionSkipped ==
  ASSUME NEW b \in Texts, NEW p \in 1 .. Len(b), TargetAt(b, p) # {}, Whole(b, p), KindBefore(b, p) = {},
         NEW i \in 1 .. Len(b), p \in (i + 1) .. (Onward(b, i) - 1)
  PROVE  FALSE
<1> DEFINE o == Onward(b, i)
<1>1. Len(b) \in Nat /\ p \in 1 .. Len(b) + 1 /\ p > 1 /\ p # i /\ p \in Nat
  BY DEF Texts
<1>2. b[p] \in Words \cup {"#"} /\ b[p - 1] \notin RepoSeg /\ (b[p - 1] = "#" => b[p] = "#")
  BY <1>1 DEF Whole
<1>3. PICK h1, e1 : IsTarget(b, p, h1, e1)
  BY <1>1, TargetAtIs
<1>4. /\ h1 \in p .. Len(b) /\ b[h1] = "#"
      /\ \A k \in p .. (h1 - 1) : b[k] \in RepoSeg \cup {"/"}
      /\ p # h1 => \E s \in (p + 1) .. (h1 - 2) :
                     b[s] = "/" /\ \A k \in (p .. (h1 - 1)) \ {s} : b[k] \in RepoSeg
  BY <1>1, <1>3, TargetTokens
<1>5. /\ Words \subseteq RepoSeg /\ Digits \subseteq RepoSeg /\ Digits \subseteq Words
      /\ "#" \notin RepoSeg /\ "/" \notin RepoSeg
      /\ Separators \cap (RepoSeg \cup {"/", "#"}) = {}
  <2>1. ":" \notin RepoSeg /\ Space \notin RepoSeg \cup {"/", "#"}
    BY SpaceIs DEF RepoSeg, Words, Digits
  <2>2. QED
    BY <2>1 DEF RepoSeg, Words, Digits, Separators
<1>6. o \in (i + 1) .. Len(b) + 1
  BY OnwardIs
<1>7. ~(\A k \in i .. o - 1 : b[k] \in Words)
  <2>1. p - 1 \in i .. o - 1
    BY <1>1, <1>6
  <2>2. b[p - 1] \notin Words
    BY <1>2, <1>5
  <2> HIDE DEF o
  <2>3. QED
    BY <2>1, <2>2
<1>8. ~(o = i + 1)
  BY <1>1
<1>9. PICK q, h : Past(b, i, q, h, o)
  BY <1>7, <1>8, OnwardIs
<1> HIDE DEF o
<1>10. q \in 1 .. Len(b) /\ q \in 1 .. Len(b) + 1 /\ IsTarget(b, q, h, o)
  BY <1>1, <1>9 DEF Past
<1>11. /\ h \in q .. Len(b) /\ b[h] = "#" /\ o \in (h + 1) .. Len(b) + 1
       /\ \A k \in (h + 1) .. (o - 1) : b[k] \in Digits
       /\ q # h => \E s \in (q + 1) .. (h - 2) :
                     b[s] = "/" /\ \A k \in (q .. (h - 1)) \ {s} : b[k] \in RepoSeg
  BY <1>10, TargetTokens
<1>12. p \in (i + 1) .. (o - 1)
  BY DEF o
<1>13. ~(p < q)
  <2> SUFFICES ASSUME p < q PROVE FALSE
    OBVIOUS
  <2>1. PICK kind : Phrase(b, i, q, kind)
    BY <1>1, <1>9, <1>12 DEF Past
  <2>2. p \in (i + 1) .. (q - 1)
    BY <1>10, <1>12
  <2>3. b[p] \in Separators \/ (b[p] \in {"on", "by"} /\ b[p + 1] \in Separators)
    BY <1>10, <2>1, <2>2, PhraseTokens
  <2>4. b[p] \in {"on", "by"} /\ b[p + 1] \in Separators
    BY <1>2, <1>5, <2>3
  <2>5. b[p] # "#"
    BY <2>4
  <2>6. p # h1
    BY <1>4, <2>5
  <2>7. PICK s \in (p + 1) .. (h1 - 2) :
          b[s] = "/" /\ \A k \in (p .. (h1 - 1)) \ {s} : b[k] \in RepoSeg
    BY <1>4, <2>6
  <2>8. b[p + 1] \in RepoSeg \cup {"/"}
    BY <1>1, <1>4, <2>7
  <2>9. QED
    BY <1>5, <2>4, <2>8
<1>14. p # q
  <2> SUFFICES ASSUME p = q PROVE FALSE
    OBVIOUS
  <2>1. PICK kind : Phrase(b, i, p, kind)
    BY <1>1, <1>9 DEF Past
  <2>2. QED
    BY <2>1, KindBeforeIs
<1>15. p > q
  BY <1>1, <1>10, <1>13, <1>14
<1>16. CASE p > h
  <2>1. b[p] \in Digits
    BY <1>11, <1>12, <1>16
  <2>2. CASE p - 1 = h
    BY <1>2, <1>5, <1>11, <2>1, <2>2
  <2>3. CASE p - 1 # h
    <3>1. b[p - 1] \in Digits
      BY <1>1, <1>11, <1>12, <1>16, <2>3
    <3>2. QED
      BY <1>2, <1>5, <3>1
  <2>4. QED
    BY <2>2, <2>3
<1>17. CASE ~(p > h)
  <2>1. q # h
    BY <1>10, <1>11, <1>15, <1>17
  <2>2. PICK s \in (q + 1) .. (h - 2) :
          b[s] = "/" /\ \A k \in (q .. (h - 1)) \ {s} : b[k] \in RepoSeg
    BY <1>11, <2>1
  <2>3. p - 1 = s
    <3>1. p - 1 \in q .. (h - 1)
      BY <1>1, <1>10, <1>11, <1>15, <1>17
    <3>2. QED
      BY <1>2, <2>2, <3>1
  <2>4. p # h /\ p < h
    BY <1>1, <1>11, <1>17, <2>2, <2>3
  <2>5. b[p] # "#" /\ p # h1
    <3>1. p \in (q .. (h - 1)) \ {s}
      BY <1>1, <1>10, <1>11, <1>15, <2>3, <2>4
    <3>2. b[p] \in RepoSeg
      BY <2>2, <3>1
    <3>3. QED
      BY <1>4, <1>5, <3>2
  <2>6. PICK s1 \in (p + 1) .. (h1 - 2) : b[s1] = "/"
    BY <1>4, <2>5
  <2>7. h1 <= h
    <3>1. ~(h \in p .. (h1 - 1))
      BY <1>4, <1>5, <1>11
    <3>2. QED
      BY <1>1, <1>4, <1>11, <2>4, <3>1
  <2>8. s1 \in (q .. (h - 1)) \ {s}
    BY <1>1, <1>4, <1>10, <1>11, <1>15, <2>3, <2>6, <2>7
  <2>9. QED
    BY <1>5, <2>2, <2>6, <2>8
<1>18. QED
  BY <1>16, <1>17

\* What is found where the scan must stop is found.
LEMMA StopIsFound ==
  ASSUME NEW b \in Texts, NEW a \in 1 .. Len(b), NEW f \in FoundAt(b, a),
         \A i \in 1 .. Len(b) : a \notin (i + 1) .. (Onward(b, i) - 1)
  PROVE  Ref(f) \in Extract(b)
<1> DEFINE S == {i \in 1 .. a : Ref(f) \in Scan(b)[i]}
<1>1. Len(b) \in Nat /\ a \in Nat
  BY DEF Texts
<1>2. ASSUME NEW i \in 1 .. a, \A j \in (i + 1) .. a : j \in S PROVE i \in S
  <2>1. i \in 1 .. Len(b)
    BY <1>1
  <2>2. Scan(b)[i] = {Ref(g) : g \in FoundAt(b, i)} \cup Scan(b)[Onward(b, i)]
    BY <2>1, ScanIs
  <2>3. CASE i = a
    BY <2>2, <2>3
  <2>4. CASE i # a
    <3>1. Onward(b, i) \in (i + 1) .. Len(b) + 1 /\ a \notin (i + 1) .. (Onward(b, i) - 1)
      BY <2>1, OnwardIs
    <3>2. Onward(b, i) \in (i + 1) .. a
      BY <1>1, <2>1, <2>4, <3>1
    <3>3. Ref(f) \in Scan(b)[Onward(b, i)]
      BY <1>2, <3>2
    <3>4. QED
      BY <2>2, <3>3
  <2>5. QED
    BY <2>3, <2>4
<1>3. 1 \in S
  <2> HIDE DEF S
  <2>1. 1 \in 1 .. a
    BY <1>1
  <2>2. QED
    BY <1>1, <1>2, <2>1, Downward
<1>4. QED
  BY <1>3 DEF Extract

LEMMA ScanIsComplete ==
  ASSUME NEW b \in Texts, NEW p \in 1 .. Len(b), Whole(b, p), ~Misread(b, p), NEW r \in RefsAt(b, p)
  PROVE  r \in Extract(b)
<1>1. Len(b) \in Nat
  BY DEF Texts
<1>2. PICK kind \in KindsAt(b, p), t \in TargetAt(b, p) :
        r = [kind |-> kind, repo |-> t.repo, number |-> t.number]
  BY RefsAtIs
<1> DEFINE f == [kind |-> kind, target |-> t]
<1>3. Ref(f) = r
  BY <1>2 DEF Ref
<1>4. CASE KindBefore(b, p) # {}
  <2>1. kind \in KindBefore(b, p)
    BY <1>4 DEF KindsAt
  <2>2. PICK a : Phrase(b, a, p, kind)
    BY <2>1, KindBeforeIs
  <2>3. a \in 1 .. Len(b)
    BY <1>1, <2>2 DEF Phrase
  <2>4. f \in FoundAt(b, a)
    BY <2>2, <2>3, FoundAtIs
  <2>5. \A i \in 1 .. Len(b) : a \notin (i + 1) .. (Onward(b, i) - 1)
    BY <2>2, NoPhraseSkipped
  <2> HIDE DEF f
  <2>6. QED
    BY <1>3, <2>3, <2>4, <2>5, StopIsFound
<1>5. CASE KindBefore(b, p) = {}
  <2>1. kind = "mentions"
    BY <1>5 DEF KindsAt
  <2>2. AtBoundary(b, p) /\ b[p] \in Words \cup {"#"}
    BY <1>1, <1>5, KeywordTables DEF Whole, AtBoundary
  <2>3. ~KeywordAt(b, p)
    BY <1>5, <2>2, KeywordIs DEF Misread, KeywordAt
  <2>4. f \in FoundAt(b, p)
    BY <2>1, <2>2, <2>3, FoundAtIs
  <2>5. \A i \in 1 .. Len(b) : p \notin (i + 1) .. (Onward(b, i) - 1)
    BY <1>2, <1>5, NoMentionSkipped
  <2> HIDE DEF f
  <2>6. QED
    BY <1>3, <2>4, <2>5, StopIsFound
<1>6. QED
  BY <1>4, <1>5

-----------------------------------------------------------------------------
(* The theorem.                                                            *)

\* The body is a text of tokens.
BodyIsText == body \in Texts

LEMMA BodyStaysText == RefsSpec => []BodyIsText
<1>1. RefsInit => BodyIsText
  BY RefsAssumption DEF RefsInit, BodyIsText, Texts
<1>2. BodyIsText /\ [RefsNext]_refsVars => BodyIsText'
  <2> SUFFICES ASSUME body \in Seq(STRING), [RefsNext]_refsVars PROVE body' \in Seq(STRING)
    BY DEF BodyIsText, Texts
  <2>1. ASSUME NEW token \in Tokens, body' = Append(body, token) PROVE body' \in Seq(STRING)
    <3>1. token \in STRING
      BY RefsAssumption
    <3>2. Append(body, token) \in Seq(STRING)
      BY <3>1, AppendProperties
    <3>3. QED
      BY <2>1, <3>2
  <2>2. QED
    BY <2>1 DEF RefsNext, Write, refsVars
<1>3. QED
  BY <1>1, <1>2, PTL DEF RefsSpec

\* For texts of every length: the references extracted from a body are those
\* the grammar defines, every whole target under the kind of the keyword that
\* stands before it, and nothing else (refs.rs extract).
THEOREM ScanIsTheGrammar == RefsSpec => []ScanMatchesGrammar
<1>1. BodyIsText => ScanMatchesGrammar
  <2> SUFFICES ASSUME BodyIsText PROVE ScanMatchesGrammar
    OBVIOUS
  <2>1. body \in Texts
    BY DEF BodyIsText
  <2>2. \A p \in 1 .. Len(body) :
          Whole(body, p) /\ ~Misread(body, p) => RefsAt(body, p) \subseteq Extract(body)
    BY <2>1, ScanIsComplete
  <2>3. \A r \in Extract(body) : \E p \in 1 .. Len(body) : AtBoundary(body, p) /\ r \in RefsAt(body, p)
    BY <2>1, ScanIsSound DEF Referenced
  <2>4. QED
    BY <2>2, <2>3 DEF ScanMatchesGrammar
<1>2. QED
  BY <1>1, BodyStaysText, PTL
=============================================================================
