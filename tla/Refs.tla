-------------------------------- MODULE Refs --------------------------------
(***************************************************************************)
(* References extracted from the body of a pull request (refs.rs): one     *)
(* scan from left to right over keywords, targets and everything else.     *)
(*                                                                         *)
(* A body is a sequence of tokens, letter case folded.  Word tokens that   *)
(* touch make one word, as characters do; "7" and "0" are digits, "huge"   *)
(* is a run of digits no 64-bit number holds.  An optional result is a set *)
(* of at most one element.                                                 *)
(***************************************************************************)
EXTENDS Naturals, Sequences, FiniteSetsExt

CONSTANTS
  Beginnings, \* texts a body may begin with
  Tokens,     \* tokens an author may add
  MaxAdded    \* bound: tokens added to a beginning

ASSUME RefsAssumption ==
  Beginnings \subseteq Seq(STRING) /\ Tokens \subseteq STRING /\ MaxAdded \in Nat

VARIABLES body, added

refsVars == <<body, added>>

Digits == {"7", "0", "huge"}
Words == Digits \cup {"fixes", "blocks", "depends", "on", "blocked", "by", "app"}
RepoSeg == Words \cup {"-", "."}
Space == " "

\* The token at a position: past the end there is none.
At(b, i) == IF i \in 1 .. Len(b) THEN b[i] ELSE "end"

\* The position after the run of tokens of S that starts at i.
RunEnd(b, i, S) == Min({j \in i .. Len(b) + 1 : At(b, j) \notin S})

AtBoundary(b, i) == i = 1 \/ b[i - 1] \notin Words

-----------------------------------------------------------------------------
(* Targets.                                                                *)

\* The value of a run of digits: what is left without its leading zeros.
Value(run) ==
  LET firsts == {j \in DOMAIN run : run[j] # "0"}
  IN IF firsts = {} THEN <<>> ELSE SubSeq(run, Min(firsts), Len(run))

\* number_at: no #0, no number past 64 bits, nothing glued to it.
NumberAt(b, i) ==
  LET end == RunEnd(b, i, Digits)
      run == SubSeq(b, i, end - 1)
  IN {n \in {[number |-> Value(run), end |-> end]} :
        /\ At(b, end) \notin Words
        /\ n.number # <<>> /\ \A j \in DOMAIN run : run[j] # "huge"}

Target(repo, n) == [repo |-> repo, number |-> n.number, end |-> n.end]
Here == <<"here">>  \* the repository the body belongs to

\* target_at: #N, or owner/name#N.
TargetAt(b, i) ==
  LET slash == RunEnd(b, i, RepoSeg)
      hash == RunEnd(b, slash + 1, RepoSeg)
  IN IF At(b, i) = "#" THEN {Target(Here, n) : n \in NumberAt(b, i + 1)}
     ELSE IF slash = i \/ At(b, slash) # "/" \/ hash = slash + 1 \/ At(b, hash) # "#" THEN {}
     ELSE {Target(SubSeq(b, i, hash - 1), n) : n \in NumberAt(b, hash + 1)}

\* Mutant: nothing need separate a keyword from its target.
BindTargetGlued(b, i) ==
  TargetAt(b, RunEnd(b, IF At(b, i) = ":" THEN i + 1 ELSE i, {Space}))

\* bind_target: a colon, spaces, or both, and then the target.
BindTarget(b, i) ==
  LET from == IF At(b, i) = ":" THEN i + 1 ELSE i
      to == RunEnd(b, from, {Space})
  IN IF to = i THEN {} ELSE TargetAt(b, to)

-----------------------------------------------------------------------------
(* Keywords.                                                               *)

Single == [fixes |-> "fixes", blocks |-> "blocks"]
Pair == [depends |-> [second |-> "on", kind |-> "depends_on"],
         blocked |-> [second |-> "by", kind |-> "blocked_by"]]

WordAt(b, i) == SubSeq(b, i, RunEnd(b, i, Words) - 1)
IsKeyword(word) == Len(word) = 1 /\ word[1] \in DOMAIN Single \cup DOMAIN Pair

\* second_word: spaces, then that word and no longer one.
SecondWord(b, i, second) ==
  LET from == RunEnd(b, i, {Space})
  IN {end \in {RunEnd(b, from, Words)} : from > i /\ WordAt(b, from) = <<second>>}

\* What a keyword at i binds.
Bound(b, i) ==
  LET end == RunEnd(b, i, Words)
      word == WordAt(b, i)[1]
  IN IF word \in DOMAIN Single THEN {[kind |-> Single[word], target |-> t] : t \in BindTarget(b, end)}
     ELSE {[kind |-> Pair[word].kind, target |-> t] :
             t \in UNION {BindTarget(b, after) : after \in SecondWord(b, end, Pair[word].second)}}

-----------------------------------------------------------------------------
(* The scan.                                                               *)

\* The arms of extract at position i.
FoundAt(b, i) ==
  IF ~AtBoundary(b, i) \/ b[i] \notin Words \cup {"#"} THEN {}
  ELSE IF b[i] \in Words /\ IsKeyword(WordAt(b, i)) THEN Bound(b, i)
  ELSE {[kind |-> "mentions", target |-> t] : t \in TargetAt(b, i)}

\* Where the scan goes on: past what it found, past a word, past one token.
Onward(b, i) ==
  IF FoundAt(b, i) # {} THEN (CHOOSE f \in FoundAt(b, i) : TRUE).target.end
  ELSE IF AtBoundary(b, i) /\ b[i] \in Words THEN RunEnd(b, i, Words)
  ELSE i + 1

Ref(f) == [kind |-> f.kind, repo |-> f.target.repo, number |-> f.target.number]

Scan(b) ==
  LET scan[i \in 1 .. Len(b) + 1] ==
        IF i > Len(b) THEN {} ELSE {Ref(f) : f \in FoundAt(b, i)} \cup scan[Onward(b, i)]
  IN scan

Extract(b) == Scan(b)[1]

RefsInit == body \in Beginnings /\ added = 0

\* The author writes on.
Write(token) ==
  /\ added < MaxAdded
  /\ body' = Append(body, token) /\ added' = added + 1

RefsNext == \E token \in Tokens : Write(token)
RefsSpec == RefsInit /\ [][RefsNext]_refsVars

-----------------------------------------------------------------------------
(* The grammar (refs.rs, module doc), without a scan: a target written     *)
(* anywhere in the text, and the keyword that stands directly before it.   *)

\* Positions i to j - 1 hold an optional colon and spaces, at least one.
Separates(b, i, j) == i < j /\ b[i] \in {":", Space} /\ \A k \in (i + 1) .. (j - 1) : b[k] = Space

\* A word of the text from i to j - 1, whole.
IsWordOf(b, i, j) ==
  /\ i < j /\ AtBoundary(b, i) /\ At(b, j) \notin Words
  /\ \A k \in i .. (j - 1) : b[k] \in Words

\* A keyword, written out, ends where the separator before the target starts.
KindBefore(b, p) ==
  {Single[w] : w \in {w \in DOMAIN Single :
     \E i \in 1 .. (p - 2) : b[i] = w /\ IsWordOf(b, i, i + 1) /\ Separates(b, i + 1, p)}}
  \cup
  {Pair[w].kind : w \in {w \in DOMAIN Pair :
     \E i \in 1 .. (p - 2), j \in 3 .. (p - 2) :
       /\ b[i] = w /\ IsWordOf(b, i, i + 1)
       /\ i + 1 < j /\ \A k \in (i + 1) .. (j - 1) : b[k] = Space
       /\ b[j] = Pair[w].second /\ IsWordOf(b, j, j + 1) /\ Separates(b, j + 1, p)}}

KindsAt(b, p) == IF KindBefore(b, p) = {} THEN {"mentions"} ELSE KindBefore(b, p)

\* A number from i to j - 1: digits, and no other word character after them.
IsNumber(b, i, j) ==
  /\ i < j /\ At(b, j) \notin Words
  /\ \A k \in i .. (j - 1) : b[k] \in Digits \ {"huge"}
  /\ \E k \in i .. (j - 1) : b[k] # "0"

\* A repository from i to j - 1: the body's own, or an owner and a name.
Repos(b, i, j) ==
  IF i = j THEN {Here}
  ELSE {SubSeq(b, i, j - 1) : s \in {s \in (i + 1) .. (j - 2) :
          /\ b[s] = "/"
          /\ \A k \in (i .. (j - 1)) \ {s} : b[k] \in RepoSeg}}

Numbers(b, i) ==
  {Value(SubSeq(b, i, end - 1)) : end \in {end \in i .. Len(b) + 1 : IsNumber(b, i, end)}}

\* The references whose target starts at p.
RefsAt(b, p) ==
  UNION {{[kind |-> k, repo |-> r, number |-> n] :
            k \in KindsAt(b, p), r \in Repos(b, p, h), n \in Numbers(b, h + 1)} :
         h \in {h \in p .. Len(b) : b[h] = "#"}}

\* A target is whole when it starts with a word or a #, or a keyword is before
\* it, and it is neither the rest of a longer repository name nor the number of
\* another target ("#5/n#2").
Whole(b, p) ==
  /\ b[p] \in Words \cup {"#"} \/ KindBefore(b, p) # {}
  /\ p > 1 => b[p - 1] \notin RepoSeg /\ (b[p - 1] = "#" => b[p] = "#")

\* A bare mention whose owner begins with a keyword is read as the keyword:
\* "fix-it/app#3" is not what the grammar says (README).
Misread(b, p) == KindBefore(b, p) = {} /\ IsKeyword(WordAt(b, p))

\* The scan finds what the grammar defines: every whole target, under the kind
\* its adjacent keyword gives it, whatever the scan consumed before it; and
\* nothing else, no target inside a word and no kind without its keyword
\* (refs.rs: "A keyword binds only to an ADJACENT target").
ScanMatchesGrammar ==
  LET there == 1 .. Len(body)
      refs == Extract(body)
  IN /\ \A p \in there : Whole(body, p) /\ ~Misread(body, p) => RefsAt(body, p) \subseteq refs
     /\ \A r \in refs : \E p \in there : AtBoundary(body, p) /\ r \in RefsAt(body, p)
=============================================================================
