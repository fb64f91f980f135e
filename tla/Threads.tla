------------------------------ MODULE Threads ------------------------------
(***************************************************************************)
(* The review threads of one pull request (sync.rs): a full walk that      *)
(* fetches every body, and a refresh that fetches skeletons, takes the     *)
(* body of a comment whose edit time did not move from the archive, and    *)
(* fetches whole threads for the rest.  A thread's nested comments have no *)
(* second page: a thread that holds more than a page shows withholds the   *)
(* witness that licenses the sweep.                                        *)
(*                                                                         *)
(* Comments are numbered in the order they are posted.  A body is the      *)
(* number of the text among the comment's texts; 0 is a body not fetched.  *)
(* The edit time has seconds: several texts may carry the same one.        *)
(***************************************************************************)
EXTENDS Naturals, FiniteSets, Sequences, Functions

CONSTANTS
  Owner,       \* the thread of each comment
  MaxEdits,    \* bound: edits of all comments
  ThreadPage,  \* threads on a page
  NestedFirst, \* comments of a thread on the first document's page
  Nested,      \* ... on a follow-up page, and in a thread fetched whole
  MaxLag,      \* bundles the writer may lag behind when a hydration starts
  MaxTroubles  \* bound: failed or stopped fetches, drains and kills

Comments == DOMAIN Owner
ThreadIds == Range(Owner)

ASSUME ThreadsAssumption ==
  /\ Comments \subseteq Nat /\ ThreadIds \subseteq Nat /\ IsFiniteSet(Comments)
  /\ {ThreadPage, NestedFirst, Nested} \subseteq Nat \ {0}
  /\ {MaxEdits, MaxLag, MaxTroubles} \subseteq Nat

VARIABLES
  stamps,     \* the edit time of each text a comment had
  there,      \* comments that exist upstream
  rows,       \* comments rows of kind review_comment
  threadRows, \* review_threads rows
  prRow,      \* "none", "truncated" or "whole": verified and not truncated
  bundles,    \* on their way to the writer
  walk,       \* "idle", "full" or "skeleton"
  fetched,    \* threads fetched so far, as they were when fetched
  todo,       \* skeletons whose bodies are unresolved
  paging,     \* the threads connection: "more", "end" or "stopped"
  baseline,   \* RefreshBaseline.thread_comments
  quiet,      \* history: nothing changed upstream since the hydration began
  landed,     \* history: ... and its complete bundle was applied last
  troubles

upstream == <<stamps, there>>
stored == <<rows, threadRows, prRow>>
hydration == <<walk, fetched, todo, paging, baseline>>
threadVars == <<upstream, stored, bundles, hydration, quiet, landed, troubles>>

-----------------------------------------------------------------------------
(* GitHub.  A thread exists while one of its comments does.                *)

In(t) == {c \in there : Owner[c] = t}
ThreadsThere == {Owner[c] : c \in there}

Posted == {c \in Comments : stamps[c] # <<>>}
LastOf(s) == s[Len(s)]

ThreadsInit ==
  /\ stamps = [c \in Comments |-> <<>>] /\ there = {}
  /\ rows = [c \in Comments |-> [stamp |-> 0, text |-> 0, live |-> FALSE]]
  /\ threadRows = [t \in ThreadIds |-> "none"]
  /\ prRow = "none" /\ bundles = <<>>
  /\ walk = "idle" /\ fetched = <<>> /\ todo = {} /\ paging = "end" /\ baseline = <<>>
  /\ quiet = TRUE /\ landed = FALSE /\ troubles = 0

Upstream ==
  /\ quiet' = FALSE /\ landed' = FALSE
  /\ bundles' = [i \in DOMAIN bundles |-> [bundles[i] EXCEPT !.quiet = FALSE]]
  /\ UNCHANGED <<stored, hydration, troubles>>

\* A first comment starts its thread; a later one needs the thread there.
Post(c) ==
  /\ \A d \in Posted : d < c
  /\ In(Owner[c]) # {} \/ \A d \in Posted : Owner[d] # Owner[c]
  /\ stamps' = [stamps EXCEPT ![c] = <<0>>]
  /\ there' = there \cup {c}
  /\ Upstream

Edits == {e \in Comments \X (2 .. MaxEdits + 1) : e[2] <= Len(stamps[e[1]])}

\* Edited in a later second than its last edit, or in the same one.
Edit(c, sameSecond) ==
  /\ c \in there /\ Cardinality(Edits) < MaxEdits
  /\ LET last == LastOf(stamps[c])
     IN /\ sameSecond => last > 0
        /\ stamps' = [stamps EXCEPT ![c] = Append(@, IF sameSecond THEN last ELSE last + 1)]
  /\ UNCHANGED there
  /\ Upstream

RemoveComment(c) ==
  /\ c \in there
  /\ there' = there \ {c}
  /\ UNCHANGED stamps
  /\ Upstream

-----------------------------------------------------------------------------
(* The worker.                                                             *)

\* The n smallest members of S.
Lowest(S, n) == {x \in S : Cardinality({y \in S : y < x}) < n}

\* A thread as a document shows it: how many comments it has, and the first n.
Shown(t, n, bodies) ==
  [total |-> Cardinality(In(t)),
   nodes |-> [c \in Lowest(In(t), n) |->
               [stamp |-> LastOf(stamps[c]),
                text |-> IF bodies THEN Len(stamps[c]) ELSE 0]]]

\* nodes.len() >= total_count.
Covered(thread) == Cardinality(DOMAIN thread.nodes) >= thread.total

Trouble(some) == IF some THEN troubles < MaxTroubles /\ troubles' = troubles + 1
                 ELSE UNCHANGED troubles

Idle ==
  /\ walk' = "idle" /\ fetched' = <<>> /\ todo' = {} /\ paging' = "end"
  /\ baseline' = <<>>

\* A refresh needs a verified, untruncated row and works against the live
\* review comments of that moment; a full walk needs nothing.
Hydrate(kind) ==
  /\ walk = "idle" /\ Len(bundles) <= MaxLag
  /\ kind = "skeleton" => prRow = "whole"
  /\ walk' = kind /\ paging' = "more" /\ fetched' = <<>> /\ todo' = {}
  /\ baseline' = IF kind = "full" THEN <<>>
                 ELSE [c \in {d \in Comments : rows[d].live} |->
                        [stamp |-> rows[c].stamp, text |-> rows[c].text]]
  /\ quiet' = TRUE
  /\ UNCHANGED <<upstream, stored, bundles, landed, troubles>>

\* The next threads after the last one fetched.
Page ==
  /\ paging = "more"
  /\ LET later == {t \in ThreadsThere : \A f \in DOMAIN fetched : f < t}
         page == Lowest(later, ThreadPage)
         n == IF fetched = <<>> THEN NestedFirst ELSE Nested
     IN /\ fetched' = [t \in DOMAIN fetched \cup page |->
                    IF t \in page THEN Shown(t, n, walk = "full") ELSE fetched[t]]
        /\ todo' = IF walk = "full" THEN {} ELSE todo \cup page
        /\ paging' = IF page = later THEN "end" ELSE "more"
  /\ UNCHANGED <<upstream, stored, bundles, walk, baseline, quiet, landed, troubles>>

\* The floor, a failed page or the backstop: what was fetched is kept.
StopPaging ==
  /\ paging = "more" /\ fetched # <<>>
  /\ Trouble(TRUE)
  /\ paging' = "stopped"
  /\ UNCHANGED <<upstream, stored, bundles, walk, fetched, todo, baseline, quiet, landed>>

\* The first document failed, or the refresh escalates: nothing is handed on.
Abandon ==
  /\ walk # "idle"
  /\ Idle
  /\ UNCHANGED <<upstream, stored, bundles, quiet, landed, troubles>>

\* Mutant: an archived comment is known, whatever its edit time.
ResolvableById(t) ==
  Covered(fetched[t]) /\ DOMAIN fetched[t].nodes \subseteq DOMAIN baseline

\* Every comment of the thread is shown, archived, and unedited since.
Resolvable(t) ==
  /\ Covered(fetched[t])
  /\ \A c \in DOMAIN fetched[t].nodes :
       c \in DOMAIN baseline /\ baseline[c].stamp = fetched[t].nodes[c].stamp

\* A skeleton with its bodies: from the archive, or the whole thread as it is
\* now.  A failed fetch, the floor, or a thread that vanished since leaves it
\* without comments and with its count.
Resolved(t, fails) ==
  IF Resolvable(t)
  THEN [fetched[t] EXCEPT !.nodes =
          [c \in DOMAIN @ |-> [stamp |-> @[c].stamp, text |-> baseline[c].text]]]
  ELSE IF fails \/ t \notin ThreadsThere THEN [fetched[t] EXCEPT !.nodes = <<>>]
  ELSE Shown(t, Nested, TRUE)

Resolve(t, fails) ==
  /\ paging # "more" /\ t \in todo /\ \A u \in todo : t <= u
  /\ fetched' = [fetched EXCEPT ![t] = Resolved(t, fails)]
  /\ todo' = todo \ {t}
  /\ Trouble(fails)
  /\ UNCHANGED <<upstream, stored, bundles, walk, paging, baseline, quiet, landed>>

\* Mutant: a thread's nested comments are not counted.
CompletePaged == paging = "end"

\* threads_complete: the walk reached its end and every thread is covered.
Complete == paging = "end" /\ \A t \in DOMAIN fetched : Covered(fetched[t])

\* `rest`: whether the other connections earned their witness.
Finish(rest) ==
  /\ walk # "idle" /\ paging # "more" /\ todo = {}
  /\ bundles' = Append(bundles, [threads |-> fetched, complete |-> Complete, rest |-> rest,
                                 refresh |-> walk = "skeleton", quiet |-> quiet])
  /\ Idle
  /\ Trouble(~rest)
  /\ UNCHANGED <<upstream, stored, quiet, landed>>

-----------------------------------------------------------------------------
(* The writer.                                                             *)

\* The sweeps: live rows the bundle does not hold, under its witness only.
Gone(b, known, held) == IF b.complete THEN known \ held ELSE {}

\* What the prs row says after a bundle: a refresh that missed nothing carries
\* the stored value, and inserts a row only as truncated.
PrRowAfter(b) ==
  IF ~(b.complete /\ b.rest) THEN "truncated"
  ELSE IF ~b.refresh THEN "whole"
  ELSE IF prRow = "none" THEN "truncated" ELSE prRow

\* upsert_thread and upsert_comment make what the bundle holds live and equal
\* to it; then the sweeps.
Land ==
  /\ bundles # <<>>
  /\ LET b == Head(bundles)
         held == {c \in Comments : \E t \in DOMAIN b.threads : c \in DOMAIN b.threads[t].nodes}
         goneRows == Gone(b, {c \in Comments : rows[c].live}, held)
         goneThreads == Gone(b, {t \in ThreadIds : threadRows[t] = "live"}, DOMAIN b.threads)
     IN /\ rows' = [c \in Comments |->
             IF c \in held
             THEN LET n == b.threads[Owner[c]].nodes[c]
                  IN [stamp |-> n.stamp, text |-> n.text, live |-> TRUE]
             ELSE [rows[c] EXCEPT !.live = @ /\ c \notin goneRows]]
        /\ threadRows' = [t \in ThreadIds |->
             IF t \in DOMAIN b.threads THEN "live"
             ELSE IF t \in goneThreads THEN "deleted" ELSE threadRows[t]]
        /\ prRow' = PrRowAfter(b)
        /\ landed' = (b.complete /\ b.quiet)
  /\ bundles' = Tail(bundles)
  /\ UNCHANGED <<upstream, hydration, quiet, troubles>>

\* A killed process loses the hydration and the bundles on their way.
Kill ==
  /\ walk # "idle" \/ bundles # <<>>
  /\ Trouble(TRUE)
  /\ bundles' = <<>> /\ Idle
  /\ UNCHANGED <<upstream, stored, quiet, landed>>

-----------------------------------------------------------------------------
ThreadsNext ==
  \/ \E c \in Comments : Post(c) \/ RemoveComment(c)
  \/ \E c \in Comments, sameSecond \in BOOLEAN : Edit(c, sameSecond)
  \/ \E kind \in {"full", "skeleton"} : Hydrate(kind)
  \/ Page \/ StopPaging \/ Abandon
  \/ \E t \in ThreadIds, fails \in BOOLEAN : Resolve(t, fails)
  \/ \E rest \in BOOLEAN : Finish(rest)
  \/ Land \/ Kill

ThreadsSpec == ThreadsInit /\ [][ThreadsNext]_threadVars

-----------------------------------------------------------------------------
\* The shape of the rows, and of what the worker holds.
ThreadsTypeOK ==
  /\ there \subseteq Posted
  /\ rows \in [Comments -> [stamp : Nat, text : 0 .. MaxEdits + 1, live : BOOLEAN]]
  /\ threadRows \in [ThreadIds -> {"none", "live", "deleted"}]
  /\ prRow \in {"none", "truncated", "whole"}
  /\ walk \in {"idle", "full", "skeleton"} /\ paging \in {"more", "end", "stopped"}
  /\ DOMAIN fetched \subseteq ThreadIds /\ todo \subseteq DOMAIN fetched
  /\ DOMAIN baseline \subseteq Comments /\ Len(bundles) <= MaxLag + 1

\* No review comment and no thread is marked deleted while it exists upstream,
\* and an archived body is one the comment had under the archived edit time:
\* resolving from the archive never pairs a text with a later edit's stamp.
ThreadRowsAreTrue ==
  /\ \A c \in Comments : LET row == rows[c]
       IN row.text # 0 => /\ row.text <= Len(stamps[c]) /\ stamps[c][row.text] = row.stamp
                          /\ ~row.live => c \notin there
  /\ \A c \in Comments : rows[c].live => rows[c].text # 0
  /\ \A t \in ThreadIds : threadRows[t] = "deleted" => t \notin ThreadsThere

\* After a complete hydration that nothing disturbed the rows are the threads
\* as they are: the same comments under the same edit times, and an older body
\* only where a later text was written in the same second.
QuietThreadsAreExact ==
  landed =>
    /\ {c \in Comments : rows[c].live} = there
    /\ {t \in ThreadIds : threadRows[t] = "live"} = ThreadsThere
    /\ \A c \in there : /\ rows[c].stamp = LastOf(stamps[c])
                        /\ stamps[c][rows[c].text] = LastOf(stamps[c])
=============================================================================
