------------------------------ MODULE Discovery ------------------------------
(***************************************************************************)
(* One discovery of a window (sync.rs, discover): every term is paged      *)
(* through GitHub's search, newest first, by a cursor that is an offset,   *)
(* while items are updated and leave between two pages.  StreamSync takes  *)
(* a discovery as one step; this is what licenses it.                      *)
(*                                                                         *)
(* Items are numbers, a term is the set of items it matches.  The lag of   *)
(* the index is StreamSync's.                                              *)
(***************************************************************************)
EXTENDS Naturals, FiniteSets, Sequences

CONSTANTS
  TermLists,  \* the term lists of discovery_terms
  Began,      \* when the discovery began: items are no younger then
  PageSize,   \* first: 50
  SearchCap,  \* results a search serves: about 1000
  PagesLimit, \* MAX_DISCOVERY_PAGES: 40
  MaxBumps,   \* bound: updates during a discovery
  MaxBroken   \* bound: pages that promise another one wrongly

ASSUME DiscoveryAssumption ==
  /\ TermLists \subseteq Seq(SUBSET Nat)
  /\ \A ts \in TermLists : \A k \in DOMAIN ts : IsFiniteSet(ts[k])
  /\ {Began, MaxBumps, MaxBroken} \subseteq Nat
  /\ {PageSize, SearchCap, PagesLimit} \subseteq Nat \ {0}

VARIABLES
  terms,
  open,     \* `until` is None; otherwise it is Began
  updated,  \* item |-> updatedAt; 0: gone
  masked,   \* items the search shows as null
  term,     \* the term being paged
  after,    \* the cursor; 0: None
  pages, counted,
  hits, complete,
  stopped,  \* a call failed: nothing is returned
  slipped,  \* history: an item before the cursor has left the results
  broken

bumpVars == <<updated, slipped>>
discoveryVars == <<terms, open, updated, masked, term, after, pages, counted, hits,
                   complete, stopped, slipped, broken>>

Matched == UNION {terms[k] : k \in DOMAIN terms}
Paging == term <= Len(terms) /\ ~stopped

DiscoveryInit ==
  /\ terms \in TermLists /\ open \in BOOLEAN
  /\ updated \in [Matched -> 1 .. Began]
  /\ masked \in {{}} \cup {{i} : i \in Matched}
  /\ term = 1 /\ after = 0 /\ pages = 0 /\ counted = 0
  /\ hits = {} /\ complete = TRUE /\ stopped = FALSE /\ slipped = FALSE /\ broken = 0
-----------------------------------------------------------------------------
(* The search. *)

InWindow(t) == t > 0 /\ (open \/ t <= Began)

Results == {i \in terms[term] : InWindow(updated[i])}

\* sort:updated-desc; how many results come before i is its place.
Newer(i, j) == updated[i] > updated[j] \/ (updated[i] = updated[j] /\ i < j)
Ahead(i) == {j \in Results : Newer(j, i)}
Place(i) == Cardinality(Ahead(i))

Least(m, n) == IF m <= n THEN m ELSE n
Served == Least(Cardinality(Results), SearchCap)

Nodes == {i \in Results : after <= Place(i) /\ Place(i) < Least(after + PageSize, SearchCap)}
Count == Cardinality(Nodes)

\* i is updated, or is deleted, closed to us, or no longer of its terms.
Becomes(i, t) ==
  /\ updated[i] > 0 /\ updated' = [updated EXCEPT ![i] = t]
  /\ slipped' = (slipped \/ (i \in Results /\ Place(i) < after /\ ~InWindow(t)))

Changes(i) ==
  /\ Paging
  /\ \/ Becomes(i, 0)
     \/ \E b \in 1 .. MaxBumps :
          Becomes(i, Began + b) /\ \A j \in Matched : updated[j] < Began + b
  /\ UNCHANGED <<terms, open, masked, term, after, pages, counted, hits, complete,
                 stopped, broken>>
-----------------------------------------------------------------------------
(* discover. *)

\* Mutant: a term whose pages end is complete, however much it counted.
EndTermUncounted(ended, count) ==
  /\ complete' = (complete /\ ended)
  /\ term' = term + 1 /\ after' = 0 /\ pages' = 0 /\ counted' = 0

\* `count` is what the term's last page said of all its results.
EndTerm(ended, count) ==
  /\ complete' = (complete /\ ended /\ counted + Count >= count)
  /\ term' = term + 1 /\ after' = 0 /\ pages' = 0 /\ counted' = 0

\* Masked and repeated nodes are counted: the count is the search's.
ReadPage(hasNext, cursor) ==
  /\ hits' = hits \cup (Nodes \ masked)
  /\ \/ ~hasNext /\ EndTerm(TRUE, Cardinality(Results))
     \/ /\ hasNext /\ cursor # after /\ pages + 1 < PagesLimit
        /\ after' = cursor /\ pages' = pages + 1 /\ counted' = counted + Count
        /\ UNCHANGED <<term, complete>>
     \/ /\ hasNext /\ (cursor = after \/ pages + 1 >= PagesLimit)
        /\ EndTerm(FALSE, Cardinality(Results))
  /\ UNCHANGED <<terms, open, bumpVars, masked, stopped>>

PageArrives ==
  /\ Paging
  /\ ReadPage(after + Count < Served, after + Count)
  /\ UNCHANGED broken

\* A server whose pages never end, or whose cursor does not move.
BrokenPageArrives ==
  /\ Paging
  /\ broken < MaxBroken /\ broken' = broken + 1
  /\ \E c \in {after, after + PageSize} : c > 0 /\ ReadPage(TRUE, c)

PageFails ==
  /\ Paging /\ stopped' = TRUE
  /\ UNCHANGED <<terms, open, bumpVars, masked, term, after, pages, counted, hits,
                 complete, broken>>

DiscoveryNext ==
  PageArrives \/ BrokenPageArrives \/ PageFails \/ \E i \in Matched : Changes(i)

DiscoverySpec == DiscoveryInit /\ [][DiscoveryNext]_discoveryVars
-----------------------------------------------------------------------------
(* Properties. *)

DiscoveryTypeOK ==
  /\ updated \in [Matched -> 0 .. Began + MaxBumps] /\ masked \subseteq Matched
  /\ term \in 1 .. Len(terms) + 1 /\ {after, pages, counted} \subseteq Nat
  /\ hits \subseteq Matched \ masked /\ broken \in 0 .. MaxBroken
  /\ {open, complete, stopped, slipped} \subseteq BOOLEAN

\* A discovery that calls itself complete has every item its terms match, but
\* those updated since it began, which the overlap of the next run reaches, and
\* those whose place in the results a departing item took from under the
\* cursor (sync.rs: "Complete iff every term's pagination terminated with
\* nodes_seen covering issueCount").
CompleteMissesNothing ==
  term > Len(terms) /\ complete /\ ~slipped =>
    \A i \in Matched \ masked :
      i \in hits \/ updated[i] > Began \/ updated[i] = 0
=============================================================================
