------------------------------ MODULE IssueRows ------------------------------
(***************************************************************************)
(* One issue's row and its two writers (sync.rs).  The issue stream of the *)
(* issue's own repository hydrates it whole and owns what it has written;  *)
(* any repository's pull request that closes the issue carries a sighting  *)
(* of it, which fills a missing row, freshens only rows of its own kind    *)
(* and revives a deleted one.  Each repository has a worker, each worker's *)
(* bundles reach the single writer in order, and two workers' bundles in   *)
(* any order.  attention.rs reads the row for the `untriaged` list.        *)
(*                                                                         *)
(* Texts and assignees are left out: title, state and body are one version *)
(* number, and an assignee is a label that is never masked.                *)
(***************************************************************************)
EXTENDS Integers, FiniteSets

CONSTANTS
  Own, Other,   \* the workers: of the issue's repository, of another one
  MaxVersion,   \* bound: how often the issue changes
  MaxBundles    \* bound: how many bundles are fetched

ASSUME IssueRowsAssumption ==
  Own # Other /\ MaxVersion \in Nat \ {0} /\ MaxBundles \in Nat

VARIABLES
  issue,   \* the issue on GitHub
  sent,    \* the bundle each worker has in flight
  fetched, \* how many bundles were fetched, for the bound MaxBundles
  arch,    \* the archive's row, with its maintainer comment
  seen     \* history: the bundle the writer committed last

issueVars == <<issue, sent, fetched, arch, seen>>

Workers == {Own, Other}
Nothing == [kind |-> "none"]

-----------------------------------------------------------------------------
(* GitHub: the issue's text moves, it is labelled and unlabelled, a        *)
(* maintainer replies and takes the reply back, and it can be out of the   *)
(* operator's sight for a while.  Each change is a version.                *)

IssueInit ==
  /\ issue = [v |-> 1, labelled |-> FALSE, replied |-> FALSE, hidden |-> FALSE]
  /\ sent = [w \in Workers |-> Nothing]
  /\ fetched = 0 /\ arch = Nothing /\ seen = Nothing

Bump(change) ==
  /\ issue.v < MaxVersion
  /\ issue' = [change EXCEPT !.v = @ + 1]
  /\ UNCHANGED <<sent, fetched, arch, seen>>

IssueChanges ==
  \/ Bump(issue)
  \/ Bump([issue EXCEPT !.labelled = ~@])
  \/ Bump([issue EXCEPT !.replied = ~@])
  \/ Bump([issue EXCEPT !.hidden = ~@])

-----------------------------------------------------------------------------
(* The workers.                                                            *)

Send(w, b) ==
  /\ sent[w] = Nothing /\ fetched < MaxBundles
  /\ sent' = [sent EXCEPT ![w] = b]
  /\ fetched' = fetched + 1
  /\ UNCHANGED <<issue, arch, seen>>

(* The full walk of the issue stream: comments page by page, labels in one *)
(* counted connection that GitHub may mask.                                *)
HydrateIssue ==
  /\ ~issue.hidden
  /\ \E lost \in {"nothing", "comments", "labels"} :
       Send(Own, [kind |-> "stream", issue |-> issue, lost |-> lost])

(* node:null, often enough for the quarantine to drain it.                 *)
HydrateNull ==
  issue.hidden /\ Send(Own, [kind |-> "drain"])

(* A pull request's closingIssuesReferences renders the issue.             *)
Sight ==
  \E w \in Workers :
    ~issue.hidden /\ Send(w, [kind |-> "linked", issue |-> issue])

-----------------------------------------------------------------------------
(* The writer.                                                             *)

IssueVerified(b) == b.lost = "nothing"

(* Mutant of LabelsRow: what GitHub masked is written as unknown.           *)
LabelsRowForgets(old, b) ==
  IF b.lost # "labels" THEN IF b.issue.labelled THEN "some" ELSE "empty"
  ELSE "null"

(* Masked labels are not up for recomputation; a first row leaves them     *)
(* unknown.                                                                *)
LabelsRow(old, b) ==
  IF b.lost # "labels" THEN IF b.issue.labelled THEN "some" ELSE "empty"
  ELSE IF old = Nothing THEN "null" ELSE old.labels

(* The maintainer's comment: upserted when seen, swept when not, under the *)
(* witness of the comments connection alone.                               *)
RepliedRow(old, b) ==
  IF b.lost = "comments" THEN old # Nothing /\ old.replied ELSE b.issue.replied

UpsertIssueStream(old, b) ==
  [kind      |-> "row",
   source    |-> "stream",
   v         |-> b.issue.v,
   labels    |-> LabelsRow(old, b),
   replied   |-> RepliedRow(old, b),
   truncated |-> ~IssueVerified(b),
   verified  |-> IssueVerified(b) \/ (old # Nothing /\ old.verified),
   deleted   |-> FALSE]

(* Mutant of Freshened: the ownership gate is dropped.                     *)
FreshenedAnyone(old, b) == [old EXCEPT !.v = b.issue.v]

(* Freshen: only a row the linked writer owns, and only its text.          *)
Freshened(old, b) ==
  IF old.source = "linked" THEN [old EXCEPT !.v = b.issue.v] ELSE old

(* Mutant of UpsertLinkedIssue: a sighting that is inserted takes the row   *)
(* for the stream.                                                         *)

UpsertLinkedIssue(old, b) ==
  IF old = Nothing
  THEN [kind |-> "row", source |-> "linked", v |-> b.issue.v,
        labels |-> "null", replied |-> FALSE, truncated |-> FALSE,
        verified |-> FALSE, deleted |-> FALSE]
  ELSE [Freshened(old, b) EXCEPT !.deleted = FALSE]

Drained(old) == IF old = Nothing THEN old ELSE [old EXCEPT !.deleted = TRUE]

WriteIssue ==
  \E w \in Workers :
    LET b == sent[w] IN
    /\ b # Nothing
    /\ arch' = CASE b.kind = "stream" -> UpsertIssueStream(arch, b)
                 [] b.kind = "linked" -> UpsertLinkedIssue(arch, b)
                 [] b.kind = "drain"  -> Drained(arch)
    /\ seen' = b
    /\ sent' = [sent EXCEPT ![w] = Nothing]
    /\ UNCHANGED <<issue, fetched>>

(* A kill drops every bundle in flight.                                    *)
Kill ==
  /\ \E w \in Workers : sent[w] # Nothing
  /\ sent' = [w \in Workers |-> Nothing]
  /\ UNCHANGED <<issue, fetched, arch, seen>>

IssueNext ==
  \/ IssueChanges
  \/ HydrateIssue \/ HydrateNull \/ Sight
  \/ WriteIssue \/ Kill

IssueSpec == IssueInit /\ [][IssueNext]_issueVars

-----------------------------------------------------------------------------
(* The judgment.                                                           *)

(* Mutant of Labelled: labels nobody has seen are taken for labels.         *)
LabelledUnlessEmpty(row) == row.labels # "empty"

(* Only a stored, non-empty array proves a label.                          *)
Labelled(row) == row.labels = "some"

Untriaged(row) == ~Labelled(row) /\ ~row.replied

Listed(row) == row # Nothing /\ ~row.deleted /\ Untriaged(row)

-----------------------------------------------------------------------------
(* Properties.                                                             *)

Rows == [kind : {"row"}, source : {"stream", "linked"}, v : 1..MaxVersion,
         labels : {"null", "empty", "some"}, replied : BOOLEAN,
         truncated : BOOLEAN, verified : BOOLEAN, deleted : BOOLEAN]

(* Types, and what the columns say together: a row that was never verified *)
(* and is not flagged truncated is a sighting, with no labels of its own.  *)
IssueTypeOK ==
  /\ arch = Nothing \/ arch \in Rows
  /\ arch # Nothing /\ ~arch.verified /\ ~arch.truncated =>
       arch.source = "linked" /\ arch.labels = "null"

(* Once the issue stream has written the row its text never goes back:     *)
(* sightings from other repositories, however late they reach the writer,  *)
(* leave it alone (sync.rs 347-360, 4647-4652).                            *)
StreamRowsNeverRegress ==
  [][arch # Nothing /\ arch.source = "stream" =>
       arch'.source = "stream" /\ arch'.v >= arch.v]_issueVars

(* An issue leaves the untriaged list, or enters the archive outside it,   *)
(* only when the hydration just written showed a label or a maintainer's   *)
(* reply, or GitHub no longer resolved the issue: absence of proof keeps   *)
(* the demand (attention.rs 586-606).                                      *)
ProvenTriage ==
  [][(arch = Nothing \/ Listed(arch)) /\ arch' # Nothing /\ ~Listed(arch') =>
       \/ seen'.kind = "drain"
       \/ seen'.issue.labelled /\ seen'.lost # "labels"
       \/ seen'.issue.replied /\ seen'.lost # "comments"]_issueVars

(* The other way round, a stored label is forgotten only when a hydration  *)
(* carried the labels and they were gone, and a stored reply only when the *)
(* comments were walked to their end without it.                           *)
MarksNeedAWitness ==
  [][arch # Nothing =>
       /\ Labelled(arch) /\ ~Labelled(arch') =>
            ~seen'.issue.labelled /\ seen'.lost # "labels"
       /\ arch.replied /\ ~arch'.replied =>
            ~seen'.issue.replied /\ seen'.lost # "comments"]_issueVars

=============================================================================
