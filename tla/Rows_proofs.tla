----------------------------- MODULE Rows_proofs ----------------------------
(***************************************************************************)
(* The rows the reports read. Of an issue, for any number of changes and   *)
(* bundles: a row the issue's stream wrote stays the stream's, and marks   *)
(* are forgotten only on proof. Of a pull request, for any clocks, length  *)
(* of a run, people, reviews, pushes and speech: what attention says of    *)
(* its row is true of the pull request the archive met.                    *)
(***************************************************************************)
EXTENDS MCRows, FiniteSetTheorems, WellFoundedInduction, TLAPS

Issues == [v : 1..MaxVersion, labelled : BOOLEAN, replied : BOOLEAN, hidden : BOOLEAN]

Streamed == [kind : {"stream"}, issue : Issues, lost : {"nothing", "comments", "labels"}]
Linked   == [kind : {"linked"}, issue : Issues]
Drains   == [kind : {"drain"}]

(* Only the issue's own worker walks its stream and retries its quarantine. *)
Sent ==
  /\ issue \in Issues
  /\ sent \in [Workers -> Streamed \cup Linked \cup Drains \cup {Nothing}]
  /\ sent[Other] \in Linked \cup {Nothing}

(* Nothing is newer than the issue, and what the own worker has in flight  *)
(* is no older than a row the stream owns.                                 *)
InOrder ==
  /\ \A w \in Workers : sent[w].kind \in {"stream", "linked"} => sent[w].issue.v <= issue.v
  /\ arch # Nothing => arch.v <= issue.v
  /\ arch # Nothing /\ arch.source = "stream" /\ sent[Own].kind = "stream" =>
       sent[Own].issue.v >= arch.v

Inv == IssueTypeOK /\ Sent /\ InOrder

-----------------------------------------------------------------------------
(* What a step does.                                                       *)

(* A row is told from no row.                                              *)
LEMMA RowIsSomething == \A r \in Rows : r # Nothing
<1> SUFFICES ASSUME NEW r \in Rows, r = Nothing PROVE FALSE
  OBVIOUS
<1>1. r.kind = "row"
  BY DEF Rows
<1>2. Nothing.kind = "none"
  BY DEF Nothing
<1>3. QED
  BY <1>1, <1>2

(* The kind of a bundle is where it came from.                             *)
LEMMA KindOfBundle ==
  \A b \in Streamed \cup Linked \cup Drains \cup {Nothing} :
    /\ b.kind \in {"stream", "linked", "drain", "none"}
    /\ b.kind = "stream" <=> b \in Streamed
    /\ b.kind = "linked" <=> b \in Linked
    /\ b.kind = "none" <=> b = Nothing
<1> SUFFICES ASSUME NEW b \in Streamed \cup Linked \cup Drains \cup {Nothing}
             PROVE  /\ b.kind \in {"stream", "linked", "drain", "none"}
                    /\ b.kind = "stream" <=> b \in Streamed
                    /\ b.kind = "linked" <=> b \in Linked
                    /\ b.kind = "none" <=> b = Nothing
  OBVIOUS
<1>1. \A x \in Streamed : x.kind = "stream"
  BY DEF Streamed
<1>2. \A x \in Linked : x.kind = "linked"
  BY DEF Linked
<1>3. \A x \in Drains : x.kind = "drain"
  BY DEF Drains
<1>4. Nothing.kind = "none"
  BY DEF Nothing
<1>5. QED
  BY <1>1, <1>2, <1>3, <1>4

(* The writer of the stream lands a row of its own.                        *)
LEMMA StreamWrites ==
  ASSUME NEW old, old = Nothing \/ old \in Rows, NEW b \in Streamed
  PROVE  LET r == UpsertIssueStream(old, b)
         IN  /\ r \in Rows /\ r.source = "stream" /\ r.v = b.issue.v
             /\ ~r.deleted
             /\ r.labels = LabelsRow(old, b) /\ r.replied = RepliedRow(old, b)
             /\ ~r.verified => r.truncated
<1>1. b.issue \in Issues /\ b.lost \in {"nothing", "comments", "labels"}
  BY DEF Streamed
<1>2. old # Nothing =>
        /\ old.labels \in {"null", "empty", "some"}
        /\ old.replied \in BOOLEAN /\ old.verified \in BOOLEAN
  BY DEF Rows
<1>3. LabelsRow(old, b) \in {"null", "empty", "some"}
  BY <1>2 DEF LabelsRow
<1>4. RepliedRow(old, b) \in BOOLEAN
  BY <1>1, <1>2 DEF RepliedRow, Issues
<1>5. IssueVerified(b) \in BOOLEAN
  BY DEF IssueVerified
<1>6. b.issue.v \in 1..MaxVersion
  BY <1>1 DEF Issues
<1>7. (IssueVerified(b) \/ (old # Nothing /\ old.verified)) \in BOOLEAN
  BY <1>2, <1>5
<1>8. UpsertIssueStream(old, b) \in Rows
  BY <1>3, <1>4, <1>5, <1>6, <1>7 DEF UpsertIssueStream, Rows
<1>9. QED
  BY <1>8 DEF UpsertIssueStream

(* A sighting fills a missing row or moves the text of a row of its kind.  *)
LEMMA LinkedWrites ==
  ASSUME NEW old, old = Nothing \/ old \in Rows, NEW b \in Linked
  PROVE  LET r == UpsertLinkedIssue(old, b)
         IN  /\ r \in Rows
             /\ old = Nothing =>
                  /\ r.source = "linked" /\ r.v = b.issue.v
                  /\ r.labels = "null" /\ ~r.replied /\ ~r.deleted
             /\ old # Nothing =>
                  /\ r.source = old.source /\ r.labels = old.labels
                  /\ r.replied = old.replied /\ r.verified = old.verified
                  /\ r.truncated = old.truncated /\ ~r.deleted
                  /\ r.v \in {old.v, b.issue.v}
                  /\ old.source = "stream" => r.v = old.v
<1>1. b.issue.v \in 1..MaxVersion
  BY DEF Linked, Issues
<1>2. CASE old = Nothing
  BY <1>1, <1>2 DEF UpsertLinkedIssue, Rows
<1>3. CASE old \in Rows
  <2>1. old # Nothing
    BY <1>3, RowIsSomething
  <2>2. CASE old.source = "linked"
    BY <1>1, <1>3, <2>1, <2>2 DEF UpsertLinkedIssue, Freshened, Rows
  <2>3. CASE old.source # "linked"
    BY <1>3, <2>1, <2>3 DEF UpsertLinkedIssue, Freshened, Rows
  <2>4. QED
    BY <2>2, <2>3
<1>4. QED
  BY <1>2, <1>3

(* A drain marks the row and nothing else.                                 *)
LEMMA DrainWrites ==
  ASSUME NEW old \in Rows
  PROVE  /\ Drained(old) \in Rows
         /\ Drained(old).source = old.source /\ Drained(old).v = old.v
         /\ Drained(old).labels = old.labels /\ Drained(old).replied = old.replied
         /\ Drained(old).verified = old.verified
         /\ Drained(old).truncated = old.truncated
<1>1. old # Nothing
  BY RowIsSomething
<1>2. QED
  BY <1>1 DEF Drained, Rows

(* The writer's step, bundle by bundle.                                    *)
Written(w, b) ==
  /\ b # Nothing /\ b = sent[w] /\ seen' = b
  /\ sent' = [sent EXCEPT ![w] = Nothing]
  /\ UNCHANGED <<issue, fetched>>
  /\ b.kind = "stream" => arch' = UpsertIssueStream(arch, b)
  /\ b.kind = "linked" => arch' = UpsertLinkedIssue(arch, b)
  /\ b.kind = "drain" => arch' = Drained(arch)

LEMMA Writes ==
  ASSUME WriteIssue
  PROVE  \E w \in Workers : Written(w, sent[w])
<1>1. PICK w \in Workers :
        /\ sent[w] # Nothing
        /\ arch' = CASE sent[w].kind = "stream" -> UpsertIssueStream(arch, sent[w])
                     [] sent[w].kind = "linked" -> UpsertLinkedIssue(arch, sent[w])
                     [] sent[w].kind = "drain"  -> Drained(arch)
        /\ seen' = sent[w]
        /\ sent' = [sent EXCEPT ![w] = Nothing]
        /\ UNCHANGED <<issue, fetched>>
  BY DEF WriteIssue
<1>2. sent[w].kind = "stream" => arch' = UpsertIssueStream(arch, sent[w])
  BY <1>1
<1>3. sent[w].kind = "linked" => arch' = UpsertLinkedIssue(arch, sent[w])
  BY <1>1
<1>4. sent[w].kind = "drain" => arch' = Drained(arch)
  BY <1>1
<1>5. QED
  BY <1>1, <1>2, <1>3, <1>4 DEF Written

(* Steps that do not write leave the row alone.                            *)
LEMMA OthersKeepTheRow ==
  ASSUME [IssueNext]_issueVars, ~WriteIssue
  PROVE  UNCHANGED <<arch, seen>>
BY DEF IssueNext, issueVars, IssueChanges, Bump, HydrateIssue, HydrateNull, Sight,
       Send, Kill

-----------------------------------------------------------------------------
(* The inductive invariant.                                                *)

LEMMA InvInit == ASSUME IssueInit PROVE Inv
<1>1. issue \in Issues
  BY IssueRowsAssumption DEF IssueInit, Issues
<1>2. sent = [w \in Workers |-> Nothing] /\ arch = Nothing
  BY DEF IssueInit
<1>3. Sent
  BY <1>1, <1>2 DEF Sent, Workers
<1>4. \A w \in Workers : sent[w].kind = "none"
  BY <1>2 DEF Nothing
<1>5. InOrder
  BY <1>2, <1>4 DEF InOrder, Workers
<1>6. QED
  BY <1>2, <1>3, <1>5 DEF Inv, IssueTypeOK

(* A new bundle is what the issue is now.                                  *)
LEMMA SendKeepsInv ==
  ASSUME Inv, NEW w \in Workers, NEW b \in Streamed \cup Linked \cup Drains,
         w = Other => b \in Linked,
         b \in Streamed \cup Linked => b.issue = issue,
         Send(w, b)
  PROVE  Inv'
<1>1. /\ sent' = [sent EXCEPT ![w] = b] /\ UNCHANGED <<issue, arch, seen>>
  BY DEF Send
<1>2. sent'[w] = b /\ \A v \in Workers \ {w} : sent'[v] = sent[v]
  BY <1>1 DEF Inv, Sent
<1>3. IssueTypeOK'
  BY <1>1 DEF Inv, IssueTypeOK
<1>4. Sent'
  BY <1>1, <1>2 DEF Inv, Sent, Workers
<1>5. b.kind \in {"stream", "linked"} => b.issue.v = issue.v
  BY KindOfBundle
<1>6. issue.v \in Nat
  BY IssueRowsAssumption DEF Inv, Sent, Issues
<1>7. InOrder'
  <2>1. \A v \in Workers :
          sent'[v].kind \in {"stream", "linked"} => sent'[v].issue.v <= issue.v
    BY <1>2, <1>5, <1>6 DEF Inv, InOrder
  <2>2. arch # Nothing /\ arch.source = "stream" /\ sent'[Own].kind = "stream" =>
          sent'[Own].issue.v >= arch.v
    <3>1. CASE w = Own
      BY <1>2, <1>5, <1>6, <3>1 DEF Inv, InOrder
    <3>2. CASE w # Own
      BY <1>2, <3>2 DEF Inv, InOrder, Workers
    <3>3. QED
      BY <3>1, <3>2
  <2>3. QED
    BY <1>1, <2>1, <2>2 DEF Inv, InOrder
<1>8. QED
  BY <1>3, <1>4, <1>7 DEF Inv

(* The issue only becomes newer.                                           *)
LEMMA BumpKeepsInv ==
  ASSUME Inv, NEW c \in Issues, c.v = issue.v, Bump(c)
  PROVE  Inv'
<1>1. issue.v < MaxVersion /\ issue' = [c EXCEPT !.v = @ + 1]
      /\ UNCHANGED <<sent, arch>>
  BY DEF Bump
<1>2. issue'.v = issue.v + 1 /\ issue.v \in 1..MaxVersion
  BY <1>1 DEF Issues, Inv, Sent
<1>3. issue' \in Issues
  <2>1. c.v + 1 \in 1..MaxVersion
    BY <1>1, <1>2, IssueRowsAssumption
  <2>2. QED
    BY <1>1, <2>1 DEF Issues
<1>4. Sent'
  BY <1>1, <1>3 DEF Inv, Sent
<1>5. \A v \in Workers : sent[v].kind \in {"stream", "linked"} => sent[v].issue.v \in Nat
  <2>1. \A v \in Workers : sent[v] \in Streamed \cup Linked \cup Drains \cup {Nothing}
    BY DEF Inv, Sent
  <2>2. \A b \in Streamed \cup Linked : b.issue.v \in 1..MaxVersion
    BY DEF Streamed, Linked, Issues
  <2>3. QED
    BY <2>1, <2>2, KindOfBundle, IssueRowsAssumption
<1>6. arch # Nothing => arch.v \in Nat
  BY IssueRowsAssumption DEF Inv, IssueTypeOK, Rows
<1>7. InOrder'
  <2>1. \A v \in Workers :
          sent'[v].kind \in {"stream", "linked"} => sent'[v].issue.v <= issue'.v
    BY <1>1, <1>2, <1>5 DEF Inv, InOrder
  <2>2. arch # Nothing => arch.v <= issue'.v
    BY <1>2, <1>6 DEF Inv, InOrder
  <2>3. QED
    BY <1>1, <2>1, <2>2 DEF Inv, InOrder
<1>8. QED
  BY <1>1, <1>4, <1>7 DEF Inv, IssueTypeOK

LEMMA WriteKeepsInv ==
  ASSUME Inv, WriteIssue
  PROVE  Inv'
<1>1. PICK w \in Workers : Written(w, sent[w])
  BY Writes
<1> DEFINE b == sent[w]
<1>2. b \in Streamed \cup Linked \cup Drains /\ arch \in Rows \cup {Nothing}
  BY <1>1 DEF Written, Inv, Sent, IssueTypeOK
<1>3. UNCHANGED issue /\ sent'[w] = Nothing
      /\ \A v \in Workers \ {w} : sent'[v] = sent[v]
  BY <1>1 DEF Written, Inv, Sent
<1>4. Sent'
  BY <1>1, <1>3 DEF Written, Inv, Sent, Workers
<1>5. b \in Streamed \cup Linked => b.issue.v <= issue.v
  BY <1>2, KindOfBundle DEF Inv, InOrder
<1>6. \A v \in Workers :
        sent'[v].kind \in {"stream", "linked"} =>
          v # w /\ sent'[v].issue.v <= issue.v
  BY <1>3 DEF Inv, InOrder, Nothing
<1>7. b \in Streamed => w = Own
  BY <1>2, KindOfBundle DEF Inv, Sent, Workers
<1>8. IssueTypeOK' /\ (arch' # Nothing => arch'.v <= issue.v)
      /\ (arch' # Nothing /\ arch'.source = "stream" /\ w # Own =>
           arch # Nothing /\ arch.source = "stream" /\ arch'.v = arch.v)
  <2>1. CASE b \in Streamed
    <3>1. arch' = UpsertIssueStream(arch, b)
      BY <1>1, <1>2, <2>1, KindOfBundle DEF Written
    <3>2. QED
      BY <1>2, <1>5, <1>7, <2>1, <3>1, StreamWrites DEF IssueTypeOK
  <2>2. CASE b \in Linked
    <3>1. arch' = UpsertLinkedIssue(arch, b)
      BY <1>1, <1>2, <2>2, KindOfBundle DEF Written
    <3>2. arch' \in Rows /\ arch' # Nothing
      BY <1>2, <2>2, <3>1, LinkedWrites, RowIsSomething
    <3>3. CASE arch = Nothing
      BY <1>2, <1>5, <2>2, <3>1, <3>2, <3>3, LinkedWrites DEF IssueTypeOK
    <3>4. CASE arch # Nothing
      BY <1>2, <1>5, <2>2, <3>1, <3>2, <3>4, LinkedWrites DEF IssueTypeOK, Inv, InOrder
    <3>5. QED
      BY <3>3, <3>4
  <2>3. CASE b \in Drains
    <3>1. arch' = Drained(arch)
      BY <1>1, <2>3 DEF Written, Drains
    <3>2. CASE arch = Nothing
      BY <3>1, <3>2 DEF Drained, IssueTypeOK
    <3>3. CASE arch \in Rows
      <4>1. arch # Nothing /\ arch' \in Rows
        BY <3>1, <3>3, RowIsSomething, DrainWrites
      <4>2. QED
        BY <3>1, <3>3, <4>1, DrainWrites DEF IssueTypeOK, Inv, InOrder
    <3>4. QED
      BY <1>2, <3>2, <3>3
  <2>4. QED
    BY <1>2, <2>1, <2>2, <2>3
<1>9. InOrder'
  <2>1. CASE w = Own
    BY <1>3, <1>6, <1>8, <2>1 DEF InOrder, Workers
  <2>2. CASE w # Own
    BY <1>3, <1>6, <1>8, <2>2 DEF InOrder, Inv, Workers
  <2>3. QED
    BY <2>1, <2>2
<1>10. QED
  BY <1>4, <1>8, <1>9 DEF Inv

LEMMA StepKeepsInv ==
  ASSUME Inv, [IssueNext]_issueVars
  PROVE  Inv'
<1>1. CASE IssueChanges
  <2>1. /\ issue \in Issues
        /\ [issue EXCEPT !.labelled = ~@] \in Issues
        /\ [issue EXCEPT !.replied = ~@] \in Issues
        /\ [issue EXCEPT !.hidden = ~@] \in Issues
        /\ [issue EXCEPT !.labelled = ~@].v = issue.v
        /\ [issue EXCEPT !.replied = ~@].v = issue.v
        /\ [issue EXCEPT !.hidden = ~@].v = issue.v
    BY DEF Inv, Sent, Issues
  <2>2. QED
    BY <1>1, <2>1, BumpKeepsInv DEF IssueChanges
<1>2. CASE HydrateIssue
  <2>1. PICK lost \in {"nothing", "comments", "labels"} :
          Send(Own, [kind |-> "stream", issue |-> issue, lost |-> lost])
    BY <1>2 DEF HydrateIssue
  <2>2. [kind |-> "stream", issue |-> issue, lost |-> lost] \in Streamed
    BY DEF Inv, Sent, Streamed
  <2>3. QED
    BY <2>1, <2>2, SendKeepsInv, IssueRowsAssumption DEF Workers
<1>3. CASE HydrateNull
  <2>1. Send(Own, [kind |-> "drain"]) /\ [kind |-> "drain"] \in Drains
    BY <1>3 DEF HydrateNull, Drains
  <2>2. [kind |-> "drain"] \notin Streamed \cup Linked
    BY DEF Streamed, Linked
  <2>3. QED
    BY <2>1, <2>2, SendKeepsInv, IssueRowsAssumption DEF Workers
<1>4. CASE Sight
  <2>1. PICK w \in Workers : Send(w, [kind |-> "linked", issue |-> issue])
    BY <1>4 DEF Sight
  <2>2. [kind |-> "linked", issue |-> issue] \in Linked
    BY DEF Inv, Sent, Linked
  <2>3. QED
    BY <2>1, <2>2, SendKeepsInv
<1>5. CASE WriteIssue
  BY <1>5, WriteKeepsInv
<1>6. CASE Kill
  <2>1. sent' = [w \in Workers |-> Nothing] /\ UNCHANGED <<issue, arch>>
    BY <1>6 DEF Kill
  <2>2. \A w \in Workers : sent'[w].kind = "none"
    BY <2>1 DEF Nothing
  <2>3. QED
    BY <2>1, <2>2 DEF Inv, IssueTypeOK, Sent, InOrder, Workers
<1>7. CASE UNCHANGED issueVars
  BY <1>7 DEF issueVars, Inv, IssueTypeOK, Sent, InOrder
<1>8. QED
  BY <1>1, <1>2, <1>3, <1>4, <1>5, <1>6, <1>7 DEF IssueNext

LEMMA AlwaysInv == IssueSpec => []Inv
<1>1. IssueInit => Inv
  BY InvInit
<1>2. Inv /\ [IssueNext]_issueVars => Inv'
  BY StepKeepsInv
<1>3. QED
  BY <1>1, <1>2, PTL DEF IssueSpec

-----------------------------------------------------------------------------
(* The row's columns agree with each other, whoever wrote them in whatever *)
(* order (sync.rs upsert_issue_stream, upsert_linked_issue).               *)
THEOREM IssueTypeCorrect == IssueSpec => []IssueTypeOK
<1>1. Inv => IssueTypeOK
  BY DEF Inv
<1>2. QED
  BY <1>1, AlwaysInv, PTL

(* A row the issue stream wrote stays the stream's and never goes back to  *)
(* an older text, whatever sightings are on their way (sync.rs 4647-4672). *)
THEOREM StreamRowsStand == IssueSpec => StreamRowsNeverRegress
<1>1. Inv /\ [IssueNext]_issueVars =>
        [arch # Nothing /\ arch.source = "stream" =>
           arch'.source = "stream" /\ arch'.v >= arch.v]_issueVars
  <2> SUFFICES ASSUME Inv, [IssueNext]_issueVars,
                      arch # Nothing, arch.source = "stream"
               PROVE  arch'.source = "stream" /\ arch'.v >= arch.v
    OBVIOUS
  <2>1. arch \in Rows /\ arch.v \in Nat
    BY IssueRowsAssumption DEF Inv, IssueTypeOK, Rows
  <2>2. CASE WriteIssue
    <3>1. PICK w \in Workers : Written(w, sent[w])
      BY <2>2, Writes
    <3> DEFINE b == sent[w]
    <3>2. b \in Streamed \cup Linked \cup Drains
      BY <3>1 DEF Written, Inv, Sent
    <3>3. CASE b \in Streamed
      <4>1. arch' = UpsertIssueStream(arch, b) /\ w = Own
        BY <3>1, <3>2, <3>3, KindOfBundle DEF Written, Inv, Sent, Workers
      <4>2. b.issue.v >= arch.v
        BY <3>2, <3>3, <4>1, KindOfBundle DEF Inv, InOrder
      <4>3. QED
        BY <2>1, <3>3, <4>1, <4>2, StreamWrites
    <3>4. CASE b \in Linked
      <4>1. arch' = UpsertLinkedIssue(arch, b)
        BY <3>1, <3>2, <3>4, KindOfBundle DEF Written
      <4>2. QED
        BY <2>1, <3>4, <4>1, LinkedWrites
    <3>5. CASE b \in Drains
      <4>1. arch' = Drained(arch)
        BY <3>1, <3>5 DEF Written, Drains
      <4>2. QED
        BY <2>1, <4>1, DrainWrites
    <3>6. QED
      BY <3>2, <3>3, <3>4, <3>5
  <2>3. CASE ~WriteIssue
    BY <2>1, <2>3, OthersKeepTheRow
  <2>4. QED
    BY <2>2, <2>3
<1>2. QED
  BY <1>1, AlwaysInv, PTL DEF IssueSpec, StreamRowsNeverRegress

-----------------------------------------------------------------------------
(* What the writer makes of the marks of triage.                           *)

(* A written row shows a label or a reply that the one before did not only *)
(* by a hydration that carried it, and loses one only by a hydration that  *)
(* carried its absence.                                                    *)
LEMMA MarksWritten ==
  ASSUME Inv, WriteIssue, arch' # Nothing
  PROVE  /\ seen' \in Streamed \cup Linked \cup Drains
         /\ seen' \in Drains \/ ~arch'.deleted
         /\ arch'.labels # "some" /\ arch # Nothing /\ arch.labels = "some" =>
              ~seen'.issue.labelled /\ seen'.lost # "labels"
         /\ ~arch'.replied /\ arch # Nothing /\ arch.replied =>
              ~seen'.issue.replied /\ seen'.lost # "comments"
         /\ arch'.labels = "some" /\ (arch = Nothing \/ arch.labels # "some") =>
              seen'.issue.labelled /\ seen'.lost # "labels"
         /\ arch'.replied /\ (arch = Nothing \/ ~arch.replied) =>
              seen'.issue.replied /\ seen'.lost # "comments"
<1>1. PICK w \in Workers : Written(w, sent[w])
  BY Writes
<1> DEFINE b == sent[w]
<1>2. /\ b \in Streamed \cup Linked \cup Drains /\ arch \in Rows \cup {Nothing}
      /\ seen' = b
  BY <1>1 DEF Written, Inv, Sent, IssueTypeOK
<1>3. CASE b \in Streamed
  <2>1. arch' = UpsertIssueStream(arch, b)
    BY <1>1, <1>2, <1>3, KindOfBundle DEF Written
  <2>2. /\ ~arch'.deleted
        /\ arch'.labels = LabelsRow(arch, b) /\ arch'.replied = RepliedRow(arch, b)
    BY <1>2, <1>3, <2>1, StreamWrites
  <2>3. b.issue.labelled \in BOOLEAN /\ b.issue.replied \in BOOLEAN
    BY <1>3 DEF Streamed, Issues
  <2>4. /\ arch'.labels # "some" /\ arch # Nothing /\ arch.labels = "some" =>
             ~b.issue.labelled /\ b.lost # "labels"
        /\ arch'.labels = "some" /\ (arch = Nothing \/ arch.labels # "some") =>
             b.issue.labelled /\ b.lost # "labels"
    BY <2>2, <2>3 DEF LabelsRow
  <2>5. /\ ~arch'.replied /\ arch # Nothing /\ arch.replied =>
             ~b.issue.replied /\ b.lost # "comments"
        /\ arch'.replied /\ (arch = Nothing \/ ~arch.replied) =>
             b.issue.replied /\ b.lost # "comments"
    BY <2>2, <2>3 DEF RepliedRow
  <2>6. QED
    BY <1>2, <2>2, <2>4, <2>5
<1>4. CASE b \in Linked
  <2>1. arch' = UpsertLinkedIssue(arch, b)
    BY <1>1, <1>2, <1>4, KindOfBundle DEF Written
  <2>2. CASE arch = Nothing
    BY <1>2, <1>4, <2>1, <2>2, LinkedWrites
  <2>3. CASE arch # Nothing
    BY <1>2, <1>4, <2>1, <2>3, LinkedWrites
  <2>4. QED
    BY <2>2, <2>3
<1>5. CASE b \in Drains
  <2>1. arch' = Drained(arch)
    BY <1>1, <1>5 DEF Written, Drains
  <2>2. arch \in Rows
    BY <1>2, <2>1 DEF Drained
  <2>3. arch # Nothing
    BY <2>2, RowIsSomething
  <2>4. arch'.labels = arch.labels /\ arch'.replied = arch.replied
    BY <2>1, <2>2, DrainWrites
  <2>5. arch.replied \in BOOLEAN
    BY <2>2 DEF Rows
  <2>6. seen' \in Drains
    BY <1>2, <1>5
  <2>7. QED
    BY <2>3, <2>4, <2>5, <2>6
<1>6. QED
  BY <1>2, <1>3, <1>4, <1>5

(* An issue leaves the untriaged list only on proof, or when GitHub no     *)
(* longer resolves it (attention.rs 586-606).                              *)
THEOREM TriageIsProven == IssueSpec => ProvenTriage
<1>1. Inv /\ [IssueNext]_issueVars =>
        [(arch = Nothing \/ Listed(arch)) /\ arch' # Nothing /\ ~Listed(arch') =>
           \/ seen'.kind = "drain"
           \/ seen'.issue.labelled /\ seen'.lost # "labels"
           \/ seen'.issue.replied /\ seen'.lost # "comments"]_issueVars
  <2> SUFFICES ASSUME Inv, [IssueNext]_issueVars, arch = Nothing \/ Listed(arch),
                      arch' # Nothing, ~Listed(arch'), seen'.kind # "drain"
               PROVE  \/ seen'.issue.labelled /\ seen'.lost # "labels"
                      \/ seen'.issue.replied /\ seen'.lost # "comments"
    OBVIOUS
  <2>1. WriteIssue
    <3> SUFFICES ASSUME ~WriteIssue PROVE FALSE
      OBVIOUS
    <3>1. arch' = arch
      BY OthersKeepTheRow
    <3>2. QED
      BY <3>1
  <2>2. ~arch'.deleted
    BY <2>1, MarksWritten DEF Drains
  <2>3. arch'.labels = "some" \/ arch'.replied
    BY <2>2 DEF Listed, Untriaged, Labelled
  <2>4. arch = Nothing \/ (arch.labels # "some" /\ ~arch.replied)
    BY DEF Listed, Untriaged, Labelled
  <2>5. QED
    BY <2>1, <2>3, <2>4, MarksWritten
<1>2. QED
  BY <1>1, AlwaysInv, PTL DEF IssueSpec, ProvenTriage

(* A stored label or reply is forgotten only by a hydration that carried   *)
(* its absence (sync.rs 4360-4415, 3405-3467).                             *)
THEOREM MarksAreWitnessed == IssueSpec => MarksNeedAWitness
<1>1. Inv /\ [IssueNext]_issueVars =>
        [arch # Nothing =>
           /\ Labelled(arch) /\ ~Labelled(arch') =>
                ~seen'.issue.labelled /\ seen'.lost # "labels"
           /\ arch.replied /\ ~arch'.replied =>
                ~seen'.issue.replied /\ seen'.lost # "comments"]_issueVars
  <2> SUFFICES ASSUME Inv, [IssueNext]_issueVars, arch # Nothing
               PROVE  /\ Labelled(arch) /\ ~Labelled(arch') =>
                           ~seen'.issue.labelled /\ seen'.lost # "labels"
                      /\ arch.replied /\ ~arch'.replied =>
                           ~seen'.issue.replied /\ seen'.lost # "comments"
    OBVIOUS
  <2>1. CASE ~WriteIssue
    <3>1. arch' = arch
      BY <2>1, OthersKeepTheRow
    <3>2. QED
      BY <3>1
  <2>2. CASE WriteIssue
    <3>1. arch' # Nothing
      <4>1. Inv'
        BY StepKeepsInv
      <4>2. PICK w \in Workers : Written(w, sent[w])
        BY <2>2, Writes
      <4>3. sent[w] \in Streamed \cup Linked \cup Drains /\ arch \in Rows
        BY <4>2 DEF Written, Inv, Sent, IssueTypeOK
      <4>4. CASE sent[w] \in Streamed
        BY <4>2, <4>3, <4>4, KindOfBundle, StreamWrites, RowIsSomething DEF Written
      <4>5. CASE sent[w] \in Linked
        BY <4>2, <4>3, <4>5, KindOfBundle, LinkedWrites, RowIsSomething DEF Written
      <4>6. CASE sent[w] \in Drains
        BY <4>2, <4>3, <4>6, DrainWrites, RowIsSomething DEF Written, Drains
      <4>7. QED
        BY <4>3, <4>4, <4>5, <4>6
    <3>2. QED
      BY <2>2, <3>1, MarksWritten DEF Labelled
  <2>3. QED
    BY <2>1, <2>2
<1>2. QED
  BY <1>1, AlwaysInv, PTL DEF IssueSpec, MarksNeedAWitness

-----------------------------------------------------------------------------
(* The pull request on GitHub, as the archive met it last, and its row.     *)
CommitState == [date : Nat, born : Nat]
HeadState == [oid : Nat, pushed : Nat]
ReviewState == [id : Nat, by : Parties, verdict : Verdicts \cup {"COMMENTED", "DISMISSED"},
                at : Nat, saw : Nat]
CommentState == [id : Nat, by : Parties, at : Nat, minimized : BOOLEAN]
PrState == [commits : Seq(CommitState), head : HeadState, reviews : SUBSET ReviewState,
            asked : BOOLEAN, thread : SUBSET CommentState, resolved : BOOLEAN,
            draft : BOOLEAN, blocked : BOOLEAN]
RowState == [head : Nat, committed : Nat, draft : BOOLEAN, blocked : BOOLEAN,
             truncated : BOOLEAN, flips : SUBSET Int, reviews : SUBSET ReviewState,
             asked : BOOLEAN, threads : [thread : SUBSET CommentState, resolved : BOOLEAN]]

(* Reviews are numbered as they are given. Each was given after its commit  *)
(* was first pushed, and one that saw another head before this head's push. *)
Reviewed(p) ==
  /\ p \in PrState /\ Marked(p) /\ IsFiniteSet(p.reviews)
  /\ \A r \in p.reviews :
       /\ r.id \in 1..Cardinality(p.reviews)
       /\ r.saw \in DOMAIN p.commits /\ p.commits[r.saw].born <= r.at
       /\ r.saw # p.head.oid => r.at <= p.head.pushed
  /\ \A r, o \in p.reviews : r.id = o.id => r = o

Past(p) ==
  /\ p.head.pushed <= clock
  /\ \A i \in DOMAIN p.commits : p.commits[i].born <= clock
  /\ \A r \in p.reviews : r.at <= clock

(* The row says of the head what the hydration met, and, untruncated, of    *)
(* everything.                                                              *)
Mirrors(r, p) ==
  /\ r.head = p.head.oid /\ r.committed = p.commits[p.head.oid].date
  /\ r.draft = p.draft /\ r.blocked = p.blocked
  /\ \A v \in r.reviews : v.verdict # "DISMISSED"
  /\ ~r.truncated => /\ r.reviews = Ingestable(p.reviews) /\ r.asked = p.asked
                     /\ r.threads = [thread |-> p.thread, resolved |-> p.resolved]

(* A flip is logged of a head that was pushed, so one more may be logged     *)
(* only of a head the archive has not met yet.                              *)
Logged ==
  /\ IsFiniteSet(row.flips) /\ Cardinality(row.flips) <= events
  /\ shown.head.oid # pr.head.oid => Cardinality(row.flips) < events

Archived ==
  \/ row = None /\ shown = None
  \/ /\ row # None /\ shown # None
     /\ row \in RowState /\ Reviewed(shown) /\ Mirrors(row, shown) /\ Logged

AttentionInv ==
  /\ clock \in 0..MaxClock /\ events \in 0..MaxEvents /\ author \in Parties
  /\ now \in Int /\ met \in 0..clock
  /\ Reviewed(pr) /\ Past(pr) /\ Archived

LEMMA Limits ==
  /\ ReviewPage \in Nat /\ MaxClock \in Nat /\ MaxReviews \in Nat /\ MaxSpeech \in Nat
  /\ MaxEvents \in Nat /\ MaxPushes \in Nat /\ 1 <= MaxPushes /\ Margin \in Nat /\ 1 <= Margin
  /\ Skews \subseteq Int
BY BoundsAssumption, MarginAssumption

-----------------------------------------------------------------------------
(* GitHub's side.                                                           *)
LEMMA Happens ==
  ASSUME AttentionInv, NEW change, Upstream(change), Reviewed(change), Past(change)
  PROVE  AttentionInv'
<1>1. /\ pr' = change /\ events' = events + 1 /\ events' \in 0..MaxEvents /\ events \in Nat
      /\ UNCHANGED <<clock, author, now, row, shown, met>>
  BY Limits DEF Upstream, AttentionInv
<1>2. Archived'
  <2>1. CASE row = None
    BY <1>1, <2>1 DEF AttentionInv, Archived
  <2>2. CASE row # None
    <3>1. /\ row \in RowState /\ Reviewed(shown) /\ Mirrors(row, shown) /\ shown # None
          /\ IsFiniteSet(row.flips) /\ Cardinality(row.flips) <= events
      BY <2>2 DEF AttentionInv, Archived, Logged
    <3>2. Cardinality(row.flips) < events + 1
      BY <1>1, <3>1, FS_CardinalityType
    <3>3. Reviewed(shown)' /\ Mirrors(row, shown)'
      BY <1>1, <3>1 DEF Reviewed, Marked, Mirrors, Ingestable
    <3>4. Logged'
      BY <1>1, <3>1, <3>2, FS_CardinalityType DEF Logged
    <3>5. QED
      BY <1>1, <2>2, <3>1, <3>3, <3>4 DEF Archived
  <2>3. QED
    BY <2>1, <2>2
<1>3. Reviewed(pr)' /\ Past(pr)'
  BY <1>1 DEF Reviewed, Past, Marked
<1>4. QED
  BY <1>1, <1>2, <1>3 DEF AttentionInv

\* A change that touches neither the commits, nor the head, nor the reviews.
LEMMA Talked ==
  ASSUME AttentionInv, NEW change \in PrState, change.head = pr.head,
         change.commits = pr.commits, change.reviews = pr.reviews,
         \A c \in change.thread : c.id \in 1..MaxSpeech /\ c.at \in 0..MaxClock
  PROVE  Reviewed(change) /\ Past(change)
<1>1. Reviewed(pr) /\ Past(pr)
  BY DEF AttentionInv
<1>2. Marked(change)
  BY <1>1 DEF Reviewed, Marked, PrState
<1>3. QED
  BY <1>1, <1>2 DEF Reviewed, Past

LEMMA PushStep ==
  ASSUME AttentionInv, Push PROVE AttentionInv'
<1>1. PICK date \in {0, clock, MaxClock} :
        Upstream([pr EXCEPT
          !.commits = Append(@, [date |-> date, born |-> clock]),
          !.head    = [oid |-> Len(pr.commits) + 1, pushed |-> clock]])
  BY DEF Push
<1> DEFINE n == Len(pr.commits)
           next == [oid |-> n + 1, pushed |-> clock]
           one == [date |-> date, born |-> clock]
           commits == Append(pr.commits, one)
           change == [pr EXCEPT !.commits = commits, !.head = next]
<1>2. /\ pr \in PrState /\ Marked(pr) /\ IsFiniteSet(pr.reviews) /\ pr.head \in HeadState
      /\ pr.commits \in Seq(CommitState) /\ DOMAIN pr.commits = 1..n /\ n \in Nat
      /\ clock \in 0..MaxClock /\ n < MaxPushes /\ Past(pr) /\ Reviewed(pr) /\ clock \in Nat
  BY Limits DEF AttentionInv, Reviewed, PrState, Push
<1>3. next \in HeadState /\ next.oid = n + 1 /\ next.pushed = clock
  BY <1>2 DEF HeadState
<1>4. one \in CommitState /\ one.born = clock
  BY <1>2, Limits DEF CommitState
<1> HIDE DEF next, one
<1>5. /\ commits \in Seq(CommitState) /\ Len(commits) = n + 1 /\ DOMAIN commits = 1..(n + 1)
      /\ \A i \in 1..n : commits[i] = pr.commits[i]
      /\ commits[n + 1] = one
  BY <1>2, <1>4
<1> HIDE DEF commits
<1>6. /\ change \in PrState /\ change.head = next /\ change.commits = commits
      /\ change.reviews = pr.reviews
      /\ change.asked = pr.asked /\ change.thread = pr.thread /\ change.resolved = pr.resolved
      /\ change.draft = pr.draft /\ change.blocked = pr.blocked
  BY <1>2, <1>3, <1>5 DEF PrState
<1>7. Upstream(change)
  BY <1>1 DEF next, commits, one, n
<1> HIDE DEF change
<1>8. Marked(change)
  BY <1>2, <1>3, <1>5, <1>6, Limits DEF Marked
<1>9. \A r \in pr.reviews : /\ r.saw \in DOMAIN commits /\ commits[r.saw].born <= r.at
                            /\ r.at <= next.pushed
  <2> SUFFICES ASSUME NEW r \in pr.reviews
               PROVE  /\ r.saw \in DOMAIN commits /\ commits[r.saw].born <= r.at
                      /\ r.at <= next.pushed
    OBVIOUS
  <2>1. r.saw \in 1..n /\ pr.commits[r.saw].born <= r.at /\ r.at <= clock
    BY <1>2 DEF Reviewed, Past
  <2>2. QED
    BY <1>2, <1>3, <1>5, <2>1
<1>10. Reviewed(change)
  BY <1>2, <1>6, <1>8, <1>9 DEF Reviewed
<1>11. Past(change)
  <2>1. \A i \in 1..(n + 1) : commits[i].born <= clock
    <3> SUFFICES ASSUME NEW i \in 1..(n + 1) PROVE commits[i].born <= clock
      OBVIOUS
    <3>1. CASE i = n + 1
      BY <1>2, <1>4, <1>5, <3>1
    <3>2. CASE i \in 1..n
      BY <1>2, <1>5, <3>2 DEF Past
    <3>3. QED
      BY <1>2, <3>1, <3>2
  <2>2. QED
    BY <1>2, <1>3, <1>5, <1>6, <2>1 DEF Past
<1>12. QED
  BY <1>7, <1>10, <1>11, Happens

LEMMA PushBackStep ==
  ASSUME AttentionInv, PushBack PROVE AttentionInv'
<1>1. PICK oid \in DOMAIN pr.commits \ {pr.head.oid} :
        Upstream([pr EXCEPT !.head = [oid |-> oid, pushed |-> clock]])
  BY DEF PushBack
<1> DEFINE next == [oid |-> oid, pushed |-> clock]
           change == [pr EXCEPT !.head = next]
<1>2. /\ pr \in PrState /\ Marked(pr) /\ Past(pr) /\ Reviewed(pr) /\ clock \in Nat
      /\ oid \in Nat /\ oid \in DOMAIN pr.commits
  BY Limits DEF AttentionInv, Reviewed, PrState
<1>3. next \in HeadState /\ next.oid = oid /\ next.pushed = clock
  BY <1>2 DEF HeadState
<1> HIDE DEF next
<1>4. /\ change \in PrState /\ change.head = next /\ change.commits = pr.commits
      /\ change.reviews = pr.reviews
      /\ change.asked = pr.asked /\ change.thread = pr.thread /\ change.resolved = pr.resolved
      /\ change.draft = pr.draft /\ change.blocked = pr.blocked
  BY <1>2, <1>3 DEF PrState
<1>5. Upstream(change)
  BY <1>1 DEF next
<1> HIDE DEF change
<1>6. Marked(change)
  BY <1>2, <1>3, <1>4 DEF Marked
<1>7. Reviewed(change) /\ Past(change)
  BY <1>2, <1>3, <1>4, <1>6 DEF Reviewed, Past
<1>8. QED
  BY <1>5, <1>7, Happens

LEMMA SubmitStep ==
  ASSUME AttentionInv, Submit PROVE AttentionInv'
<1> DEFINE n == Cardinality(pr.reviews)
<1>1. PICK p \in Parties, v \in Verdicts \cup {"COMMENTED"} :
        Upstream([pr EXCEPT !.reviews = @ \cup
          {[id |-> n + 1, by |-> p, verdict |-> v, at |-> clock, saw |-> pr.head.oid]}])
  BY DEF Submit
<1>2. /\ pr \in PrState /\ Marked(pr) /\ IsFiniteSet(pr.reviews) /\ pr.head \in HeadState
      /\ clock \in 0..MaxClock /\ n < MaxReviews /\ Past(pr) /\ Reviewed(pr) /\ n \in Nat
      /\ pr.head.oid \in DOMAIN pr.commits
  BY FS_CardinalityType DEF AttentionInv, Reviewed, PrState, Submit, Marked
<1> DEFINE one == [id |-> n + 1, by |-> p, verdict |-> v, at |-> clock, saw |-> pr.head.oid]
           all == pr.reviews \cup {one}
           change == [pr EXCEPT !.reviews = all]
<1>3. /\ one \in ReviewState /\ one.id = n + 1 /\ one.at = clock /\ one.saw = pr.head.oid
  BY <1>2, Limits DEF ReviewState, HeadState
<1> HIDE DEF one, n
<1>4. one \notin pr.reviews /\ Cardinality(all) = n + 1 /\ IsFiniteSet(all)
  <2>1. one \notin pr.reviews
    BY <1>2, <1>3 DEF Reviewed, n
  <2>2. QED
    BY <1>2, <2>1, FS_AddElement DEF n
<1>5. all \in SUBSET ReviewState
  BY <1>2, <1>3 DEF PrState
<1>6. /\ change \in PrState /\ change.head = pr.head /\ change.reviews = all
      /\ change.commits = pr.commits
      /\ change.asked = pr.asked /\ change.thread = pr.thread /\ change.resolved = pr.resolved
      /\ change.draft = pr.draft /\ change.blocked = pr.blocked
  <2> HIDE DEF all
  <2>1. QED
    BY <1>2, <1>5 DEF PrState
<1>7. Upstream(change)
  BY <1>1, Zenon DEF one, n
<1> HIDE DEF change
<1>8. Marked(change)
  BY <1>2, <1>4, <1>6, Limits DEF Marked
<1>9. ASSUME NEW r \in all
      PROVE  /\ r.id \in 1..(n + 1)
             /\ r.saw \in DOMAIN pr.commits /\ pr.commits[r.saw].born <= r.at
             /\ r.saw # pr.head.oid => r.at <= pr.head.pushed
             /\ r.at <= clock
  <2>1. CASE r = one
    BY <1>2, <1>3, <2>1 DEF Past
  <2>2. CASE r \in pr.reviews
    BY <1>2, <2>2 DEF Reviewed, Past, n
  <2>3. QED
    BY <2>1, <2>2
<1>10. ASSUME NEW r \in all, NEW o \in all, r.id = o.id PROVE r = o
  <2>1. \A q \in pr.reviews : q.id # n + 1
    BY <1>2 DEF Reviewed, n
  <2>2. QED
    BY <1>2, <1>3, <1>10, <2>1 DEF Reviewed
<1>11. Reviewed(change)
  BY <1>4, <1>6, <1>8, <1>9, <1>10 DEF Reviewed
<1>12. Past(change)
  BY <1>2, <1>6, <1>9 DEF Past
<1>13. QED
  BY <1>7, <1>11, <1>12, Happens

LEMMA DismissStep ==
  ASSUME AttentionInv, Dismiss PROVE AttentionInv'
<1>1. PICK d \in pr.reviews :
        /\ d.verdict \in Verdicts
        /\ Upstream([pr EXCEPT !.reviews = (@ \ {d}) \cup {[d EXCEPT !.verdict = "DISMISSED"]}])
  BY DEF Dismiss
<1>2. /\ pr \in PrState /\ Marked(pr) /\ IsFiniteSet(pr.reviews) /\ pr.head \in HeadState
      /\ Past(pr) /\ Reviewed(pr) /\ d \in ReviewState
  BY <1>1 DEF AttentionInv, Reviewed, PrState
<1> DEFINE e == [d EXCEPT !.verdict = "DISMISSED"]
           all == (pr.reviews \ {d}) \cup {e}
           change == [pr EXCEPT !.reviews = all]
<1>3. /\ e \in ReviewState /\ e.id = d.id /\ e.at = d.at /\ e.saw = d.saw /\ e # d
  <2>1. e.verdict = "DISMISSED" /\ "DISMISSED" \notin Verdicts
    BY <1>2 DEF ReviewState, Verdicts
  <2>2. QED
    BY <1>1, <1>2, <2>1 DEF ReviewState
<1> HIDE DEF e
<1>4. Cardinality(all) = Cardinality(pr.reviews) /\ IsFiniteSet(all)
  <2>1. e \notin pr.reviews \ {d}
    BY <1>1, <1>2, <1>3 DEF Reviewed
  <2>2. /\ IsFiniteSet(pr.reviews \ {d}) /\ Cardinality(pr.reviews) \in Nat
        /\ Cardinality(pr.reviews \ {d}) = Cardinality(pr.reviews) - 1
    BY <1>1, <1>2, FS_RemoveElement, FS_CardinalityType
  <2>3. /\ IsFiniteSet(all) /\ Cardinality(all) = Cardinality(pr.reviews \ {d}) + 1
    BY <2>1, <2>2, FS_AddElement
  <2>4. QED
    BY <2>2, <2>3
<1>5. all \in SUBSET ReviewState
  BY <1>2, <1>3 DEF PrState
<1>6. /\ change \in PrState /\ change.head = pr.head /\ change.reviews = all
      /\ change.commits = pr.commits
      /\ change.asked = pr.asked /\ change.thread = pr.thread /\ change.resolved = pr.resolved
      /\ change.draft = pr.draft /\ change.blocked = pr.blocked
  <2> HIDE DEF all
  <2>1. QED
    BY <1>2, <1>5 DEF PrState
<1>7. Upstream(change)
  BY <1>1, Zenon DEF e
<1> HIDE DEF change
<1>8. Marked(change)
  BY <1>2, <1>4, <1>6 DEF Marked
<1>9. \A r \in all : \E q \in pr.reviews : r.id = q.id /\ r.at = q.at /\ r.saw = q.saw
  BY <1>1, <1>3
<1>10. ASSUME NEW r \in all, NEW o \in all, r.id = o.id PROVE r = o
  BY <1>1, <1>2, <1>3, <1>10 DEF Reviewed
<1>11. Reviewed(change)
  <2>1. \A r \in all :
          /\ r.id \in 1..Cardinality(pr.reviews)
          /\ r.saw \in DOMAIN pr.commits /\ pr.commits[r.saw].born <= r.at
          /\ r.saw # pr.head.oid => r.at <= pr.head.pushed
    BY <1>2, <1>9 DEF Reviewed
  <2>2. QED
    BY <1>4, <1>6, <1>8, <1>10, <2>1 DEF Reviewed
<1>12. Past(change)
  BY <1>2, <1>6, <1>9 DEF Past
<1>13. QED
  BY <1>7, <1>11, <1>12, Happens

\* What changes neither the commits, nor the head, nor the reviews.
LEMMA TalkStep ==
  ASSUME AttentionInv, Ask \/ Say \/ Minimize \/ Retract \/ Resolve \/ Mark
  PROVE  AttentionInv'
<1> DEFINE Within(s) == \A c \in s : c.id \in 1..MaxSpeech /\ c.at \in 0..MaxClock
           Quiet(change) == /\ Upstream(change) /\ change.head = pr.head
                            /\ change.commits = pr.commits /\ change.reviews = pr.reviews
                            /\ Within(change.thread)
<1>1. /\ pr \in PrState /\ Within(pr.thread) /\ pr.thread \in SUBSET CommentState
      /\ clock \in 0..MaxClock
  BY Limits DEF AttentionInv, Reviewed, PrState, Marked
<1>2. SUFFICES \E change \in PrState : Quiet(change)
  BY Talked, Happens
<1> HIDE DEF Within
<1>3. CASE Ask \/ Resolve \/ Mark
  <2>1. PICK change : /\ Upstream(change)
                      /\ \/ change = [pr EXCEPT !.asked = ~@]
                         \/ change = [pr EXCEPT !.resolved = ~@]
                         \/ change = [pr EXCEPT !.draft = ~@]
                         \/ change = [pr EXCEPT !.blocked = ~@]
    BY <1>3 DEF Ask, Resolve, Mark
  <2>2. /\ change \in PrState /\ change.head = pr.head /\ change.commits = pr.commits
        /\ change.reviews = pr.reviews /\ change.thread = pr.thread
    BY <1>1, <2>1 DEF PrState
  <2>3. QED
    BY <1>1, <2>1, <2>2
<1>4. ASSUME NEW said \in SUBSET CommentState, Within(said),
             Upstream([pr EXCEPT !.thread = said])
      PROVE  \E change \in PrState : Quiet(change)
  <2> DEFINE change == [pr EXCEPT !.thread = said]
  <2>1. /\ change \in PrState /\ change.head = pr.head /\ change.commits = pr.commits
        /\ change.reviews = pr.reviews /\ change.thread = said
    BY <1>1 DEF PrState
  <2>2. QED
    BY <1>4, <2>1
<1>5. CASE Say
  <2>1. PICK p \in Parties, id \in 1..MaxSpeech :
          Upstream([pr EXCEPT !.thread = @ \cup
            {[id |-> id, by |-> p, at |-> clock, minimized |-> FALSE]}])
    BY <1>5 DEF Say
  <2> DEFINE c == [id |-> id, by |-> p, at |-> clock, minimized |-> FALSE]
             said == pr.thread \cup {c}
  <2>2. c \in CommentState /\ c.id \in 1..MaxSpeech /\ c.at \in 0..MaxClock
    BY <1>1, Limits DEF CommentState
  <2>3. Upstream([pr EXCEPT !.thread = said])
    BY <2>1
  <2> HIDE DEF c
  <2>4. said \in SUBSET CommentState /\ Within(said)
    BY <1>1, <2>2 DEF Within
  <2> HIDE DEF said
  <2>5. QED
    BY <1>4, <2>3, <2>4
<1>6. CASE Minimize
  <2>1. PICK d \in pr.thread :
          Upstream([pr EXCEPT !.thread = (@ \ {d}) \cup {[d EXCEPT !.minimized = TRUE]}])
    BY <1>6 DEF Minimize
  <2> DEFINE c == [d EXCEPT !.minimized = TRUE]
             said == (pr.thread \ {d}) \cup {c}
  <2>2. c \in CommentState /\ c.id \in 1..MaxSpeech /\ c.at \in 0..MaxClock
    BY <1>1 DEF CommentState, Within
  <2>3. Upstream([pr EXCEPT !.thread = said])
    BY <2>1
  <2> HIDE DEF c
  <2>4. said \in SUBSET CommentState /\ Within(said)
    BY <1>1, <2>2 DEF Within
  <2> HIDE DEF said
  <2>5. QED
    BY <1>4, <2>3, <2>4
<1>7. CASE Retract
  <2>1. PICK c \in pr.thread : Upstream([pr EXCEPT !.thread = @ \ {c}])
    BY <1>7 DEF Retract
  <2> DEFINE said == pr.thread \ {c}
  <2>2. said \in SUBSET CommentState /\ Within(said)
    BY <1>1 DEF Within
  <2>3. Upstream([pr EXCEPT !.thread = said])
    BY <2>1
  <2> HIDE DEF said
  <2>4. QED
    BY <1>4, <2>2, <2>3
<1>8. QED
  BY <1>3, <1>5, <1>6, <1>7

-----------------------------------------------------------------------------
(* The archive's side.                                                      *)
LEMMA Opinions ==
  ASSUME NEW rs
  PROVE  Ingestable(rs) \subseteq rs /\ \A v \in Ingestable(rs) : v.verdict # "DISMISSED"
BY DEF Ingestable, Verdicts

\* What a run brings to the writer.
LEMMA Brought ==
  ASSUME AttentionInv, NEW b \in Bundles
  PROVE  /\ b.pr = pr /\ b.lost \in Losses
         /\ Carried(b) \subseteq pr.reviews
         /\ Verified(b) => Carried(b) = pr.reviews
<1>1. b.pr = pr /\ b.lost \in Losses
  BY DEF Bundles
<1>2. Carried(b) \subseteq pr.reviews
  BY <1>1 DEF Carried
<1>3. ASSUME Verified(b) PROVE Carried(b) = pr.reviews
  <2>1. b.lost = "nothing" /\ Cardinality(pr.reviews) <= ReviewPage
    BY <1>1, <1>3 DEF Verified, ReviewsComplete
  <2>2. Cardinality(pr.reviews) \in Nat
    BY FS_CardinalityType DEF AttentionInv, Reviewed
  <2>3. \A r \in pr.reviews : r.id <= ReviewPage
    BY <2>1, <2>2, Limits DEF AttentionInv, Reviewed
  <2>4. QED
    BY <1>1, <2>1, <2>3 DEF Carried
<1>4. QED
  BY <1>1, <1>2, <1>3

\* A flip is logged only when the head moved since the archive met it.
LEMMA FlipsFollow ==
  ASSUME AttentionInv, NEW b \in Bundles
  PROVE  LET f == Flips(row, b) IN
         f \in SUBSET Int /\ IsFiniteSet(f) /\ Cardinality(f) <= events
<1>1. b.pr = pr /\ now \in Int /\ events \in Nat
  BY Brought, Limits DEF AttentionInv
<1>2. CASE row = None
  BY <1>1, <1>2, FS_EmptySet DEF Flips
<1>3. CASE row # None
  <2> DEFINE old == row.flips
  <2>1. /\ old \in SUBSET Int /\ IsFiniteSet(old) /\ row.head = shown.head.oid
        /\ Cardinality(old) <= events /\ Cardinality(old) \in Nat
        /\ shown.head.oid # pr.head.oid => Cardinality(old) < events
    BY <1>3, FS_CardinalityType DEF AttentionInv, Archived, Mirrors, RowState, Logged
  <2>2. CASE row.head = pr.head.oid
    <3>1. Flips(row, b) = old
      BY <1>1, <1>3, <2>2 DEF Flips
    <3>2. QED
      BY <2>1, <3>1
  <2>3. CASE row.head # pr.head.oid
    <3>1. Flips(row, b) = old \cup {now}
      BY <1>1, <1>3, <2>3 DEF Flips
    <3>2. /\ IsFiniteSet(old \cup {now})
          /\ \/ Cardinality(old \cup {now}) = Cardinality(old)
             \/ Cardinality(old \cup {now}) = Cardinality(old) + 1
      <4> HIDE DEF old
      <4>1. IsFiniteSet(old)
        BY <2>1
      <4>2. QED
        BY <4>1, FS_AddElement
    <3> HIDE DEF old
    <3>3. QED
      BY <1>1, <2>1, <2>3, <3>1, <3>2
  <2>4. QED
    BY <2>2, <2>3
<1>4. QED
  BY <1>2, <1>3

LEMMA RowFollows ==
  ASSUME AttentionInv, NEW b \in Bundles, NEW new, new = Bundled(row, b)
  PROVE  /\ new \in RowState /\ Mirrors(new, pr) /\ new # None
         /\ IsFiniteSet(new.flips) /\ Cardinality(new.flips) <= events
<1> DEFINE flips == Flips(row, b)
           before == IF row = None THEN {} ELSE row.reviews
           reviews == ReviewRows(before, b)
           asked == RequestRow(row # None /\ row.asked, b)
           talk == IF row = None THEN NoThread ELSE row.threads
           threads == ThreadRow(talk, b)
           lacking == ~Verified(b)
           dated == pr.commits[pr.head.oid].date
<1>1. /\ b.pr = pr /\ b.lost \in Losses /\ Carried(b) \subseteq pr.reviews
      /\ Verified(b) => Carried(b) = pr.reviews
  BY Brought
<1>2. /\ pr \in PrState /\ pr.head \in HeadState /\ dated \in Nat
  <2>1. pr \in PrState /\ pr.commits \in Seq(CommitState) /\ pr.head.oid \in DOMAIN pr.commits
    BY DEF AttentionInv, Reviewed, PrState, Marked
  <2>2. pr.commits[pr.head.oid] \in CommitState
    BY <2>1
  <2>3. QED
    BY <2>1, <2>2 DEF PrState, CommitState
<1>3. row # None => row \in RowState /\ \A v \in row.reviews : v.verdict # "DISMISSED"
  BY DEF AttentionInv, Archived, Mirrors
<1>4. flips \in SUBSET Int /\ IsFiniteSet(flips) /\ Cardinality(flips) <= events
  BY FlipsFollow
<1>5. /\ before \in SUBSET ReviewState /\ \A v \in before : v.verdict # "DISMISSED"
  BY <1>3 DEF RowState
<1>6. /\ reviews \in SUBSET ReviewState /\ \A v \in reviews : v.verdict # "DISMISSED"
      /\ Verified(b) => reviews = Ingestable(pr.reviews)
  <2> HIDE DEF before
  <2>1. /\ Ingestable(Carried(b)) \subseteq Carried(b)
        /\ \A v \in Ingestable(Carried(b)) : v.verdict # "DISMISSED"
    BY Opinions
  <2>2. reviews \subseteq Ingestable(Carried(b)) \cup before
    BY DEF ReviewRows
  <2>3. Verified(b) => reviews = Ingestable(Carried(b))
    BY DEF ReviewRows, Verified
  <2>4. pr.reviews \in SUBSET ReviewState
    BY <1>2 DEF PrState
  <2> HIDE DEF reviews
  <2>5. QED
    BY <1>1, <1>5, <2>1, <2>2, <2>3, <2>4
<1>7. asked \in BOOLEAN /\ (Verified(b) => asked = pr.asked)
  BY <1>1, <1>2, <1>3 DEF RequestRow, PrState, RowState, Verified
<1>8. /\ threads \in [thread : SUBSET CommentState, resolved : BOOLEAN]
      /\ Verified(b) => threads = [thread |-> pr.thread, resolved |-> pr.resolved]
  <2>1. talk \in [thread : SUBSET CommentState, resolved : BOOLEAN]
    BY <1>3 DEF RowState, NoThread
  <2> HIDE DEF talk
  <2>2. pr.thread \in SUBSET CommentState /\ pr.resolved \in BOOLEAN
    BY <1>2 DEF PrState
  <2>3. CASE ThreadsComplete(b)
    <3>1. threads = [thread |-> pr.thread, resolved |-> pr.resolved]
      BY <1>1, <2>3, Zenon DEF ThreadRow, ThreadsComplete
    <3>2. QED
      BY <2>2, <3>1
  <2>4. CASE ~ThreadsComplete(b)
    <3>1. b.lost \in {"threads", "bodies"} /\ ~Verified(b)
      BY <2>4 DEF ThreadsComplete, Verified
    <3>2. threads = IF b.lost = "bodies" THEN [thread |-> talk.thread, resolved |-> pr.resolved]
                    ELSE talk
      BY <1>1, <2>4, <3>1 DEF ThreadRow
    <3>3. QED
      BY <2>1, <2>2, <3>1, <3>2
  <2>5. QED
    BY <2>3, <2>4
<1>9. lacking \in BOOLEAN
  BY DEF Verified
<1>10. new = [head |-> pr.head.oid, committed |-> dated, draft |-> pr.draft,
              blocked |-> pr.blocked, truncated |-> lacking, flips |-> flips,
              reviews |-> reviews, asked |-> asked, threads |-> threads]
  BY <1>1, Zenon DEF Bundled
<1>11. (lacking <=> ~Verified(b)) /\ dated = pr.commits[pr.head.oid].date
  OBVIOUS
<1> HIDE DEF flips, reviews, asked, threads, lacking, dated
<1>12. /\ new.head = pr.head.oid /\ new.committed = dated /\ new.draft = pr.draft
       /\ new.blocked = pr.blocked /\ new.truncated = lacking /\ new.flips = flips
       /\ new.reviews = reviews /\ new.asked = asked /\ new.threads = threads
  BY <1>10
<1>13. new \in RowState
  BY <1>2, <1>4, <1>6, <1>7, <1>8, <1>9, <1>10 DEF RowState, PrState, HeadState
<1>14. Mirrors(new, pr)
  BY <1>6, <1>7, <1>8, <1>9, <1>11, <1>12 DEF Mirrors
<1>15. new # None
  <2>1. "head" \in DOMAIN new /\ "head" \notin DOMAIN None
    BY <1>10 DEF None
  <2>2. QED
    BY <2>1
<1>16. QED
  BY <1>4, <1>12, <1>13, <1>14, <1>15

LEMMA SyncStep ==
  ASSUME AttentionInv, Sync PROVE AttentionInv'
<1>1. PICK b \in Bundles : row' = Bundled(row, b)
  BY DEF Sync
<1>2. shown' = pr /\ UNCHANGED <<clock, author, pr, now, events>>
  BY DEF Sync
<1>3. /\ row' \in RowState /\ Mirrors(row', pr) /\ row' # None
      /\ IsFiniteSet(row'.flips) /\ Cardinality(row'.flips) <= events
  BY <1>1, RowFollows
<1>4. Reviewed(pr) /\ Past(pr)
  BY DEF AttentionInv
<1>5. pr # None
  <2>1. "head" \in DOMAIN pr
    BY <1>4 DEF Reviewed, PrState
  <2>2. DOMAIN None = {"none"}
    BY DEF None
  <2>3. QED
    BY <2>1, <2>2
<1>6. Archived'
  <2>1. Reviewed(shown)' /\ Mirrors(row, shown)'
    BY <1>2, <1>3, <1>4 DEF Reviewed, Marked, Mirrors, Ingestable
  <2>2. Logged'
    BY <1>2, <1>3 DEF Logged
  <2>3. QED
    BY <1>2, <1>3, <1>5, <2>1, <2>2 DEF Archived
<1>7. Reviewed(pr)' /\ Past(pr)'
  BY <1>2, <1>4 DEF Reviewed, Past, Marked
<1>8. met' \in 0..clock'
  BY <1>2, Limits DEF Sync, AttentionInv
<1>9. QED
  BY <1>2, <1>6, <1>7, <1>8 DEF AttentionInv

LEMMA AttentionSteps == AttentionInv /\ [Next]_vars => AttentionInv'
<1> SUFFICES ASSUME AttentionInv, [Next]_vars PROVE AttentionInv'
  OBVIOUS
<1>1. CASE Tick \/ Start \/ UNCHANGED vars
  <2>1. /\ clock' \in 0..MaxClock /\ clock <= clock' /\ now' \in Int
        /\ UNCHANGED <<author, pr, row, shown, met, events>> /\ clock \in Nat /\ clock' \in Nat
    BY <1>1, Limits DEF Tick, Start, vars, AttentionInv
  <2>2. Reviewed(pr) /\ Past(pr) /\ Archived /\ met \in 0..clock
    BY DEF AttentionInv
  <2>3. Reviewed(pr)' /\ Archived'
    BY <2>1, <2>2 DEF Reviewed, Marked, Archived, Mirrors, Ingestable, Logged
  <2>4. Past(pr)'
    <3>1. /\ pr.head.pushed \in Nat /\ \A r \in pr.reviews : r.at \in Nat
          /\ \A i \in DOMAIN pr.commits : pr.commits[i].born \in Nat
      <4>1. \A i \in DOMAIN pr.commits : pr.commits[i] \in CommitState
        BY <2>2 DEF Reviewed, PrState
      <4>2. QED
        BY <2>2, <4>1 DEF Reviewed, PrState, HeadState, ReviewState, CommitState
    <3>2. QED
      BY <2>1, <2>2, <3>1 DEF Past
  <2>5. QED
    BY <2>1, <2>2, <2>3, <2>4, Limits DEF AttentionInv
<1>2. QED
  BY <1>1, PushStep, PushBackStep, SubmitStep, DismissStep, TalkStep, SyncStep DEF Next

LEMMA AttentionStarts == Init => AttentionInv
<1> SUFFICES ASSUME Init PROVE AttentionInv
  OBVIOUS
<1> DEFINE first == [date |-> 0, born |-> 0]
<1>1. /\ clock = 0 /\ row = None /\ shown = None /\ events = 0 /\ met = 0 /\ now \in Int
      /\ pr = [commits |-> <<first>>, head |-> [oid |-> 1, pushed |-> 0],
               reviews |-> {}, asked |-> FALSE, thread |-> {},
               resolved |-> FALSE, draft |-> FALSE, blocked |-> FALSE]
      /\ author \in Parties
  BY Limits DEF Init, Parties
<1>2. /\ <<first>> \in Seq(CommitState) /\ Len(<<first>>) = 1 /\ DOMAIN <<first>> = {1}
      /\ <<first>>[1].born = 0
      /\ IsFiniteSet({}) /\ Cardinality({}) = 0
  BY FS_EmptySet DEF CommitState
<1> HIDE DEF first
<1>3. pr \in PrState
  BY <1>1, <1>2 DEF PrState, HeadState
<1>4. Marked(pr)
  BY <1>1, <1>2, Limits DEF Marked
<1>5. Reviewed(pr) /\ Past(pr)
  BY <1>1, <1>2, <1>3, <1>4 DEF Reviewed, Past
<1>6. QED
  BY <1>1, <1>5, Limits DEF AttentionInv, Archived

(* Every variable keeps its type, and no more flips are logged than heads    *)
(* were pushed: for any parties, skews, margin and bounds (sync.rs           *)
(* upsert_pr).                                                               *)
THEOREM AttentionTyped == Spec => []TypeOK
<1>1. AttentionInv => TypeOK
  BY DEF AttentionInv, Reviewed, Archived, Mirrors, Logged, RowState, TypeOK
<1>2. QED
  BY <1>1, AttentionStarts, AttentionSteps, PTL DEF Spec

-----------------------------------------------------------------------------
(* The judgment.                                                            *)
LEMMA StandingRows ==
  ASSUME AttentionInv, row # None, ~row.truncated
  PROVE  {v \in row.reviews : v.verdict \in Verdicts} = Standing(shown)
<1>1. /\ row.reviews = Ingestable(shown.reviews) /\ shown.reviews \subseteq ReviewState
  BY DEF AttentionInv, Archived, Mirrors, Reviewed, PrState
<1>2. \A o, r \in shown.reviews : (o.at > r.at) <=> ~(o.at <= r.at)
  BY <1>1 DEF ReviewState
<1>3. "COMMENTED" \notin Verdicts
  BY DEF Verdicts
<1>4. QED
  BY <1>1, <1>2, <1>3 DEF Ingestable, Standing

(* On an untruncated row the live verdicts are the latest of each reviewer,  *)
(* whatever reviews, dismissals and incomplete hydrations came before        *)
(* (sync.rs ingestable_reviews and the sweep).                               *)
THEOREM VerdictRowsAreCurrent == Spec => []VerdictsAreCurrent
<1>1. AttentionInv => VerdictsAreCurrent
  BY StandingRows DEF VerdictsAreCurrent
<1>2. QED
  BY <1>1, AttentionStarts, AttentionSteps, PTL DEF Spec

\* What the two clocks prove of a verdict of an untruncated row.
LEMMA Dated ==
  ASSUME AttentionInv, row # None, ~row.truncated, NEW v \in Standing(shown)
  PROVE  /\ Prompt /\ Steady /\ Freshness(v.at, row) = "fresh" => v.saw = shown.head.oid
         /\ Honest(shown) /\ Freshness(v.at, row) = "stale" => v.saw # shown.head.oid
<1> DEFINE oid == shown.head.oid
           c == shown.commits[oid]
<1>1. /\ shown \in PrState /\ shown.head \in HeadState /\ oid \in DOMAIN shown.commits
      /\ v \in shown.reviews /\ v \in ReviewState
      /\ v.saw \in DOMAIN shown.commits /\ shown.commits[v.saw].born <= v.at
      /\ v.saw # oid => v.at <= shown.head.pushed
      /\ row.committed = c.date /\ row.flips \in SUBSET Int
  BY DEF AttentionInv, Archived, Mirrors, Reviewed, Marked, PrState, Standing, RowState
<1>2. /\ v.at \in Nat /\ shown.head.pushed \in Nat /\ Margin \in Nat /\ met \in Nat
  BY <1>1, Limits DEF ReviewState, HeadState, AttentionInv
<1>3. c \in CommitState
  BY <1>1 DEF PrState
<1>4. ASSUME Prompt, Steady, Freshness(v.at, row) = "fresh" PROVE v.saw = oid
  <2>1. \A f \in row.flips : v.at - f >= Margin
    BY <1>4 DEF Freshness
  <2>2. PICK f \in row.flips : met < f + Margin
    BY <1>4 DEF Prompt
  <2>3. f \in Int /\ v.at - f >= Margin /\ shown.head.pushed <= met
    BY <1>1, <1>4, <2>1 DEF Steady
  <2>4. shown.head.pushed < v.at
    BY <1>2, <2>2, <2>3
  <2>5. QED
    BY <1>1, <1>2, <2>4
<1>5. ASSUME Honest(shown), Freshness(v.at, row) = "stale" PROVE v.saw # oid
  <2>1. v.at < c.date /\ c.date <= c.born
    BY <1>1, <1>5 DEF Freshness, Honest
  <2>2. v.saw = oid => c.born <= v.at
    BY <1>1
  <2>3. QED
    BY <1>2, <1>3, <2>1, <2>2 DEF CommitState
<1>6. QED
  BY <1>4, <1>5

(* A standing request for changes of the head that was hydrated is never     *)
(* read as anything else, for any clocks (attention.rs                       *)
(* effective_review_state).                                                  *)
THEOREM ChangeRequestsAreKept == Spec => []ChangeRequestsStand
<1>1. AttentionInv => ChangeRequestsStand
  <2> SUFFICES ASSUME AttentionInv, row # None, ~row.truncated, Honest(shown),
                      NEW v \in Standing(shown), v.verdict = "CHANGES_REQUESTED",
                      v.saw = shown.head.oid
               PROVE  Effective(row) = "changes_requested"
    BY DEF ChangeRequestsStand
  <2>1. v \in row.reviews
    BY StandingRows
  <2>2. Freshness(v.at, row) # "stale"
    BY Dated
  <2>3. QED
    BY <2>1, <2>2 DEF Effective
<1>2. QED
  BY <1>1, AttentionStarts, AttentionSteps, PTL DEF Spec

LEMMA Placed ==
  ASSUME NEW r, Bucket(r) = "ready_to_merge"
  PROVE  Qualifies(r, "ready_to_merge")
<1> DEFINE hits == {i \in DOMAIN Buckets : Qualifies(r, Buckets[i])}
           first == CHOOSE i \in hits : \A j \in hits : i <= j
<1>1. Bucket(r) = IF hits = {} THEN "none" ELSE Buckets[first]
  BY DEF Bucket
<1>2. hits # {} /\ Buckets[first] = "ready_to_merge"
  BY <1>1
<1>3. hits \subseteq 1..5
  BY DEF Buckets
<1>4. \E i \in hits : \A j \in hits : i <= j
  <2>1. hits # {} /\ hits \subseteq 1..5
    BY <1>2, <1>3
  <2> HIDE DEF hits
  <2>2. PICK h : h \in hits
    BY <2>1
  <2>3. QED
    BY <2>1, <2>2
<1>5. first \in hits
  <2> HIDE DEF hits
  <2>1. QED
    BY <1>4
<1>6. QED
  BY <1>2, <1>5

(* A pull request listed as ready_to_merge was ready when it was hydrated,   *)
(* for any parties, clocks, runs however long, pushes back and forth and     *)
(* losses of connections: approved, with no request for changes of an        *)
(* honestly dated head; and with approvals of that very head alone, if the   *)
(* run that first met it was prompt and the head has stood since             *)
(* (attention.rs bucket).                                                    *)
THEOREM ReadyBucketNeverLies == Spec => []ReadyNeverLies
<1>1. AttentionInv => ReadyNeverLies
  <2> SUFFICES ASSUME AttentionInv, row # None, Bucket(row) = "ready_to_merge"
               PROVE  /\ ~shown.draft /\ ~shown.blocked
                      /\ shown.thread = {} \/ shown.resolved
                      /\ \E v \in Standing(shown) : v.verdict = "APPROVED"
                      /\ Honest(shown) =>
                           \A v \in Standing(shown) :
                             v.verdict = "CHANGES_REQUESTED" => v.saw # shown.head.oid
                      /\ Prompt /\ Steady =>
                           \A v \in Standing(shown) :
                             v.verdict = "APPROVED" => v.saw = shown.head.oid
    BY DEF ReadyNeverLies
  <2>1. /\ ~row.draft /\ ~row.truncated /\ Effective(row) = "approved"
        /\ ~Unresolved(row.threads) /\ ~row.blocked
    BY Placed DEF Qualifies
  <2>2. /\ row.draft = shown.draft /\ row.blocked = shown.blocked
        /\ row.threads = [thread |-> shown.thread, resolved |-> shown.resolved]
    BY <2>1 DEF AttentionInv, Archived, Mirrors
  <2>3. ~shown.draft /\ ~shown.blocked /\ (shown.thread = {} \/ shown.resolved)
    BY <2>1, <2>2 DEF Unresolved
  <2>4. {v \in row.reviews : v.verdict \in Verdicts} = Standing(shown)
    BY <2>1, StandingRows
  <2>5. /\ \A v \in row.reviews :
             v.verdict = "CHANGES_REQUESTED" => Freshness(v.at, row) = "stale"
        /\ \E v \in row.reviews : v.verdict = "APPROVED"
        /\ \A v \in row.reviews : v.verdict = "APPROVED" => Freshness(v.at, row) = "fresh"
    <3> DEFINE standing == {v \in row.reviews : /\ v.verdict = "CHANGES_REQUESTED"
                                                /\ Freshness(v.at, row) # "stale"}
               approvals == {v \in row.reviews : v.verdict = "APPROVED"}
               fresh == \A v \in approvals : Freshness(v.at, row) = "fresh"
    <3>1. Effective(row) = CASE standing # {} -> "changes_requested"
                             [] standing = {} /\ approvals = {} -> "unreviewed"
                             [] OTHER -> IF fresh THEN "approved" ELSE "stale_approval"
      BY Zenon DEF Effective
    <3> HIDE DEF standing, approvals, fresh
    <3>2. standing = {} /\ approvals # {} /\ fresh
      BY <2>1, <3>1
    <3>3. QED
      BY <3>2 DEF standing, approvals, fresh
  <2>6. \E v \in Standing(shown) : v.verdict = "APPROVED"
    BY <2>4, <2>5 DEF Verdicts
  <2>7. ASSUME Honest(shown), NEW v \in Standing(shown), v.verdict = "CHANGES_REQUESTED"
        PROVE  v.saw # shown.head.oid
    BY <2>1, <2>4, <2>5, <2>7, Dated
  <2>8. ASSUME Prompt, Steady, NEW v \in Standing(shown), v.verdict = "APPROVED"
        PROVE  v.saw = shown.head.oid
    BY <2>1, <2>4, <2>5, <2>8, Dated
  <2>9. QED
    BY <2>3, <2>6, <2>7, <2>8
<1>2. QED
  BY <1>1, AttentionStarts, AttentionSteps, PTL DEF Spec

(* The archive forgets that the viewer was asked only when GitHub, as the    *)
(* hydration met it, no longer asks (sync.rs, the review requests' witness). *)
THEOREM RequestsAreWitnessed == Spec => RequestsNeedAWitness
<1>1. AttentionInv /\ [Next]_vars =>
        [row # None /\ row'.asked # row.asked => row'.asked = shown'.asked]_vars
  <2> SUFFICES ASSUME AttentionInv, [Next]_vars, row # None, row'.asked # row.asked
               PROVE  row'.asked = shown'.asked
    OBVIOUS
  <2>1. Sync
    BY DEF Next, Push, PushBack, Submit, Dismiss, Ask, Say, Minimize, Retract, Resolve,
       Mark, Tick, Start, Upstream, vars
  <2>2. PICK b \in Bundles : row' = Bundled(row, b)
    BY <2>1 DEF Sync
  <2>3. b.pr = pr /\ shown' = pr /\ row.asked \in BOOLEAN
    BY <2>1, Brought DEF Sync, AttentionInv, Archived, RowState
  <2>4. row'.asked = RequestRow(row # None /\ row.asked, b)
    BY <2>2 DEF Bundled
  <2>5. QED
    BY <2>3, <2>4 DEF RequestRow
<1>2. QED
  BY <1>1, AttentionStarts, AttentionSteps, PTL DEF Spec, RequestsNeedAWitness

\* A bucket that comes no later than one the row qualifies for.
LEMMA NoLater ==
  ASSUME NEW r, NEW n \in 1..5, Qualifies(r, Buckets[n])
  PROVE  \E i \in 1..n : Bucket(r) = Buckets[i]
<1> DEFINE hits == {i \in DOMAIN Buckets : Qualifies(r, Buckets[i])}
           first == CHOOSE i \in hits : \A j \in hits : i <= j
<1>1. DOMAIN Buckets = 1..5
  BY DEF Buckets
<1>2. n \in hits /\ hits \subseteq 1..5
  BY <1>1
<1>3. Bucket(r) = IF hits = {} THEN "none" ELSE Buckets[first]
  BY DEF Bucket
<1> HIDE DEF hits
<1>4. \E i \in hits : \A j \in hits : i <= j
  BY <1>2
<1>5. first \in hits /\ first <= n
  BY <1>2, <1>4
<1>6. Bucket(r) = Buckets[first]
  BY <1>2, <1>3
<1> HIDE DEF first
<1>7. first \in 1..n
  BY <1>2, <1>5
<1>8. QED
  BY <1>6, <1>7

\* On an untruncated row, what people did is what they did upstream.
LEMMA ActsAreKept ==
  ASSUME AttentionInv, row # None, ~row.truncated
  PROVE  /\ Speech(row) = {c \in shown.thread : ~c.minimized}
         /\ row.reviews = {v \in shown.reviews : v.verdict = "COMMENTED"} \cup Standing(shown)
         /\ row.threads.thread = shown.thread /\ row.threads.resolved = shown.resolved
         /\ row.asked = shown.asked
<1>1. /\ row.threads = [thread |-> shown.thread, resolved |-> shown.resolved]
      /\ row.asked = shown.asked /\ row.reviews = Ingestable(shown.reviews)
  BY DEF AttentionInv, Archived, Mirrors
<1>2. {v \in row.reviews : v.verdict \in Verdicts} = Standing(shown)
  BY StandingRows
<1>3. /\ \A v \in row.reviews : v \in shown.reviews /\ (v.verdict = "COMMENTED" \/ v.verdict \in Verdicts)
      /\ \A v \in shown.reviews : v.verdict = "COMMENTED" => v \in row.reviews
  BY <1>1 DEF Ingestable
<1>4. row.reviews = {v \in shown.reviews : v.verdict = "COMMENTED"} \cup Standing(shown)
  BY <1>2, <1>3
<1>5. QED
  BY <1>1, <1>4 DEF Speech, Substantive

\* A set of naturals below a bound has a greatest member.
LEMMA GreatestOf ==
  ASSUME NEW n \in Nat, NEW S \in SUBSET (0..n), S # {}
  PROVE  \E m \in S : \A k \in S : k <= m
<1> DEFINE R == {ss \in Nat \X Nat : ss[1] < ss[2]}
           gaps == {n - k : k \in S}
<1>1. IsWellFoundedOn(R, Nat)
  BY NatLessThanWellFounded, Zenon DEF OpToRel
<1>2. gaps \in SUBSET Nat /\ gaps # {}
  OBVIOUS
<1> HIDE DEF R, gaps
<1>3. PICK g \in gaps : \A h \in gaps : <<h, g>> \notin R
  BY <1>1, <1>2, WFMin
<1>4. PICK m \in S : g = n - m
  BY DEF gaps
<1>5. ASSUME NEW k \in S PROVE k <= m
  <2>1. n - k \in gaps
    BY DEF gaps
  <2>2. n - k \in Nat /\ n - m \in Nat /\ ~(n - k < n - m)
    BY <1>3, <1>4, <2>1, <1>2 DEF R
  <2>3. k \in Int /\ m \in Int
    OBVIOUS
  <2>4. QED
    BY <2>2, <2>3
<1>6. QED
  BY <1>5

\* Of comments of a thread, one is the last for the report.
LEMMA LatestIsLast ==
  ASSUME NEW said, said # {}, \A c \in said : c.id \in 1..MaxSpeech /\ c.at \in 0..MaxClock
  PROVE  /\ Latest(said) \in said
         /\ \A d \in said : d.at <= Latest(said).at
<1> DEFINE Last(c) == \A d \in said : d.at < c.at \/ (d.at = c.at /\ d.id <= c.id)
           times == {c.at : c \in said}
<1>1. MaxClock \in Nat /\ MaxSpeech \in Nat /\ times \in SUBSET (0..MaxClock) /\ times # {}
  BY Limits
<1> HIDE DEF times
<1>2. PICK t \in times : \A u \in times : u <= t
  BY <1>1, GreatestOf
<1> DEFINE ids == {c.id : c \in {x \in said : x.at = t}}
<1>3. ids \in SUBSET (0..MaxSpeech) /\ ids # {}
  BY <1>1, <1>2 DEF times
<1> HIDE DEF ids
<1>4. PICK i \in ids : \A j \in ids : j <= i
  BY <1>1, <1>3, GreatestOf
<1>5. PICK c \in said : c.at = t /\ c.id = i
  BY <1>4 DEF ids
<1>6. Last(c)
  <2> SUFFICES ASSUME NEW d \in said PROVE d.at < c.at \/ (d.at = c.at /\ d.id <= c.id)
    OBVIOUS
  <2>1. d.at \in Nat /\ t \in Nat /\ d.at <= t
    BY <1>1, <1>2 DEF times
  <2>2. d.at = t => d.id <= i
    BY <1>4 DEF ids
  <2>3. QED
    BY <1>5, <2>1, <2>2
<1>7. Latest(said) = CHOOSE x \in said : Last(x)
  BY DEF Latest
<1>8. Latest(said) \in said /\ Last(Latest(said))
  BY <1>5, <1>6, <1>7
<1>9. \A d \in said : d.at <= Latest(said).at
  <2> DEFINE l == Latest(said)
  <2>1. l \in said /\ l.at \in Int /\ \A d \in said : d.at \in Int
    BY <1>8
  <2>2. QED
    BY <1>8, <2>1
<1>10. QED
  BY <1>8, <1>9

(* A demand that a complete hydration met is listed as one: a review asked   *)
(* of the viewer, an open thread on their pull request in which another      *)
(* spoke after whatever the viewer said there, an act of another person      *)
(* since the viewer's last one (attention.rs waiting_on_me, replied_since,   *)
(* bucket; report.rs 218-219).                                               *)
THEOREM EveryDemandSurfaces == Spec => []DemandsSurface
<1>1. ASSUME AttentionInv, row # None, ~row.truncated
      PROVE  LET spoken == {c \in shown.thread : ~c.minimized}
                 acts   == spoken \cup {v \in shown.reviews : v.verdict = "COMMENTED"}
                                  \cup Standing(shown)
                 mine   == {x \in acts : x.by = Viewer}
                 calls(x) == /\ x.by \notin {Viewer} \cup (Bots \ ReplyBots)
                             /\ "verdict" \in DOMAIN x => x.verdict # "APPROVED"
                 asked  == author # Viewer /\ shown.asked
                 waited == /\ author = Viewer /\ ~shown.resolved
                           /\ \E c \in spoken :
                                /\ c.by # Viewer
                                /\ \A d \in spoken : d.by = Viewer => d.at < c.at
                 replied == \E x \in acts : /\ calls(x)
                                            /\ author = Viewer => x.at > 0
                                            /\ author # Viewer => mine # {}
                                            /\ \A m \in mine : x.at > m.at
             IN  /\ asked \/ waited => Bucket(row) = "waiting_on_me"
                 /\ replied => Bucket(row) \in {"waiting_on_me", "they_replied"}
  <2> DEFINE spoken == {c \in shown.thread : ~c.minimized}
             acts   == spoken \cup {v \in shown.reviews : v.verdict = "COMMENTED"}
                              \cup Standing(shown)
             mine   == {x \in acts : x.by = Viewer}
             calls(x) == /\ x.by \notin {Viewer} \cup (Bots \ ReplyBots)
                         /\ "verdict" \in DOMAIN x => x.verdict # "APPROVED"
             asked  == author # Viewer /\ shown.asked
             waited == /\ author = Viewer /\ ~shown.resolved
                       /\ \E c \in spoken :
                            /\ c.by # Viewer
                            /\ \A d \in spoken : d.by = Viewer => d.at < c.at
  <2>1. /\ Speech(row) = spoken /\ Substantive(row.threads.thread) = spoken
        /\ row.reviews = {v \in shown.reviews : v.verdict = "COMMENTED"} \cup Standing(shown)
        /\ row.threads.resolved = shown.resolved /\ row.asked = shown.asked
    BY <1>1, ActsAreKept DEF Speech
  <2>2. acts = Speech(row) \cup row.reviews
    BY <2>1
  <2>3. ASSUME asked \/ waited PROVE Bucket(row) = "waiting_on_me"
    <3>1. waited => WaitingOnMe(row.threads)
      <4> SUFFICES ASSUME author = Viewer, ~shown.resolved, NEW c \in spoken, c.by # Viewer,
                          \A d \in spoken : d.by = Viewer => d.at < c.at
                   PROVE  WaitingOnMe(row.threads)
        OBVIOUS
      <4>1. \A d \in spoken : d.id \in 1..MaxSpeech /\ d.at \in 0..MaxClock
        BY <1>1 DEF AttentionInv, Archived, Reviewed, Marked
      <4> DEFINE last == Latest(spoken)
      <4> HIDE DEF spoken
      <4>2. last \in spoken /\ \A d \in spoken : d.at <= last.at
        BY <4>1, LatestIsLast
      <4> HIDE DEF last
      <4>3. c.at \in Nat /\ last.at \in Nat /\ c.at <= last.at
        BY <4>1, <4>2, Limits
      <4>4. last.by # Viewer
        BY <4>2, <4>3
      <4>5. QED
        BY <2>1, <4>4 DEF WaitingOnMe, last
    <3>2. Buckets[1] = "waiting_on_me"
      BY DEF Buckets
    <3>3. Qualifies(row, Buckets[1])
      BY <2>1, <2>3, <3>1, <3>2 DEF Qualifies
    <3>4. PICK i \in 1..1 : Bucket(row) = Buckets[i]
      BY <3>3, NoLater
    <3>5. i = 1
      OBVIOUS
    <3>6. QED
      BY <3>2, <3>4, <3>5
  <2>4. ASSUME NEW x \in acts, calls(x), author = Viewer => x.at > 0,
               author # Viewer => mine # {}, \A m \in mine : x.at > m.at
        PROVE  Bucket(row) \in {"waiting_on_me", "they_replied"}
    <3>1. x.by # Viewer /\ x.by \notin Bots \ ReplyBots
      BY <2>4
    <3>2. x \in row.reviews => x.verdict # "APPROVED"
      <4>1. \A v \in row.reviews : v \in ReviewState
        BY <1>1 DEF AttentionInv, Archived, RowState
      <4>2. \A v \in ReviewState : "verdict" \in DOMAIN v
        BY DEF ReviewState
      <4>3. QED
        BY <2>4, <4>1, <4>2
    <3> HIDE DEF calls, spoken
    <3>3. x.at \in OtherActs(row)
      <4>1. CASE x \in Speech(row)
        BY <3>1, <4>1 DEF OtherActs
      <4>2. CASE x \in row.reviews
        BY <3>1, <3>2, <4>2 DEF OtherActs
      <4>3. QED
        BY <2>2, <4>1, <4>2
    <3>4. \A v \in ViewerActs(row) : x.at > v
      <4>1. \A v \in ViewerActs(row) : (\E c \in mine : v = c.at) \/ (author = Viewer /\ v = 0)
        BY <2>2 DEF ViewerActs
      <4>2. QED
        BY <2>4, <4>1
    <3>5. ViewerActs(row) # {}
      <4>1. CASE author = Viewer
        BY <4>1 DEF ViewerActs
      <4>2. CASE author # Viewer
        <5>1. PICK m \in mine : TRUE
          BY <2>4, <4>2
        <5>2. m \in Speech(row) \cup row.reviews /\ m.by = Viewer
          BY <2>2, <5>1
        <5>3. m.at \in ViewerActs(row)
          BY <5>2 DEF ViewerActs
        <5>4. QED
          BY <5>3
      <4>3. QED
        BY <4>1, <4>2
    <3>6. RepliedSince(row)
      BY <3>3, <3>4, <3>5 DEF RepliedSince
    <3>7. Buckets[1] = "waiting_on_me" /\ Buckets[2] = "they_replied"
      BY DEF Buckets
    <3>8. Qualifies(row, Buckets[2])
      BY <3>6, <3>7 DEF Qualifies
    <3>9. PICK i \in 1..2 : Bucket(row) = Buckets[i]
      BY <3>8, NoLater
    <3>10. i = 1 \/ i = 2
      OBVIOUS
    <3>11. QED
      BY <3>7, <3>9, <3>10
  <2>5. QED
    BY <2>3, <2>4
<1>2. AttentionInv => DemandsSurface
  BY <1>1 DEF DemandsSurface
<1>3. QED
  BY <1>2, AttentionStarts, AttentionSteps, PTL DEF Spec

-----------------------------------------------------------------------------
(* Where the kinds of row stand side by side.                              *)

\* Whichever kind a behaviour is about, the rows of the other kinds stand
\* still, and all of them keep their shapes.
THEOREM RowsTyped == RowsSpec => []RowsTypeOK
<1>1. RowsInit => Init /\ IssueInit
  BY DEF RowsInit
<1>2. [RowsNext]_rowsVars => [Next]_vars /\ [IssueNext]_issueVars
  BY DEF RowsNext, rowsVars
<1>3. RowsSpec => Spec /\ IssueSpec
  BY <1>1, <1>2, PTL DEF RowsSpec, Spec, IssueSpec
<1>4. QED
  BY <1>3, AttentionTyped, IssueTypeCorrect, PTL DEF RowsTypeOK
=============================================================================
