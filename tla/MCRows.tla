------------------------------- MODULE MCRows -------------------------------
(***************************************************************************)
(* Three kinds of row of the archive, checked in one run: the pull         *)
(* requests and the issues the bundle writer keeps, and the references     *)
(* their texts make.  They share no column: `about` chooses the kind a     *)
(* behaviour is about, the others stand still.                             *)
(***************************************************************************)
EXTENDS Attention, IssueRows, Refs

VARIABLE about

MCBeginnings == {<<>>, <<"blocked", " ", "by">>, <<"depends", " ">>, <<"fixes">>, <<"app", "-">>,
                 <<"app", "/", "app">>, <<"#", "7", "/">>, <<"-", "app", "/">>}
MCTokens == {"fixes", "on", "app", "7", "0", "huge", "#", "/", "-", ":", " "}

rowsVars == <<about, vars, issueVars, refsVars>>

RowsInit ==
  /\ about \in {"verdicts", "talk", "issue", "refs"}
  /\ Init /\ (about = "verdicts" => author = Viewer)
  /\ IssueInit
  /\ RefsInit /\ (about # "refs" => body = <<>>)

\* Heads and verdicts: the viewer's pull request (another's verdicts are kept and
\* judged alike), people only, and nothing asked of the viewer.  What else may
\* hold a pull request back (one comment of the viewer's that opens the thread, a
\* draft, branch protection) meets one review: it asks nothing of verdicts.
OfVerdicts == /\ ~pr'.asked
              /\ \A c \in pr'.thread : c.id = 1 /\ c.by = Viewer
              /\ \A r \in pr'.reviews : r.by \notin Bots
              /\ pr'.thread # {} \/ pr'.draft \/ pr'.blocked => Cardinality(pr'.reviews) <= 1

\* Talk: one head, neither draft nor held back, two reviews, and runs that reach
\* the pull request at once.  Who GitHub no longer names talks as any other does.
OfTalk == /\ Len(pr'.commits) = 1 /\ Cardinality(pr'.reviews) <= 2
          /\ ~pr'.draft /\ ~pr'.blocked
          /\ \A x \in pr'.thread \cup pr'.reviews : x.by \notin Ghosts
          /\ <<row', shown'>> = <<row, shown>> \/ now = clock

RowsNext ==
  /\ UNCHANGED about
  /\ \/ about = "verdicts" /\ Next /\ OfVerdicts /\ UNCHANGED <<issueVars, refsVars>>
     \/ about = "talk" /\ Next /\ OfTalk /\ UNCHANGED <<issueVars, refsVars>>
     \/ about = "issue" /\ IssueNext /\ UNCHANGED <<vars, refsVars>>
     \/ about = "refs" /\ RefsNext /\ UNCHANGED <<vars, issueVars>>

RowsSpec == RowsInit /\ [][RowsNext]_rowsVars

\* The rows keep the shapes their modules state.
RowsTypeOK == TypeOK /\ IssueTypeOK
=============================================================================
