------------------------------- MODULE MCRuns -------------------------------
(***************************************************************************)
(* The threads of a sync run, and one stream over several runs, checked    *)
(* together.  They share no variable: `about` chooses the one a behaviour  *)
(* is about, the other stands still in one initial state.                  *)
(***************************************************************************)
EXTENDS MCStreamSync, Pipeline

VARIABLE about

runsVars == <<about, streamVars, vars>>

RunsInit ==
  /\ about \in {"stream", "threads"}
  /\ StreamInit /\ (about # "stream" => cfg = CHOOSE c \in Configs : TRUE)
  /\ Init

\* The workers are alike: of those at the top of the loop the first goes first.
First == CHOOSE k \in Workers : TRUE
FirstGoesFirst ==
  running' /\ worker[First].pc = "free" =>
    \A k \in Workers \ {First} : worker[k].pc = "free" => worker'[k] = worker[k]

RunsNext ==
  /\ UNCHANGED about
  /\ \/ about = "stream" /\ StreamNext /\ LastChanges /\ UNCHANGED vars
     \/ about = "threads" /\ Next /\ FirstGoesFirst /\ UNCHANGED streamVars

\* Fairness as in Spec, of the behaviours that are about the threads.
RunsSpec == RunsInit /\ [][RunsNext]_runsVars /\ WF_vars(about = "threads" /\ Threads)
=============================================================================
