------------------------------- MODULE MCWalk -------------------------------
(***************************************************************************)
(* The walk of a stream and the hydrations of one of its pull requests,    *)
(* checked in one run.  They share no variable: `about` chooses the one a  *)
(* behaviour is about, the other stands still in one initial state (the    *)
(* pull request in one with more comments than a full walk can hold, of    *)
(* which Heals asks nothing).                                              *)
(***************************************************************************)
EXTENDS MCStreamSync, PrArchive

VARIABLE about

walkVars == <<about, streamVars, vars>>

WalkInit ==
  /\ about \in {"stream", "comments"}
  /\ StreamInit /\ (about # "stream" => cfg = CHOOSE c \in Configs : TRUE)
  /\ Init /\ (about # "comments" => born = MaxId)

\* Bound: the two items' last changes are not both late.
EarlyChanges == upd'[pr1] + upd'[pr2] < MaxClock

WalkNext ==
  /\ UNCHANGED about
  /\ \/ about = "stream" /\ StreamNext /\ EarlyChanges /\ UNCHANGED vars
     \/ about = "comments" /\ Next /\ UNCHANGED streamVars

\* Fairness as in FairSpec, of the behaviours that are about the comments.
WalkSpec ==
  /\ WalkInit /\ [][WalkNext]_walkVars
  /\ WF_vars(about = "comments" /\ Apply)
  /\ WF_vars(about = "comments" /\ Working)
  /\ SF_vars(about = "comments" /\ StartWalk)
=============================================================================
