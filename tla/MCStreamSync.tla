---------------------------- MODULE MCStreamSync ----------------------------
(* Small instances of StreamSync.                                          *)
EXTENDS StreamSync

CONSTANTS pr1, pr2, me, pat, bot

MCLogin == {me, pat, bot}

\* Both items involve the viewer; pat wrote the second one.
MCInvolves == [i \in Items |-> {me}]
MCAuthor == [i \in Items |-> IF i = pr2 THEN pat ELSE me]

\* The operator excludes pat, and thinks better of it.
FilterConfigs == {[viewer |-> me, people |-> {}, exclude |-> X] : X \in {{}, {pat}}}

\* The viewer works on pr1; pat, who may join `people`, works on pr2.
PeopleInvolves == [i \in Items |-> IF i = pr2 THEN {pat} ELSE {me}]
PeopleConfigs == {[viewer |-> me, people |-> P, exclude |-> {}] : P \in {{}, {pat}}}

\* A bot opens pr1 for the viewer, pat opens pr2; the bot may be excluded and pat
\* may join `people`.
EditedInvolves == [i \in Items |-> IF i = pr2 THEN {pat} ELSE {me, bot}]
EditedAuthor == [i \in Items |-> IF i = pr2 THEN pat ELSE bot]
EditedConfigs ==
  {[viewer |-> me, people |-> P, exclude |-> X] : P \in {{}, {pat}}, X \in {{}, {bot}}}

\* Bound: the last changes of the two items, taken together.
LastChanges == upd'[pr1] + upd'[pr2] <= MaxClock
=============================================================================
