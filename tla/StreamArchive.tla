---------------------------- MODULE StreamArchive ----------------------------
(***************************************************************************)
(* What the archive of one stream promises its readers, with no word on    *)
(* windows, hydrations, runs or watermarks: a transaction lands in one     *)
(* step, whatever the process that made it does next.  What the archive    *)
(* holds it goes on holding until the item changes or is dropped; an item  *)
(* it could not get is listed until the archive holds it; and the claim    *)
(* "checked up to here" is never more than what is held, listed, dropped   *)
(* or newer.                                                               *)
(***************************************************************************)
EXTENDS Naturals

CONSTANTS
  Items,
  Inputs,  \* what a stream may be asked for
  Asked,   \* Asked[c]: the items c asks for
  Horizon, \* how far back the archive is asked to reach
  Lag      \* how long a change may go unseen

VARIABLES
  now,
  changed, \* when each item changed last; 0: never seen
  gone,    \* items deleted since
  held,    \* items archived as they are
  listed,  \* items to be tried again
  dropped, \* items given up, for what they were when they changed last
  inputs,  \* what the archive was asked for
  claim    \* the archive has all that was asked for, up to here

promiseVars == <<now, changed, gone, held, listed, dropped, inputs, claim>>

There(i) == changed[i] > 0 /\ i \notin gone

\* What the archive was asked for and says nothing of.
Owed(i) ==
  /\ i \in Asked[inputs] /\ There(i) /\ changed[i] + Horizon >= now
  /\ i \notin held \cup listed \cup dropped

PromiseInit ==
  /\ now = 1 /\ changed = [i \in Items |-> 0] /\ gone = {}
  /\ held = {} /\ listed = {} /\ dropped = {}
  /\ inputs \in Inputs /\ claim = 0

TimePasses ==
  /\ now' = now + 1
  /\ UNCHANGED <<changed, gone, held, listed, dropped, inputs, claim>>

Changes(i) ==
  /\ i \notin gone
  /\ changed' = [changed EXCEPT ![i] = now]
  /\ held' = held \ {i} /\ dropped' = dropped \ {i}
  /\ UNCHANGED <<now, gone, listed, inputs, claim>>

Disappears(i) ==
  /\ There(i)
  /\ gone' = gone \cup {i}
  /\ UNCHANGED <<now, changed, held, listed, dropped, inputs, claim>>

\* A transaction of the archive.  An item leaves the list when it is held or
\* dropped, or when it changed since the claim and the next walk is to find it.
Lands ==
  /\ \A i \in held' \ held : changed[i] > 0
  /\ held \ held' \subseteq dropped' /\ held' \cap dropped' = {}
  /\ dropped \ dropped' \subseteq held'
  /\ \A i \in listed \ listed' : i \in held' \cup dropped' \/ changed[i] >= claim'
  /\ inputs' \in Inputs /\ claim' >= claim
  /\ \A i \in Items : Owed(i)' => changed[i] + Lag >= claim'
  /\ UNCHANGED <<now, changed, gone>>

PromiseNext ==
  TimePasses \/ Lands \/ \E i \in Items : Changes(i) \/ Disappears(i)

PromiseSpec == PromiseInit /\ [][PromiseNext]_promiseVars
=============================================================================
