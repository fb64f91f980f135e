--------------------------- MODULE CommentArchive ---------------------------
(***************************************************************************)
(* What the archive promises about the comments of one pull request, with  *)
(* no word on how they are fetched: a hydration's bundle lands in one      *)
(* step, made from what existed at some earlier instant.  It may bring     *)
(* back a comment that is gone by now, and it may miss one; it never       *)
(* deletes one that exists, and it claims to be whole only if nothing that *)
(* existed when the hydration began, and still does, is missing.           *)
(***************************************************************************)
CONSTANT Comments

VARIABLES
  ever,   \* comments posted so far
  exists, \* those not deleted since
  live,   \* archived and live
  dead,   \* archived and marked deleted
  whole,  \* the row claims that nothing is missing
  began   \* what existed when the hydration applied last began

mirrorVars == <<ever, exists, live, dead, whole, began>>

MirrorInit ==
  /\ ever \in SUBSET Comments /\ exists = ever
  /\ live = {} /\ dead = {} /\ whole = FALSE /\ began = {}

Posted(c) ==
  /\ c \in Comments \ ever
  /\ ever' = ever \cup {c} /\ exists' = exists \cup {c}
  /\ UNCHANGED <<live, dead, whole, began>>

Deleted(c) ==
  /\ c \in exists
  /\ exists' = exists \ {c}
  /\ UNCHANGED <<ever, live, dead, whole, began>>

\* Rows come, come back to life, and are marked deleted; none disappears.
\* The row may give up its claim at any time, as when it is marked deleted.
Landed ==
  /\ live' \cap dead' = {}
  /\ live \cup dead \subseteq live' \cup dead' /\ live' \subseteq ever
  /\ dead' \ dead \subseteq live \ exists
  /\ began' \subseteq ever
  /\ whole' => began' \cap exists \subseteq live'
  /\ UNCHANGED <<ever, exists>>

MirrorNext ==
  Landed \/ \E c \in Comments : Posted(c) \/ Deleted(c)

MirrorSpec == MirrorInit /\ [][MirrorNext]_mirrorVars
=============================================================================
