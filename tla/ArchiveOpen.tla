---------------------------- MODULE ArchiveOpen ----------------------------
(***************************************************************************)
(* Processes that open one archive (db.rs): syncs, which create it, bring  *)
(* it to the current schema and then take the run lock (sync.rs), and      *)
(* readers, which answer from the current schema or refuse.  A process can *)
(* be killed between any two steps.  SQLite is modelled by its promises: a *)
(* transaction is seen whole or not at all, one writer holds the write     *)
(* lock, and a transaction that read an older snapshot cannot write.       *)
(***************************************************************************)
EXTENDS Integers, FiniteSets

CONSTANTS
  Procs,     \* processes
  Places,    \* what may be wrong with the archive's directory and file
  Found,     \* the versions an archive may be found at
  MaxKills,  \* bound: processes killed
  MaxOpens   \* bound: opens by all processes

SchemaVersion == 5
Nobody == "nobody"
Absent == -99

ASSUME ArchiveAssumption ==
  /\ Nobody \notin Procs /\ IsFiniteSet(Procs)
  /\ Places \subseteq {"ok", "writable parent", "symlink", "loose mode"}
  /\ Found \subseteq {Absent, -1, 0, 1, 2, 3, 4, 5, 6}
  /\ MaxKills \in Nat /\ MaxOpens \in Nat

VARIABLES
  place,    \* the archive's place, as the file system shows it
  file,     \* the committed archive: its stamp and its objects
  commits,  \* transactions committed: what a snapshot is taken of
  writeLock, runLock,
  at,       \* process |-> where it is
  seen,     \* process |-> the version it read before its transaction
  tx,       \* process |-> what its transaction would commit
  snap,     \* process |-> the snapshot its transaction reads
  kills, opens

openVars == <<place, file, commits, writeLock, runLock, at, seen, tx, snap, kills, opens>>

\* What an archive of each version holds.  0 is an empty database; a version
\* this program does not know holds what it does not know.
Shape(v) ==
  CASE v \in {Absent, 0} -> {}
    [] v = 3 -> {"tables"}
    [] v = 4 -> {"tables", "sync_runs"}
    [] v = 5 -> {"tables", "sync_runs", "author_type"}
    [] OTHER -> {"unknown"}

OpenInit ==
  /\ place \in Places
  /\ \E v \in Found : file = [stamp |-> v, has |-> Shape(v)]
  /\ commits = 0 /\ writeLock = Nobody /\ runLock = Nobody
  /\ at = [p \in Procs |-> "idle"]
  /\ seen = [p \in Procs |-> 0]
  /\ tx = [p \in Procs |-> file]
  /\ snap = [p \in Procs |-> 0]
  /\ kills = 0 /\ opens = 0

Go(p, from, to) == at[p] = from /\ at' = [at EXCEPT ![p] = to]
Locks == <<writeLock, runLock>>
Txs == <<seen, tx, snap>>
Bounds == <<kills, opens>>
-----------------------------------------------------------------------------
(* open_rw *)

OpenRw(p) ==
  /\ opens < MaxOpens /\ opens' = opens + 1
  /\ Go(p, "idle", "gate")
  /\ UNCHANGED <<place, file, commits, Locks, Txs, kills>>

\* The parent's mode, then the file is born; then a symlink in its place; then
\* the mode of what was opened.  WAL is set on what passes.
Gates(p) ==
  /\ \/ Go(p, "gate", "version") /\ place = "ok"
     \/ Go(p, "gate", "refused") /\ place # "ok"
  /\ IF place # "writable parent" /\ file.stamp = Absent
     THEN file' = [stamp |-> 0, has |-> {}] ELSE UNCHANGED file
  /\ UNCHANGED <<place, commits, Locks, Txs, Bounds>>

\* migrate reads the version outside any transaction.
ReadVersion(p) ==
  /\ \/ Go(p, "version", "begin") /\ file.stamp \in {0, 3, 4}
     \/ Go(p, "version", "opened") /\ file.stamp = SchemaVersion
     \/ Go(p, "version", "refused") /\ file.stamp \notin {0, 3, 4, SchemaVersion}
  /\ seen' = [seen EXCEPT ![p] = file.stamp]
  /\ UNCHANGED <<place, file, commits, Locks, tx, snap, Bounds>>

\* The batch's first statement reads where its table exists, and takes the
\* write lock with it where it does not.
Begin(p) ==
  /\ Go(p, "begin", "batch")
  /\ snap' = [snap EXCEPT ![p] = commits]
  /\ tx' = [tx EXCEPT ![p] = file]
  /\ \/ "tables" \in file.has /\ UNCHANGED writeLock
     \/ "tables" \notin file.has /\ writeLock = Nobody /\ writeLock' = p
  /\ UNCHANGED <<place, file, commits, runLock, seen, Bounds>>

\* The first write of a transaction that only read so far.
Upgrade(p) ==
  /\ at[p] = "batch" /\ writeLock = Nobody /\ snap[p] = commits
  /\ writeLock' = p
  /\ UNCHANGED <<place, file, commits, runLock, at, Txs, Bounds>>

\* Busy past the timeout, or a snapshot that is no longer the newest.
Busy(p) ==
  /\ \/ Go(p, "begin", "transient") /\ writeLock # Nobody
     \/ /\ Go(p, "batch", "transient") /\ writeLock # p
        /\ writeLock # Nobody \/ snap[p] # commits
  /\ UNCHANGED <<place, file, commits, Locks, Txs, Bounds>>

\* CREATE ... IF NOT EXISTS: a table born now has every column.
Batch(p) ==
  /\ Go(p, "batch", "alter") /\ writeLock = p
  /\ tx' = [tx EXCEPT ![p].has =
       @ \cup {"tables", "sync_runs"}
         \cup (IF "tables" \in @ THEN {} ELSE {"author_type"})]
  /\ UNCHANGED <<place, file, commits, Locks, seen, snap, Bounds>>

\* Mutant: the ALTER trusts the version read before the transaction.
AlterBySeen(p) ==
  /\ \/ Go(p, "alter", "refused") /\ seen[p] \in {3, 4} /\ "author_type" \in tx[p].has
     \/ /\ Go(p, "alter", "stamp")
        /\ ~(seen[p] \in {3, 4} /\ "author_type" \in tx[p].has)
  /\ tx' = [tx EXCEPT ![p].has = @ \cup {"author_type"}]
  /\ writeLock' = IF at'[p] = "refused" THEN Nobody ELSE p
  /\ UNCHANGED <<place, file, commits, runLock, seen, snap, Bounds>>

\* Guarded on the live shape.
Alter(p) ==
  /\ Go(p, "alter", "stamp")
  /\ tx' = [tx EXCEPT ![p].has = @ \cup {"author_type"}]
  /\ UNCHANGED <<place, file, commits, Locks, seen, snap, Bounds>>

\* Mutant: the stamp is its own transaction, ahead of the commit.
StampAtOnce(p) ==
  /\ Go(p, "stamp", "commit")
  /\ tx' = [tx EXCEPT ![p].stamp = SchemaVersion]
  /\ file' = [file EXCEPT !.stamp = SchemaVersion]
  /\ UNCHANGED <<place, commits, Locks, seen, snap, Bounds>>

Stamp(p) ==
  /\ Go(p, "stamp", "commit")
  /\ tx' = [tx EXCEPT ![p].stamp = SchemaVersion]
  /\ UNCHANGED <<place, file, commits, Locks, seen, snap, Bounds>>

Commit(p) ==
  /\ Go(p, "commit", "opened")
  /\ file' = tx[p] /\ commits' = commits + 1 /\ writeLock' = Nobody
  /\ UNCHANGED <<place, runLock, Txs, Bounds>>
-----------------------------------------------------------------------------
(* What an opened archive is for. *)

\* Only now the run lock: it does not cover the migration.
Acquire(p) ==
  /\ \/ Go(p, "opened", "running") /\ runLock = Nobody /\ runLock' = p
     \/ Go(p, "opened", "transient") /\ runLock # Nobody /\ UNCHANGED runLock
  /\ UNCHANGED <<place, file, commits, writeLock, Txs, Bounds>>

\* The lock goes before the connection, whose close truncates the WAL.
Release(p) ==
  /\ Go(p, "running", "closing") /\ runLock' = Nobody
  /\ UNCHANGED <<place, file, commits, writeLock, Txs, Bounds>>

Close(p) ==
  /\ at[p] \in {"closing", "transient", "refused"}
  /\ at' = [at EXCEPT ![p] = "idle"]
  /\ UNCHANGED <<place, file, commits, Locks, Txs, Bounds>>

\* open_ro and open_ro_audit: there is an archive, and it is current.
OpenRo(p) ==
  /\ opens < MaxOpens /\ opens' = opens + 1
  /\ \/ Go(p, "idle", "reading") /\ file.stamp = SchemaVersion
     \/ Go(p, "idle", "idle") /\ file.stamp # SchemaVersion
  /\ UNCHANGED <<place, file, commits, Locks, Txs, kills>>

ReadDone(p) ==
  /\ Go(p, "reading", "idle")
  /\ UNCHANGED <<place, file, commits, Locks, Txs, Bounds>>

\* SQLite and the system release what a dead process held; its transaction
\* was never there.
Killed(p) ==
  /\ at[p] # "idle" /\ kills < MaxKills /\ kills' = kills + 1
  /\ at' = [at EXCEPT ![p] = "idle"]
  /\ writeLock' = IF writeLock = p THEN Nobody ELSE writeLock
  /\ runLock' = IF runLock = p THEN Nobody ELSE runLock
  /\ UNCHANGED <<place, file, commits, Txs, opens>>

OpenNext ==
  \E p \in Procs :
    \/ OpenRw(p) \/ Gates(p) \/ ReadVersion(p) \/ Begin(p) \/ Upgrade(p)
    \/ Busy(p) \/ Batch(p) \/ Alter(p) \/ Stamp(p) \/ Commit(p)
    \/ Acquire(p) \/ Release(p) \/ Close(p)
    \/ OpenRo(p) \/ ReadDone(p) \/ Killed(p)

OpenSpec == OpenInit /\ [][OpenNext]_openVars
-----------------------------------------------------------------------------
(* Properties. *)

Versions == Found \cup {0, SchemaVersion}
Archives == [stamp : Versions,
             has : SUBSET {"tables", "sync_runs", "author_type", "unknown"}]

OpenTypeOK ==
  /\ place \in Places /\ file \in Archives /\ commits \in Nat
  /\ writeLock \in Procs \cup {Nobody} /\ runLock \in Procs \cup {Nobody}
  /\ at \in [Procs -> {"idle", "gate", "version", "begin", "batch", "alter",
                       "stamp", "commit", "opened", "running", "closing",
                       "transient", "refused", "reading"}]
  /\ seen \in [Procs -> Versions] /\ tx \in [Procs -> Archives]
  /\ snap \in [Procs -> Nat] /\ kills \in 0..MaxKills /\ opens \in 0..MaxOpens

\* Whoever migrates and whoever dies, the stamp tells the archive's shape: an
\* archive is never between versions, one of an unknown version is left as it
\* was, and whoever has it open, to read or to sync, has the current schema
\* (db.rs, SCHEMA_VERSION: "so an archive is never between versions").
NeverBetweenVersions ==
  /\ file.has = Shape(file.stamp)
  /\ \A p \in Procs : at[p] \in {"opened", "running", "reading"} =>
       file.stamp = SchemaVersion

\* A process that loses a race for the migration or the run is told to retry:
\* it is refused only for the archive's place or version, and never because
\* another process was faster (db.rs: "A busy or locked database is TRANSIENT").
RefusalsAreEarned ==
  \A p \in Procs : at[p] = "refused" =>
    place # "ok" \/ file.stamp \notin {0, 3, 4, SchemaVersion}
=============================================================================
