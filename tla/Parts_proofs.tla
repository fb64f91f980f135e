---------------------------- MODULE Parts_proofs ----------------------------
(***************************************************************************)
(* The archive's opening, the calendar and the re-verify order, each for   *)
(* every value of its constants, and the shapes of all the parts that      *)
(* MCParts runs side by side.                                              *)
(*                                                                         *)
(* The calendar is exact for every day, the text of an instant reads back  *)
(* as that instant, and texts sort as instants do.  The code's own proof   *)
(* tier gave these up (time.rs, end of the implementation): chained 64-bit *)
(* divisions defeat its prover.  Here each quotient is replaced by the two *)
(* inequalities that define it, and what is left is linear.                *)
(***************************************************************************)
EXTENDS MCParts, Calls_proofs, Fetch_proofs

-----------------------------------------------------------------------------
(* The archive's opening: for any number of processes, opens and kills, it *)
(* is never between versions, and no process is refused for losing a race. *)

Current == {"tables", "sync_runs", "author_type"}
Known == {0, 3, 4, SchemaVersion}

\* What a process that has come so far knows of the archive, and what its
\* transaction holds: the batch and the guarded ALTER bring every known shape
\* to the current one, whichever version was read before.
Migrating(p) ==
  /\ at[p] = "version" => file.stamp # Absent
  /\ at[p] \in {"begin", "batch", "alter", "stamp", "commit"} => file.stamp \in Known
  /\ at[p] \in {"opened", "running", "reading"} => file.stamp = SchemaVersion
  /\ at[p] = "refused" => place # "ok" \/ file.stamp \notin Known \cup {Absent}
  /\ at[p] = "batch" => tx[p].has \in {{}, {"tables"}, {"tables", "sync_runs"}, Current}
  /\ at[p] = "alter" => tx[p].has \in {{"tables", "sync_runs"}, Current}
  /\ at[p] \in {"stamp", "commit"} => tx[p].has = Current
  /\ at[p] = "commit" => tx[p].stamp = SchemaVersion

Whole == file.has = Shape(file.stamp)

OpenInv == OpenTypeOK /\ Whole /\ \A p \in Procs : Migrating(p)

LEMMA ShapesOfVersions ==
  /\ Shape(0) = {} /\ Shape(Absent) = {} /\ Shape(3) = {"tables"}
  /\ Shape(4) = {"tables", "sync_runs"} /\ Shape(SchemaVersion) = Current
  /\ \A v \in Known : Shape(v) \in {{}, {"tables"}, {"tables", "sync_runs"}, Current}
BY SMT DEF Shape, Absent, SchemaVersion, Current, Known

LEMMA OpenStarts == OpenInit => OpenInv
<1> SUFFICES ASSUME OpenInit PROVE OpenInv
  OBVIOUS
<1>1. PICK v \in Found : file = [stamp |-> v, has |-> Shape(v)]
  BY DEF OpenInit
<1>2. Shape(v) \in SUBSET {"tables", "sync_runs", "author_type", "unknown"}
  BY DEF Shape
<1>3. file \in Archives
  BY <1>1, <1>2 DEF Archives, Versions
<1>4. OpenTypeOK
  <2>1. 0 \in Versions /\ 0 \in 0..MaxKills /\ 0 \in 0..MaxOpens
    <3>1. MaxKills \in Nat /\ MaxOpens \in Nat
      BY ArchiveAssumption
    <3>2. 0 \in 0..MaxKills /\ 0 \in 0..MaxOpens
      BY <3>1
    <3>3. QED
      BY <3>2 DEF Versions
  <2>2. at \in [Procs -> {"idle"}] /\ seen \in [Procs -> Versions]
        /\ tx \in [Procs -> Archives] /\ snap \in [Procs -> Nat]
    BY <1>3, <2>1 DEF OpenInit
  <2>3. QED
    BY <1>3, <2>1, <2>2 DEF OpenInit, OpenTypeOK
<1>5. Whole
  BY <1>1 DEF Whole
<1>6. \A p \in Procs : Migrating(p)
  BY DEF OpenInit, Migrating
<1>7. QED
  BY <1>4, <1>5, <1>6 DEF OpenInv

\* One process goes on and the archive stays: what the others know is unmoved.
LEMMA Alone ==
  ASSUME OpenInv, NEW p \in Procs, UNCHANGED <<place, file>>,
         \A q \in Procs \ {p} : at'[q] = at[q] /\ tx'[q] = tx[q],
         Migrating(p)'
  PROVE  Whole' /\ \A q \in Procs : Migrating(q)'
<1>1. Whole'
  BY DEF OpenInv, Whole
<1>2. ASSUME NEW q \in Procs, q # p PROVE Migrating(q)'
  BY <1>2 DEF OpenInv, Migrating
<1>3. QED
  BY <1>1, <1>2

LEMMA OpenTypes ==
  ASSUME OpenInv, [OpenNext]_openVars
  PROVE  OpenTypeOK'
<1> USE DEF OpenInv, OpenTypeOK, Go, Locks, Txs, Bounds
<1>0. /\ MaxKills \in Nat /\ MaxOpens \in Nat
      /\ \A r \in Archives : r.stamp \in Versions
      /\ 0 \in Versions /\ SchemaVersion \in Versions
  BY ArchiveAssumption DEF Archives, Versions
<1>1. CASE UNCHANGED openVars
  BY <1>1 DEF openVars
<1>2. ASSUME NEW p \in Procs, OpenRw(p) PROVE OpenTypeOK'
  BY <1>0, <1>2 DEF OpenRw
<1>3. ASSUME NEW p \in Procs, Gates(p) PROVE OpenTypeOK'
  <2>1. [stamp |-> 0, has |-> {}] \in Archives
    BY <1>0 DEF Archives
  <2>2. QED
    BY <1>3, <2>1 DEF Gates
<1>4. ASSUME NEW p \in Procs, ReadVersion(p) PROVE OpenTypeOK'
  BY <1>0, <1>4 DEF ReadVersion
<1>5. ASSUME NEW p \in Procs, Begin(p) PROVE OpenTypeOK'
  BY <1>5 DEF Begin
<1>6. ASSUME NEW p \in Procs, Upgrade(p) PROVE OpenTypeOK'
  BY <1>6 DEF Upgrade
<1>7. ASSUME NEW p \in Procs, Busy(p) PROVE OpenTypeOK'
  BY <1>7 DEF Busy
<1>8. ASSUME NEW p \in Procs, Batch(p) PROVE OpenTypeOK'
  <2>1. tx' \in [Procs -> Archives]
    BY <1>8 DEF Batch, Archives
  <2>2. QED
    BY <1>8, <2>1 DEF Batch
<1>9. ASSUME NEW p \in Procs, Alter(p) PROVE OpenTypeOK'
  <2>1. tx' \in [Procs -> Archives]
    BY <1>9 DEF Alter, Archives
  <2>2. QED
    BY <1>9, <2>1 DEF Alter
<1>10. ASSUME NEW p \in Procs, Stamp(p) PROVE OpenTypeOK'
  <2>1. tx' \in [Procs -> Archives]
    BY <1>0, <1>10 DEF Stamp, Archives
  <2>2. QED
    BY <1>10, <2>1 DEF Stamp
<1>11. ASSUME NEW p \in Procs, Commit(p) PROVE OpenTypeOK'
  BY <1>11 DEF Commit
<1>12. ASSUME NEW p \in Procs, Acquire(p) PROVE OpenTypeOK'
  BY <1>12 DEF Acquire
<1>13. ASSUME NEW p \in Procs, Release(p) PROVE OpenTypeOK'
  BY <1>13 DEF Release
<1>14. ASSUME NEW p \in Procs, Close(p) PROVE OpenTypeOK'
  BY <1>14 DEF Close
<1>15. ASSUME NEW p \in Procs, OpenRo(p) PROVE OpenTypeOK'
  BY <1>0, <1>15 DEF OpenRo
<1>16. ASSUME NEW p \in Procs, ReadDone(p) PROVE OpenTypeOK'
  BY <1>16 DEF ReadDone
<1>17. ASSUME NEW p \in Procs, Killed(p) PROVE OpenTypeOK'
  BY <1>0, <1>17 DEF Killed
<1>18. QED
  BY <1>1, <1>2, <1>3, <1>4, <1>5, <1>6, <1>7, <1>8, <1>9, <1>10, <1>11, <1>12, <1>13,
     <1>14, <1>15, <1>16, <1>17 DEF OpenNext

LEMMA OpenSteps ==
  ASSUME OpenInv, [OpenNext]_openVars
  PROVE  Whole' /\ \A p \in Procs : Migrating(p)'
<1> USE DEF Go, Locks, Txs, Bounds
<1>0. /\ at \in [Procs -> {"idle", "gate", "version", "begin", "batch", "alter",
                           "stamp", "commit", "opened", "running", "closing",
                           "transient", "refused", "reading"}]
      /\ tx \in [Procs -> Archives] /\ file \in Archives
      /\ Whole /\ \A p \in Procs : Migrating(p)
  BY DEF OpenInv, OpenTypeOK
<1>1. CASE UNCHANGED openVars
  BY <1>0, <1>1 DEF openVars, Whole, Migrating
<1>2. ASSUME NEW p \in Procs, OpenRw(p) PROVE Whole' /\ \A q \in Procs : Migrating(q)'
  <2>1. Migrating(p)'
    BY <1>0, <1>2 DEF OpenRw, Migrating
  <2>2. QED
    BY <1>0, <1>2, <2>1, Alone DEF OpenRw
<1>3. ASSUME NEW p \in Procs, Gates(p) PROVE Whole' /\ \A q \in Procs : Migrating(q)'
  <2>1. CASE place # "writable parent" /\ file.stamp = Absent
    <3>1. file' = [stamp |-> 0, has |-> {}] /\ tx' = tx /\ place' = place
      BY <1>3, <2>1 DEF Gates
    <3>2. file'.stamp = 0 /\ file'.has = {}
      BY <3>1
    <3>3. Whole'
      BY <3>2, ShapesOfVersions DEF Whole
    <3>4. 0 \in Known /\ Absent \notin Known /\ 0 # Absent /\ Absent # SchemaVersion
      BY SMT DEF Known, Absent, SchemaVersion
    <3>5. Migrating(p)'
      BY <1>0, <1>3, <3>2, <3>4 DEF Gates, Migrating
    <3>6. ASSUME NEW q \in Procs, q # p PROVE Migrating(q)'
      <4>1. Migrating(q) /\ at'[q] = at[q]
        BY <1>0, <1>3, <3>6 DEF Gates
      <4>2. QED
        BY <2>1, <3>1, <3>2, <3>4, <4>1 DEF Migrating
    <3>7. QED
      BY <3>3, <3>5, <3>6
  <2>2. CASE ~(place # "writable parent" /\ file.stamp = Absent)
    <3>1. UNCHANGED <<place, file, tx>>
      BY <1>3, <2>2 DEF Gates
    <3>2. Migrating(p)'
      BY <1>0, <1>3, <2>2, <3>1 DEF Gates, Migrating
    <3>3. \A q \in Procs \ {p} : at'[q] = at[q] /\ tx'[q] = tx[q]
      BY <1>0, <1>3, <3>1 DEF Gates
    <3>4. QED
      BY <3>1, <3>2, <3>3, Alone
  <2>3. QED
    BY <2>1, <2>2
<1>4. ASSUME NEW p \in Procs, ReadVersion(p) PROVE Whole' /\ \A q \in Procs : Migrating(q)'
  <2>1. Migrating(p)'
    BY <1>0, <1>4 DEF ReadVersion, Migrating, Known
  <2>2. QED
    BY <1>0, <1>4, <2>1, Alone DEF ReadVersion
<1>5. ASSUME NEW p \in Procs, Begin(p) PROVE Whole' /\ \A q \in Procs : Migrating(q)'
  <2>1. file.stamp \in Known /\ tx'[p] = file
    BY <1>0, <1>5 DEF Begin, Migrating
  <2>2. file.has \in {{}, {"tables"}, {"tables", "sync_runs"}, Current}
    BY <1>0, <2>1, ShapesOfVersions DEF Whole
  <2>3. Migrating(p)'
    BY <1>0, <1>5, <2>1, <2>2 DEF Begin, Migrating
  <2>4. \A q \in Procs \ {p} : at'[q] = at[q] /\ tx'[q] = tx[q]
    BY <1>0, <1>5 DEF Begin
  <2>5. QED
    BY <1>5, <2>3, <2>4, Alone DEF Begin
<1>6. ASSUME NEW p \in Procs, Upgrade(p) PROVE Whole' /\ \A q \in Procs : Migrating(q)'
  BY <1>0, <1>6 DEF Upgrade, Whole, Migrating
<1>7. ASSUME NEW p \in Procs, Busy(p) PROVE Whole' /\ \A q \in Procs : Migrating(q)'
  <2>1. Migrating(p)'
    BY <1>0, <1>7 DEF Busy, Migrating
  <2>2. QED
    BY <1>0, <1>7, <2>1, Alone DEF Busy
<1>8. ASSUME NEW p \in Procs, Batch(p) PROVE Whole' /\ \A q \in Procs : Migrating(q)'
  <2>1. tx[p].has \in {{}, {"tables"}, {"tables", "sync_runs"}, Current}
    BY <1>0, <1>8 DEF Batch, Migrating
  <2>2. tx'[p].has = tx[p].has \cup {"tables", "sync_runs"}
                       \cup (IF "tables" \in tx[p].has THEN {} ELSE {"author_type"})
    BY <1>0, <1>8 DEF Batch, Archives
  <2>3. tx'[p].has \in {{"tables", "sync_runs"}, Current}
    BY <2>1, <2>2 DEF Current
  <2>4. Migrating(p)'
    BY <1>0, <1>8, <2>3 DEF Batch, Migrating
  <2>5. \A q \in Procs \ {p} : at'[q] = at[q] /\ tx'[q] = tx[q]
    BY <1>0, <1>8 DEF Batch
  <2>6. QED
    BY <1>8, <2>4, <2>5, Alone DEF Batch
<1>9. ASSUME NEW p \in Procs, Alter(p) PROVE Whole' /\ \A q \in Procs : Migrating(q)'
  <2>1. tx[p].has \in {{"tables", "sync_runs"}, Current}
    BY <1>0, <1>9 DEF Alter, Migrating
  <2>2. tx'[p].has = tx[p].has \cup {"author_type"}
    BY <1>0, <1>9 DEF Alter, Archives
  <2>3. tx'[p].has = Current
    BY <2>1, <2>2 DEF Current
  <2>4. Migrating(p)'
    BY <1>0, <1>9, <2>3 DEF Alter, Migrating
  <2>5. \A q \in Procs \ {p} : at'[q] = at[q] /\ tx'[q] = tx[q]
    BY <1>0, <1>9 DEF Alter
  <2>6. QED
    BY <1>9, <2>4, <2>5, Alone DEF Alter
<1>10. ASSUME NEW p \in Procs, Stamp(p) PROVE Whole' /\ \A q \in Procs : Migrating(q)'
  <2>1. tx'[p].has = tx[p].has /\ tx'[p].stamp = SchemaVersion
    BY <1>0, <1>10 DEF Stamp, Archives
  <2>2. Migrating(p)'
    BY <1>0, <1>10, <2>1 DEF Stamp, Migrating
  <2>3. \A q \in Procs \ {p} : at'[q] = at[q] /\ tx'[q] = tx[q]
    BY <1>0, <1>10 DEF Stamp
  <2>4. QED
    BY <1>10, <2>2, <2>3, Alone DEF Stamp
<1>11. ASSUME NEW p \in Procs, Commit(p) PROVE Whole' /\ \A q \in Procs : Migrating(q)'
  <2>1. file'.stamp = SchemaVersion /\ file'.has = Current
    BY <1>0, <1>11 DEF Commit, Migrating
  <2>2. file.stamp \in Known
    BY <1>0, <1>11 DEF Commit, Migrating
  <2>3. Whole'
    BY <2>1, ShapesOfVersions DEF Whole
  <2>4. SchemaVersion \in Known /\ SchemaVersion # Absent
    BY SMT DEF Known, SchemaVersion, Absent
  <2>5. Migrating(p)'
    BY <1>0, <1>11, <2>1, <2>4 DEF Commit, Migrating
  <2>6. ASSUME NEW q \in Procs, q # p PROVE Migrating(q)'
    <3>1. Migrating(q) /\ at'[q] = at[q] /\ tx' = tx /\ place' = place
      BY <1>0, <1>11, <2>6 DEF Commit
    <3>2. QED
      BY <2>1, <2>2, <2>4, <3>1 DEF Migrating
  <2>7. QED
    BY <2>3, <2>5, <2>6
<1>12. ASSUME NEW p \in Procs, Acquire(p) PROVE Whole' /\ \A q \in Procs : Migrating(q)'
  <2>1. Migrating(p)'
    BY <1>0, <1>12 DEF Acquire, Migrating
  <2>2. QED
    BY <1>0, <1>12, <2>1, Alone DEF Acquire
<1>13. ASSUME NEW p \in Procs, Release(p) PROVE Whole' /\ \A q \in Procs : Migrating(q)'
  <2>1. Migrating(p)'
    BY <1>0, <1>13 DEF Release, Migrating
  <2>2. QED
    BY <1>0, <1>13, <2>1, Alone DEF Release
<1>14. ASSUME NEW p \in Procs, Close(p) PROVE Whole' /\ \A q \in Procs : Migrating(q)'
  <2>1. Migrating(p)'
    BY <1>0, <1>14 DEF Close, Migrating
  <2>2. QED
    BY <1>0, <1>14, <2>1, Alone DEF Close
<1>15. ASSUME NEW p \in Procs, OpenRo(p) PROVE Whole' /\ \A q \in Procs : Migrating(q)'
  <2>1. Migrating(p)'
    BY <1>0, <1>15 DEF OpenRo, Migrating
  <2>2. QED
    BY <1>0, <1>15, <2>1, Alone DEF OpenRo
<1>16. ASSUME NEW p \in Procs, ReadDone(p) PROVE Whole' /\ \A q \in Procs : Migrating(q)'
  <2>1. Migrating(p)'
    BY <1>0, <1>16 DEF ReadDone, Migrating
  <2>2. QED
    BY <1>0, <1>16, <2>1, Alone DEF ReadDone
<1>17. ASSUME NEW p \in Procs, Killed(p) PROVE Whole' /\ \A q \in Procs : Migrating(q)'
  <2>1. Migrating(p)'
    BY <1>0, <1>17 DEF Killed, Migrating
  <2>2. QED
    BY <1>0, <1>17, <2>1, Alone DEF Killed
<1>18. QED
  BY <1>1, <1>2, <1>3, <1>4, <1>5, <1>6, <1>7, <1>8, <1>9, <1>10, <1>11, <1>12, <1>13,
     <1>14, <1>15, <1>16, <1>17 DEF OpenNext

LEMMA OpenHolds == OpenSpec => []OpenInv
<1>1. OpenInv /\ [OpenNext]_openVars => OpenInv'
  BY OpenTypes, OpenSteps DEF OpenInv
<1>2. QED
  BY OpenStarts, <1>1, PTL DEF OpenSpec

\* Every reachable state has the shape OpenTypeOK states.
THEOREM OpenTypeCorrect == OpenSpec => []OpenTypeOK
<1>1. OpenInv => OpenTypeOK
  BY DEF OpenInv
<1>2. QED
  BY <1>1, OpenHolds, PTL

\* However many processes migrate and are killed in whatever order, the stamp
\* tells the archive's shape and whoever has it open has the current schema.
THEOREM ArchivesAreWhole == OpenSpec => []NeverBetweenVersions
<1>1. OpenInv => NeverBetweenVersions
  BY DEF OpenInv, NeverBetweenVersions, Whole, Migrating
<1>2. QED
  BY <1>1, OpenHolds, PTL

\* No process is refused because another was faster: the ALTER's guard reads
\* the live shape inside the transaction.
THEOREM RefusalsEarned == OpenSpec => []RefusalsAreEarned
<1>1. OpenInv => RefusalsAreEarned
  BY DEF OpenInv, RefusalsAreEarned, Migrating, Known
<1>2. QED
  BY <1>1, OpenHolds, PTL

-----------------------------------------------------------------------------
(* Quotients, each by its two bounds.                                      *)

LEMMA By4 == \A d \in Int : d \div 4 \in Int /\ 4 * (d \div 4) <= d /\ d < 4 * (d \div 4) + 4
  BY SMT
LEMMA By100 == \A d \in Int : d \div 100 \in Int /\ 100 * (d \div 100) <= d /\ d < 100 * (d \div 100) + 100
  BY SMT
LEMMA By400 == \A d \in Int : d \div 400 \in Int /\ 400 * (d \div 400) <= d /\ d < 400 * (d \div 400) + 400
  BY SMT
LEMMA Rem == \A d \in Int : /\ d % 4 = d - 4 * (d \div 4) /\ d % 100 = d - 100 * (d \div 100)
                            /\ d % 400 = d - 400 * (d \div 400)
  BY SMT
LEMMA By365 == \A d \in Int : d \div 365 \in Int /\ 365 * (d \div 365) <= d /\ d < 365 * (d \div 365) + 365
  BY SMT
LEMMA By1460 == \A d \in Int : d \div 1460 \in Int /\ 1460 * (d \div 1460) <= d /\ d < 1460 * (d \div 1460) + 1460
  BY SMT
LEMMA By36524 == \A d \in Int : d \div 36524 \in Int /\ 36524 * (d \div 36524) <= d /\ d < 36524 * (d \div 36524) + 36524
  BY SMT
LEMMA By146096 == \A d \in Int : d \div 146096 \in Int /\ 146096 * (d \div 146096) <= d /\ d < 146096 * (d \div 146096) + 146096
  BY SMT
LEMMA By146097 == \A d \in Int : d \div 146097 \in Int /\ 146097 * (d \div 146097) <= d /\ d < 146097 * (d \div 146097) + 146097
  BY SMT
\* Division towards zero, corrected below era 0, is division towards minus
\* infinity: the published algorithm's two arms are one.
LEMMA Eras ==
  \A a \in Int : EraOf(a, 400) = a \div 400 /\ EraOf(a, 146097) = a \div 146097
<1> SUFFICES ASSUME NEW a \in Int
             PROVE  EraOf(a, 400) = a \div 400 /\ EraOf(a, 146097) = a \div 146097
  OBVIOUS
<1>1. CASE a >= 0
  BY <1>1, SMT DEF EraOf, Quot
<1>2. CASE a < 0
  <2>1. EraOf(a, 400) = -((399 - a) \div 400) /\ EraOf(a, 146097) = -((146096 - a) \div 146097)
    BY <1>2, SMT DEF EraOf, Quot
  <2>2. -((399 - a) \div 400) = a \div 400
    <3>1. PICK q \in Int : q = (399 - a) \div 400 /\ 400 * q <= 399 - a /\ 399 - a < 400 * q + 400
      <4>1. 399 - a \in Int BY SMT
      <4> QED BY <4>1, By400
    <3>2. PICK p \in Int : p = a \div 400 /\ 400 * p <= a /\ a < 400 * p + 400
      BY By400
    <3>3. -q = p
      <4>1. 400 * q <= 399 - a /\ 399 - a < 400 * q + 400 /\ 400 * p <= a /\ a < 400 * p + 400
        BY <3>1, <3>2
      <4> QED BY ONLY <4>1, q \in Int, p \in Int, a \in Int, SMT
    <3> QED BY <3>1, <3>2, <3>3
  <2>3. -((146096 - a) \div 146097) = a \div 146097
    <3>1. PICK q \in Int : q = (146096 - a) \div 146097 /\ 146097 * q <= 146096 - a /\ 146096 - a < 146097 * q + 146097
      <4>1. 146096 - a \in Int BY SMT
      <4> QED BY <4>1, By146097
    <3>2. PICK p \in Int : p = a \div 146097 /\ 146097 * p <= a /\ a < 146097 * p + 146097
      BY By146097
    <3>3. -q = p
      <4>1. 146097 * q <= 146096 - a /\ 146096 - a < 146097 * q + 146097 /\ 146097 * p <= a /\ a < 146097 * p + 146097
        BY <3>1, <3>2
      <4> QED BY ONLY <4>1, q \in Int, p \in Int, a \in Int, SMT
    <3> QED BY <3>1, <3>2, <3>3
  <2> QED BY <2>1, <2>2, <2>3
<1> QED BY <1>1, <1>2, SMT

\* The year of an era, with every quotient by its two bounds: no day of the
\* era falls outside its 400 years, and none past the end of its year.
LEMMA YearArith ==
  ASSUME NEW doe \in Int, 0 <= doe, doe <= 146096,
    NEW a \in Int, NEW b \in Int, NEW c \in Int, NEW y \in Int, NEW q \in Int, NEW h \in Int,
    1460 * a <= doe, doe < 1460 * a + 1460,
    36524 * b <= doe, doe < 36524 * b + 36524,
    146096 * c <= doe, doe < 146096 * c + 146096,
    365 * y <= doe - a + b - c, doe - a + b - c < 365 * y + 365,
    4 * q <= y, y < 4 * q + 4,
    100 * h <= y, y < 100 * h + 100
  PROVE /\ 0 <= y /\ y <= 399 
        /\ 0 <= doe - (365 * y + q - h) /\ doe - (365 * y + q - h) <= 365
        /\ doe - (365 * y + q - h) = 365 => y + 1 = 4 * q + 4 /\ (y + 1 = 100 * h + 100 => y = 399)
  BY SMTT(60)
\* Every day of an era has a year and a day of that year; day 365 exists only
\* where the February that ends the year is a leap one.
LEMMA YearFits ==
  ASSUME NEW doe \in Int, 0 <= doe, doe <= 146096
  PROVE LET y == YearOfEra(doe)
            r == DayOfYear(doe, y)
        IN /\ y \in Int /\ 0 <= y /\ y <= 399
           /\ r \in Int /\ 0 <= r /\ r <= 365
           /\ r = 365 => IsLeap(y + 1)
<1>1. PICK a \in Int : a = doe \div 1460 /\ 1460 * a <= doe /\ doe < 1460 * a + 1460
  BY By1460, SMT
<1>2. PICK b \in Int : b = doe \div 36524 /\ 36524 * b <= doe /\ doe < 36524 * b + 36524
  BY By36524, SMT
<1>3. PICK c \in Int : c = doe \div 146096 /\ 146096 * c <= doe /\ doe < 146096 * c + 146096
  BY By146096, SMT
<1>4. PICK y \in Int : y = YearOfEra(doe) /\ 365 * y <= doe - a + b - c /\ doe - a + b - c < 365 * y + 365
  <2>1. doe - a + b - c \in Int BY SMT
  <2>2. YearOfEra(doe) = (doe - a + b - c) \div 365
     BY <1>1, <1>2, <1>3, SMT DEF YearOfEra
  <2> QED BY <2>1, <2>2, By365, SMT
<1>5. PICK q \in Int : q = y \div 4 /\ 4 * q <= y /\ y < 4 * q + 4
  BY <1>4, By4, SMT
<1>6. PICK h \in Int : h = y \div 100 /\ 100 * h <= y /\ y < 100 * h + 100
  BY <1>4, By100, SMT
<1>7. DayOfYear(doe, y) = doe - (365 * y + q - h)
  BY <1>5, <1>6, SMT DEF DayOfYear
<1>8. /\ 0 <= y /\ y <= 399 
      /\ 0 <= doe - (365 * y + q - h) /\ doe - (365 * y + q - h) <= 365
      /\ doe - (365 * y + q - h) = 365 => y + 1 = 4 * q + 4 /\ (y + 1 = 100 * h + 100 => y = 399)
  <2>1. /\ 1460 * a <= doe /\ doe < 1460 * a + 1460
        /\ 36524 * b <= doe /\ doe < 36524 * b + 36524
        /\ 146096 * c <= doe /\ doe < 146096 * c + 146096
        /\ 365 * y <= doe - a + b - c /\ doe - a + b - c < 365 * y + 365
        /\ 4 * q <= y /\ y < 4 * q + 4 /\ 100 * h <= y /\ y < 100 * h + 100
    BY <1>1, <1>2, <1>3, <1>4, <1>5, <1>6
  <2>2. QED
    BY ONLY <2>1, 0 <= doe, doe <= 146096, doe \in Int, a \in Int, b \in Int, c \in Int, y \in Int,
            q \in Int, h \in Int, SMTT(60)
<1>9. ASSUME doe - (365 * y + q - h) = 365
      PROVE  IsLeap(y + 1)
  <2>1. y + 1 = 4 * q + 4 /\ (y + 1 = 100 * h + 100 => y = 399)
    BY <1>8, <1>9
  <2>2. (y + 1) % 4 = 0
    BY <2>1, SMT
  <2>3. CASE y = 399
    BY <2>3, SMT DEF IsLeap
  <2>4. CASE y + 1 # 100 * h + 100
    <3>1. 100 * h <= y /\ y < 100 * h + 100
      BY <1>6
    <3>2. (y + 1) % 100 # 0
      BY ONLY <3>1, <2>4, y \in Int, h \in Int, SMT
    <3> QED BY <2>2, <3>2, SMT DEF IsLeap
  <2> QED BY <2>1, <2>3, <2>4
<1> QED
  BY <1>4, <1>7, <1>8, <1>9, SMT

\* The month of a day of a year that begins in March, and its first day.
March(r) == (5 * r + 2) \div 153
First(mp) == (153 * mp + 2) \div 5

\* Every day of a year has a month and a day that month holds, February with
\* its 29th only on day 365.
LEMMA Months ==
  ASSUME NEW r \in Int, 0 <= r, r <= 365
  PROVE /\ March(r) \in 0 .. 11
        /\ r - First(March(r)) + 1 \in 1 .. 31
        /\ March(r) \in {1, 3, 6, 8} => r - First(March(r)) + 1 <= 30
        /\ March(r) = 11 => r - First(March(r)) + 1 <= 29 /\ (r < 365 => r - First(March(r)) + 1 <= 28)
BY SMTT(60) DEF March, First

\* The parts of a day: year of the era, era, day of the year.
IsDay(y, e, r) ==
  /\ y \in Int /\ 0 <= y /\ y <= 399 /\ e \in Int
  /\ r \in Int /\ 0 <= r /\ r <= 365 /\ (r = 365 => IsLeap(y + 1))

\* A date, and how it follows from the parts.
IsDate(d, y, e, r) ==
  /\ d.year \in Int /\ d.month \in 1 .. 12 /\ d.day \in 1 .. 31
  /\ d.day <= DaysInMonth(d.year, d.month)
  /\ d.month > 2 => d.year = y + 400 * e /\ d.month = March(r) + 3
  /\ d.month <= 2 => d.year = y + 400 * e + 1 /\ d.month = March(r) - 9
  /\ d.day = r - First(March(r)) + 1

\* What the year, the era and the day of the year make is a date.
LEMMA CivilParts ==
  ASSUME NEW y, NEW e, NEW r, IsDay(y, e, r)
  PROVE IsDate(Civil(y, e, r), y, e, r)
<1>0. PICK d : d = Civil(y, e, r)
  OBVIOUS
<1>a. y \in Int /\ 0 <= y /\ y <= 399 /\ e \in Int /\ r \in Int /\ 0 <= r /\ r <= 365
  BY DEF IsDay
<1>1. PICK m \in 0 .. 11 : m = March(r)
  BY <1>a, Months
<1>2. PICK f \in 1 .. 31 : f = r - First(m) + 1
  BY <1>a, Months, <1>1
<1>3. /\ d.day = f
      /\ d.month = IF m < 10 THEN m + 3 ELSE m - 9
      /\ d.year = IF d.month <= 2 THEN y + e * 400 + 1 ELSE y + e * 400
  BY <1>0, <1>1, <1>2, SMT DEF Civil, March, First
<1>4. /\ d.year \in Int /\ d.month \in 1 .. 12
      /\ d.month > 2 => d.year = y + 400 * e /\ d.month = m + 3
      /\ d.month <= 2 => d.year = y + 400 * e + 1 /\ d.month = m - 9
  BY <1>a, <1>3, SMT
<1>5. IsLeap(y + 1) => IsLeap(y + 1 + 400 * e)
  <2> SUFFICES ASSUME NEW x \in Int PROVE IsLeap(x) => IsLeap(x + 400 * e)
    BY <1>a, SMT
  <2>1. (x + 400 * e) % 4 = x % 4 /\ (x + 400 * e) % 100 = x % 100 /\ (x + 400 * e) % 400 = x % 400
    BY <1>a, SMT
  <2> QED BY <2>1, SMT DEF IsLeap
<1>6. f <= DaysInMonth(d.year, d.month)
  <2>1. m \in {1, 3, 6, 8} => f <= 30
    BY <1>a, Months, <1>1, <1>2, SMT
  <2>2. m = 11 => f <= 29 /\ (r < 365 => f <= 28)
    <3>1. March(r) = 11 => r - First(March(r)) + 1 <= 29 /\ (r < 365 => r - First(March(r)) + 1 <= 28)
      BY <1>a, Months
    <3>2. f = r - First(March(r)) + 1
      BY <1>1, <1>2
    <3> QED BY <1>1, <3>1, <3>2
  <2>3. CASE m # 11
    BY <1>3, <1>4, <2>1, <2>3, SMT DEF DaysInMonth
  <2>4. CASE m = 11
    <3>1. d.month = 2 /\ d.year = y + 1 + 400 * e
      BY <1>a, <2>4, <1>3, <1>4, SMT
    <3>2. CASE r = 365
      <4>1. IsLeap(d.year)
        BY <3>1, <3>2, <1>5 DEF IsDay
      <4> QED BY <3>1, <4>1, <2>2, <2>4, SMT DEF DaysInMonth
    <3>3. CASE r < 365
      BY <3>1, <3>3, <2>2, <2>4, SMT DEF DaysInMonth
    <3> QED BY <1>a, <3>2, <3>3, SMT
  <2> QED BY <2>3, <2>4
<1> QED BY <1>0, <1>1, <1>2, <1>3, <1>4, <1>6 DEF IsDate

\* The days of an era before a year of it.
Marches(y) == 365 * y + y \div 4 - y \div 100

\* The era of a year counted in its era.
InEra(x, y, e) ==
  x \in Int /\ y \in Int /\ e \in Int /\ 0 <= y /\ y <= 399 /\ x = y + 400 * e

LEMMA Shift ==
  ASSUME NEW x, NEW y, NEW e, InEra(x, y, e)
  PROVE EraOf(x, 400) = e
<1>0. x \in Int /\ y \in Int /\ e \in Int /\ 0 <= y /\ y <= 399 /\ x = y + 400 * e
  BY DEF InEra
<1>1. PICK q \in Int : q = x \div 400 /\ 400 * q <= x /\ x < 400 * q + 400
  BY <1>0, By400
<1>2. q = e
  <2>1. 400 * q <= x /\ x < 400 * q + 400
    BY <1>1
  <2> QED BY ONLY <1>0, <2>1, q \in Int, SMT
<1>3. EraOf(x, 400) = x \div 400
  <2>1. x \in Int BY <1>0
  <2> QED BY ONLY <2>1, Eras, SMT
<1> QED BY <1>1, <1>2, <1>3

\* days_from_civil undoes the parts.
LEMMA Back ==
  ASSUME NEW y, NEW e, NEW r, IsDay(y, e, r)
  PROVE LET d == Civil(y, e, r)
        IN DaysFromCivil(d.year, d.month, d.day) = e * 146097 + Marches(y) + r - 719468
<1>a. y \in Int /\ 0 <= y /\ y <= 399 /\ e \in Int /\ r \in Int /\ 0 <= r /\ r <= 365
  BY DEF IsDay
<1>1. PICK d : d = Civil(y, e, r)
  OBVIOUS
<1>2. /\ d.year \in Int /\ d.month \in 1 .. 12 /\ d.day \in 1 .. 31
      /\ d.month > 2 => d.year = y + 400 * e /\ d.month = March(r) + 3
      /\ d.month <= 2 => d.year = y + 400 * e + 1 /\ d.month = March(r) - 9
      /\ d.day = r - First(March(r)) + 1
  BY <1>1, CivilParts DEF IsDate
<1>3. PICK u : u = IF d.month <= 2 THEN d.year - 1 ELSE d.year
  OBVIOUS
<1>4. PICK m : m = IF d.month > 2 THEN d.month - 3 ELSE d.month + 9
  OBVIOUS
<1>5. March(r) \in 0 .. 11
  BY <1>a, Months
<1>6. u = y + 400 * e /\ m = March(r)
  BY <1>a, <1>2, <1>3, <1>4, <1>5, SMT
<1>7. EraOf(u, 400) = e
  <2>1. u \in Int BY <1>a, <1>6, SMT
  <2>2. InEra(u, y, e) BY <1>a, <1>6, <2>1 DEF InEra
  <2> QED BY <2>2, Shift
<1>8. u - e * 400 = y
  BY <1>a, <1>6, SMT
<1>9. First(m) \in Int
  BY <1>5, <1>6, SMT DEF First
<1>10. First(m) + d.day - 1 = r
  BY <1>a, <1>2, <1>6, <1>9, SMT
<1>11. DaysFromCivil(d.year, d.month, d.day)
        = e * 146097 + (y * 365 + y \div 4 - y \div 100 + (First(m) + d.day - 1)) - 719468
  <2>1. DaysFromCivil(d.year, d.month, d.day)
        = EraOf(u, 400) * 146097 + ((u - EraOf(u, 400) * 400) * 365 + (u - EraOf(u, 400) * 400) \div 4 - (u - EraOf(u, 400) * 400) \div 100 + (First(m) + d.day - 1)) - 719468
    BY <1>3, <1>4 DEF DaysFromCivil, First
  <2> QED BY <2>1, <1>7, <1>8
<1>12. y \div 4 \in Int /\ y \div 100 \in Int
  BY <1>a, By4, By100, SMT
<1> QED BY <1>a, <1>1, <1>10, <1>11, <1>12, SMT DEF Marches

\* Every day number has its parts, and is their sum.
LEMMA Parts ==
  ASSUME NEW days \in Int
  PROVE \E y, e, r : /\ IsDay(y, e, r)
                     /\ CivilFromDays(days) = Civil(y, e, r)
                     /\ Marches(y) + r \in Int
                     /\ 0 <= Marches(y) + r /\ Marches(y) + r <= 146096
                     /\ days = e * 146097 + Marches(y) + r - 719468
<1>1. PICK z \in Int : z = days + 719468
  BY SMT
<1>2. PICK e \in Int : e = EraOf(z, 146097) /\ e = z \div 146097
                       /\ 146097 * e <= z /\ z < 146097 * e + 146097
  BY Eras, By146097, SMT
<1>3. PICK doe \in Int : doe = z - e * 146097
  BY SMT
<1>4. 0 <= doe /\ doe <= 146096
  <2>1. 146097 * e <= z /\ z < 146097 * e + 146097
    BY <1>2
  <2> QED BY ONLY <2>1, <1>3, z \in Int, e \in Int, SMT
<1>5. PICK y : y = YearOfEra(doe)
  OBVIOUS
<1>6. PICK r : r = DayOfYear(doe, y)
  OBVIOUS
<1>7. /\ y \in Int /\ 0 <= y /\ y <= 399
      /\ r \in Int /\ 0 <= r /\ r <= 365
      /\ r = 365 => IsLeap(y + 1)
  BY <1>4, <1>5, <1>6, YearFits
<1>8. CivilFromDays(days) = Civil(y, e, r)
  BY <1>1, <1>2, <1>3, <1>5, <1>6 DEF CivilFromDays
<1>9. y \div 4 \in Int /\ y \div 100 \in Int
  BY <1>7, By4, By100, SMT
<1>10. Marches(y) + r = doe
  BY <1>6, <1>7, <1>9, SMT DEF Marches, DayOfYear
<1>11. Marches(y) \in Int
  BY <1>7, <1>9, SMT DEF Marches
<1>12. days = e * 146097 + Marches(y) + r - 719468
  BY <1>1, <1>3, <1>7, <1>10, <1>11, SMT
<1> QED BY <1>4, <1>7, <1>8, <1>10, <1>12 DEF IsDay

\* Every day number, of any size, is a valid date that counts back to it
\* (time.rs days_from_civil and civil_from_days, which the code tests day by day
\* over the representable years).
THEOREM CivilRoundTrip ==
  ASSUME NEW days \in Int
  PROVE LET d == CivilFromDays(days)
        IN /\ d.year \in Int /\ d.month \in 1 .. 12
           /\ d.day \in 1 .. DaysInMonth(d.year, d.month)
           /\ DaysFromCivil(d.year, d.month, d.day) = days
<1>1. PICK y, e, r : /\ IsDay(y, e, r)
                     /\ CivilFromDays(days) = Civil(y, e, r)
                     /\ days = e * 146097 + Marches(y) + r - 719468
  BY Parts
<1>2. PICK d : d = CivilFromDays(days)
  OBVIOUS
<1>3. /\ d.year \in Int /\ d.month \in 1 .. 12 /\ d.day \in 1 .. 31
      /\ d.day <= DaysInMonth(d.year, d.month)
  BY <1>1, <1>2, CivilParts DEF IsDate
<1>4. DaysInMonth(d.year, d.month) \in Int
  BY <1>3, SMT DEF DaysInMonth
<1>5. DaysFromCivil(d.year, d.month, d.day) = days
  BY <1>1, <1>2, Back
<1> QED BY <1>2, <1>3, <1>4, <1>5, SMT

\* A year's days lie before the next year's.
LEMMA YearStep ==
  ASSUME NEW y \in Int, NEW w \in Int, NEW r \in Int, NEW s \in Int, 0 <= y, y < w, w <= 399,
         0 <= r, r <= 365, r = 365 => IsLeap(y + 1), 0 <= s
  PROVE Marches(y) + r < Marches(w) + s
<1>1. PICK q \in Int : q = y \div 4 /\ 4 * q <= y /\ y < 4 * q + 4
  BY By4, SMT
<1>2. PICK h \in Int : h = y \div 100 /\ 100 * h <= y /\ y < 100 * h + 100
  BY By100, SMT
<1>3. PICK q2 \in Int : q2 = w \div 4 /\ 4 * q2 <= w /\ w < 4 * q2 + 4
  BY By4, SMT
<1>4. PICK h2 \in Int : h2 = w \div 100 /\ 100 * h2 <= w /\ w < 100 * h2 + 100
  BY By100, SMT
<1>5. r = 365 => y + 1 = 4 * q + 4 /\ (y + 1 = 100 * h + 100 => y = 399)
  <2> SUFFICES ASSUME IsLeap(y + 1) PROVE y + 1 = 4 * q + 4 /\ (y + 1 = 100 * h + 100 => y = 399)
    OBVIOUS
  <2>1. (y + 1) % 4 = 0
    BY SMT DEF IsLeap
  <2>2. (y + 1) % 100 # 0 \/ (y + 1) % 400 = 0
    BY DEF IsLeap
  <2>3. y + 1 = 4 * q + 4
    BY <2>1, <1>1, SMT
  <2>4. y + 1 = 100 * h + 100 => (y + 1) % 100 = 0
    BY SMT
  <2>5. (y + 1) % 400 = 0 => y = 399
    BY SMT
  <2> QED BY <2>2, <2>3, <2>4, <2>5
<1>6. 365 * y + q - h + r < 365 * w + q2 - h2 + s
  <2>1. /\ 4 * q <= y /\ y < 4 * q + 4 /\ 100 * h <= y /\ y < 100 * h + 100
        /\ 4 * q2 <= w /\ w < 4 * q2 + 4 /\ 100 * h2 <= w /\ w < 100 * h2 + 100
    BY <1>1, <1>2, <1>3, <1>4
  <2> QED BY ONLY <2>1, <1>5, y \in Int, w \in Int, r \in Int, s \in Int, q \in Int, h \in Int, q2 \in Int, h2 \in Int,
          0 <= y, y < w, w <= 399, 0 <= r, r <= 365, 0 <= s, SMTT(30)
<1> QED BY <1>1, <1>2, <1>3, <1>4, <1>6, SMT DEF Marches

\* Within a year a later day has a later month, or a later day of it.
LEMMA MonthStep ==
  ASSUME NEW r \in Int, NEW s \in Int, 0 <= r, r < s, s <= 365
  PROVE \/ March(r) < March(s)
        \/ March(r) = March(s) /\ r - First(March(r)) + 1 < s - First(March(s)) + 1
<1>1. March(r) \in 0 .. 11 /\ March(s) \in 0 .. 11
  BY Months, SMT
<1>2. March(r) <= March(s)
  BY SMT DEF March
<1>3. First(March(r)) \in Int
  BY <1>1, SMT DEF First
<1>4. March(r) = March(s) => First(March(r)) = First(March(s))
  OBVIOUS
<1> QED BY <1>1, <1>2, <1>3, <1>4, SMT

\* A later day is a later date, compared from the year down.
THEOREM DatesAreOrdered ==
  ASSUME NEW days \in Int, NEW later \in Int, days < later
  PROVE EarlierDate(CivilFromDays(days), CivilFromDays(later))
<1>1. PICK y, e, r : /\ IsDay(y, e, r)
                     /\ CivilFromDays(days) = Civil(y, e, r)
                     /\ Marches(y) + r \in Int
                     /\ 0 <= Marches(y) + r /\ Marches(y) + r <= 146096
                     /\ days = e * 146097 + Marches(y) + r - 719468
  BY Parts
<1>2. PICK w, f, s : /\ IsDay(w, f, s)
                     /\ CivilFromDays(later) = Civil(w, f, s)
                     /\ Marches(w) + s \in Int
                     /\ 0 <= Marches(w) + s /\ Marches(w) + s <= 146096
                     /\ later = f * 146097 + Marches(w) + s - 719468
  BY Parts
<1>3. /\ y \in Int /\ 0 <= y /\ y <= 399 /\ e \in Int /\ r \in Int /\ 0 <= r /\ r <= 365
      /\ w \in Int /\ 0 <= w /\ w <= 399 /\ f \in Int /\ s \in Int /\ 0 <= s /\ s <= 365
  BY <1>1, <1>2 DEF IsDay
<1>4. Marches(y) \in Int /\ Marches(w) \in Int
  BY <1>3, By4, By100, SMT DEF Marches
<1>5. w < y => Marches(w) + s < Marches(y) + r
  BY <1>2, <1>3, YearStep DEF IsDay
<1>6. e < f \/ (e = f /\ y < w) \/ (e = f /\ y = w /\ r < s)
  <2>1. PICK a \in Int : a = Marches(y) + r
    BY <1>1
  <2>2. PICK b \in Int : b = Marches(w) + s
    BY <1>2
  <2>3. days = e * 146097 + a - 719468 /\ later = f * 146097 + b - 719468
    BY <1>1, <1>2, <1>3, <1>4, <2>1, <2>2, SMT
  <2>4. e < f \/ (e = f /\ a < b)
    <3>1. 0 <= a /\ a <= 146096 /\ 0 <= b /\ b <= 146096
      BY <1>1, <1>2, <2>1, <2>2
    <3>2. e \in Int /\ f \in Int
      BY <1>3
    <3>3. e * 146097 + a - 719468 < f * 146097 + b - 719468
      BY <2>3
    <3> QED BY ONLY <3>1, <3>2, <3>3, a \in Int, b \in Int, SMT
  <2>5. y = w => Marches(y) = Marches(w)
    OBVIOUS
  <2> QED BY <1>3, <1>4, <1>5, <2>1, <2>2, <2>4, <2>5, SMT
<1>7. PICK c : c = CivilFromDays(days)
  OBVIOUS
<1>8. PICK d : d = CivilFromDays(later)
  OBVIOUS
<1>9. /\ c.year \in Int /\ c.month \in 1 .. 12 /\ c.day \in 1 .. 31
      /\ c.month > 2 => c.year = y + 400 * e /\ c.month = March(r) + 3
      /\ c.month <= 2 => c.year = y + 400 * e + 1 /\ c.month = March(r) - 9
      /\ c.day = r - First(March(r)) + 1
  BY <1>1, <1>7, CivilParts DEF IsDate
<1>10. /\ d.year \in Int /\ d.month \in 1 .. 12 /\ d.day \in 1 .. 31
       /\ d.month > 2 => d.year = w + 400 * f /\ d.month = March(s) + 3
       /\ d.month <= 2 => d.year = w + 400 * f + 1 /\ d.month = March(s) - 9
       /\ d.day = s - First(March(s)) + 1
  BY <1>2, <1>8, CivilParts DEF IsDate
<1>11. March(r) \in 0 .. 11 /\ March(s) \in 0 .. 11
  BY <1>3, Months
<1>12. CASE y + 400 * e < w + 400 * f
  <2>1. c.year < d.year \/ (c.year = d.year /\ c.month < d.month)
    BY <1>3, <1>9, <1>10, <1>11, <1>12, SMT
  <2> QED BY <2>1, <1>7, <1>8 DEF EarlierDate
<1>13. CASE e = f /\ y = w /\ r < s
  <2>1. \/ March(r) < March(s)
        \/ March(r) = March(s) /\ r - First(March(r)) + 1 < s - First(March(s)) + 1
    BY <1>3, <1>13, MonthStep
  <2>2. \/ c.year < d.year
        \/ c.year = d.year /\ c.month < d.month
        \/ c.year = d.year /\ c.month = d.month /\ c.day < d.day
    BY <1>3, <1>9, <1>10, <1>11, <1>13, <2>1, SMT
  <2> QED BY <2>2, <1>7, <1>8 DEF EarlierDate
<1> QED BY <1>3, <1>6, <1>12, <1>13, SMT

-----------------------------------------------------------------------------
(* Instants.                                                               *)

\* An instant is a day and a second of it.
LEMMA Instant ==
  ASSUME NEW e \in Int
  PROVE  \E days \in Int, sod \in Int :
           /\ days = e \div Day /\ sod = e % Day
           /\ 0 <= sod /\ sod < Day /\ e = days * Day + sod
<1>1. PICK days \in Int : days = e \div 86400 /\ 86400 * days <= e /\ e < 86400 * days + 86400
  BY SMT
<1>2. PICK sod \in Int : sod = e % 86400 /\ sod = e - 86400 * days
  BY <1>1, SMT
<1>3. 0 <= sod /\ sod < 86400 /\ e = days * 86400 + sod
  <2>1. 86400 * days <= e /\ e < 86400 * days + 86400 /\ sod = e - 86400 * days
    BY <1>1, <1>2
  <2>2. QED
    BY ONLY <2>1, e \in Int, days \in Int, sod \in Int, SMT
<1>4. QED
  BY <1>1, <1>2, <1>3 DEF Day

\* The fields of the second of a day are in range and count back to it.
LEMMA Clock ==
  ASSUME NEW sod \in Int, 0 <= sod, sod < 86400
  PROVE  \E h \in Int, m \in Int, s \in Int :
           /\ h = sod \div 3600 /\ m = (sod % 3600) \div 60 /\ s = sod % 60
           /\ 0 <= h /\ h <= 23 /\ 0 <= m /\ m <= 59 /\ 0 <= s /\ s <= 59
           /\ h * 3600 + m * 60 + s = sod
<1>1. PICK h \in Int : h = sod \div 3600 /\ 3600 * h <= sod /\ sod < 3600 * h + 3600
  BY SMT
<1>2. PICK rest \in Int : rest = sod % 3600 /\ rest = sod - 3600 * h
  BY <1>1, SMT
<1>3. PICK m \in Int : m = rest \div 60 /\ 60 * m <= rest /\ rest < 60 * m + 60
  BY SMT
<1>4. PICK n \in Int : n = sod \div 60 /\ 60 * n <= sod /\ sod < 60 * n + 60
  BY SMT
<1>5. PICK s \in Int : s = sod % 60 /\ s = sod - 60 * n
  BY <1>4, SMT
<1>6. /\ 0 <= h /\ h <= 23 /\ 0 <= m /\ m <= 59 /\ 0 <= s /\ s <= 59
      /\ h * 3600 + m * 60 + s = sod
  <2>1. /\ 3600 * h <= sod /\ sod < 3600 * h + 3600 /\ rest = sod - 3600 * h
        /\ 60 * m <= rest /\ rest < 60 * m + 60
        /\ 60 * n <= sod /\ sod < 60 * n + 60 /\ s = sod - 60 * n
    BY <1>1, <1>2, <1>3, <1>4, <1>5
  <2>2. QED
    BY ONLY <2>1, 0 <= sod, sod < 86400, sod \in Int, h \in Int, m \in Int, n \in Int, s \in Int,
            rest \in Int, SMT
<1>7. QED
  BY <1>1, <1>2, <1>3, <1>5, <1>6

\* from_epoch and format_epoch in terms of the day and the second of the day.
LEMMA InBand ==
  ASSUME NEW e, NEW days, days = e \div Day
  PROVE  /\ FromEpoch(e).error = "none" <=> CivilFromDays(days).year \in Years
         /\ FromEpoch(e).error = "none" => FromEpoch(e) = Accepted(e)
<1>1. FromEpoch(e) = IF CivilFromDays(days).year \in Years THEN Accepted(e)
                     ELSE Refused("OutOfRange")
  BY DEF FromEpoch
<1>2. Accepted(e).error = "none" /\ Refused("OutOfRange").error # "none"
  BY DEF Accepted, Refused
<1>3. QED
  BY <1>1, <1>2

LEMMA Written ==
  ASSUME NEW e, NEW days, NEW sod, NEW h, NEW m, NEW s, days = e \div Day, sod = e % Day,
         h = sod \div 3600, m = (sod % 3600) \div 60, s = sod % 60,
         NEW d, d = CivilFromDays(days)
  PROVE  FormatEpoch(e) = [year |-> d.year, month |-> d.month, day |-> d.day,
                           hour |-> h, minute |-> m, second |-> s]
BY DEF FormatEpoch, Timestamp

\* The canonical text of every representable instant parses to that instant:
\* a stored watermark reads back as itself.
THEOREM TextRoundTrip ==
  ASSUME NEW e \in Int, FromEpoch(e).error = "none"
  PROVE  Parse("Zulu", FormatEpoch(e)) = Accepted(e)
<1>1. PICK days \in Int, sod \in Int :
        /\ days = e \div Day /\ sod = e % Day
        /\ 0 <= sod /\ sod < Day /\ e = days * Day + sod
  BY Instant
<1>2. PICK d : d = CivilFromDays(days)
  OBVIOUS
<1>3. /\ d.month \in 1 .. 12 /\ d.day \in 1 .. DaysInMonth(d.year, d.month)
      /\ DaysFromCivil(d.year, d.month, d.day) = days
  BY <1>2, CivilRoundTrip
<1>4. d.year \in Years
  <2>1. days = e \div Day
    BY <1>1
  <2>2. QED
    BY <1>2, <2>1, InBand
<1>5. PICK h \in Int, m \in Int, s \in Int :
        /\ h = sod \div 3600 /\ m = (sod % 3600) \div 60 /\ s = sod % 60
        /\ 0 <= h /\ h <= 23 /\ 0 <= m /\ m <= 59 /\ 0 <= s /\ s <= 59
        /\ h * 3600 + m * 60 + s = sod
  BY <1>1, Clock DEF Day
<1>6. FormatEpoch(e) = [year |-> d.year, month |-> d.month, day |-> d.day,
                        hour |-> h, minute |-> m, second |-> s]
  <2>1. days = e \div Day /\ sod = e % Day
    BY <1>1
  <2>2. h = sod \div 3600 /\ m = (sod % 3600) \div 60 /\ s = sod % 60
    BY <1>5
  <2>3. QED
    BY <1>2, <2>1, <2>2, Written
<1>7. d.day >= 1 /\ d.day <= DaysInMonth(d.year, d.month)
  <2>1. DaysInMonth(d.year, d.month) \in Int
    BY SMT DEF DaysInMonth
  <2>2. QED
    BY <1>3, <2>1, SMT
<1>8. InRange(FormatEpoch(e))
  BY <1>3, <1>4, <1>5, <1>6, <1>7 DEF InRange
<1>9. Parse("Zulu", FormatEpoch(e)) = Accepted(days * Day + sod)
  BY <1>3, <1>5, <1>6, <1>8 DEF Parse
<1>10. QED
  BY <1>1, <1>9

\* Texts sort as instants do, before 1970 and across leap days and centuries:
\* ORDER BY on a timestamp column is chronological.
THEOREM OrderIsTime ==
  ASSUME NEW e \in Int, NEW l \in Int, e < l
  PROVE  SortsBefore(FormatEpoch(e), FormatEpoch(l))
<1>1. PICK days \in Int, sod \in Int :
        /\ days = e \div Day /\ sod = e % Day
        /\ 0 <= sod /\ sod < Day /\ e = days * Day + sod
  BY Instant
<1>2. PICK later \in Int, sol \in Int :
        /\ later = l \div Day /\ sol = l % Day
        /\ 0 <= sol /\ sol < Day /\ l = later * Day + sol
  BY Instant
<1>3. PICK h \in Int, m \in Int, s \in Int :
        /\ h = sod \div 3600 /\ m = (sod % 3600) \div 60 /\ s = sod % 60
        /\ 0 <= h /\ h <= 23 /\ 0 <= m /\ m <= 59 /\ 0 <= s /\ s <= 59
        /\ h * 3600 + m * 60 + s = sod
  BY <1>1, Clock DEF Day
<1>4. PICK i \in Int, n \in Int, t \in Int :
        /\ i = sol \div 3600 /\ n = (sol % 3600) \div 60 /\ t = sol % 60
        /\ 0 <= i /\ i <= 23 /\ 0 <= n /\ n <= 59 /\ 0 <= t /\ t <= 59
        /\ i * 3600 + n * 60 + t = sol
  BY <1>2, Clock DEF Day
<1>5. days < later \/ (days = later /\ sod < sol)
  <2>1. 0 <= sod /\ sod < 86400 /\ 0 <= sol /\ sol < 86400
        /\ days * 86400 + sod < later * 86400 + sol
    BY <1>1, <1>2 DEF Day
  <2>2. QED
    BY ONLY <2>1, days \in Int, later \in Int, sod \in Int, sol \in Int, SMT
<1>6. PICK c : c = CivilFromDays(days)
  OBVIOUS
<1>7. PICK d : d = CivilFromDays(later)
  OBVIOUS
<1>8. /\ FormatEpoch(e) = [year |-> c.year, month |-> c.month, day |-> c.day,
                           hour |-> h, minute |-> m, second |-> s]
      /\ FormatEpoch(l) = [year |-> d.year, month |-> d.month, day |-> d.day,
                           hour |-> i, minute |-> n, second |-> t]
  <2>1. days = e \div Day /\ sod = e % Day /\ later = l \div Day /\ sol = l % Day
    BY <1>1, <1>2
  <2>2. /\ h = sod \div 3600 /\ m = (sod % 3600) \div 60 /\ s = sod % 60
        /\ i = sol \div 3600 /\ n = (sol % 3600) \div 60 /\ t = sol % 60
    BY <1>3, <1>4
  <2>3. QED
    BY <1>6, <1>7, <2>1, <2>2, Written
<1>9. CASE days < later
  <2>1. EarlierDate(c, d)
    BY <1>6, <1>7, <1>9, DatesAreOrdered
  <2>2. EarlierDate(FormatEpoch(e), FormatEpoch(l))
    BY <1>8, <2>1 DEF EarlierDate
  <2>3. QED
    BY <2>2 DEF SortsBefore
<1>10. CASE days = later /\ sod < sol
  <2>1. h < i \/ (h = i /\ m < n) \/ (h = i /\ m = n /\ s < t)
    <3>1. /\ 0 <= m /\ m <= 59 /\ 0 <= s /\ s <= 59 /\ 0 <= n /\ n <= 59 /\ 0 <= t /\ t <= 59
          /\ h * 3600 + m * 60 + s < i * 3600 + n * 60 + t
      BY <1>3, <1>4, <1>10
    <3>2. QED
      BY ONLY <3>1, h \in Int, m \in Int, s \in Int, i \in Int, n \in Int, t \in Int, SMT
  <2>2. c = d
    BY <1>6, <1>7, <1>10
  <2>3. QED
    BY <1>8, <2>1, <2>2 DEF SortsBefore
<1>11. QED
  BY <1>5, <1>9, <1>10

-----------------------------------------------------------------------------
(* The band.                                                               *)

\* The first and the last day of the band.
LEMMA Edges ==
  /\ LET d == CivilFromDays(-719162) IN d.year = 1 /\ d.month = 1 /\ d.day = 1
  /\ LET d == CivilFromDays(2932896) IN d.year = 9999 /\ d.month = 12 /\ d.day = 31
<1>1. /\ EraOf(306, 146097) = 0 /\ EraOf(3652364, 146097) = 24
  BY SMT DEF EraOf, Quot
<1>2. /\ YearOfEra(306) = 0 /\ DayOfYear(306, 0) = 306
      /\ YearOfEra(146036) = 399 /\ DayOfYear(146036, 399) = 305
  BY SMT DEF YearOfEra, DayOfYear
<1>3. CivilFromDays(-719162) = Civil(0, 0, 306)
  <2>1. -719162 + 719468 = 306 /\ 306 - 0 * 146097 = 306
    BY SMT
  <2>2. QED
    BY <1>1, <1>2, <2>1 DEF CivilFromDays
<1>4. CivilFromDays(2932896) = Civil(399, 24, 305)
  <2>1. 2932896 + 719468 = 3652364 /\ 3652364 - 24 * 146097 = 146036
    BY SMT
  <2>2. QED
    BY <1>1, <1>2, <2>1 DEF CivilFromDays
<1>5. LET d == Civil(0, 0, 306) IN d.year = 1 /\ d.month = 1 /\ d.day = 1
  BY SMT DEF Civil
<1>6. LET d == Civil(399, 24, 305) IN d.year = 9999 /\ d.month = 12 /\ d.day = 31
  BY SMT DEF Civil
<1>7. QED
  BY <1>3, <1>4, <1>5, <1>6

\* from_epoch accepts exactly the band MIN_EPOCH .. MAX_EPOCH (time.rs: "accepts
\* exactly this range", which its tests check at the edges).
THEOREM BandIsExact ==
  ASSUME NEW secs \in Int
  PROVE  FromEpoch(secs).error = "none" <=> MinEpoch <= secs /\ secs <= MaxEpoch
<1>1. PICK days \in Int, sod \in Int :
        /\ days = secs \div Day /\ sod = secs % Day
        /\ 0 <= sod /\ sod < Day /\ secs = days * Day + sod
  BY Instant
<1>2. PICK d : d = CivilFromDays(days)
  OBVIOUS
<1>3. /\ d.year \in Int /\ d.month \in Int /\ 1 <= d.month /\ d.month <= 12
      /\ d.day \in Int /\ 1 <= d.day /\ d.day <= 31
  <2>1. PICK y, e, r : IsDay(y, e, r) /\ CivilFromDays(days) = Civil(y, e, r)
    BY Parts
  <2>2. IsDate(d, y, e, r)
    BY <1>2, <2>1, CivilParts
  <2>3. QED
    BY <2>2, SMT DEF IsDate
<1>4. FromEpoch(secs).error = "none" <=> d.year \in Years
  <2>1. days = secs \div Day
    BY <1>1
  <2>2. FromEpoch(secs).error = "none" <=> CivilFromDays(days).year \in Years
    BY <2>1, InBand
  <2>3. QED
    BY <1>2, <2>2
<1>5. PICK first : first = CivilFromDays(-719162)
  OBVIOUS
<1>6. PICK last : last = CivilFromDays(2932896)
  OBVIOUS
<1>7. /\ first.year = 1 /\ first.month = 1 /\ first.day = 1
      /\ last.year = 9999 /\ last.month = 12 /\ last.day = 31
  BY <1>5, <1>6, Edges
<1>8. -719162 \in Int /\ 2932896 \in Int
  BY SMT
<1>9. days < -719162 => d.year < 1
  <2>1. days < -719162 => EarlierDate(d, first)
    BY <1>2, <1>5, <1>8, DatesAreOrdered
  <2>2. QED
    BY <1>3, <1>7, <2>1, SMT DEF EarlierDate
<1>10. -719162 <= days => 1 <= d.year
  <2>1. -719162 < days => EarlierDate(first, d)
    BY <1>2, <1>5, <1>8, DatesAreOrdered
  <2>2. days = -719162 => d = first
    BY <1>2, <1>5
  <2>3. -719162 <= days => -719162 < days \/ days = -719162
    BY SMT
  <2>4. QED
    BY <1>3, <1>7, <2>1, <2>2, <2>3, SMT DEF EarlierDate
<1>11. 2932896 < days => 9999 < d.year
  <2>1. 2932896 < days => EarlierDate(last, d)
    BY <1>2, <1>6, <1>8, DatesAreOrdered
  <2>2. QED
    BY <1>3, <1>7, <2>1, SMT DEF EarlierDate
<1>12. days <= 2932896 => d.year <= 9999
  <2>1. days < 2932896 => EarlierDate(d, last)
    BY <1>2, <1>6, <1>8, DatesAreOrdered
  <2>2. days = 2932896 => d = last
    BY <1>2, <1>6
  <2>3. days <= 2932896 => days < 2932896 \/ days = 2932896
    BY SMT
  <2>4. QED
    BY <1>3, <1>7, <2>1, <2>2, <2>3, SMT DEF EarlierDate
<1>13. MinEpoch <= secs <=> -719162 <= days
  <2>1. secs = days * 86400 + sod /\ 0 <= sod /\ sod < 86400
    BY <1>1 DEF Day
  <2>2. -719162 * 86400 <= secs <=> -719162 <= days
    BY ONLY <2>1, secs \in Int, days \in Int, sod \in Int, SMT
  <2>3. QED
    BY <2>2 DEF MinEpoch, Day
<1>14. secs <= MaxEpoch <=> days <= 2932896
  <2>1. secs = days * 86400 + sod /\ 0 <= sod /\ sod < 86400
    BY <1>1 DEF Day
  <2>2. secs <= 2932896 * 86400 + 86399 <=> days <= 2932896
    BY ONLY <2>1, secs \in Int, days \in Int, sod \in Int, SMT
  <2>3. QED
    BY <2>2 DEF MaxEpoch, Day
<1>15. d.year \in Years <=> -719162 <= days /\ days <= 2932896
  <2>1. PICK year \in Int : year = d.year
    BY <1>3
  <2>2. /\ days < -719162 => year < 1
        /\ -719162 <= days => 1 <= year
        /\ 2932896 < days => 9999 < year
        /\ days <= 2932896 => year <= 9999
    BY <1>9, <1>10, <1>11, <1>12, <2>1
  <2>3. 1 <= year /\ year <= 9999 <=> -719162 <= days /\ days <= 2932896
    BY ONLY <2>2, year \in Int, days \in Int, SMT
  <2>4. year \in Years <=> 1 <= year /\ year <= 9999
    BY ONLY year \in Int, SMT DEF Years
  <2>5. QED
    BY <2>1, <2>3, <2>4
<1>16. QED
  BY <1>4, <1>13, <1>14, <1>15

-----------------------------------------------------------------------------
(* The program.                                                            *)

\* What the program holds is representable, and a cutoff is what it says.
Kept ==
  /\ now \in Int /\ FromEpoch(now).error = "none"
  /\ cutoff.error = "none" => cutoff.epoch \in Int /\ cutoff = FromEpoch(cutoff.epoch)

\* What from_epoch accepts is the instant itself.
LEMMA AcceptsItself ==
  ASSUME NEW e \in Int, FromEpoch(e).error = "none"
  PROVE  FromEpoch(e) = Accepted(e) /\ FromEpoch(e).epoch = e
<1>1. FromEpoch(e) = Accepted(e)
  BY InBand
<1>2. QED
  BY <1>1 DEF Accepted

LEMMA CalendarHolds == CalendarSpec => []Kept
<1>1. CalendarInit => Kept
  <2> SUFFICES ASSUME CalendarInit PROVE Kept
    OBVIOUS
  <2>1. PICK clock \in Starts : now = Now(clock)
    BY DEF CalendarInit
  <2>2. clock \in Int
    BY CalendarAssumption
  <2>3. FromEpoch(0).error = "none"
    <3>1. MinEpoch <= 0 /\ 0 <= MaxEpoch
      BY SMT DEF MinEpoch, MaxEpoch, Day
    <3>2. QED
      BY <3>1, BandIsExact
  <2>4. now \in Int /\ FromEpoch(now).error = "none"
    BY <2>1, <2>2, <2>3 DEF Now
  <2>5. cutoff.error # "none"
    BY DEF CalendarInit, Refused
  <2>6. QED
    BY <2>4, <2>5 DEF Kept
<1>2. Kept /\ [CalendarNext]_calendarVars => Kept'
  <2> SUFFICES ASSUME Kept, [CalendarNext]_calendarVars PROVE Kept'
    OBVIOUS
  <2>1. CASE UNCHANGED calendarVars
    BY <2>1 DEF Kept, calendarVars
  <2>2. CASE CalendarNext
    <3>1. PICK secs \in Spans : CheckedSub(secs)
      BY <2>2 DEF CalendarNext
    <3>2. PICK then : then = now - secs
      OBVIOUS
    <3>3. then \in Int
      BY <3>2, CalendarAssumption DEF Kept
    <3>4. cutoff' = FromEpoch(then) /\ now' = now
      BY <3>1, <3>2 DEF CheckedSub
    <3>5. (cutoff.error = "none")' => (cutoff.epoch)' = then
      BY <3>3, <3>4, AcceptsItself
    <3>6. QED
      BY <3>3, <3>4, <3>5 DEF Kept
  <2>3. QED
    BY <2>1, <2>2
<1>3. QED
  BY <1>1, <1>2, PTL DEF CalendarSpec

\* For every clock and every span: the text of an instant reads back as it, and
\* a cutoff sorts before the instant it was taken from.
THEOREM AlwaysExact == CalendarSpec => []CalendarIsExact
<1>1. Kept => CalendarIsExact
  <2> SUFFICES ASSUME Kept PROVE CalendarIsExact
    OBVIOUS
  <2>1. Parse("Zulu", FormatEpoch(now)) = Accepted(now)
    BY TextRoundTrip DEF Kept
  <2>2. ASSUME cutoff.error = "none"
        PROVE  /\ Parse("Zulu", FormatEpoch(cutoff.epoch)) = cutoff
               /\ cutoff.epoch < now => SortsBefore(FormatEpoch(cutoff.epoch), FormatEpoch(now))
    <3>1. cutoff.epoch \in Int /\ cutoff = FromEpoch(cutoff.epoch)
      BY <2>2 DEF Kept
    <3>2. FromEpoch(cutoff.epoch).error = "none"
      BY <2>2, <3>1
    <3>3. cutoff = Accepted(cutoff.epoch)
      BY <3>1, <3>2, AcceptsItself
    <3>4. Parse("Zulu", FormatEpoch(cutoff.epoch)) = Accepted(cutoff.epoch)
      BY <3>1, <3>2, TextRoundTrip
    <3>5. QED
      BY <3>1, <3>3, <3>4, OrderIsTime DEF Kept
  <2>3. QED
    BY <2>1, <2>2 DEF CalendarIsExact
<1>2. QED
  BY <1>1, CalendarHolds, PTL

-----------------------------------------------------------------------------
(* The order in which rows are re-verified.                                *)

LEMMA NumbersAreAnOrder == IsOrder(ByNumber)
<1>1. ByNumber \subseteq PrRows \X PrRows
  BY DEF ByNumber
<1>2. \A r, s \in PrRows : r \in Nat /\ s \in Nat /\ (<<r, s>> \in ByNumber <=> r < s)
  BY ReverifyAssumption DEF ByNumber
<1>3. QED
  BY <1>1, <1>2 DEF IsOrder

\* Rows of one transaction that come behind all the others leave an order.
LEMMA BehindIsAnOrder ==
  ASSUME NEW S, NEW old, IsOrder(old)
  PROVE  IsOrder(Behind(S, old))
<1>1. Behind(S, old) \subseteq PrRows \X PrRows
  BY DEF Behind
<1>2. \A r, s \in PrRows :
        <<r, s>> \in Behind(S, old) <=>
          \/ r \notin S /\ (s \in S \/ <<r, s>> \in old)
          \/ r \in S /\ s \in S /\ r < s
  BY DEF Behind
<1>3. \A r \in PrRows : r \in Nat
  BY ReverifyAssumption
<1>4. ASSUME NEW r \in PrRows, NEW s \in PrRows
      PROVE  <<r, s>> \in Behind(S, old) <=> r # s /\ <<s, r>> \notin Behind(S, old)
  <2>1. <<r, s>> \in old <=> r # s /\ <<s, r>> \notin old
    BY DEF IsOrder
  <2>2. r \in Nat /\ s \in Nat
    BY <1>3
  <2>3. QED
    BY <1>2, <2>1, <2>2
<1>5. ASSUME NEW r \in PrRows, NEW s \in PrRows, NEW t \in PrRows,
             <<r, s>> \in Behind(S, old), <<s, t>> \in Behind(S, old)
      PROVE  <<r, t>> \in Behind(S, old)
  <2>1. <<r, s>> \in old /\ <<s, t>> \in old => <<r, t>> \in old
    BY DEF IsOrder
  <2>2. r \in Nat /\ s \in Nat /\ t \in Nat
    BY <1>3
  <2>3. QED
    BY <1>2, <1>5, <2>1, <2>2
<1>6. QED
  BY <1>1, <1>4, <1>5 DEF IsOrder

LEMMA ReverifyStarts == ReverifyInit => ReverifyTypeOK
<1> SUFFICES ASSUME ReverifyInit PROVE ReverifyTypeOK
  OBVIOUS
<1>1. Overripe \in Nat
  BY ReverifyAssumption DEF Overripe
<1>2. PICK never \in SUBSET PrRows :
        /\ earlier = Behind(PrRows \ never, ByNumber)
        /\ age = [r \in PrRows |-> IF r \in never THEN Overripe ELSE 0]
  BY DEF ReverifyInit
<1>3. IsOrder(earlier)
  BY <1>2, NumbersAreAnOrder, BehindIsAnOrder
<1>4. age \in [PrRows -> 0 .. Overripe]
  BY <1>1, <1>2
<1>5. 0 \in 0 .. MaxSetbacks
  BY ReverifyAssumption
<1>6. QED
  BY <1>3, <1>4, <1>5 DEF ReverifyInit, ReverifyTypeOK

LEMMA ReverifySteps ==
  ASSUME ReverifyTypeOK, [ReverifyNext]_reverifyVars
  PROVE  ReverifyTypeOK'
<1>0. Overripe \in Nat /\ MaxSetbacks \in Nat
  BY ReverifyAssumption DEF Overripe
<1>1. ASSUME TickPasses PROVE ReverifyTypeOK'
  <2>1. age' \in [PrRows -> 0 .. Overripe]
    BY <1>0, <1>1 DEF TickPasses, ReverifyTypeOK
  <2>2. QED
    BY <1>1, <2>1 DEF TickPasses, ReverifyTypeOK
<1>2. ASSUME NEW r \in PrRows, Closes(r) \/ Outgrows(r) PROVE ReverifyTypeOK'
  BY <1>2 DEF Closes, Outgrows, ReverifyTypeOK
<1>3. ASSUME NEW walked \in SUBSET Selected, NEW news \in SUBSET waiting,
             NEW fails \in SUBSET walked, ReverifyRun(walked, fails, news)
      PROVE  ReverifyTypeOK'
  <2>1. Selected \subseteq PrRows
    BY DEF Selected, OpenTier, Tier, FirstOf, ReverifyTypeOK
  <2>2. waiting' \subseteq PrRows
    BY <1>3, <2>1 DEF ReverifyRun
  <2>3. IsOrder(earlier')
    BY <1>3, BehindIsAnOrder DEF ReverifyRun, ReverifyTypeOK
  <2>4. age' \in [PrRows -> 0 .. Overripe]
    BY <1>0, <1>3 DEF ReverifyRun, ReverifyTypeOK
  <2>5. setbacks' \in 0 .. MaxSetbacks
    BY <1>0, <1>3 DEF ReverifyRun, ReverifyTypeOK
  <2>6. QED
    BY <1>3, <2>2, <2>3, <2>4, <2>5 DEF ReverifyRun, ReverifyTypeOK
<1>4. ASSUME UNCHANGED reverifyVars PROVE ReverifyTypeOK'
  BY <1>4 DEF reverifyVars, ReverifyTypeOK
<1>5. QED
  BY <1>1, <1>2, <1>3, <1>4 DEF ReverifyNext, SyncsGoOn

\* Whatever is closed, outgrown, shed, failed or stamped in one transaction, the
\* rows stay in a strict and total order of verified_at and number.
THEOREM ReverifyTyped == ReverifyInit /\ [][ReverifyNext]_reverifyVars => []ReverifyTypeOK
BY ReverifyStarts, ReverifySteps, PTL

-----------------------------------------------------------------------------
(* Who is re-verified.                                                     *)

\* Who comes earlier in the order was verified no later.
AgesFollow == \A r, s \in PrRows : <<r, s>> \in earlier => age[r] >= age[s]

LEMMA AgesStart == ReverifyInit => AgesFollow
<1> SUFFICES ASSUME ReverifyInit PROVE AgesFollow
  OBVIOUS
<1>1. Overripe \in Nat
  BY ReverifyAssumption DEF Overripe
<1>2. PICK never \in SUBSET PrRows :
        /\ earlier = Behind(PrRows \ never, ByNumber)
        /\ age = [r \in PrRows |-> IF r \in never THEN Overripe ELSE 0]
  BY DEF ReverifyInit
<1>3. ASSUME NEW r \in PrRows, NEW s \in PrRows, <<r, s>> \in earlier
      PROVE  age[r] >= age[s]
  <2>1. s \in never => r \in never
    BY <1>2, <1>3 DEF Behind
  <2>2. QED
    BY <1>1, <1>2, <2>1
<1>4. QED
  BY <1>3 DEF AgesFollow

LEMMA AgesStep ==
  ASSUME ReverifyTypeOK, AgesFollow, [ReverifyNext]_reverifyVars
  PROVE  AgesFollow'
<1>0. Overripe \in Nat /\ \A r \in PrRows : age[r] \in 0 .. Overripe
  BY ReverifyAssumption DEF Overripe, ReverifyTypeOK
<1>1. ASSUME TickPasses PROVE AgesFollow'
  <2>1. earlier' = earlier
        /\ age' = [r \in PrRows |-> IF age[r] < Overripe THEN age[r] + 1 ELSE Overripe]
    BY <1>1 DEF TickPasses
  <2>2. QED
    BY <1>0, <2>1 DEF AgesFollow
<1>2. ASSUME NEW r \in PrRows, Closes(r) \/ Outgrows(r) PROVE AgesFollow'
  BY <1>2 DEF Closes, Outgrows, AgesFollow
<1>3. ASSUME NEW walked \in SUBSET Selected, NEW news \in SUBSET waiting,
             NEW fails \in SUBSET walked, ReverifyRun(walked, fails, news)
      PROVE  AgesFollow'
  <2> DEFINE stamped == Stamped(walked \ fails, news)
  <2>1. /\ earlier' = Behind(stamped, earlier)
        /\ age' = [r \in PrRows |-> IF r \in stamped THEN 0 ELSE age[r]]
    BY <1>3 DEF ReverifyRun
  <2> HIDE DEF stamped
  <2>2. ASSUME NEW r \in PrRows, NEW s \in PrRows, <<r, s>> \in earlier'
        PROVE  age'[r] >= age'[s]
    <3>1. s \in stamped \/ (r \notin stamped /\ <<r, s>> \in earlier)
      BY <2>1, <2>2 DEF Behind
    <3>2. QED
      BY <1>0, <2>1, <3>1 DEF AgesFollow
  <2>3. QED
    BY <2>2 DEF AgesFollow
<1>4. ASSUME UNCHANGED reverifyVars PROVE AgesFollow'
  BY <1>4 DEF reverifyVars, AgesFollow
<1>5. QED
  BY <1>1, <1>2, <1>3, <1>4 DEF ReverifyNext, SyncsGoOn

\* A row whose age has reached Overripe is due whatever its jitter.
LEMMA OverripeIsDue ==
  ASSUME NEW r \in PrRows, age[r] = Overripe
  PROVE  Due(r)
<1>1. Period(r) \in Nat \ {0} /\ 2 * Period(r) <= Overripe
  BY ReverifyAssumption DEF Period, Overripe
<1>2. Hash[r] \in Nat
  BY ReverifyAssumption
<1>3. Hash[r] % Period(r) \in 0 .. Period(r) - 1
  BY <1>1, <1>2
<1>4. Overripe \in Nat
  BY ReverifyAssumption DEF Overripe
<1>5. QED
  BY <1>1, <1>3, <1>4 DEF Due

\* The first n rows of a set are an initial part of it.
LEMMA FirstIsInitial ==
  ASSUME IsOrder(earlier), NEW S \in SUBSET PrRows, NEW n \in Nat,
         NEW r \in FirstOf(S, n), NEW s \in S, <<s, r>> \in earlier
  PROVE  s \in FirstOf(S, n)
<1> DEFINE B(x) == {y \in S : <<y, x>> \in earlier}
<1>1. r \in S /\ Cardinality(B(r)) < n
  BY DEF FirstOf
<1>2. B(s) \subseteq B(r)
  BY <1>1 DEF IsOrder
<1>3. IsFiniteSet(S)
  BY ReverifyAssumption, FS_Subset
<1>4. IsFiniteSet(B(r)) /\ IsFiniteSet(B(s))
  BY <1>3, FS_Subset
<1>5. Cardinality(B(s)) <= Cardinality(B(r))
  BY <1>2, <1>4, FS_Subset
<1>6. Cardinality(B(s)) \in Nat /\ Cardinality(B(r)) \in Nat
  BY <1>4, FS_CardinalityType
<1>7. Cardinality(B(s)) < n
  BY <1>1, <1>5, <1>6
<1>8. QED
  BY <1>7 DEF FirstOf

\* What a whole run selects among the open rows before an overdue one is verified.
LEMMA OverdueIsServed ==
  ASSUME ReverifyTypeOK, AgesFollow,
         NEW r \in PrRows \ shut, age[r] = Overripe, r \notin outgrown \cup waiting,
         NEW s \in FirstOf(PrRows \ shut, TierCap), s \notin outgrown \cup waiting
  PROVE  \E x \in Selected \ outgrown : x = r \/ <<x, r>> \in earlier
<1> DEFINE O == PrRows \ shut
<1>1. Selected \subseteq PrRows /\ OpenTier \subseteq Selected
  BY DEF Selected, OpenTier, Tier, FirstOf, ReverifyTypeOK
<1>2. ASSUME NEW x \in FirstOf(O, TierCap), age[x] = Overripe, x \notin outgrown \cup waiting
      PROVE  x \in Selected \ outgrown
  <2>1. x \in PrRows
    BY DEF FirstOf
  <2>2. Due(x)
    BY <1>2, <2>1, OverripeIsDue
  <2>3. x \in OpenTier
    BY <1>2, <2>2 DEF OpenTier, Tier
  <2>4. QED
    BY <1>1, <1>2, <2>3
<1>3. CASE r \in FirstOf(O, TierCap)
  BY <1>2, <1>3
<1>4. CASE r \notin FirstOf(O, TierCap)
  <2>1. s \in O /\ s # r /\ O \in SUBSET PrRows /\ TierCap \in Nat /\ IsOrder(earlier)
    BY <1>4, ReverifyAssumption DEF FirstOf, ReverifyTypeOK
  <2>2. <<r, s>> \notin earlier
    BY <1>4, <2>1, FirstIsInitial
  <2>3. <<s, r>> \in earlier
    BY <2>1, <2>2 DEF IsOrder
  <2>4. age[s] >= age[r] /\ age[s] \in 0 .. Overripe
    BY <2>1, <2>3 DEF AgesFollow, ReverifyTypeOK
  <2>5. Overripe \in Nat
    BY ReverifyAssumption DEF Overripe
  <2>6. age[s] = Overripe
    BY <2>4, <2>5
  <2>7. s \in Selected \ outgrown
    BY <1>2, <2>6
  <2>8. QED
    BY <2>3, <2>7
<1>5. QED
  BY <1>3, <1>4

LEMMA RunsAdvance ==
  ASSUME ReverifyTypeOK, AgesFollow,
         NEW walked \in SUBSET Selected, NEW news \in SUBSET waiting,
         NEW fails \in SUBSET walked, ReverifyRun(walked, fails, news),
         NEW r \in PrRows \ shut, age[r] = Overripe, age'[r] # 0
  PROVE  /\ RowsBefore(r)' \subseteq RowsBefore(r)
         /\ WholeRun /\ r \notin outgrown \cup waiting /\ RowsBefore(r)' = RowsBefore(r) =>
              FirstOf(PrRows \ shut, TierCap) \subseteq outgrown \cup waiting
<1> DEFINE stamped == Stamped(walked \ fails, news)
<1>1. /\ earlier' = Behind(stamped, earlier)
      /\ age' = [x \in PrRows |-> IF x \in stamped THEN 0 ELSE age[x]]
  BY DEF ReverifyRun
<1>2. r \notin stamped
  BY <1>1
<1>3. Selected \subseteq PrRows
  BY DEF Selected, OpenTier, Tier, FirstOf, ReverifyTypeOK
<1>4. WholeRun => Selected \ outgrown \subseteq stamped
  <2>1. WholeRun => walked = Selected /\ fails = {}
    <3>1. setbacks \in Nat
      BY ReverifyAssumption DEF ReverifyTypeOK
    <3>2. setbacks + 1 # setbacks
      BY <3>1
    <3>3. QED
      BY <3>2 DEF ReverifyRun, WholeRun
  <2>2. QED
    BY <2>1 DEF Stamped
<1> HIDE DEF stamped
<1>5. \A x \in PrRows : <<x, r>> \in earlier' => x \notin stamped /\ <<x, r>> \in earlier
  BY <1>1, <1>2 DEF Behind
<1>6. RowsBefore(r)' \subseteq RowsBefore(r)
  BY <1>5 DEF RowsBefore
<1>7. ASSUME WholeRun, r \notin outgrown \cup waiting, RowsBefore(r)' = RowsBefore(r),
             NEW s \in FirstOf(PrRows \ shut, TierCap), s \notin outgrown \cup waiting
      PROVE  FALSE
  <2>1. PICK x \in Selected \ outgrown : x = r \/ <<x, r>> \in earlier
    BY <1>7, OverdueIsServed
  <2>2. x \in stamped /\ x \in PrRows
    BY <1>3, <1>4, <1>7
  <2>3. <<x, r>> \in earlier
    BY <1>2, <2>1, <2>2
  <2>4. x \in RowsBefore(r) /\ x \notin RowsBefore(r)'
    BY <1>5, <2>2, <2>3 DEF RowsBefore
  <2>5. QED
    BY <1>7, <2>4
<1>8. QED
  BY <1>6, <1>7

\* For any number of rows, any tier, any periods and any jitter: an overdue open
\* row loses its place to no other, and a whole run verifies it or takes a row
\* from before it, unless every place of the tier is taken by rows the walk
\* cannot verify or that wait in the quarantine.  This is why the schedule
\* reaches every row, and exactly when it does not.
THEOREM OverdueRowsAdvance ==
  ReverifyInit /\ [][ReverifyNext]_reverifyVars => PendingRowsAdvance
<1> DEFINE Advances ==
      \A r \in PrRows \ shut :
       age[r] = Overripe /\ age'[r] # 0 =>
         /\ RowsBefore(r)' \subseteq RowsBefore(r)
         /\ WholeRun /\ r \notin outgrown \cup waiting /\ RowsBefore(r)' = RowsBefore(r) =>
              FirstOf(PrRows \ shut, TierCap) \subseteq outgrown \cup waiting
<1>1. ASSUME ReverifyTypeOK, AgesFollow, [ReverifyNext]_reverifyVars
      PROVE  [Advances]_reverifyVars
  <2>1. ASSUME TickPasses PROVE Advances
    BY <2>1 DEF TickPasses, RowsBefore, WholeRun
  <2>2. ASSUME NEW x \in PrRows, Closes(x) \/ Outgrows(x) PROVE Advances
    BY <2>2 DEF Closes, Outgrows, RowsBefore, WholeRun
  <2>3. ASSUME NEW walked \in SUBSET Selected, NEW news \in SUBSET waiting,
               NEW fails \in SUBSET walked, ReverifyRun(walked, fails, news)
        PROVE  Advances
    BY <1>1, <2>3, RunsAdvance
  <2>4. QED
    BY <1>1, <2>1, <2>2, <2>3 DEF ReverifyNext, SyncsGoOn
<1>2. ReverifyInit /\ [][ReverifyNext]_reverifyVars => [](ReverifyTypeOK /\ AgesFollow)
  BY ReverifyStarts, ReverifySteps, AgesStart, AgesStep, PTL
<1>3. QED
  BY <1>1, <1>2, PTL DEF PendingRowsAdvance

-----------------------------------------------------------------------------
(* All parts side by side.                                                 *)

\* Whichever part a behaviour is about, the others stand still, and all of them
\* keep their shapes.
THEOREM PartsTyped == PartsSpec => []PartsTypeOK
<1>1. PartsInit => /\ GhInit /\ McpInit /\ OpenInit /\ DiscoveryInit
                   /\ ThreadsInit /\ ReverifyInit
  BY DEF PartsInit
<1>2. [PartsNext]_partsVars =>
        /\ [GhNext]_ghVars /\ [McpNext]_mcpVars /\ [OpenNext]_openVars
        /\ [DiscoveryNext]_discoveryVars /\ [ThreadsNext]_threadVars
        /\ [ReverifyNext]_reverifyVars
  BY DEF PartsNext, partsVars
<1>3. PartsSpec => /\ GhSpec /\ McpSpec /\ OpenSpec /\ DiscoverySpec /\ ThreadsSpec
                   /\ ReverifyInit /\ [][ReverifyNext]_reverifyVars
  BY <1>1, <1>2, PTL DEF PartsSpec, GhSpec, McpSpec, OpenSpec, DiscoverySpec, ThreadsSpec
<1>4. QED
  BY <1>3, GhTypeCorrect, McpTyped, OpenTypeCorrect, DiscoveryTyped, ThreadsTyped,
     ReverifyTyped, PTL DEF PartsTypeOK
=============================================================================
