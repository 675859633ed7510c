----------------------- MODULE ClientInstallerProofs -----------------------
(***************************************************************************)
(* Proofs about ClientInstaller, for any targets, backup suffixes, runs    *)
(* and edits: the user's part of a target survives every run, and a run    *)
(* that fails leaves the targets as they were.                             *)
(***************************************************************************)
EXTENDS ClientInstaller, TLAPS

Forward == {"slots", "next", "backup", "unlink", "write"}
Busy == Forward \cup {"rollback", "copy", "drop"}

\* What is kept in backups is the user's alone, for what is managed is not
\* replaced.
BackupInv == \A s \in Suffixes, t \in Targets : ~backup[s][t].managed

\* The program's place in its work, and what it is working on.
PlaceInv ==
  /\ run.stage = "slots" => run.completed = {}
  /\ run.stage = "backup" => /\ run.at \in run.changes \cap run.existed /\ disk[run.at] # Absent
                             /\ Slot[run.at] = Absent /\ ~disk[run.at].managed
                             /\ run.at \in run.completed <=> run.at \notin Links
  /\ run.stage \in {"unlink", "write", "copy", "drop"} => run.at \in run.completed
  /\ run.stage = "unlink" => Slot[run.at] # Absent
  /\ run.stage = "write" /\ run.at \in run.existed => Slot[run.at] # Absent
  /\ run.stage = "copy" => disk[run.at] = Absent
  /\ run.stage = "drop" => disk[run.at] = Slot[run.at]

\* A target the run has not come to is as it was found, and its slot is free.
PendingInv ==
  /\ run.stage \in {"next", "backup", "unlink", "write"} =>
       \A t \in Pending :
         /\ t \in run.existed <=> disk[t] # Absent
         /\ t \in run.existed => Slot[t] = Absent
  /\ run.stage \in Forward => \A t \in Pending : ~disk[t].managed

\* What the rollback takes away from a target is in its slot.
RemovableInv ==
  run.stage \in Busy =>
    \A t \in run.completed \ torn :
      /\ Slot[t] # Absent \/ t \notin run.existed
      /\ latest[t] # 0 /\ disk[t].own = latest[t]
      /\ ~(t = run.at /\ run.stage \in {"copy", "drop"})
      => Slot[t].own = latest[t]

\* What the rollback puts back is what was there.
UndoInv ==
  /\ run.stage \in Forward => \A t \in Targets \ (torn \cup run.completed) : disk[t] = before[t]
  /\ run.stage \in Busy => \A t \in Targets \ (torn \cup run.completed) : Restored(t)
  /\ run.stage \in Busy =>
       \A t \in run.completed \ torn :
         /\ t \in run.existed <=> before[t] # Absent
         /\ t \in run.existed => IF Slot[t] # Absent THEN Slot[t] = before[t] ELSE disk[t] = before[t]

\* A run that goes on has no outcome yet.
OutcomeInv == run.stage # "ended" => run.outcome = "none"

\* The inductive invariant.
ClientInv ==
  /\ ClientTypeOK /\ OutcomeInv /\ BackupInv /\ PlaceInv /\ PendingInv /\ RemovableInv /\ UndoInv
  /\ UserPartSurvives
  /\ run.stage = "ended" => FailureRestores

------------------------------------------------------------------------------
LEMMA ContentTypes ==
  Absent \in Content /\ Torn \in Content /\ Absent.own = 0 /\ ~Absent.managed /\ Torn.own = -1 /\ ~Torn.managed
BY DEF Absent, Torn, Content

LEMMA InitHolds == ClientInit => ClientInv
<1> SUFFICES ASSUME ClientInit PROVE ClientInv
  OBVIOUS
<1>1. disk \in [Targets -> [own : 0 .. 1, managed : BOOLEAN]]
  BY DEF ClientInit
<1>2. disk \in [Targets -> Content]
  BY <1>1 DEF Content
<1>3. backup \in [Suffixes -> [Targets -> Content]] /\ \A s \in Suffixes, t \in Targets : backup[s][t] = Absent
  BY ContentTypes DEF ClientInit
<1>4. latest \in [Targets -> Nat] /\ \A t \in Targets : latest[t] = disk[t].own
  BY <1>1 DEF ClientInit
<1>5. run \in Run
  <2>1. (CHOOSE s \in Suffixes : TRUE) \in Suffixes /\ (CHOOSE t \in Targets : TRUE) \in Targets
    BY ClientAssumption DEF ClientAssumption
  <2> QED BY <2>1 DEF ClientInit, Run, Stages, Outcomes
<1>6. run.stage = "ended" /\ run.outcome = "none" /\ runs = 0 /\ before = disk /\ torn = {}
  BY DEF ClientInit
<1>7. ClientTypeOK
  BY <1>2, <1>3, <1>4, <1>5, <1>6 DEF ClientTypeOK
<1>8. BackupInv /\ UserPartSurvives
  BY <1>3, <1>4, ContentTypes DEF BackupInv, UserPartSurvives
<1>9. PlaceInv /\ PendingInv /\ RemovableInv /\ UndoInv /\ FailureRestores
  BY <1>6 DEF PlaceInv, PendingInv, RemovableInv, UndoInv, FailureRestores, Forward, Busy
<1>10. OutcomeInv
  BY <1>6 DEF OutcomeInv
<1> QED BY <1>7, <1>8, <1>9, <1>10 DEF ClientInv

\* Every step keeps the types.
LEMMA TypesStay == ClientTypeOK /\ [ClientNext]_clientVars => ClientTypeOK'
<1> SUFFICES ASSUME ClientTypeOK, [ClientNext]_clientVars PROVE ClientTypeOK'
  OBVIOUS
<1> USE DEF ClientTypeOK
<1>1. \A t \in Targets : disk[t].own \in Nat \cup {-1} /\ disk[t].managed \in BOOLEAN
  BY DEF Content
<1>2. CASE PlanRefused \/ Preview
  <2>1. run' \in Run
    BY <1>2 DEF PlanRefused, Preview, Ended, Run, Stages, Outcomes
  <2> QED BY <1>2, <2>1 DEF PlanRefused, Preview
<1>3. ASSUME NEW suffix \in Suffixes, Apply(suffix)
      PROVE  ClientTypeOK'
  <2>1. run' \in Run
    BY <1>3 DEF Apply, Outdated, Run, Stages, Outcomes
  <2> QED BY <1>3, <2>1 DEF Apply
<1>4. CASE CheckSlots
  <2>1. Present \subseteq Targets
    BY DEF Present
  <2> QED BY <1>4, <2>1 DEF CheckSlots, Ended, Run, Stages, Outcomes
<1>5. CASE Begin
  <2>1. PICK t \in Pending :
          run' = [run EXCEPT !.at = t, !.completed = Entered(t),
                             !.stage = IF disk[t] = Absent THEN "write" ELSE "backup"]
    BY <1>5 DEF Begin
  <2>2. t \in Targets /\ Entered(t) \subseteq Targets
    BY DEF Pending, Entered, Run
  <2>3. run' \in Run
    BY <2>1, <2>2 DEF Run, Stages
  <2> QED BY <1>5, <2>3 DEF Begin
<1>6. CASE Backup
  <2>1. run' \in Run
    BY <1>6 DEF Backup, Run, Stages
  <2>2. backup' \in [Suffixes -> [Targets -> Content]]
    BY <1>6 DEF Backup, Run
  <2> QED BY <1>6, <2>1, <2>2 DEF Backup
<1>7. CASE BackupTorn
  <2>1. run' \in Run /\ torn' \subseteq Targets
    BY <1>7 DEF BackupTorn, Run, Stages
  <2>2. backup' \in [Suffixes -> [Targets -> Content]]
    BY <1>7, ContentTypes DEF BackupTorn, Run
  <2> QED BY <1>7, <2>1, <2>2 DEF BackupTorn
<1>8. CASE Unlink
  <2>1. run' \in Run /\ disk' \in [Targets -> Content]
    BY <1>8, ContentTypes DEF Unlink, Run, Stages
  <2> QED BY <1>8, <2>1 DEF Unlink
<1>9. CASE Write
  <2>1. run' \in Run
    BY <1>9 DEF Write, Run, Stages
  <2>2. disk' \in [Targets -> Content]
    BY <1>9 DEF Write, Content
  <2> QED BY <1>9, <2>1, <2>2 DEF Write
<1>10. CASE OperationFails \/ Updated \/ RolledBack \/ Abandon
  <2>1. run' \in Run
    BY <1>10 DEF OperationFails, Updated, RolledBack, Abandon, Ended, Run, Stages, Outcomes
  <2> QED BY <1>10, <2>1 DEF OperationFails, Updated, RolledBack, Abandon
<1>11. CASE Undo
  <2>1. PICK t \in run.completed :
          /\ disk' = [disk EXCEPT ![t] = Undone(t)]
          /\ run' = IF Slot[t] # Absent THEN [run EXCEPT !.at = t, !.stage = "copy"]
                    ELSE [run EXCEPT !.completed = @ \ {t}]
    BY <1>11 DEF Undo
  <2>2. t \in Targets
    BY DEF Run
  <2>3. Undone(t) \in Content
    BY <2>2, ContentTypes DEF Undone
  <2>4. disk' \in [Targets -> Content]
    BY <2>1, <2>3
  <2>5. run' \in Run
    BY <2>1, <2>2 DEF Run, Stages
  <2> QED BY <1>11, <2>4, <2>5 DEF Undo
<1>12. CASE CopyBack
  <2>1. run' \in Run
    BY <1>12 DEF CopyBack, Run, Stages
  <2>2. Slot[run.at] \in Content
    BY DEF Slot, Run
  <2> QED BY <1>12, <2>1, <2>2 DEF CopyBack
<1>13. CASE CopyBackTorn
  <2>1. run' \in Run
    BY <1>13 DEF CopyBackTorn, Ended, Run, Stages, Outcomes
  <2> QED BY <1>13, <2>1, ContentTypes DEF CopyBackTorn
<1>14. CASE DropBackup
  <2>1. run' \in Run
    BY <1>14 DEF DropBackup, Run, Stages
  <2>2. backup' \in [Suffixes -> [Targets -> Content]]
    BY <1>14, ContentTypes DEF DropBackup, Run
  <2> QED BY <1>14, <2>1, <2>2 DEF DropBackup
<1>15. ASSUME NEW t \in Targets, Edit(t)
       PROVE  ClientTypeOK'
  <2>1. disk' \in [Targets -> Content] /\ before' \in [Targets -> Content]
    BY <1>15 DEF Edit, Content
  <2> QED BY <1>15, <2>1 DEF Edit
<1>16. CASE UNCHANGED clientVars
  BY <1>16 DEF clientVars
<1> QED BY <1>2, <1>3, <1>4, <1>5, <1>6, <1>7, <1>8, <1>9, <1>10, <1>11, <1>12, <1>13, <1>14, <1>15, <1>16
     DEF ClientNext, ClientStep

LEMMA OutcomeStays == ClientTypeOK /\ OutcomeInv /\ [ClientNext]_clientVars => OutcomeInv'
<1> SUFFICES ASSUME ClientTypeOK, OutcomeInv, [ClientNext]_clientVars PROVE OutcomeInv'
  OBVIOUS
<1>1. run \in Run
  BY DEF ClientTypeOK
<1> USE DEF OutcomeInv
<1>2. CASE \/ PlanRefused \/ Preview \/ Updated \/ CopyBackTorn \/ RolledBack \/ Abandon
           \/ CheckSlots \/ \E suffix \in Suffixes : Apply(suffix)
  BY <1>1, <1>2 DEF PlanRefused, Preview, Updated, CopyBackTorn, RolledBack, Abandon, CheckSlots, Apply,
     Ended, Run
<1>3. CASE Begin \/ Undo
  BY <1>1, <1>3 DEF Begin, Undo, Run
<1>4. CASE Backup \/ BackupTorn \/ Unlink \/ Write \/ OperationFails \/ CopyBack \/ DropBackup
  BY <1>1, <1>4 DEF Backup, BackupTorn, Unlink, Write, OperationFails, CopyBack, DropBackup, Run
<1>5. CASE UNCHANGED run
  BY <1>5
<1> QED BY <1>2, <1>3, <1>4, <1>5 DEF ClientNext, ClientStep, Edit, clientVars

------------------------------------------------------------------------------
(* Each action keeps the rest; only some of it is disturbed by each.       *)

Rest == BackupInv /\ PlaceInv /\ PendingInv /\ RemovableInv /\ UndoInv
Kept == Rest /\ UserPartSurvives /\ (run.stage = "ended" => FailureRestores)

\* The program ends without having changed a target or a backup since.
LEMMA EndKeeps ==
  ASSUME ClientInv, run'.stage = "ended", run'.outcome # "failed",
         UNCHANGED <<disk, backup, latest, before, torn>>
  PROVE  Kept'
<1>1. BackupInv' /\ UserPartSurvives'
  BY DEF ClientInv, BackupInv, UserPartSurvives
<1>2. PlaceInv' /\ PendingInv' /\ RemovableInv' /\ UndoInv'
  BY DEF PlaceInv, PendingInv, RemovableInv, UndoInv, Forward, Busy
<1>3. FailureRestores'
  BY DEF FailureRestores
<1> QED BY <1>1, <1>2, <1>3 DEF Kept, Rest

LEMMA EndingsKeep ==
  ASSUME ClientInv, PlanRefused \/ Preview \/ Updated \/ Abandon
  PROVE  Kept'
<1>1. run \in Run
  BY DEF ClientInv, ClientTypeOK
<1>2. run'.stage = "ended" /\ run'.outcome # "failed"
  BY <1>1 DEF PlanRefused, Preview, Updated, Abandon, Ended, Run
<1> QED BY <1>2, EndKeeps DEF PlanRefused, Preview, Updated, Abandon

LEMMA RolledBackKeeps ==
  ASSUME ClientInv, RolledBack
  PROVE  Kept'
<1>1. run \in Run /\ run.stage = "rollback" /\ run.completed = {}
  BY DEF ClientInv, ClientTypeOK, RolledBack
<1>2. run'.stage = "ended" /\ UNCHANGED <<disk, backup, latest, before, torn>>
  BY <1>1 DEF RolledBack, Ended, Run
<1>3. BackupInv' /\ UserPartSurvives'
  BY <1>2 DEF ClientInv, BackupInv, UserPartSurvives
<1>4. PlaceInv' /\ PendingInv' /\ RemovableInv' /\ UndoInv'
  BY <1>2 DEF PlaceInv, PendingInv, RemovableInv, UndoInv, Forward, Busy
<1>5. FailureRestores'
  BY <1>1, <1>2 DEF ClientInv, UndoInv, FailureRestores, Restored, Busy
<1> QED BY <1>3, <1>4, <1>5 DEF Kept, Rest

LEMMA ApplyKeeps ==
  ASSUME ClientInv, NEW suffix \in Suffixes, Apply(suffix)
  PROVE  Kept'
<1>1. run \in Run
  BY DEF ClientInv, ClientTypeOK
<1>2. /\ run'.stage = "slots" /\ run'.completed = {} /\ run'.changes = Outdated /\ run'.outcome = "none"
      /\ before' = disk /\ UNCHANGED <<disk, backup, latest, torn>>
  BY <1>1 DEF Apply, Run
<1>3. BackupInv' /\ UserPartSurvives'
  BY <1>2 DEF ClientInv, BackupInv, UserPartSurvives
<1>4. PlaceInv' /\ RemovableInv'
  BY <1>2 DEF PlaceInv, RemovableInv
<1>5. PendingInv'
  BY <1>2 DEF PendingInv, Pending, Outdated
<1>6. UndoInv'
  BY <1>2 DEF UndoInv, Restored
<1> QED BY <1>2, <1>3, <1>4, <1>5, <1>6 DEF Kept, Rest

LEMMA CheckSlotsKeeps ==
  ASSUME ClientInv, CheckSlots
  PROVE  Kept'
<1>1. run \in Run /\ run.stage = "slots" /\ UNCHANGED <<disk, backup, latest, before, torn>>
  BY DEF ClientInv, ClientTypeOK, CheckSlots
<1>2. CASE Occupied # {}
  BY <1>1, <1>2, EndKeeps DEF CheckSlots, Ended, Run
<1>3. CASE Occupied = {}
  <2>1. /\ run'.stage = "next" /\ run'.completed = {} /\ run'.existed = Present
        /\ run'.changes = run.changes /\ run'.suffix = run.suffix /\ run.completed = {}
    BY <1>1, <1>3 DEF CheckSlots, Run, ClientInv, PlaceInv
  <2>2. BackupInv' /\ UserPartSurvives'
    BY <1>1 DEF ClientInv, BackupInv, UserPartSurvives
  <2>3. PlaceInv' /\ RemovableInv'
    BY <2>1 DEF PlaceInv, RemovableInv
  <2>4. PendingInv'
    <3>1. \A t \in run.changes : t \in Targets /\ (disk[t] # Absent => Slot[t] = Absent) /\ ~disk[t].managed
      BY <1>1, <1>3, <2>1 DEF Occupied, Present, Run, ClientInv, PendingInv, Pending, Forward
    <3> QED BY <1>1, <2>1, <3>1 DEF PendingInv, Pending, Present, Slot
  <2>5. UndoInv'
    BY <1>1, <2>1 DEF ClientInv, UndoInv, Forward, Busy, Restored
  <2> QED BY <2>1, <2>2, <2>3, <2>4, <2>5 DEF Kept, Rest
<1> QED BY <1>2, <1>3

\* The next target: its slot is free if there is something to keep.
LEMMA BeginKeeps ==
  ASSUME ClientInv, Begin
  PROVE  Kept'
<1>1. run \in Run /\ run.stage = "next" /\ UNCHANGED <<disk, backup, latest, before, torn>>
  BY DEF ClientInv, ClientTypeOK, Begin
<1>2. PICK t \in Pending :
        run' = [run EXCEPT !.at = t, !.completed = Entered(t),
                           !.stage = IF disk[t] = Absent THEN "write" ELSE "backup"]
  BY DEF Begin
<1>3. t \in Targets /\ t \in run.changes /\ t \notin run.completed
  BY <1>1 DEF Pending, Run
<1>4. /\ run'.at = t /\ run'.completed = Entered(t) /\ run'.suffix = run.suffix
      /\ run'.changes = run.changes /\ run'.existed = run.existed
      /\ run'.stage = IF disk[t] = Absent THEN "write" ELSE "backup"
  BY <1>1, <1>2 DEF Run
<1>5. /\ t \in run.existed <=> disk[t] # Absent
      /\ t \in run.existed => Slot[t] = Absent
      /\ ~disk[t].managed
  BY <1>1, <1>3 DEF ClientInv, PendingInv, Pending, Forward
<1>6. Entered(t) \in {run.completed, run.completed \cup {t}} /\ (disk[t] = Absent => t \in Entered(t))
      /\ (t \in run.existed => (t \in Entered(t) <=> t \notin Links))
  BY <1>3, <1>5 DEF Entered
<1>7. BackupInv' /\ UserPartSurvives'
  BY <1>1 DEF ClientInv, BackupInv, UserPartSurvives
<1>8. PlaceInv'
  BY <1>1, <1>3, <1>4, <1>5, <1>6 DEF PlaceInv, Slot
<1>9. PendingInv'
  BY <1>1, <1>4, <1>6 DEF ClientInv, PendingInv, Pending, Slot, Forward
<1>10. RemovableInv'
  <2>1. ASSUME NEW u \in run'.completed \ torn, Slot[u] # Absent \/ u \notin run.existed,
               latest[u] # 0, disk[u].own = latest[u]
        PROVE  Slot[u].own = latest[u]
    <3>1. CASE u \in run.completed
      BY <1>1, <2>1, <3>1 DEF ClientInv, RemovableInv, Busy, Forward
    <3>2. CASE u = t
      BY <1>5, <2>1, <3>2, ContentTypes
    <3> QED BY <1>4, <1>6, <2>1, <3>1, <3>2
  <2> QED BY <1>1, <1>4, <2>1 DEF RemovableInv, Slot
<1>11. UndoInv'
  <2>1. disk[t] = before[t] \/ t \in torn
    BY <1>1, <1>3 DEF ClientInv, UndoInv, Forward
  <2> QED BY <1>1, <1>4, <1>5, <1>6, <2>1 DEF ClientInv, UndoInv, Slot, Forward, Busy, Restored
<1> QED BY <1>1, <1>4, <1>7, <1>8, <1>9, <1>10, <1>11 DEF Kept, Rest

\* The types in the form the steps below use them.
LEMMA Shapes ==
  ASSUME ClientTypeOK
  PROVE  /\ run \in Run /\ run.suffix \in Suffixes /\ run.at \in Targets
         /\ run.completed \subseteq Targets /\ run.changes \subseteq Targets
         /\ Slot \in [Targets -> Content] /\ disk \in [Targets -> Content]
         /\ latest \in [Targets -> Nat] /\ before \in [Targets -> Content] /\ torn \subseteq Targets
BY DEF ClientTypeOK, Run, Slot

\* The slot takes what the target holds.
LEMMA BackupKeeps ==
  ASSUME ClientInv, Backup
  PROVE  Kept'
<1>1. /\ run \in Run /\ run.suffix \in Suffixes /\ run.at \in Targets /\ run.stage = "backup"
      /\ UNCHANGED <<disk, latest, before, torn>>
  BY Shapes DEF ClientInv, Backup
<1>2. /\ run'.at = run.at /\ run'.completed = run.completed \cup {run.at} /\ run'.suffix = run.suffix
      /\ run'.changes = run.changes /\ run'.existed = run.existed
      /\ run'.stage = IF run.at \in Links THEN "unlink" ELSE "write"
  BY <1>1 DEF Backup, Run
<1>3. /\ Slot'[run.at] = disk[run.at]
      /\ \A t \in Targets \ {run.at} : Slot'[t] = Slot[t]
      /\ \A s \in Suffixes, t \in Targets :
           backup'[s][t] = backup[s][t] \/ (s = run.suffix /\ t = run.at /\ backup'[s][t] = disk[t])
  BY <1>1, <1>2 DEF Backup, Slot, ClientInv, ClientTypeOK
<1>4. /\ run.at \in run.changes \cap run.existed /\ disk[run.at] # Absent /\ Slot[run.at] = Absent
      /\ run.at \in run.completed <=> run.at \notin Links
  BY <1>1 DEF ClientInv, PlaceInv
<1>5. run.at \in torn \/ disk[run.at] = before[run.at]
  <2>1. CASE run.at \in run.completed
    BY <1>1, <1>4, <2>1 DEF ClientInv, UndoInv, Busy, Forward
  <2>2. CASE run.at \notin run.completed
    BY <1>1, <2>2 DEF ClientInv, UndoInv, Forward
  <2> QED BY <2>1, <2>2
<1>6. BackupInv'
  <2>1. ~disk[run.at].managed
    BY <1>1 DEF ClientInv, PlaceInv
  <2> QED BY <1>3, <2>1 DEF ClientInv, BackupInv
<1>7. UserPartSurvives'
  <2>1. ASSUME NEW t \in Targets \ torn, latest[t] # 0, disk[t].own # latest[t]
        PROVE  \E s \in Suffixes : backup'[s][t].own = latest[t]
    <3>1. PICK s \in Suffixes : backup[s][t].own = latest[t]
      BY <2>1 DEF ClientInv, UserPartSurvives
    <3>2. ~(s = run.suffix /\ t = run.at)
      BY <1>4, <2>1, <3>1, ContentTypes DEF Slot
    <3> QED BY <1>3, <3>1, <3>2
  <2> QED BY <1>1, <2>1 DEF UserPartSurvives
<1>8. PlaceInv'
  BY <1>1, <1>2, <1>3, <1>4 DEF PlaceInv
<1>9. PendingInv'
  <2>1. run.at \notin (run'.changes \ run'.completed)
    BY <1>2
  <2> QED BY <1>1, <1>2, <1>3, <2>1 DEF ClientInv, PendingInv, Pending, Forward, ClientTypeOK, Run
<1>10. RemovableInv'
  <2>1. ASSUME NEW t \in run'.completed \ torn, Slot'[t] # Absent \/ t \notin run.existed,
               latest[t] # 0, disk[t].own = latest[t]
        PROVE  Slot'[t].own = latest[t]
    <3>1. CASE t = run.at
      BY <1>3, <2>1, <3>1
    <3>2. CASE t # run.at
      BY <1>1, <1>2, <1>3, <2>1, <3>2, Shapes DEF ClientInv, RemovableInv, Busy, Forward
    <3> QED BY <3>1, <3>2
  <2> QED BY <1>1, <1>2, <2>1 DEF RemovableInv
<1>11. UndoInv'
  <2>1. ASSUME NEW t \in run'.completed \ torn
        PROVE  /\ t \in run.existed <=> before[t] # Absent
               /\ t \in run.existed => IF Slot'[t] # Absent THEN Slot'[t] = before[t] ELSE disk[t] = before[t]
    <3>1. CASE t = run.at
      BY <1>3, <1>4, <1>5, <2>1, <3>1
    <3>2. CASE t # run.at
      BY <1>1, <1>2, <1>3, <2>1, <3>2, Shapes DEF ClientInv, UndoInv, Busy, Forward
    <3> QED BY <3>1, <3>2
  <2>2. \A t \in Targets \ (torn \cup run'.completed) : disk[t] = before[t]
    BY <1>1, <1>2 DEF ClientInv, UndoInv, Forward
  <2> QED BY <1>1, <1>2, <2>1, <2>2 DEF UndoInv, Restored
<1> QED BY <1>2, <1>6, <1>7, <1>8, <1>9, <1>10, <1>11 DEF Kept, Rest

\* A backup made by half spoils its slot, of a target that is as it was.
LEMMA BackupTornKeeps ==
  ASSUME ClientInv, BackupTorn
  PROVE  Kept'
<1>1. /\ run \in Run /\ run.suffix \in Suffixes /\ run.at \in Targets /\ run.stage = "backup"
      /\ run.at \notin Links /\ torn' = torn \cup {run.at}
      /\ UNCHANGED <<disk, latest, before>>
  BY Shapes DEF ClientInv, BackupTorn
<1>2. /\ run'.at = run.at /\ run'.completed = run.completed /\ run'.suffix = run.suffix
      /\ run'.changes = run.changes /\ run'.existed = run.existed /\ run'.stage = "rollback"
  BY <1>1 DEF BackupTorn, Run
<1>3. /\ \A t \in Targets \ {run.at} : Slot'[t] = Slot[t]
      /\ \A s \in Suffixes, t \in Targets :
           backup'[s][t] = backup[s][t] \/ (t = run.at /\ backup'[s][t] = Torn)
  BY <1>1, <1>2 DEF BackupTorn, Slot, ClientInv, ClientTypeOK
<1>4. BackupInv'
  BY <1>3, ContentTypes DEF ClientInv, BackupInv
<1>5. UserPartSurvives'
  BY <1>1, <1>3 DEF ClientInv, UserPartSurvives
<1>6. PlaceInv' /\ PendingInv'
  BY <1>2 DEF PlaceInv, PendingInv, Forward
<1>7. RemovableInv'
  <2>1. ASSUME NEW t \in run.completed \ torn', Slot'[t] # Absent \/ t \notin run.existed,
               latest[t] # 0, disk[t].own = latest[t]
        PROVE  Slot'[t].own = latest[t]
    BY <1>1, <1>3, <2>1, Shapes DEF ClientInv, RemovableInv, Busy, Forward
  <2> QED BY <1>1, <1>2, <2>1 DEF RemovableInv
<1>8. UndoInv'
  <2>1. ASSUME NEW t \in run.completed \ torn'
        PROVE  /\ t \in run.existed <=> before[t] # Absent
               /\ t \in run.existed => IF Slot'[t] # Absent THEN Slot'[t] = before[t] ELSE disk[t] = before[t]
    BY <1>1, <1>3, <2>1, Shapes DEF ClientInv, UndoInv, Busy, Forward
  <2>2. \A t \in Targets \ (torn' \cup run.completed) : Restored(t)
    BY <1>1 DEF ClientInv, UndoInv, Busy, Forward
  <2> QED BY <1>1, <1>2, <2>1, <2>2 DEF UndoInv, Restored, Forward
<1> QED BY <1>2, <1>4, <1>5, <1>6, <1>7, <1>8 DEF Kept, Rest

\* A failed operation leaves everything to the rollback.
LEMMA OperationFailsKeeps ==
  ASSUME ClientInv, OperationFails
  PROVE  Kept'
<1>1. /\ run \in Run /\ run.stage \in {"backup", "unlink", "write"}
      /\ UNCHANGED <<disk, backup, latest, before, torn>>
  BY DEF ClientInv, ClientTypeOK, OperationFails
<1>2. /\ run'.at = run.at /\ run'.completed = run.completed /\ run'.suffix = run.suffix
      /\ run'.changes = run.changes /\ run'.existed = run.existed /\ run'.stage = "rollback"
  BY <1>1 DEF OperationFails, Run
<1>3. BackupInv' /\ UserPartSurvives'
  BY <1>1 DEF ClientInv, BackupInv, UserPartSurvives
<1>4. PlaceInv' /\ PendingInv'
  BY <1>2 DEF PlaceInv, PendingInv, Forward
<1>5. RemovableInv'
  BY <1>1, <1>2 DEF ClientInv, RemovableInv, Slot, Busy, Forward
<1>6. UndoInv'
  BY <1>1, <1>2 DEF ClientInv, UndoInv, Slot, Restored, Busy, Forward
<1> QED BY <1>2, <1>3, <1>4, <1>5, <1>6 DEF Kept, Rest

\* A link that is removed is in its slot.
LEMMA UnlinkKeeps ==
  ASSUME ClientInv, Unlink
  PROVE  Kept'
<1>1. /\ run \in Run /\ run.suffix \in Suffixes /\ run.at \in Targets /\ run.stage = "unlink"
      /\ run.at \in run.completed /\ Slot[run.at] # Absent
      /\ UNCHANGED <<backup, latest, before, torn>>
  BY Shapes DEF ClientInv, Unlink, PlaceInv
<1>2. /\ run'.at = run.at /\ run'.completed = run.completed /\ run'.suffix = run.suffix
      /\ run'.changes = run.changes /\ run'.existed = run.existed /\ run'.stage = "write"
  BY <1>1 DEF Unlink, Run
<1>3. disk'[run.at] = Absent /\ \A t \in Targets \ {run.at} : disk'[t] = disk[t]
  BY <1>1 DEF Unlink, ClientInv, ClientTypeOK
<1>4. BackupInv'
  BY <1>1 DEF ClientInv, BackupInv
<1>5. UserPartSurvives'
  <2>1. ASSUME run.at \notin torn, latest[run.at] # 0, disk[run.at].own = latest[run.at]
        PROVE  Slot[run.at].own = latest[run.at]
    BY <1>1, <2>1 DEF ClientInv, RemovableInv, Busy, Forward
  <2> QED BY <1>1, <1>3, <2>1 DEF ClientInv, UserPartSurvives, Slot
<1>6. PlaceInv'
  BY <1>1, <1>2 DEF PlaceInv, Slot
<1>7. PendingInv'
  BY <1>1, <1>2, <1>3, Shapes DEF ClientInv, PendingInv, Pending, Slot, Forward
<1>8. RemovableInv'
  <2>1. ASSUME NEW t \in run.completed \ torn, Slot[t] # Absent \/ t \notin run.existed,
               latest[t] # 0, disk'[t].own = latest[t]
        PROVE  Slot[t].own = latest[t]
    <3>1. t # run.at
      BY <1>3, <2>1, ContentTypes
    <3> QED BY <1>1, <1>3, <2>1, <3>1, Shapes DEF ClientInv, RemovableInv, Busy, Forward
  <2> QED BY <1>1, <1>2, <2>1 DEF RemovableInv, Slot
<1>9. UndoInv'
  BY <1>1, <1>2, <1>3, Shapes DEF ClientInv, UndoInv, Slot, Restored, Busy, Forward
<1> QED BY <1>2, <1>4, <1>5, <1>6, <1>7, <1>8, <1>9 DEF Kept, Rest

\* The managed part is written next to the user's.
LEMMA WriteKeeps ==
  ASSUME ClientInv, Write
  PROVE  Kept'
<1>1. /\ run \in Run /\ run.suffix \in Suffixes /\ run.at \in Targets /\ run.stage = "write"
      /\ run.at \in run.completed /\ (run.at \in run.existed => Slot[run.at] # Absent)
      /\ UNCHANGED <<backup, latest, before, torn>>
  BY Shapes DEF ClientInv, Write, PlaceInv
<1>2. /\ run'.at = run.at /\ run'.completed = run.completed /\ run'.suffix = run.suffix
      /\ run'.changes = run.changes /\ run'.existed = run.existed /\ run'.stage = "next"
  BY <1>1 DEF Write, Run
<1>3. disk'[run.at].own = disk[run.at].own /\ \A t \in Targets \ {run.at} : disk'[t] = disk[t]
  BY <1>1 DEF Write, ClientInv, ClientTypeOK, Content
<1>4. \A t \in Targets : disk'[t].own = disk[t].own
  BY <1>3
<1>5. BackupInv'
  BY <1>1 DEF ClientInv, BackupInv
<1>6. UserPartSurvives'
  BY <1>1, <1>4 DEF ClientInv, UserPartSurvives
<1>7. PlaceInv'
  BY <1>2 DEF PlaceInv
<1>8. PendingInv'
  BY <1>1, <1>2, <1>3, Shapes DEF ClientInv, PendingInv, Pending, Slot, Forward
<1>9. RemovableInv'
  BY <1>1, <1>2, <1>4, Shapes DEF ClientInv, RemovableInv, Slot, Busy, Forward
<1>10. UndoInv'
  BY <1>1, <1>2, <1>3, Shapes DEF ClientInv, UndoInv, Slot, Restored, Busy, Forward
<1> QED BY <1>2, <1>5, <1>6, <1>7, <1>8, <1>9, <1>10 DEF Kept, Rest

\* Without a backup only what the run created is taken away.
LEMMA UndoKeeps ==
  ASSUME ClientInv, Undo
  PROVE  Kept'
<1>1. /\ run \in Run /\ run.suffix \in Suffixes /\ run.stage = "rollback"
      /\ UNCHANGED <<backup, latest, before, torn>>
  BY Shapes DEF ClientInv, Undo
<1>2. PICK t \in run.completed :
        /\ disk' = [disk EXCEPT ![t] = Undone(t)]
        /\ run' = IF Slot[t] # Absent THEN [run EXCEPT !.at = t, !.stage = "copy"]
                  ELSE [run EXCEPT !.completed = @ \ {t}]
  BY DEF Undo
<1>3. /\ t \in Targets /\ disk'[t] = Undone(t)
      /\ \A u \in Targets \ {t} : disk'[u] = disk[u]
  BY <1>2, Shapes DEF ClientInv
<1>4. /\ run'.suffix = run.suffix /\ run'.changes = run.changes /\ run'.existed = run.existed
      /\ Slot[t] # Absent => run'.at = t /\ run'.stage = "copy" /\ run'.completed = run.completed
      /\ Slot[t] = Absent => run'.stage = "rollback" /\ run'.completed = run.completed \ {t}
  BY <1>1, <1>2 DEF Run
<1>5. Slot' = Slot
  BY <1>1, <1>4 DEF Slot
<1>6. BackupInv'
  BY <1>1 DEF ClientInv, BackupInv
<1>7. UserPartSurvives'
  <2>1. ASSUME t \notin torn, latest[t] # 0, disk[t].own = latest[t]
        PROVE  disk'[t].own = latest[t] \/ Slot[t].own = latest[t]
    BY <1>1, <1>3, <2>1 DEF ClientInv, RemovableInv, Undone, Busy
  <2>2. t \notin torn /\ latest[t] # 0 =>
          disk'[t].own = latest[t] \/ \E s \in Suffixes : backup[s][t].own = latest[t]
    BY <1>1, <1>3, <2>1 DEF ClientInv, UserPartSurvives, Slot
  <2> QED BY <1>1, <1>3, <2>2 DEF ClientInv, UserPartSurvives
<1>8. PlaceInv'
  BY <1>2, <1>3, <1>4 DEF PlaceInv, Undone
<1>9. PendingInv'
  BY <1>4 DEF PendingInv, Forward
<1>10. RemovableInv'
  <2>1. ASSUME NEW u \in run'.completed \ torn, Slot[u] # Absent \/ u \notin run.existed,
               latest[u] # 0, disk'[u].own = latest[u], ~(u = run'.at /\ run'.stage \in {"copy", "drop"})
        PROVE  Slot[u].own = latest[u]
    <3>1. u # t
      BY <1>4, <2>1
    <3>2. u \in run.completed /\ disk'[u] = disk[u]
      BY <1>3, <1>4, <2>1, <3>1, Shapes DEF ClientInv
    <3> QED BY <1>1, <2>1, <3>2 DEF ClientInv, RemovableInv, Busy
  <2> QED BY <1>1, <1>4, <1>5, <2>1 DEF RemovableInv
<1>11. UndoInv'
  <2>1. ASSUME NEW u \in run'.completed \ torn
        PROVE  /\ u \in run.existed <=> before[u] # Absent
               /\ u \in run.existed => IF Slot[u] # Absent THEN Slot[u] = before[u] ELSE disk'[u] = before[u]
    <3>1. u \in run.completed /\ u \in Targets
      BY <1>4, <2>1, Shapes DEF ClientInv
    <3>2. /\ u \in run.existed <=> before[u] # Absent
          /\ u \in run.existed => IF Slot[u] # Absent THEN Slot[u] = before[u] ELSE disk[u] = before[u]
      BY <1>1, <2>1, <3>1 DEF ClientInv, UndoInv, Busy
    <3>3. Slot[u] = Absent => u # t
      BY <1>4, <2>1
    <3> QED BY <1>3, <3>1, <3>2, <3>3
  <2>2. ASSUME NEW u \in Targets \ (torn \cup run'.completed)
        PROVE  disk'[u] = before[u] \/ (before[u] = Absent /\ ~disk'[u].managed)
    <3>1. CASE u = t
      <4>1. Slot[t] = Absent /\ t \in run.completed \ torn
        BY <1>4, <2>2, <3>1
      <4>2. disk'[t] = IF t \in run.existed THEN disk[t] ELSE Absent
        BY <1>3, <4>1 DEF Undone
      <4> QED BY <1>1, <3>1, <4>1, <4>2, ContentTypes DEF ClientInv, UndoInv, Busy
    <3>2. CASE u # t
      <4>1. u \in Targets \ (torn \cup run.completed) /\ disk'[u] = disk[u]
        BY <1>3, <1>4, <2>2, <3>2
      <4> QED BY <1>1, <4>1 DEF ClientInv, UndoInv, Restored, Busy
    <3> QED BY <3>1, <3>2
  <2> QED BY <1>1, <1>4, <1>5, <2>1, <2>2 DEF UndoInv, Restored, Forward
<1> QED BY <1>4, <1>6, <1>7, <1>8, <1>9, <1>10, <1>11 DEF Kept, Rest

\* The slot is put back where nothing is left.
LEMMA CopyBackKeeps ==
  ASSUME ClientInv, CopyBack
  PROVE  Kept'
<1>1. /\ run \in Run /\ run.suffix \in Suffixes /\ run.at \in Targets /\ run.stage = "copy"
      /\ run.at \in run.completed /\ disk[run.at] = Absent
      /\ UNCHANGED <<backup, latest, before, torn>>
  BY Shapes DEF ClientInv, CopyBack, PlaceInv
<1>2. /\ run'.at = run.at /\ run'.completed = run.completed /\ run'.suffix = run.suffix
      /\ run'.existed = run.existed /\ run'.stage = "drop"
  BY <1>1 DEF CopyBack, Run
<1>3. disk'[run.at] = Slot[run.at] /\ \A t \in Targets \ {run.at} : disk'[t] = disk[t]
  BY <1>1 DEF CopyBack, ClientInv, ClientTypeOK
<1>4. BackupInv'
  BY <1>1 DEF ClientInv, BackupInv
<1>5. UserPartSurvives'
  BY <1>1, <1>3, ContentTypes DEF ClientInv, UserPartSurvives
<1>6. PlaceInv' /\ PendingInv'
  BY <1>1, <1>2, <1>3 DEF PlaceInv, PendingInv, Slot, Forward
<1>7. RemovableInv'
  BY <1>1, <1>2, <1>3, Shapes DEF ClientInv, RemovableInv, Slot, Busy, Forward
<1>8. UndoInv'
  <2>1. ASSUME NEW t \in run.completed \ torn
        PROVE  /\ t \in run.existed <=> before[t] # Absent
               /\ t \in run.existed => IF Slot[t] # Absent THEN Slot[t] = before[t] ELSE disk'[t] = before[t]
    <3>1. /\ t \in run.existed <=> before[t] # Absent
          /\ t \in run.existed => IF Slot[t] # Absent THEN Slot[t] = before[t] ELSE disk[t] = before[t]
      BY <1>1, <2>1 DEF ClientInv, UndoInv, Busy
    <3> QED BY <1>1, <1>3, <2>1, <3>1, Shapes DEF ClientInv
  <2>2. \A t \in Targets \ (torn \cup run.completed) : Restored(t) /\ disk'[t] = disk[t]
    BY <1>1, <1>3 DEF ClientInv, UndoInv, Busy
  <2> QED BY <1>1, <1>2, <2>1, <2>2 DEF UndoInv, Slot, Restored, Forward
<1> QED BY <1>2, <1>4, <1>5, <1>6, <1>7, <1>8 DEF Kept, Rest

\* A copy made by half ends the run; the slot stays.
LEMMA CopyBackTornKeeps ==
  ASSUME ClientInv, CopyBackTorn
  PROVE  Kept'
<1>1. /\ run \in Run /\ run.at \in Targets /\ disk[run.at] = Absent
      /\ UNCHANGED <<backup, latest, before, torn>>
  BY Shapes DEF ClientInv, CopyBackTorn, PlaceInv
<1>2. run'.stage = "ended" /\ run'.outcome = "abandoned"
  BY <1>1 DEF CopyBackTorn, Ended, Run
<1>3. \A t \in Targets \ {run.at} : disk'[t] = disk[t]
  BY <1>1 DEF CopyBackTorn, ClientInv, ClientTypeOK
<1>4. BackupInv'
  BY <1>1 DEF ClientInv, BackupInv
<1>5. UserPartSurvives'
  BY <1>1, <1>3, ContentTypes DEF ClientInv, UserPartSurvives
<1>6. PlaceInv' /\ PendingInv' /\ RemovableInv' /\ UndoInv' /\ FailureRestores'
  BY <1>2 DEF PlaceInv, PendingInv, RemovableInv, UndoInv, FailureRestores, Forward, Busy
<1> QED BY <1>4, <1>5, <1>6 DEF Kept, Rest

\* The slot is emptied when the target has what was in it.
LEMMA DropBackupKeeps ==
  ASSUME ClientInv, DropBackup
  PROVE  Kept'
<1>1. /\ run \in Run /\ run.suffix \in Suffixes /\ run.at \in Targets /\ run.stage = "drop"
      /\ run.at \in run.completed /\ disk[run.at] = Slot[run.at]
      /\ UNCHANGED <<disk, latest, before, torn>>
  BY Shapes DEF ClientInv, DropBackup, PlaceInv
<1>2. /\ run'.completed = run.completed \ {run.at} /\ run'.suffix = run.suffix
      /\ run'.existed = run.existed /\ run'.stage = "rollback"
  BY <1>1 DEF DropBackup, Run
<1>3. /\ \A t \in Targets \ {run.at} : Slot'[t] = Slot[t]
      /\ \A s \in Suffixes, t \in Targets :
           \/ backup'[s][t] = backup[s][t]
           \/ s = run.suffix /\ t = run.at /\ backup'[s][t] = Absent
  BY <1>1, <1>2 DEF DropBackup, Slot, ClientInv, ClientTypeOK
<1>4. BackupInv'
  BY <1>3, ContentTypes DEF ClientInv, BackupInv
<1>5. UserPartSurvives'
  BY <1>1, <1>3 DEF ClientInv, UserPartSurvives, Slot
<1>6. PlaceInv' /\ PendingInv'
  BY <1>2 DEF PlaceInv, PendingInv, Forward
<1>7. RemovableInv'
  <2>1. ASSUME NEW t \in run.completed \ {run.at}, t \notin torn, Slot'[t] # Absent \/ t \notin run.existed,
               latest[t] # 0, disk[t].own = latest[t]
        PROVE  Slot'[t].own = latest[t]
    BY <1>1, <1>3, <2>1, Shapes DEF ClientInv, RemovableInv, Busy
  <2> QED BY <1>1, <1>2, <2>1 DEF RemovableInv
<1>8. UndoInv'
  <2>1. ASSUME NEW t \in run.completed \ {run.at}, t \notin torn
        PROVE  /\ t \in run.existed <=> before[t] # Absent
               /\ t \in run.existed => IF Slot'[t] # Absent THEN Slot'[t] = before[t] ELSE disk[t] = before[t]
    BY <1>1, <1>3, <2>1, Shapes DEF ClientInv, UndoInv, Busy
  <2>2. run.at \notin torn => Restored(run.at)
    <3>1. ~Slot[run.at].managed
      BY <1>1 DEF ClientInv, BackupInv, Slot
    <3>2. run.at \notin torn =>
            /\ run.at \in run.existed <=> before[run.at] # Absent
            /\ run.at \in run.existed =>
                 IF Slot[run.at] # Absent THEN Slot[run.at] = before[run.at] ELSE disk[run.at] = before[run.at]
      BY <1>1 DEF ClientInv, UndoInv, Busy
    <3> QED BY <1>1, <3>1, <3>2 DEF Restored
  <2>3. \A t \in Targets \ (torn \cup run.completed) : Restored(t)
    BY <1>1 DEF ClientInv, UndoInv, Busy
  <2> QED BY <1>1, <1>2, <2>1, <2>2, <2>3 DEF UndoInv, Restored, Forward
<1> QED BY <1>2, <1>4, <1>5, <1>6, <1>7, <1>8 DEF Kept, Rest

\* An edit is of the last version, and of a target the run is not at.
LEMMA EditKeeps ==
  ASSUME ClientInv, NEW t \in Targets, Edit(t)
  PROVE  Kept'
<1>1. /\ disk[t].own = latest[t] /\ latest[t] # 0 /\ latest[t] \in Nat /\ t \notin Links
      /\ run.stage # "ended" => t \notin run.completed
      /\ UNCHANGED <<backup, run, torn>>
  BY Shapes DEF ClientInv, Edit
<1>2. /\ disk' = [disk EXCEPT ![t].own = latest[t] + 1]
      /\ latest' = [latest EXCEPT ![t] = latest[t] + 1]
      /\ before' = [before EXCEPT ![t].own = latest[t] + 1]
  BY <1>1, Shapes DEF Edit, ClientInv
<1>3. /\ \A u \in Targets \ {t} : disk'[u] = disk[u] /\ latest'[u] = latest[u] /\ before'[u] = before[u]
      /\ disk'[t].own = latest[t] + 1 /\ disk'[t].managed = disk[t].managed /\ latest'[t] = latest[t] + 1
      /\ before'[t].own = latest[t] + 1 /\ before'[t].managed = before[t].managed
  BY <1>2, Shapes DEF ClientInv, Content
<1>4. disk[t] # Absent /\ disk'[t] # Absent
  BY <1>1, <1>3, ContentTypes
<1>5. Restored(t) => disk'[t] = before'[t]
  BY <1>2, <1>1, Shapes, ContentTypes DEF ClientInv, Restored, Content
<1>6. disk[t] = before[t] => disk'[t] = before'[t]
  BY <1>5 DEF Restored
<1>7. BackupInv'
  BY <1>1 DEF ClientInv, BackupInv
<1>8. UserPartSurvives'
  BY <1>1, <1>3 DEF ClientInv, UserPartSurvives
<1>9. PlaceInv'
  <2>1. run.stage \in {"copy", "drop"} => run.at # t
    BY <1>1 DEF ClientInv, PlaceInv
  <2>2. run.stage = "backup" => run.at # t
    BY <1>1 DEF ClientInv, PlaceInv
  <2> QED BY <1>1, <1>3, <2>1, <2>2, Shapes DEF ClientInv, PlaceInv, Slot
<1>10. PendingInv'
  BY <1>1, <1>3, <1>4, Shapes DEF ClientInv, PendingInv, Pending, Slot, Forward
<1>11. RemovableInv'
  BY <1>1, <1>3, Shapes DEF ClientInv, RemovableInv, Slot, Busy, Forward
<1>12. UndoInv'
  <2>1. run.stage \in Forward => \A u \in Targets \ (torn \cup run.completed) : disk'[u] = before'[u]
    BY <1>3, <1>6 DEF ClientInv, UndoInv
  <2>2. run.stage \in Busy =>
          \A u \in Targets \ (torn \cup run.completed) :
            disk'[u] = before'[u] \/ (before'[u] = Absent /\ ~disk'[u].managed)
    BY <1>3, <1>5 DEF ClientInv, UndoInv, Restored
  <2>3. ASSUME run.stage \in Busy, NEW u \in run.completed \ torn
        PROVE  /\ u \in run.existed <=> before'[u] # Absent
               /\ u \in run.existed => IF Slot[u] # Absent THEN Slot[u] = before'[u] ELSE disk'[u] = before'[u]
    <3>1. u # t /\ u \in Targets
      BY <1>1, <2>3, Shapes DEF ClientInv, Busy, Forward
    <3> QED BY <1>3, <2>3, <3>1 DEF ClientInv, UndoInv
  <2> QED BY <1>1, <2>1, <2>2, <2>3 DEF UndoInv, Restored, Slot
<1>13. run.stage = "ended" => FailureRestores'
  BY <1>1, <1>3, <1>5 DEF ClientInv, FailureRestores, Restored
<1> QED BY <1>1, <1>7, <1>8, <1>9, <1>10, <1>11, <1>12, <1>13 DEF Kept, Rest

------------------------------------------------------------------------------
LEMMA StepKeeps == ClientInv /\ [ClientNext]_clientVars => ClientInv'
<1> SUFFICES ASSUME ClientInv, [ClientNext]_clientVars PROVE ClientInv'
  OBVIOUS
<1>1. ClientTypeOK' /\ OutcomeInv'
  BY TypesStay, OutcomeStays DEF ClientInv
<1>2. Kept'
  <2>1. CASE UNCHANGED clientVars
    BY <2>1 DEF clientVars, ClientInv, Kept, Rest, BackupInv, PlaceInv, PendingInv, Pending, RemovableInv,
         UndoInv, Restored, UserPartSurvives, FailureRestores, Slot
  <2>2. ASSUME NEW suffix \in Suffixes, Apply(suffix)
        PROVE  Kept'
    BY <2>2, ApplyKeeps
  <2>3. ASSUME NEW t \in Targets, Edit(t)
        PROVE  Kept'
    BY <2>3, EditKeeps
  <2> QED BY <2>1, <2>2, <2>3, EndingsKeep, RolledBackKeeps, CheckSlotsKeeps, BeginKeeps, BackupKeeps,
             BackupTornKeeps, OperationFailsKeeps, UnlinkKeeps, WriteKeeps, UndoKeeps, CopyBackKeeps,
             CopyBackTornKeeps, DropBackupKeeps DEF ClientNext, ClientStep
<1> QED BY <1>1, <1>2 DEF ClientInv, Kept, Rest

\* The inductive invariant, which the theorems below are read off.
THEOREM ClientInvariant == ClientSpec => []ClientInv
<1>1. ClientInv /\ [ClientNext]_clientVars => ClientInv'
  BY StepKeeps
<1> QED BY InitHolds, <1>1, PTL DEF ClientSpec

\* However many runs are made, killed, or given a suffix again, the user's part
\* of a target is there or in a backup.
THEOREM UserPartIsNeverLost == ClientSpec => []UserPartSurvives
<1>1. ClientInv => UserPartSurvives
  BY DEF ClientInv
<1> QED BY <1>1, ClientInvariant, PTL

\* A run that fails takes back what it did, at every target.
THEOREM FailedRunsAreUndone == ClientSpec => []FailureRestores
<1>1. ClientInv => FailureRestores
  <2>1. CASE run.stage = "ended"
    BY <2>1 DEF ClientInv
  <2>2. CASE run.stage # "ended"
    BY <2>2 DEF ClientInv, OutcomeInv, FailureRestores
  <2> QED BY <2>1, <2>2
<1> QED BY <1>1, ClientInvariant, PTL
=============================================================================
