---------------------------- MODULE ClientInstaller ----------------------------
(***************************************************************************)
(* The installer of client bindings (tools/install_agent_job_clients.py):  *)
(* a preview that validates every target, then one update after another,   *)
(* each behind a backup, undone in reverse order when one of them fails.   *)
(* Every run of the program takes a backup suffix, new or used before.     *)
(*                                                                         *)
(* Content is what a target holds for its two owners: the version of the   *)
(* user's own part (0: none) and whether the managed part is up to date.   *)
(* Merging keeps the user's part; a skill link replaces the legacy one.    *)
(***************************************************************************)
EXTENDS Integers, FiniteSets

CONSTANTS Targets,      \* the names of _paths
          Links,        \* the two skills among them, which are symbolic links
          Rank,         \* the order of _paths
          Suffixes,     \* backup suffixes
          MaxRuns,      \* runs of the program
          MaxEdits      \* versions of the user's part of a target

ClientAssumption ==
  /\ Links \subseteq Targets /\ IsFiniteSet(Targets)
  /\ Rank \in [Targets -> Nat] /\ \A t, u \in Targets : Rank[t] = Rank[u] => t = u
  /\ Targets # {} /\ Suffixes # {} /\ MaxRuns \in Nat /\ MaxEdits \in Nat

ASSUME ClientAssumption

VARIABLES
  disk,      \* the targets
  backup,    \* the backups next to them, by suffix
  run,       \* the run of the program, or the one that ended last
  runs,      \* how many there were
  latest,    \* history: the last version of the user's part
  before,    \* history: what the targets held when apply_changes began, edited
  torn       \* history: targets of which a backup was made by half

clientVars == <<disk, backup, run, runs, latest, before, torn>>

Content == [own : Nat \cup {-1}, managed : BOOLEAN]
Absent == [own |-> 0, managed |-> FALSE]
Torn == [own |-> -1, managed |-> FALSE]

Stages == {"ended", "slots", "next", "backup", "unlink", "write", "rollback", "copy", "drop"}
Outcomes == {"none", "refused", "previewed", "updated", "failed", "abandoned"}

Run == [stage : Stages, outcome : Outcomes, suffix : Suffixes, at : Targets,
        changes : SUBSET Targets, existed : SUBSET Targets, completed : SUBSET Targets]

ClientTypeOK ==
  /\ disk \in [Targets -> Content]
  /\ backup \in [Suffixes -> [Targets -> Content]]
  /\ run \in Run /\ runs \in Nat
  /\ latest \in [Targets -> Nat] /\ before \in [Targets -> Content]
  /\ torn \subseteq Targets

\* A target is absent, the user's (a legacy link), or installed before.
Initial(t) ==
  {Absent, [own |-> 1, managed |-> FALSE], [own |-> IF t \in Links THEN 0 ELSE 1, managed |-> TRUE]}

ClientInit ==
  /\ disk \in {d \in [Targets -> [own : 0 .. 1, managed : BOOLEAN]] :
              \A t \in Targets : d[t] \in Initial(t)}
  /\ backup = [s \in Suffixes |-> [t \in Targets |-> Absent]]
  /\ run = [stage |-> "ended", outcome |-> "none", changes |-> {}, existed |-> {},
            completed |-> {}, suffix |-> CHOOSE s \in Suffixes : TRUE,
            at |-> CHOOSE t \in Targets : TRUE]
  /\ runs = 0
  /\ latest = [t \in Targets |-> disk[t].own]
  /\ before = disk /\ torn = {}

Ended(outcome) == run' = [run EXCEPT !.stage = "ended", !.outcome = outcome]

------------------------------------------------------------------------------
(* main and _plan                                                          *)

\* A target cannot be read or is not what the installer may change.
PlanRefused ==
  /\ run.stage = "ended" /\ runs < MaxRuns
  /\ runs' = runs + 1
  /\ Ended("refused")
  /\ UNCHANGED <<disk, backup, latest, before, torn>>

Preview ==
  /\ run.stage = "ended" /\ runs < MaxRuns
  /\ runs' = runs + 1
  /\ Ended("previewed")
  /\ UNCHANGED <<disk, backup, latest, before, torn>>

Outdated == {t \in Targets : ~disk[t].managed}

Apply(suffix) ==
  /\ run.stage = "ended" /\ runs < MaxRuns
  /\ runs' = runs + 1
  /\ run' = [run EXCEPT !.stage = "slots", !.outcome = "none", !.suffix = suffix,
                        !.changes = Outdated, !.existed = {}, !.completed = {}]
  /\ before' = disk
  /\ UNCHANGED <<disk, backup, latest, torn>>

------------------------------------------------------------------------------
(* apply_changes                                                           *)

Slot == backup[run.suffix]
Present == {t \in Targets : disk[t] # Absent}

\* Mutation: a backup of an earlier run is overwritten.
OccupiedIgnored == {}

Occupied == {t \in run.changes \cap Present : Slot[t] # Absent}

CheckSlots ==
  /\ run.stage = "slots"
  /\ IF Occupied # {} THEN Ended("refused")
     ELSE run' = [run EXCEPT !.stage = "next", !.existed = Present]
  /\ UNCHANGED <<disk, backup, runs, latest, before, torn>>

Pending == run.changes \ run.completed
FirstPending(t) == \A u \in Pending : Rank[t] <= Rank[u]
LastCompleted(t) == \A u \in run.completed : Rank[u] <= Rank[t]

\* Mutation: a target is to be undone only when its operation has returned.
EnteredAfter(t) == run.completed

\* A file is to be undone before its operation begins, a link that exists once
\* its backup is made.
Entered(t) ==
  IF t \in Links /\ t \in run.existed THEN run.completed ELSE run.completed \cup {t}

Begin ==
  /\ run.stage = "next"
  /\ \E t \in Pending :
       /\ FirstPending(t)
       /\ run' = [run EXCEPT !.at = t, !.completed = Entered(t),
                             !.stage = IF disk[t] = Absent THEN "write" ELSE "backup"]
  /\ UNCHANGED <<disk, backup, runs, latest, before, torn>>

\* _backup, of a link or a file
Backup ==
  /\ run.stage = "backup"
  /\ backup' = [backup EXCEPT ![run.suffix][run.at] = disk[run.at]]
  /\ run' = [run EXCEPT !.completed = @ \cup {run.at},
                        !.stage = IF run.at \in Links THEN "unlink" ELSE "write"]
  /\ UNCHANGED <<disk, runs, latest, before, torn>>

Unlink ==
  /\ run.stage = "unlink"
  /\ disk' = [disk EXCEPT ![run.at] = Absent]
  /\ run' = [run EXCEPT !.stage = "write"]
  /\ UNCHANGED <<backup, runs, latest, before, torn>>

\* _atomic_write or symlink_to
Write ==
  /\ run.stage = "write"
  /\ disk' = [disk EXCEPT ![run.at].managed = TRUE]
  /\ run' = [run EXCEPT !.stage = "next"]
  /\ UNCHANGED <<backup, runs, latest, before, torn>>

\* The target is no longer what was planned for, or the disk is full, ...
OperationFails ==
  /\ run.stage \in {"backup", "unlink", "write"}
  /\ run' = [run EXCEPT !.stage = "rollback"]
  /\ UNCHANGED <<disk, backup, runs, latest, before, torn>>

\* The copy of a file fails when its backup has been created.
BackupTorn ==
  /\ run.stage = "backup" /\ run.at \notin Links
  /\ backup' = [backup EXCEPT ![run.suffix][run.at] = Torn]
  /\ torn' = torn \cup {run.at}
  /\ run' = [run EXCEPT !.stage = "rollback"]
  /\ UNCHANGED <<disk, runs, latest, before>>

Updated ==
  /\ run.stage = "next" /\ Pending = {}
  /\ Ended("updated")
  /\ UNCHANGED <<disk, backup, runs, latest, before, torn>>

------------------------------------------------------------------------------
(* The rollback of apply_changes                                           *)

\* What becomes of a target before its backup, if any, is put back.
Undone(t) == IF Slot[t] # Absent \/ t \notin run.existed THEN Absent ELSE disk[t]

Undo ==
  /\ run.stage = "rollback"
  /\ \E t \in run.completed :
       /\ LastCompleted(t)
       /\ disk' = [disk EXCEPT ![t] = Undone(t)]
       /\ run' = IF Slot[t] # Absent THEN [run EXCEPT !.at = t, !.stage = "copy"]
                 ELSE [run EXCEPT !.completed = @ \ {t}]
  /\ UNCHANGED <<backup, runs, latest, before, torn>>

CopyBack ==
  /\ run.stage = "copy"
  /\ disk' = [disk EXCEPT ![run.at] = Slot[run.at]]
  /\ run' = [run EXCEPT !.stage = "drop"]
  /\ UNCHANGED <<backup, runs, latest, before, torn>>

\* The copy fails halfway, and the exception ends the rollback.
CopyBackTorn ==
  /\ run.stage = "copy" /\ run.at \notin Links
  /\ disk' = [disk EXCEPT ![run.at] = Torn]
  /\ Ended("abandoned")
  /\ UNCHANGED <<backup, runs, latest, before, torn>>

DropBackup ==
  /\ run.stage = "drop"
  /\ backup' = [backup EXCEPT ![run.suffix][run.at] = Absent]
  /\ run' = [run EXCEPT !.completed = @ \ {run.at}, !.stage = "rollback"]
  /\ UNCHANGED <<disk, runs, latest, before, torn>>

RolledBack ==
  /\ run.stage = "rollback" /\ run.completed = {}
  /\ Ended("failed")
  /\ UNCHANGED <<disk, backup, runs, latest, before, torn>>

\* The program is killed or interrupted from the keyboard, which it does not
\* catch, or the rollback itself fails.
Abandon ==
  /\ run.stage # "ended"
  /\ Ended("abandoned")
  /\ UNCHANGED <<disk, backup, runs, latest, before, torn>>

------------------------------------------------------------------------------
(* The user, or a client that was not quit, changes a file that the run    *)
(* has not come to.                                                        *)
Edit(t) ==
  /\ t \notin Links
  /\ disk[t].own = latest[t] /\ latest[t] \in 1 .. MaxEdits - 1
  /\ run.stage # "ended" => t \notin run.completed
  /\ disk' = [disk EXCEPT ![t].own = @ + 1]
  /\ latest' = [latest EXCEPT ![t] = @ + 1]
  /\ before' = [before EXCEPT ![t].own = latest[t] + 1]
  /\ UNCHANGED <<backup, run, runs, torn>>

ClientStep ==
  \/ PlanRefused \/ \E suffix \in Suffixes : Apply(suffix)
  \/ CheckSlots \/ Begin \/ Backup \/ BackupTorn \/ Unlink \/ Write
  \/ OperationFails \/ Updated
  \/ Undo \/ CopyBack \/ CopyBackTorn \/ DropBackup \/ RolledBack
  \/ Abandon

ClientNext == ClientStep \/ Preview \/ \E t \in Targets : Edit(t)

ClientSpec == ClientInit /\ [][ClientNext]_clientVars
------------------------------------------------------------------------------
\* Wherever a run fails or is killed, and whatever suffix it was given, the
\* last version of the user's part of a target is in the target or in a backup
\* next to it, unless a backup of it was once made by half.
UserPartSurvives ==
  \A t \in Targets \ torn :
    latest[t] # 0 => \/ disk[t].own = latest[t]
                    \/ \E s \in Suffixes : backup[s][t].own = latest[t]

\* An update that fails leaves a target as it was before, with the edits that
\* clients made before the run came to it, unless a backup of it was made by
\* half; where there was none, no binding stays, but what an abandoned run had
\* taken away may come back from its backup.
Restored(t) == disk[t] = before[t] \/ (before[t] = Absent /\ ~disk[t].managed)

FailureRestores == run.outcome = "failed" => \A t \in Targets \ torn : Restored(t)
=============================================================================
