-------------------------------- MODULE Backups --------------------------------
(***************************************************************************)
(* Backups and starts of the application (services/backup/, app.py): zips  *)
(* named after the second they were begun in, written by the user or after *)
(* a start, pruned to the newest ones, and written back file by file; and  *)
(* the start, with Safe Mode for settings that cannot be read.             *)
(*                                                                         *)
(* The settings file and the database are readable or torn; what is in     *)
(* them, and the logs, are left out.  That SQLite may leave a database     *)
(* torn that is overwritten while connections to it are open is SQLite's   *)
(* own warning.                                                            *)
(***************************************************************************)
EXTENDS Integers, FiniteSets, Functions

CONSTANTS
  Keep,              \* app.auto_backup_keep_count
  MaxSeconds,        \* bound: seconds in which a backup is begun
  MaxStarts,         \* bound: starts of the application
  MaxBackupFaults,   \* bound: backups and restores that fail, and crashes
  MaxRestores        \* bound: restores

ASSUME BackupAssumption ==
  /\ Keep \in Nat \ {0}
  /\ MaxSeconds \in Nat \ {0}
  /\ {MaxStarts, MaxBackupFaults, MaxRestores} \subseteq Nat

VARIABLES
  app,       \* what the user sees
  onDisk,    \* the settings file and the database
  zips,      \* the backup directory, by second
  work,      \* the backup or the restore in progress; both block the window
  due,       \* last_auto_backup_at is older than the interval, or there is none
  second,    \* the clock
  spent,     \* what the bounds count
  everWhole, \* ghost: whether a backup has been completed
  overlaid     \* ghost: whether a backup was begun in the second of another one

backupVars == <<app, onDisk, zips, work, due, second, spent, everWhole, overlaid>>

NoWork == [at |-> "idle", auto |-> FALSE, zip |-> 0]

BackupTypeOK ==
  /\ app \in {"down", "safe mode", "starting", "open"}
  /\ onDisk \in [settings : {"readable", "torn"}, database : {"readable", "torn"}]
  /\ DOMAIN zips \subseteq 1..MaxSeconds
  /\ \A s \in DOMAIN zips : zips[s] \in {"whole", "short", "broken"}
  /\ work \in [at : {"idle", "snapshot", "write", "prune", "settings", "database"},
               auto : BOOLEAN, zip : 0..MaxSeconds]
  /\ due \in BOOLEAN /\ second \in 1..MaxSeconds
  /\ spent \in [starts : 0..MaxStarts, faults : 0..MaxBackupFaults, restores : 0..MaxRestores]
  /\ everWhole \in BOOLEAN /\ overlaid \in BOOLEAN

BackupInit ==
  /\ app = "down" /\ onDisk = [settings |-> "readable", database |-> "readable"]
  /\ zips = <<>> /\ work = NoWork /\ due = TRUE /\ second = 1
  /\ spent = [starts |-> 0, faults |-> 0, restores |-> 0]
  /\ everWhole = FALSE /\ overlaid = FALSE

Spend(b) == spent' = [spent EXCEPT ![b] = @ + 1]

-----------------------------------------------------------------------------
(* run_application: construction reads the settings; the database is opened  *)
(* by the first query of run, outside the try.                               *)

Construct == app' = IF onDisk.settings = "torn" THEN "safe mode"
                    ELSE IF onDisk.database = "torn" THEN "down" ELSE "starting"

StartApp ==
  /\ app = "down" /\ spent.starts < MaxStarts
  /\ Construct /\ Spend("starts")
  /\ UNCHANGED <<onDisk, zips, work, due, second, everWhole, overlaid>>

\* Safe Mode: the defaults are written, construction is tried again, or the user quits.
ResetSettings ==
  /\ app = "safe mode"
  /\ onDisk' = [onDisk EXCEPT !.settings = "readable"]
  /\ UNCHANGED <<app, zips, work, due, second, spent, everWhole, overlaid>>

RetryStartup ==
  /\ app = "safe mode"
  /\ Construct
  /\ UNCHANGED <<onDisk, zips, work, due, second, spent, everWhole, overlaid>>

Quit ==
  /\ app \in {"safe mode", "starting", "open"} /\ work = NoWork
  /\ app' = "down"
  /\ UNCHANGED <<onDisk, zips, work, due, second, spent, everWhole, overlaid>>

\* _maybe_run_automatic_backup, two seconds after the window.
AutomaticBackup ==
  /\ app = "starting" /\ work = NoWork
  /\ app' = "open"
  /\ work' = IF due THEN [at |-> "snapshot", auto |-> TRUE, zip |-> 0] ELSE NoWork
  /\ UNCHANGED <<onDisk, zips, due, second, spent, everWhole, overlaid>>

-----------------------------------------------------------------------------
(* create_backup and prune_old_backups. *)

BackupNow ==
  /\ app = "open" /\ work = NoWork
  /\ work' = [at |-> "snapshot", auto |-> FALSE, zip |-> 0]
  /\ UNCHANGED <<app, onDisk, zips, due, second, spent, everWhole, overlaid>>

\* The snapshot is taken beside; opening the zip empties one of the same name.  The
\* name is the local time of day, taken here as a clock that is never set back.
OpenZip ==
  /\ work.at = "snapshot"
  /\ zips' = [s \in DOMAIN zips \cup {second} |-> IF s = second THEN "broken" ELSE zips[s]]
  /\ work' = [work EXCEPT !.at = "write", !.zip = second]
  /\ overlaid' = (overlaid \/ second \in DOMAIN zips)
  /\ UNCHANGED <<app, onDisk, due, second, spent, everWhole>>

FinishZip ==
  /\ work.at = "write"
  /\ zips' = [zips EXCEPT ![work.zip] = "whole"]
  /\ work' = IF work.auto THEN [work EXCEPT !.at = "prune"] ELSE NoWork
  /\ everWhole' = TRUE
  /\ UNCHANGED <<app, onDisk, due, second, spent, overlaid>>

MutantOldBackups == {s \in DOMAIN zips : Cardinality({r \in DOMAIN zips : r < s}) >= Keep}

\* All but the newest, complete or not.
OldBackups == {s \in DOMAIN zips : Cardinality({r \in DOMAIN zips : r > s}) >= Keep}

\* One that cannot be deleted stays; then last_auto_backup_at is written.
PruneBackups ==
  /\ work.at = "prune"
  /\ \E stuck \in SUBSET OldBackups :
        zips' = Restrict(zips, (DOMAIN zips \ OldBackups) \cup stuck)
  /\ work' = NoWork /\ due' = FALSE
  /\ UNCHANGED <<app, onDisk, second, spent, everWhole, overlaid>>

\* An error while the zip is written closes it, with what it has so far.
BackupFails ==
  /\ work.at \in {"snapshot", "write", "prune"} /\ spent.faults < MaxBackupFaults
  /\ zips' = IF work.at = "write" THEN [zips EXCEPT ![work.zip] = "short"] ELSE zips
  /\ work' = NoWork /\ Spend("faults")
  /\ UNCHANGED <<app, onDisk, due, second, everWhole, overlaid>>

-----------------------------------------------------------------------------
(* restore_backup. *)

\* The settings file is opened for writing, which empties it.
RestoreBackup(s) ==
  /\ app = "open" /\ work = NoWork /\ zips[s] # "broken" /\ spent.restores < MaxRestores
  /\ work' = [at |-> "settings", auto |-> FALSE, zip |-> s]
  /\ onDisk' = [onDisk EXCEPT !.settings = "torn"]
  /\ Spend("restores")
  /\ UNCHANGED <<app, zips, due, second, everWhole, overlaid>>

\* The sidecars are unlinked and the database is opened for writing, if the zip
\* has one.
RestoreDatabase ==
  /\ work.at = "settings"
  /\ \E short \in BOOLEAN :
        /\ short => zips[work.zip] = "short"
        /\ onDisk' = [settings |-> "readable", database |-> IF short THEN onDisk.database ELSE "torn"]
        /\ work' = IF short THEN NoWork ELSE [work EXCEPT !.at = "database"]
  /\ UNCHANGED <<app, zips, due, second, spent, everWhole, overlaid>>

\* The pipeline still has the database open.
RestoreEnds ==
  /\ work.at = "database"
  /\ \E d \in {"readable", "torn"} : onDisk' = [onDisk EXCEPT !.database = d]
  /\ work' = NoWork
  /\ UNCHANGED <<app, zips, due, second, spent, everWhole, overlaid>>

RestoreFails ==
  /\ work.at \in {"settings", "database"} /\ spent.faults < MaxBackupFaults
  /\ work' = NoWork /\ Spend("faults")
  /\ UNCHANGED <<app, onDisk, zips, due, second, everWhole, overlaid>>

-----------------------------------------------------------------------------

AppCrashes ==
  /\ app \in {"starting", "open"} /\ spent.faults < MaxBackupFaults
  /\ app' = "down" /\ work' = NoWork /\ Spend("faults")
  /\ UNCHANGED <<onDisk, zips, due, second, everWhole, overlaid>>

ClockTicks ==
  /\ second < MaxSeconds
  /\ second' = second + 1 /\ due' \in {due, TRUE}
  /\ UNCHANGED <<app, onDisk, zips, work, spent, everWhole, overlaid>>

BackupNext ==
  \/ StartApp \/ ResetSettings \/ RetryStartup \/ Quit \/ AutomaticBackup
  \/ BackupNow \/ OpenZip \/ FinishZip \/ PruneBackups \/ BackupFails
  \/ \E s \in DOMAIN zips : RestoreBackup(s)
  \/ RestoreDatabase \/ RestoreEnds \/ RestoreFails
  \/ AppCrashes \/ ClockTicks

BackupSpec == BackupInit /\ [][BackupNext]_backupVars

-----------------------------------------------------------------------------
(* Property. *)

\* Once a backup has been completed there is always a complete one, although
\* backups that failed or crashed count among the newest that pruning keeps:
\* it only runs when the newest is complete.  (Except where a backup is begun
\* in the very second of another one, whose zip it empties.)
AlwaysAGoodBackup ==
  (everWhole /\ ~overlaid) => \E s \in DOMAIN zips : zips[s] = "whole"

=============================================================================
